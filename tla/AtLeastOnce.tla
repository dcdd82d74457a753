----------------------------- MODULE AtLeastOnce -----------------------------
(***************************************************************************)
(* What a caller of the retry loop may rely on: a reported success means   *)
(* that the statement has been executed, and it has been sent only so      *)
(* often.  Any other report leaves open whether it has been, or still will *)
(* be, executed, and how many times.                                       *)
(***************************************************************************)
EXTENDS Integers

CONSTANT MaxAttempts

VARIABLES executions, \* which of the attempts the database has executed
          report      \* what the caller was told

Init == executions = {} /\ report = "none"

Execute ==
  /\ \E a \in 1..MaxAttempts \ executions : executions' = executions \cup {a}
  /\ UNCHANGED report

ReportSuccess ==
  /\ report = "none"
  /\ executions # {}
  /\ report' = "ok"
  /\ UNCHANGED executions

ReportFailure ==
  /\ report = "none"
  /\ report' = "failed"
  /\ UNCHANGED executions

Next == Execute \/ ReportSuccess \/ ReportFailure

Spec == Init /\ [][Next]_<<executions, report>>
==============================================================================
