---------------------------- MODULE RetryProofs ----------------------------
(***************************************************************************)
(* Proofs about Retry, for every number of attempts, retry time and jitter.*)
(***************************************************************************)
EXTENDS Retry, TLAPS

------------------------------------------------------------------------------
(* The inductive invariant.                                                *)

\* Beyond the head of the loop the attempt is within the limit.
AttemptInv == pc \in {"sleep", "call", "waiting"} => attempt <= MaxAttempts

\* A loop that goes on has met no refusal, and from the second attempt on it
\* has an error to report.
ErrorInv ==
  /\ pc # "returned" => outcome = "none" /\ err # "refused"
  /\ outcome = "refused" <=> err = "refused"
  /\ attempt > 1 => err # "none"
  /\ outcome = "exceeded" => attempt = MaxAttempts + 1

\* Between the check of the context and the call no late call can have been
\* made: this is what limits them to one.
CancelInv ==
  /\ ~cancelled => lateCalls = 0
  /\ pc \in {"sleep", "call"} => lateCalls = 0
  /\ lateCalls <= 1

IInv == TypeOK /\ AttemptInv /\ ErrorInv /\ CancelInv /\ SuccessWasExecuted

THEOREM InitIInv == Init => IInv
<1> SUFFICES ASSUME Init PROVE IInv
  OBVIOUS
<1>1. TypeOK
  <2>1. attempt \in 1..(MaxAttempts + 1)
    BY AttemptsAssumption DEF Init
  <2>2. cancelled \in BOOLEAN /\ timer \in BOOLEAN /\ lastSleep \in SleepTimes \cup {0}
    BY DEF Init
  <2>3. outcome \in {"none", "ok", "exceeded", "cancelled"} \cup Errors
    BY DEF Init
  <2> QED
    BY <2>1, <2>2, <2>3 DEF Init, TypeOK
<1>2. AttemptInv /\ ErrorInv /\ CancelInv /\ SuccessWasExecuted
  BY DEF Init, AttemptInv, ErrorInv, CancelInv, SuccessWasExecuted
<1> QED
  BY <1>1, <1>2 DEF IInv

LEMMA StartAttemptStep == IInv /\ StartAttempt => IInv'
<1> SUFFICES ASSUME IInv, StartAttempt PROVE IInv'
  OBVIOUS
<1>1. lastSleep' \in SleepTimes \cup {0}
  <2>1. CASE attempt > 1
    <3>1. attempt \in 2..MaxAttempts
      BY <2>1, AttemptsAssumption DEF StartAttempt, IInv, TypeOK
    <3>2. PICK rnd \in Jitter : lastSleep' = SleepTime(attempt, rnd)
      BY <2>1 DEF StartAttempt
    <3> QED
      BY <3>1, <3>2 DEF SleepTimes
  <2>2. CASE ~(attempt > 1)
    BY <2>2 DEF StartAttempt, IInv, TypeOK
  <2> QED
    BY <2>1, <2>2
<1>2. TypeOK'
  BY <1>1 DEF StartAttempt, IInv, TypeOK
<1>3. AttemptInv' /\ ErrorInv' /\ SuccessWasExecuted'
  BY DEF StartAttempt, IInv, AttemptInv, ErrorInv, SuccessWasExecuted
<1>4. CancelInv'
  BY DEF StartAttempt, IInv, CancelInv
<1> QED
  BY <1>2, <1>3, <1>4 DEF IInv

LEMMA CallStep == IInv /\ Call => IInv'
<1> SUFFICES ASSUME IInv, Call PROVE IInv'
  OBVIOUS
<1>1. attempt \in 1..MaxAttempts
  BY AttemptsAssumption DEF Call, IInv, TypeOK, AttemptInv
<1>2. lateCalls' \in {0, 1} /\ (~cancelled => lateCalls' = 0)
  BY DEF Call, IInv, CancelInv
<1>3. TypeOK'
  BY <1>1, <1>2 DEF Call, IInv, TypeOK
<1>4. AttemptInv' /\ ErrorInv' /\ SuccessWasExecuted'
  BY DEF Call, IInv, AttemptInv, ErrorInv, SuccessWasExecuted
<1>5. CancelInv'
  BY <1>2 DEF Call, CancelInv
<1> QED
  BY <1>3, <1>4, <1>5 DEF IInv

LEMMA FailStep == ASSUME IInv, NEW e \in Errors, Fail(e) PROVE IInv'
<1>1. attempt \in 1..MaxAttempts
  BY AttemptsAssumption DEF Fail, IInv, TypeOK, AttemptInv
<1>2. CASE e = "lost"
  <2>1. pc' = "head" /\ attempt' = attempt + 1 /\ outcome' = "none" /\ err' = "lost"
        /\ inFlight' = inFlight
    BY <1>2 DEF Fail, WantRetry, IInv, ErrorInv
  <2>2. TypeOK'
    BY <1>1, <2>1, AttemptsAssumption DEF Fail, IInv, TypeOK, Errors
  <2>3. AttemptInv' /\ ErrorInv' /\ CancelInv' /\ SuccessWasExecuted'
    BY <2>1 DEF Fail, IInv, AttemptInv, ErrorInv, CancelInv, SuccessWasExecuted
  <2> QED
    BY <2>2, <2>3 DEF IInv
<1>3. CASE e = "refused"
  <2>1. pc' = "returned" /\ attempt' = attempt /\ outcome' = "refused" /\ err' = "refused"
        /\ inFlight' = inFlight \ {attempt}
    BY <1>3 DEF Fail, WantRetry, Answer
  <2>2. TypeOK'
    BY <2>1 DEF Fail, IInv, TypeOK, Errors
  <2>3. AttemptInv' /\ ErrorInv' /\ CancelInv' /\ SuccessWasExecuted'
    BY <2>1 DEF Fail, IInv, AttemptInv, ErrorInv, CancelInv, SuccessWasExecuted
  <2> QED
    BY <2>2, <2>3 DEF IInv
<1> QED
  BY <1>2, <1>3 DEF Errors

LEMMA ReturnSteps == IInv /\ (GiveUp \/ StopIfCancelled \/ StopSleeping \/ Succeed) => IInv'
<1> SUFFICES ASSUME IInv, GiveUp \/ StopIfCancelled \/ StopSleeping \/ Succeed PROVE IInv'
  OBVIOUS
<1>1. /\ pc' = "returned"
      /\ UNCHANGED <<attempt, cancelled, timer, lastSleep, err, inFlight, executed, lateCalls>>
  BY DEF GiveUp, StopIfCancelled, StopSleeping, Succeed, Answer
<1>2. /\ outcome' \in {"exceeded", "cancelled", "ok"}
      /\ outcome' = "exceeded" => attempt > MaxAttempts
      /\ outcome' = "ok" => attempt \in executed
  BY DEF GiveUp, StopIfCancelled, StopSleeping, Succeed, Answer
<1>3. TypeOK'
  BY <1>1, <1>2 DEF IInv, TypeOK
<1>4. AttemptInv' /\ CancelInv' /\ SuccessWasExecuted'
  BY <1>1, <1>2 DEF IInv, AttemptInv, CancelInv, SuccessWasExecuted
<1>5. pc # "returned"
  BY DEF GiveUp, StopIfCancelled, StopSleeping, Succeed
<1>6. outcome' = "exceeded" => attempt = MaxAttempts + 1
  BY <1>2, AttemptsAssumption DEF IInv, TypeOK
<1>7. ErrorInv'
  BY <1>1, <1>2, <1>5, <1>6 DEF IInv, ErrorInv
<1> QED
  BY <1>3, <1>4, <1>7 DEF IInv

LEMMA OtherSteps == IInv /\ (WakeUp \/ Cancel \/ TimerFires \/ Execute) => IInv'
<1> SUFFICES ASSUME IInv, WakeUp \/ Cancel \/ TimerFires \/ Execute PROVE IInv'
  OBVIOUS
<1>1. CASE WakeUp
  BY <1>1 DEF WakeUp, IInv, TypeOK, AttemptInv, ErrorInv, CancelInv, SuccessWasExecuted
<1>2. CASE Cancel
  BY <1>2 DEF Cancel, IInv, TypeOK, AttemptInv, ErrorInv, CancelInv, SuccessWasExecuted
<1>3. CASE TimerFires
  BY <1>3 DEF TimerFires, IInv, TypeOK, AttemptInv, ErrorInv, CancelInv, SuccessWasExecuted
<1>4. CASE Execute
  BY <1>4 DEF Execute, IInv, TypeOK, AttemptInv, ErrorInv, CancelInv, SuccessWasExecuted
<1> QED
  BY <1>1, <1>2, <1>3, <1>4

THEOREM Inductive == Spec => []IInv
<1>1. IInv /\ [Next]_vars => IInv'
  <2> SUFFICES ASSUME IInv, [Next]_vars PROVE IInv'
    OBVIOUS
  <2>1. CASE UNCHANGED vars
    BY <2>1 DEF vars, IInv, TypeOK, AttemptInv, ErrorInv, CancelInv, SuccessWasExecuted
  <2> QED
    BY <2>1, StartAttemptStep, CallStep, FailStep, ReturnSteps, OtherSteps
       DEF Next, Loop, Finished
<1> QED
  BY InitIInv, <1>1, PTL DEF Spec

------------------------------------------------------------------------------
\* Every variable keeps its type; in particular no request beyond the last
\* permitted attempt is ever sent.
THEOREM TypeCorrect == Spec => []TypeOK
<1>1. IInv => TypeOK
  BY DEF IInv
<1> QED
  BY Inductive, <1>1, PTL

\* A reported success is the success of the latest call.
THEOREM SuccessIsReal == Spec => []SuccessWasExecuted
<1>1. IInv => SuccessWasExecuted
  BY DEF IInv
<1> QED
  BY Inductive, <1>1, PTL

\* A cancelled context lets at most one more call through.
THEOREM OneLateCall == Spec => []AtMostOneLateCall
<1>1. IInv => AtMostOneLateCall
  BY DEF IInv, CancelInv, AtMostOneLateCall
<1> QED
  BY Inductive, <1>1, PTL

\* A refused statement ends the loop with its own error.
THEOREM RefusalEnds == Spec => []RefusalIsFinal
<1>1. IInv => RefusalIsFinal
  BY DEF IInv, ErrorInv, RefusalIsFinal
<1> QED
  BY Inductive, <1>1, PTL

\* An exceeded limit wraps the error of the last permitted call.
THEOREM LimitIsExhausted == Spec => []LimitMeansExhausted
<1>1. IInv => LimitMeansExhausted
  BY AttemptsAssumption DEF IInv, TypeOK, ErrorInv, LimitMeansExhausted, Errors
<1> QED
  BY Inductive, <1>1, PTL

\* What Do reports is what happened.
THEOREM ReportIsRight == Spec => []ReportIsTrue
<1>1. SuccessWasExecuted /\ RefusalIsFinal /\ LimitMeansExhausted => ReportIsTrue
  BY DEF ReportIsTrue
<1> QED
  BY SuccessIsReal, RefusalEnds, LimitIsExhausted, <1>1, PTL

\* The loop implements the at-least-once promise.
THEOREM Refinement == Spec => ImplementsAtLeastOnce
<1> DEFINE report == IF outcome \in {"none", "ok"} THEN outcome ELSE "failed"
<1>1. Init => Abstract!Init
  BY DEF Init, Abstract!Init
<1>2. IInv /\ [Next]_vars => [Abstract!Next]_<<executed, report>>
  <2> SUFFICES ASSUME IInv, [Next]_vars
               PROVE  Abstract!Next \/ UNCHANGED <<executed, report>>
    OBVIOUS
  <2>1. CASE Execute
    <3>1. PICK a \in inFlight : executed' = executed \cup {a}
      BY <2>1 DEF Execute
    <3>2. a \in 1..MaxAttempts /\ outcome' = outcome
      BY <2>1 DEF Execute, IInv, TypeOK
    <3>3. CASE a \in executed
      BY <3>1, <3>2, <3>3
    <3>4. CASE a \notin executed
      BY <3>1, <3>2, <3>4 DEF Abstract!Execute, Abstract!Next
    <3> QED
      BY <3>3, <3>4
  <2>2. CASE Succeed
    <3>1. outcome = "none" /\ outcome' = "ok" /\ executed' = executed /\ executed # {}
      BY <2>2 DEF Succeed, Answer, IInv, ErrorInv
    <3> QED
      BY <3>1 DEF Abstract!ReportSuccess, Abstract!Next
  <2>3. CASE GiveUp \/ StopIfCancelled \/ StopSleeping
    <3>1. outcome = "none" /\ outcome' \in {"exceeded", "cancelled"} /\ executed' = executed
      BY <2>3 DEF GiveUp, StopIfCancelled, StopSleeping, Answer, IInv, ErrorInv
    <3> QED
      BY <3>1 DEF Abstract!ReportFailure, Abstract!Next
  <2>4. ASSUME NEW e \in Errors, Fail(e)
        PROVE  Abstract!Next \/ UNCHANGED <<executed, report>>
    <3>1. outcome = "none" /\ executed' = executed /\ outcome' \in Errors \cup {"none"}
      BY <2>4 DEF Fail, Answer, IInv, ErrorInv
    <3> QED
      BY <3>1 DEF Abstract!ReportFailure, Abstract!Next, Errors
  <2>5. CASE StartAttempt \/ WakeUp \/ Call \/ Cancel \/ TimerFires \/ UNCHANGED vars
    BY <2>5 DEF StartAttempt, WakeUp, Call, Cancel, TimerFires, vars
  <2> QED
    BY <2>1, <2>2, <2>3, <2>4, <2>5 DEF Next, Loop, Finished
<1> QED
  BY Inductive, <1>1, <1>2, PTL DEF Spec, ImplementsAtLeastOnce, Abstract!Spec
==============================================================================
