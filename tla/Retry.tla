-------------------------------- MODULE Retry --------------------------------
(***************************************************************************)
(* retry.Do (retry/retry.go) running one statement against the database    *)
(* through attemptNeptuneRequest (neptune/neptune.go).  Request a is the   *)
(* one of attempt a.  The network may lose a request or its answer, and a  *)
(* request the client has given up on may still be executed later.         *)
(***************************************************************************)
EXTENDS Integers

CONSTANTS MaxAttempts, \* maxAttempts, 1 + retries for the Neptune driver
          RetryTime,   \* retryTime in ms
          Jitter       \* the values of rand.Intn(4)+1 that may be drawn

ASSUME AttemptsAssumption == MaxAttempts \in Nat
ASSUME SleepAssumption    == RetryTime \in Nat /\ Jitter \subseteq 1..4

VARIABLES
  pc,         \* where Do is: head of the loop, sleeping, calling, returned
  attempt,
  cancelled,  \* ctx is done
  timer,      \* pingChan of the current sleep is closed
  lastSleep,  \* length of the latest sleep, 0 before the first
  err,        \* class of the error of the latest call
  outcome,    \* what Do returned, "none" before
  inFlight,   \* requests that may still be executed
  executed,   \* requests the database has executed
  lateCalls   \* history: calls of doer begun after the cancellation

vars == <<pc, attempt, cancelled, timer, lastSleep, err, outcome,
          inFlight, executed, lateCalls>>

\* Errors a call ends with.  "refused" stands for the two messages
\* isTransientError singles out, "lost" for everything else: no connection,
\* no answer, a conflict.
Errors == {"lost", "refused"}

WantRetry_all(e) == TRUE

WantRetry(e) == e # "refused"

\* getSleepTime
SleepTime(n, rnd) == 2 ^ n * RetryTime - rnd

SleepTimes == { SleepTime(n, rnd) : n \in 2..MaxAttempts, rnd \in Jitter }

Init ==
  /\ pc = "head"
  /\ attempt = 1
  /\ cancelled = FALSE
  /\ timer = FALSE
  /\ lastSleep = 0
  /\ err = "none"
  /\ outcome = "none"
  /\ inFlight = {}
  /\ executed = {}
  /\ lateCalls = 0

Answer(o) == pc' = "returned" /\ outcome' = o

------------------------------------------------------------------------------
(* The loop.                                                               *)

GiveUp ==
  /\ pc = "head"
  /\ attempt > MaxAttempts
  /\ Answer("exceeded")
  /\ UNCHANGED <<attempt, cancelled, timer, lastSleep, err, inFlight, executed, lateCalls>>

StopIfCancelled ==
  /\ pc = "head"
  /\ attempt <= MaxAttempts
  /\ cancelled
  /\ Answer("cancelled")
  /\ UNCHANGED <<attempt, cancelled, timer, lastSleep, err, inFlight, executed, lateCalls>>

\* The first attempt is made at once, the others after a sleep.
StartAttempt_unchecked ==
  /\ pc = "head"
  /\ attempt <= MaxAttempts + 1
  /\ IF attempt > 1
     THEN /\ pc' = "sleep"
          /\ timer' = FALSE
          /\ \E rnd \in Jitter : lastSleep' = SleepTime(attempt, rnd)
     ELSE pc' = "call" /\ UNCHANGED <<timer, lastSleep>>
  /\ UNCHANGED <<attempt, cancelled, err, outcome, inFlight, executed, lateCalls>>

StartAttempt ==
  /\ pc = "head"
  /\ attempt <= MaxAttempts
  /\ ~cancelled
  /\ IF attempt > 1
     THEN /\ pc' = "sleep"
          /\ timer' = FALSE
          /\ \E rnd \in Jitter : lastSleep' = SleepTime(attempt, rnd)
     ELSE pc' = "call" /\ UNCHANGED <<timer, lastSleep>>
  /\ UNCHANGED <<attempt, cancelled, err, outcome, inFlight, executed, lateCalls>>

\* The select in sleep: when both channels are ready either case may run.
WakeUp ==
  /\ pc = "sleep"
  /\ timer
  /\ pc' = "call"
  /\ UNCHANGED <<attempt, cancelled, timer, lastSleep, err, outcome, inFlight, executed, lateCalls>>

StopSleeping_never ==
  /\ pc = "sleep"
  /\ timer
  /\ cancelled
  /\ Answer("cancelled")
  /\ UNCHANGED <<attempt, cancelled, timer, lastSleep, err, inFlight, executed, lateCalls>>

StopSleeping ==
  /\ pc = "sleep"
  /\ cancelled
  /\ Answer("cancelled")
  /\ UNCHANGED <<attempt, cancelled, timer, lastSleep, err, inFlight, executed, lateCalls>>

\* doer() sends its request.
Call ==
  /\ pc = "call"
  /\ pc' = "waiting"
  /\ inFlight' = inFlight \cup {attempt}
  /\ lateCalls' = IF cancelled THEN lateCalls + 1 ELSE lateCalls
  /\ UNCHANGED <<attempt, cancelled, timer, lastSleep, err, outcome, executed>>

Succeed ==
  /\ pc = "waiting"
  /\ attempt \in executed
  /\ Answer("ok")
  /\ UNCHANGED <<attempt, cancelled, timer, lastSleep, err, inFlight, executed, lateCalls>>

\* doer returns an error: the answer is lost, or the database refuses a
\* statement it has not executed.
Fail_swallowed(e) ==
  /\ pc = "waiting"
  /\ e = "refused" => attempt \in inFlight
  /\ inFlight' = IF e = "refused" THEN inFlight \ {attempt} ELSE inFlight
  /\ err' = e
  /\ Answer("ok")
  /\ UNCHANGED <<attempt, cancelled, timer, lastSleep, executed, lateCalls>>

Fail_uncounted(e) ==
  /\ pc = "waiting"
  /\ e = "refused" => attempt \in inFlight
  /\ inFlight' = IF e = "refused" THEN inFlight \ {attempt} ELSE inFlight
  /\ err' = e
  /\ IF WantRetry(e) THEN pc' = "head" /\ UNCHANGED outcome ELSE Answer(e)
  /\ UNCHANGED <<attempt, cancelled, timer, lastSleep, executed, lateCalls>>

Fail(e) ==
  /\ pc = "waiting"
  /\ e = "refused" => attempt \in inFlight
  /\ inFlight' = IF e = "refused" THEN inFlight \ {attempt} ELSE inFlight
  /\ err' = e
  /\ IF WantRetry(e)
     THEN pc' = "head" /\ attempt' = attempt + 1 /\ UNCHANGED outcome
     ELSE Answer(e) /\ UNCHANGED attempt
  /\ UNCHANGED <<cancelled, timer, lastSleep, executed, lateCalls>>

------------------------------------------------------------------------------
(* The world around it.                                                    *)

Cancel ==
  /\ pc # "returned"
  /\ ~cancelled
  /\ cancelled' = TRUE
  /\ UNCHANGED <<pc, attempt, timer, lastSleep, err, outcome, inFlight, executed, lateCalls>>

TimerFires ==
  /\ pc = "sleep"
  /\ ~timer
  /\ timer' = TRUE
  /\ UNCHANGED <<pc, attempt, cancelled, lastSleep, err, outcome, inFlight, executed, lateCalls>>

\* A request arrives, perhaps after the client stopped waiting for it.
Execute ==
  /\ \E a \in inFlight :
       /\ inFlight' = inFlight \ {a}
       /\ executed' = executed \cup {a}
  /\ UNCHANGED <<pc, attempt, cancelled, timer, lastSleep, err, outcome, lateCalls>>

Loop ==
  \/ GiveUp
  \/ StopIfCancelled
  \/ StartAttempt
  \/ WakeUp
  \/ StopSleeping
  \/ Call
  \/ Succeed
  \/ \E e \in Errors : Fail(e)

Finished == pc = "returned" /\ UNCHANGED vars

Next == Loop \/ Cancel \/ TimerFires \/ Execute \/ Finished

Spec == Init /\ [][Next]_vars

\* The goroutine of Do runs on, and the client library ends every call with
\* an answer or an error (its own timeout).  Nothing is assumed of the
\* timer, the network or the context.
FairSpec == Spec /\ WF_vars(Loop)

------------------------------------------------------------------------------
(* Properties.                                                             *)

TypeOK ==
  /\ pc \in {"head", "sleep", "call", "waiting", "returned"}
  /\ attempt \in 1..(MaxAttempts + 1)
  /\ cancelled \in BOOLEAN
  /\ timer \in BOOLEAN
  /\ lastSleep \in SleepTimes \cup {0}
  /\ err \in Errors \cup {"none"}
  /\ outcome \in {"none", "ok", "exceeded", "cancelled"} \cup Errors
  /\ inFlight \subseteq 1..MaxAttempts
  /\ executed \subseteq 1..MaxAttempts
  /\ lateCalls \in Nat

\* A success reported by Do is the success of the call it has just made: a
\* late execution of an earlier request is never taken for it.
SuccessWasExecuted == outcome = "ok" => attempt \in executed

\* "if cancelled will prevent any more retry attempts" (retry.go:30): after
\* the cancellation at most the call that was already due is made.
AtMostOneLateCall == lateCalls <= 1

\* A refused statement is not sent again, and its own error is reported: it
\* is neither wrapped as an exceeded limit nor replaced by a cancellation.
RefusalIsFinal == (err = "refused") <=> (outcome = "refused")

\* Only an exhausted loop reports an exceeded limit, after as many calls as
\* allowed, and the error it wraps is that of a call (Error() would
\* dereference nil otherwise, retry.go:25).
LimitMeansExhausted ==
  outcome = "exceeded" /\ MaxAttempts > 0 => attempt = MaxAttempts + 1 /\ err = "lost"

\* What Do reports is what happened: its success, the refusal or the limit.
ReportIsTrue == SuccessWasExecuted /\ RefusalIsFinal /\ LimitMeansExhausted

\* Do returns, provided that time.Sleep ends.
Returns == WF_vars(TimerFires) => <>(pc = "returned")

\* A cancelled Do returns without waiting for the end of its sleep.
CancelEndsDo == cancelled ~> (pc = "returned")

Abstract == INSTANCE AtLeastOnce WITH
  executions <- executed,
  report     <- IF outcome \in {"none", "ok"} THEN outcome ELSE "failed"

ImplementsAtLeastOnce == Abstract!Spec
==============================================================================
