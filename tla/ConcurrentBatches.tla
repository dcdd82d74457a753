-------------------------- MODULE ConcurrentBatches --------------------------
(***************************************************************************)
(* One call of processInConcurrentBatches (neptune/utils.go): the calling  *)
(* goroutine splits the items and starts a goroutine per chunk, throttled  *)
(* by the buffered channel chSemaphore; the workers report errors over the *)
(* unbuffered chErr; a waiter goroutine closes chWait when the wait group  *)
(* reaches zero.  The caller reads chErr only after it has split all the   *)
(* items, which is what the deadlock properties below are about.           *)
(*                                                                         *)
(* A chunk is the set of its items.  Chunks are disjoint, so a chunk also  *)
(* identifies the goroutine working on it and the error it reports.        *)
(***************************************************************************)
EXTENDS Integers, FiniteSets

CONSTANTS Items,       \* keys of the map to process
          BatchSize,   \* items per chunk, 0: a single chunk
          MaxWorkers,  \* capacity of chSemaphore
          MaxFailures, \* bound: processBatch returns an error at most so often
          Yield        \* Yield[i]: result entries processBatch returns for i

ASSUME ItemsAssumption    == IsFiniteSet(Items)
ASSUME BatchSizeAssumption == BatchSize \in Nat
ASSUME WorkersAssumption  == MaxWorkers \in Nat
ASSUME FailuresAssumption == MaxFailures \in Nat

VARIABLES
  main,         \* the caller: splitting, collecting errors, or returned
  pc,           \* pc[c]: the phase of the goroutine of chunk c
  wg,           \* counter of the wait group
  sem,          \* number of tokens in chSemaphore
  chWaitClosed, \* the waiter goroutine has closed chWait
  result,       \* aggregated entries
  errs,         \* chunks whose error the caller has appended to errs
  numChunks,    \* chunks counted by processInBatches
  failed        \* history: chunks whose processBatch returned an error

vars == <<main, pc, wg, sem, chWaitClosed, result, errs, numChunks, failed>>

Chunks == (SUBSET Items) \ {{}}

Output(c) == UNION { Yield[i] : i \in c }

\* A chunk nobody has built is "idle"; the caller is blocked in acquire for
\* a "queued" one; from "run" on it has a goroutine, which still has to
\* process it, to send its error or merge its result, to release the
\* semaphore and to call wg.Done.
Phases == {"idle", "queued", "run", "send", "merge", "release", "signal", "done"}

InPhase(S) == { c \in Chunks : pc[c] \in S }
Started   == InPhase(Phases \ {"idle"})
Queued    == InPhase({"queued"})
Holding   == InPhase({"run", "send", "merge", "release"})
Counted   == InPhase({"queued", "run", "send", "merge", "release", "signal"})
Processed == InPhase({"send", "merge", "release", "signal", "done"})
Merged    == InPhase({"release", "signal", "done"}) \ failed

Remaining == Items \ UNION Started

Init ==
  /\ main = "split"
  /\ pc = [c \in Chunks |-> "idle"]
  /\ wg = 0
  /\ sem = 0
  /\ chWaitClosed = FALSE
  /\ result = {}
  /\ errs = {}
  /\ numChunks = 0
  /\ failed = {}

Goto(c, phase) == pc' = [pc EXCEPT ![c] = phase]

------------------------------------------------------------------------------
(* The caller.                                                             *)

\* What processInBatches passes on next: a full batch, or all that is left
\* once the range over items ends.  Map order is arbitrary.
IsNextChunk_overlap(c) ==
  \/ Cardinality(c) = BatchSize
  \/ c = Remaining /\ (BatchSize = 0 \/ Cardinality(c) < BatchSize)

IsNextChunk(c) ==
  /\ c \subseteq Remaining
  /\ \/ Cardinality(c) = BatchSize
     \/ c = Remaining /\ (BatchSize = 0 \/ Cardinality(c) < BatchSize)

\* The caller hands chunk c to goProcessBatch and enters acquire: the wait
\* group is incremented before the semaphore is requested.
Submit(c) ==
  /\ main = "split"
  /\ Queued = {}
  /\ IsNextChunk(c)
  /\ numChunks' = numChunks + 1
  /\ wg' = wg + 1
  /\ Goto(c, "queued")
  /\ UNCHANGED <<main, sem, chWaitClosed, result, errs, failed>>

\* acquire's send on the full channel blocks; then the goroutine is started.
Acquire_unbounded(c) ==
  /\ pc[c] = "queued"
  /\ sem' = sem + 1
  /\ Goto(c, "run")
  /\ UNCHANGED <<main, wg, chWaitClosed, result, errs, numChunks, failed>>

Acquire(c) ==
  /\ pc[c] = "queued"
  /\ sem < MaxWorkers
  /\ sem' = sem + 1
  /\ Goto(c, "run")
  /\ UNCHANGED <<main, wg, chWaitClosed, result, errs, numChunks, failed>>

\* The range is over: the waiter goroutine is started, the select loop begins.
StartCollecting ==
  /\ main = "split"
  /\ Queued = {}
  /\ Remaining = {}
  /\ main' = "collect"
  /\ UNCHANGED <<pc, wg, sem, chWaitClosed, result, errs, numChunks, failed>>

\* case err := <-chErr.  The channel is unbuffered, so the receive and the
\* worker's send are one step.
ReceiveErr_stop(c) ==
  /\ main = "collect"
  /\ pc[c] = "send"
  /\ errs' = errs \cup {c}
  /\ main' = "returned"
  /\ Goto(c, "release")
  /\ UNCHANGED <<wg, sem, chWaitClosed, result, numChunks, failed>>

ReceiveErr_again(c) ==
  /\ main = "collect"
  /\ pc[c] = "send"
  /\ errs' = errs \cup {c}
  /\ Goto(c, "run")
  /\ UNCHANGED <<main, wg, sem, chWaitClosed, result, numChunks, failed>>

ReceiveErr(c) ==
  /\ main = "collect"
  /\ pc[c] = "send"
  /\ errs' = errs \cup {c}
  /\ Goto(c, "release")
  /\ UNCHANGED <<main, wg, sem, chWaitClosed, result, numChunks, failed>>

\* case <-chWait.
Return ==
  /\ main = "collect"
  /\ chWaitClosed
  /\ main' = "returned"
  /\ UNCHANGED <<pc, wg, sem, chWaitClosed, result, errs, numChunks, failed>>

------------------------------------------------------------------------------
(* The goroutines.                                                         *)

\* wg.Wait returns and the waiter closes chWait.
CloseWait ==
  /\ main = "collect"
  /\ ~chWaitClosed
  /\ wg = 0
  /\ chWaitClosed' = TRUE
  /\ UNCHANGED <<main, pc, wg, sem, result, errs, numChunks, failed>>

Succeed(c) ==
  /\ pc[c] = "run"
  /\ Goto(c, "merge")
  /\ UNCHANGED <<main, wg, sem, chWaitClosed, result, errs, numChunks, failed>>

Fail(c) ==
  /\ pc[c] = "run"
  /\ Cardinality(failed) < MaxFailures
  /\ failed' = failed \cup {c}
  /\ Goto(c, "send")
  /\ UNCHANGED <<main, wg, sem, chWaitClosed, result, errs, numChunks>>

\* The loop that copies the entries runs under lockResult.
Merge_overwrite(c) ==
  /\ pc[c] = "merge"
  /\ result' = Output(c)
  /\ Goto(c, "release")
  /\ UNCHANGED <<main, wg, sem, chWaitClosed, errs, numChunks, failed>>

Merge(c) ==
  /\ pc[c] = "merge"
  /\ result' = result \cup Output(c)
  /\ Goto(c, "release")
  /\ UNCHANGED <<main, wg, sem, chWaitClosed, errs, numChunks, failed>>

\* The deferred release: first the semaphore, then the wait group.
ReleaseSemaphore(c) ==
  /\ pc[c] = "release"
  /\ sem' = sem - 1
  /\ Goto(c, "signal")
  /\ UNCHANGED <<main, wg, chWaitClosed, result, errs, numChunks, failed>>

WgDone_skipped(c) ==
  /\ pc[c] = "signal"
  /\ Goto(c, "done")
  /\ UNCHANGED <<main, wg, sem, chWaitClosed, result, errs, numChunks, failed>>

WgDone(c) ==
  /\ pc[c] = "signal"
  /\ wg' = wg - 1
  /\ Goto(c, "done")
  /\ UNCHANGED <<main, sem, chWaitClosed, result, errs, numChunks, failed>>

------------------------------------------------------------------------------
Caller ==
  \/ \E c \in Chunks : Submit(c) \/ Acquire(c) \/ ReceiveErr(c)
  \/ StartCollecting
  \/ Return

Worker(c) ==
  \/ Succeed(c)
  \/ Fail(c)
  \/ Merge(c)
  \/ ReleaseSemaphore(c)
  \/ WgDone(c)

\* After the return nothing is left to do; a stop anywhere else is a deadlock.
Finished == main = "returned" /\ UNCHANGED vars

Next ==
  \/ Caller
  \/ CloseWait
  \/ \E c \in Chunks : Worker(c)
  \/ Finished

Spec == Init /\ [][Next]_vars

\* The Go scheduler runs every goroutine that can run, and processBatch
\* returns: the request behind it is retried a bounded number of times.
FairSpec ==
  /\ Spec
  /\ WF_vars(Caller)
  /\ WF_vars(CloseWait)
  /\ \A c \in Chunks : WF_vars(Worker(c))

------------------------------------------------------------------------------
(* Properties.                                                             *)

TypeOK ==
  /\ main \in {"split", "collect", "returned"}
  /\ pc \in [Chunks -> Phases]
  /\ wg \in Nat
  /\ sem \in 0..MaxWorkers
  /\ chWaitClosed \in BOOLEAN
  /\ result \subseteq Output(Items)
  /\ errs \subseteq Chunks
  /\ numChunks \in Nat
  /\ failed \subseteq Chunks

\* The throttle: never more than maxWorkers batches are being processed,
\* their errors reported or their results merged at the same time.
WorkersBounded == Cardinality(Holding) <= MaxWorkers

\* When the call returns no goroutine is left behind, so none can still
\* write the result map the caller now reads.
NoStrayWorker == main = "returned" => \A c \in Chunks : pc[c] \in {"idle", "done"}

\* Although closing chWait and sending on chErr race in the final select, no
\* error a batch returned is missing from errs when the call returns.
NoErrorLost == main = "returned" => errs = failed

\* The returned map holds the entries of all batches that succeeded and
\* nothing of those that failed, whatever the order of the merges.
ResultComplete ==
  main = "returned" =>
    result = UNION { Output(c) : c \in Processed \ failed }

\* Every item is handed to exactly one goroutine.
EveryItemOnce ==
  /\ \A c, d \in Started : c # d => c \cap d = {}
  /\ main = "returned" => UNION Started = Items

\* What the caller gets is exact: no error and no entry is lost or made up,
\* and no item is left out or handed out twice.
AnswerIsExact == NoErrorLost /\ ResultComplete /\ EveryItemOnce

\* Some goroutine can move: what the guards of the actions say, as a state
\* predicate.
CanStep ==
  \/ main = "split" /\ Queued = {}
  \/ \E c \in Chunks :
       \/ pc[c] = "queued" /\ sem < MaxWorkers
       \/ pc[c] = "send" /\ main = "collect"
       \/ pc[c] \in {"run", "merge", "release", "signal"}
  \/ main = "collect" /\ (chWaitClosed \/ wg = 0)
  \/ main = "returned"

\* The call cannot block for ever while fewer batches can fail than there
\* are workers: a worker blocked on chErr keeps its semaphore token.
NoDeadlock == MaxFailures < MaxWorkers => CanStep

\* The steps the goroutines that are there have left, and the caller and the
\* waiter have.
GoroutineSteps ==
  Cardinality(InPhase({"queued"})) + Cardinality(InPhase({"queued", "run"}))
  + Cardinality(InPhase({"queued", "run", "send", "merge"}))
  + Cardinality(InPhase({"queued", "run", "send", "merge", "release"})) + Cardinality(Counted)

CallerSteps == (CASE main = "split" -> 2 [] main = "collect" -> 1 [] OTHER -> 0)
               + (IF chWaitClosed THEN 0 ELSE 1)

\* The steps a call has left at most: six for an item that is in no chunk yet.
StepsLeft == 6 * Cardinality(Remaining) + GoroutineSteps + CallerSteps

\* Every step of any goroutine counts: none is undone, repeated or waited for in
\* a loop, so that a call that is not blocked is at its end after at most six
\* steps per item and three more, however the goroutines interleave.
StepsRunOut == [][StepsLeft' \in 0..(StepsLeft - 1)]_vars

\* "Block until all workers finish their work" (utils.go:65): the call ends.
Returns == <>(main = "returned")

\* The call is an implementation of the abstract one: no interleaving shows
\* in what the caller gets.
Abstract == INSTANCE BatchProcessing WITH
  processed <- Processed,
  failed    <- failed,
  answer    <- IF main = "returned"
               THEN [ status |-> "returned", numChunks |-> numChunks,
                      result |-> result, errs |-> errs ]
               ELSE [status |-> "none"]

ImplementsBatchProcessing == Abstract!Spec
==============================================================================
