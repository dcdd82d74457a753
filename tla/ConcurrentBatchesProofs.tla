----------------------- MODULE ConcurrentBatchesProofs -----------------------
(***************************************************************************)
(* Proofs about ConcurrentBatches for every set of items, batch size,      *)
(* number of workers and number of failures.                               *)
(***************************************************************************)
EXTENDS ConcurrentBatches, FiniteSetTheorems, TLAPS

------------------------------------------------------------------------------
(* The inductive invariant: the two counters count goroutines, a closed    *)
(* chWait means that none is left, and the phase of a chunk decides where  *)
(* its error or its result is.                                             *)

CountersInv ==
  /\ sem = Cardinality(Holding)
  /\ wg = Cardinality(Counted)
  /\ numChunks = Cardinality(Started)

MainInv ==
  /\ main # "split" => Queued = {} /\ Remaining = {}
  /\ chWaitClosed => main # "split" /\ \A c \in Chunks : pc[c] \in {"idle", "done"}
  /\ main = "returned" => chWaitClosed

ChunksInv ==
  /\ \A c, d \in Started : c # d => c \cap d = {}
  /\ BatchSize # 0 => \A c \in Started : Cardinality(c) <= BatchSize

OutcomeInv ==
  /\ failed = InPhase({"send"}) \cup errs
  /\ errs \subseteq InPhase({"release", "signal", "done"})
  /\ result = UNION { Output(c) : c \in Merged }

FailuresInv == Cardinality(failed) <= MaxFailures

IInv ==
  /\ TypeOK
  /\ CountersInv
  /\ MainInv
  /\ ChunksInv
  /\ OutcomeInv
  /\ FailuresInv

------------------------------------------------------------------------------
(* Chunks are finite in number, so every set of chunks can be counted.     *)

LEMMA ChunksFinite == 
  /\ IsFiniteSet(Chunks)
  /\ \A S \in SUBSET Chunks : IsFiniteSet(S) /\ Cardinality(S) \in Nat
<1>1. IsFiniteSet(SUBSET Items)
  BY ItemsAssumption, FS_SUBSET
<1>2. Chunks \in SUBSET (SUBSET Items)
  BY DEF Chunks
<1>3. IsFiniteSet(Chunks)
  BY <1>1, <1>2, FS_Subset
<1>4. ASSUME NEW S \in SUBSET Chunks
      PROVE  IsFiniteSet(S) /\ Cardinality(S) \in Nat
  BY <1>3, <1>4, FS_Subset, FS_CardinalityType
<1> QED
  BY <1>3, <1>4

\* What moving one chunk to another phase does to a set of phases.
LEMMA PhaseMove ==
  ASSUME TypeOK, NEW c \in Chunks, NEW p \in Phases, Goto(c, p), NEW S
  PROVE  /\ pc' \in [Chunks -> Phases]
         /\ pc'[c] = p
         /\ \A d \in Chunks : d # c => pc'[d] = pc[d]
         /\ p \in S => InPhase(S)' = InPhase(S) \cup {c}
         /\ p \notin S => InPhase(S)' = InPhase(S) \ {c}
<1>1. pc \in [Chunks -> Phases]
  BY DEF TypeOK
<1>2. pc' = [pc EXCEPT ![c] = p]
  BY DEF Goto
<1>3. /\ pc' \in [Chunks -> Phases]
      /\ pc'[c] = p
      /\ \A d \in Chunks : d # c => pc'[d] = pc[d]
  BY <1>1, <1>2
<1>4. InPhase(S)' = { d \in Chunks : pc'[d] \in S }
  BY DEF InPhase
<1> QED
  BY <1>3, <1>4 DEF InPhase

\* ... and to its size.
LEMMA PhaseCount ==
  ASSUME TypeOK, NEW c \in Chunks, NEW p \in Phases, Goto(c, p), NEW S
  PROVE  /\ Cardinality(InPhase(S)) \in Nat
         /\ pc[c] \in S /\ p \in S =>
              Cardinality(InPhase(S)') = Cardinality(InPhase(S))
         /\ pc[c] \notin S /\ p \notin S =>
              Cardinality(InPhase(S)') = Cardinality(InPhase(S))
         /\ pc[c] \notin S /\ p \in S =>
              Cardinality(InPhase(S)') = Cardinality(InPhase(S)) + 1
         /\ pc[c] \in S /\ p \notin S =>
              Cardinality(InPhase(S)') = Cardinality(InPhase(S)) - 1
<1> DEFINE A == InPhase(S)
<1>1. A \in SUBSET Chunks /\ (c \in A <=> pc[c] \in S)
  BY DEF InPhase
<1>2. IsFiniteSet(A) /\ Cardinality(A) \in Nat
  BY <1>1, ChunksFinite
<1>3. /\ p \in S => A' = A \cup {c}
      /\ p \notin S => A' = A \ {c}
  BY PhaseMove
<1>4. Cardinality(A \cup {c}) = IF c \in A THEN Cardinality(A) ELSE Cardinality(A) + 1
  BY <1>2, FS_AddElement
<1>5. Cardinality(A \ {c}) = IF c \in A THEN Cardinality(A) - 1 ELSE Cardinality(A)
  BY <1>2, FS_RemoveElement
<1> HIDE DEF A
<1>6. /\ Cardinality(A) \in Nat
      /\ pc[c] \in S /\ p \in S => Cardinality(A') = Cardinality(A)
      /\ pc[c] \notin S /\ p \notin S => Cardinality(A') = Cardinality(A)
      /\ pc[c] \notin S /\ p \in S => Cardinality(A') = Cardinality(A) + 1
      /\ pc[c] \in S /\ p \notin S => Cardinality(A') = Cardinality(A) - 1
  BY <1>1, <1>2, <1>3, <1>4, <1>5
<1> QED
  BY <1>6 DEF A

------------------------------------------------------------------------------
THEOREM InitIInv == Init => IInv
<1> SUFFICES ASSUME Init PROVE IInv
  OBVIOUS
<1>1. \A c \in Chunks : pc[c] = "idle"
  BY DEF Init
<1>2. /\ Holding = {} /\ Counted = {} /\ Started = {} /\ Queued = {} /\ Processed = {}
      /\ InPhase({"send"}) = {} /\ Merged = {}
  BY <1>1 DEF Holding, Counted, Started, Queued, Processed, Merged, InPhase, Phases
<1>3. TypeOK
  <2>1. pc \in [Chunks -> Phases]
    BY DEF Init, Phases
  <2>2. sem \in 0..MaxWorkers
    BY WorkersAssumption DEF Init
  <2> QED
    BY <2>1, <2>2 DEF Init, TypeOK
<1>4. CountersInv
  BY <1>2, FS_EmptySet DEF Init, CountersInv
<1>5. MainInv /\ ChunksInv
  BY <1>2 DEF Init, MainInv, ChunksInv
<1>6. OutcomeInv
  BY <1>2 DEF Init, OutcomeInv
<1>7. FailuresInv
  BY FS_EmptySet, FailuresAssumption DEF Init, FailuresInv
<1> QED
  BY <1>3, <1>4, <1>5, <1>6, <1>7 DEF IInv

\* One lemma per action.  The counters follow from PhaseCount, the sets of
\* chunks from PhaseMove.
LEMMA SubmitStep ==
  ASSUME IInv, NEW c \in Chunks, Submit(c)
  PROVE  IInv'
<1> USE DEF IInv
<1>1. c \subseteq Remaining /\ c # {} /\ main = "split" /\ Queued = {} /\ Goto(c, "queued")
  BY DEF Submit, IsNextChunk, Chunks
<1>2. "queued" \in Phases
  BY DEF Phases
<1>3. pc[c] = "idle"
  <2>1. c \notin Started
    BY <1>1 DEF Remaining
  <2> QED
    BY <2>1 DEF Started, InPhase, TypeOK, Phases
<1>4. TypeOK'
  BY <1>1, <1>2, PhaseMove DEF TypeOK, Submit
<1>5. CountersInv'
  <2>1. sem' = Cardinality(Holding')
    BY <1>1, <1>2, <1>3, PhaseCount DEF Holding, Submit, CountersInv
  <2>2. wg' = Cardinality(Counted')
    BY <1>1, <1>2, <1>3, PhaseCount DEF Counted, Submit, CountersInv
  <2>3. numChunks' = Cardinality(Started')
    BY <1>1, <1>2, <1>3, PhaseCount DEF Started, Submit, CountersInv
  <2> QED
    BY <2>1, <2>2, <2>3 DEF CountersInv
<1>6. MainInv'
  BY <1>1 DEF MainInv, Submit
<1>7. ChunksInv'
  <2>1. Started' = Started \cup {c}
    BY <1>1, <1>2, <1>3, PhaseMove DEF Started
  <2>2. \A d \in Started : c \cap d = {}
    BY <1>1 DEF Remaining
  <2>3. BatchSize # 0 => Cardinality(c) <= BatchSize
    <3>1. IsFiniteSet(c)
      BY ItemsAssumption, FS_Subset DEF Chunks
    <3>2. Cardinality(c) \in Nat
      BY <3>1, FS_CardinalityType
    <3> QED
      BY <3>2, BatchSizeAssumption DEF Submit, IsNextChunk
  <2> QED
    BY <2>1, <2>2, <2>3 DEF ChunksInv
<1>8. OutcomeInv' /\ FailuresInv'
  <2>1. InPhase({"send"})' = InPhase({"send"})
    BY <1>1, <1>2, <1>3, PhaseMove DEF InPhase
  <2>2. InPhase({"release", "signal", "done"})' = InPhase({"release", "signal", "done"})
    BY <1>1, <1>2, <1>3, PhaseMove DEF InPhase
  <2>3. Merged' = Merged
    BY <2>2 DEF Merged, Submit
  <2> QED
    BY <2>1, <2>2, <2>3 DEF OutcomeInv, FailuresInv, Submit
<1> QED
  BY <1>4, <1>5, <1>6, <1>7, <1>8

LEMMA AcquireStep ==
  ASSUME IInv, NEW c \in Chunks, Acquire(c)
  PROVE  IInv'
<1> USE DEF IInv
<1>1. pc[c] = "queued" /\ sem < MaxWorkers /\ Goto(c, "run")
  BY DEF Acquire
<1>2. "run" \in Phases /\ "queued" \in Phases
  BY DEF Phases
<1>3. c \in Queued /\ main = "split"
  BY <1>1 DEF Queued, InPhase, MainInv, TypeOK
<1>4. TypeOK'
  <2>1. sem' \in 0..MaxWorkers
    BY <1>1, WorkersAssumption DEF TypeOK, Acquire
  <2> QED
    BY <1>1, <1>2, <2>1, PhaseMove DEF TypeOK, Acquire
<1>5. CountersInv'
  <2>1. sem' = Cardinality(Holding')
    BY <1>1, <1>2, PhaseCount DEF Holding, Acquire, CountersInv
  <2>2. wg' = Cardinality(Counted')
    BY <1>1, <1>2, PhaseCount DEF Counted, Acquire, CountersInv
  <2>3. numChunks' = Cardinality(Started')
    BY <1>1, <1>2, PhaseCount DEF Started, Acquire, CountersInv
  <2> QED
    BY <2>1, <2>2, <2>3 DEF CountersInv
<1>6. MainInv'
  BY <1>3 DEF MainInv, Acquire
<1>7. ChunksInv'
  <2>1. Started' = Started
    BY <1>1, <1>2, PhaseMove DEF Started, InPhase
  <2> QED
    BY <2>1 DEF ChunksInv
<1>8. OutcomeInv' /\ FailuresInv'
  <2>1. InPhase({"send"})' = InPhase({"send"})
    BY <1>1, <1>2, PhaseMove DEF InPhase
  <2>2. InPhase({"release", "signal", "done"})' = InPhase({"release", "signal", "done"})
    BY <1>1, <1>2, PhaseMove DEF InPhase
  <2>3. Merged' = Merged
    BY <2>2 DEF Merged, Acquire
  <2> QED
    BY <2>1, <2>2, <2>3 DEF OutcomeInv, FailuresInv, Acquire
<1> QED
  BY <1>4, <1>5, <1>6, <1>7, <1>8

LEMMA StartCollectingStep ==
  ASSUME IInv, StartCollecting
  PROVE  IInv'
<1> USE DEF IInv
<1>1. \A S : InPhase(S)' = InPhase(S)
  BY DEF StartCollecting, InPhase
<1>2. /\ Started' = Started /\ Queued' = Queued /\ Holding' = Holding
      /\ Counted' = Counted /\ Merged' = Merged /\ Remaining' = Remaining
  BY <1>1 DEF StartCollecting, Started, Queued, Holding, Counted, Merged, Remaining, InPhase
<1>3. TypeOK'
  BY DEF TypeOK, StartCollecting
<1>4. CountersInv' /\ ChunksInv' /\ OutcomeInv' /\ FailuresInv'
  BY <1>1, <1>2 DEF StartCollecting, CountersInv, ChunksInv, OutcomeInv, FailuresInv
<1>5. MainInv'
  BY <1>2 DEF StartCollecting, MainInv
<1> QED
  BY <1>3, <1>4, <1>5

\* The two steps that touch neither a chunk nor a counter.
LEMMA ReturnStep ==
  ASSUME IInv, Return \/ CloseWait
  PROVE  IInv'
<1> USE DEF IInv
<1>1. \A S : InPhase(S)' = InPhase(S)
  BY DEF Return, CloseWait, InPhase
<1>2. /\ Started' = Started /\ Queued' = Queued /\ Holding' = Holding
      /\ Counted' = Counted /\ Merged' = Merged /\ Remaining' = Remaining
  BY <1>1 DEF Return, CloseWait, Started, Queued, Holding, Counted, Merged, Remaining, InPhase
<1>3. TypeOK'
  BY DEF TypeOK, Return, CloseWait
<1>4. CountersInv' /\ ChunksInv' /\ OutcomeInv' /\ FailuresInv'
  BY <1>1, <1>2 DEF Return, CloseWait, CountersInv, ChunksInv, OutcomeInv, FailuresInv
<1>5. MainInv'
  <2>1. CASE Return
    BY <2>1, <1>2 DEF Return, MainInv
  <2>2. CASE CloseWait
    <3>1. Counted = {}
      <4>1. Counted \in SUBSET Chunks
        BY DEF Counted, InPhase
      <4> QED
        BY <2>2, <4>1, ChunksFinite, FS_EmptySet DEF CloseWait, CountersInv
    <3>2. \A c \in Chunks : pc[c] \in {"idle", "done"}
      BY <3>1 DEF Counted, InPhase, TypeOK, Phases
    <3> QED
      BY <2>2, <3>2, <1>2 DEF CloseWait, MainInv
  <2> QED
    BY <2>1, <2>2
<1> QED
  BY <1>3, <1>4, <1>5

\* Facts shared by all the steps of a goroutine that has been started: the
\* chunk stays started, it was not queued, and wg counts it.
LEMMA WorkerMove ==
  ASSUME IInv, NEW c \in Chunks, NEW p \in Phases, Goto(c, p),
         pc[c] \in {"run", "send", "merge", "release", "signal"},
         p \notin {"idle", "queued"}, UNCHANGED <<main, chWaitClosed, numChunks>>
  PROVE  /\ MainInv' /\ ChunksInv'
         /\ numChunks' = Cardinality(Started')
         /\ Goto(c, p) /\ TypeOK
<1> USE DEF IInv
<1>1. Started' = Started
  BY PhaseMove DEF Started, InPhase, Phases
<1>2. Queued' = Queued
  BY PhaseMove DEF Queued, InPhase
<1>3. Remaining' = Remaining
  BY <1>1 DEF Remaining
<1>4. MainInv'
  BY <1>2, <1>3 DEF MainInv
<1>5. ChunksInv'
  BY <1>1 DEF ChunksInv
<1> QED
  BY <1>1, <1>4, <1>5 DEF CountersInv

LEMMA SucceedStep ==
  ASSUME IInv, NEW c \in Chunks, Succeed(c)
  PROVE  IInv'
<1> USE DEF IInv
<1>1. pc[c] = "run" /\ Goto(c, "merge")
  BY DEF Succeed
<1>2. "merge" \in Phases
  BY DEF Phases
<1>3. MainInv' /\ ChunksInv' /\ numChunks' = Cardinality(Started')
  BY <1>1, <1>2, WorkerMove DEF Succeed
<1>4. TypeOK'
  BY <1>1, <1>2, PhaseMove DEF TypeOK, Succeed
<1>5. sem' = Cardinality(Holding') /\ wg' = Cardinality(Counted')
  BY <1>1, <1>2, PhaseCount DEF Holding, Counted, Succeed, CountersInv
<1>6. OutcomeInv' /\ FailuresInv'
  <2>1. InPhase({"send"})' = InPhase({"send"})
    BY <1>1, <1>2, PhaseMove DEF InPhase
  <2>2. InPhase({"release", "signal", "done"})' = InPhase({"release", "signal", "done"})
    BY <1>1, <1>2, PhaseMove DEF InPhase
  <2>3. Merged' = Merged
    BY <2>2 DEF Merged, Succeed
  <2> QED
    BY <2>1, <2>2, <2>3 DEF OutcomeInv, FailuresInv, Succeed
<1> QED
  BY <1>3, <1>4, <1>5, <1>6 DEF CountersInv

LEMMA FailStep ==
  ASSUME IInv, NEW c \in Chunks, Fail(c)
  PROVE  IInv'
<1> USE DEF IInv
<1>1. pc[c] = "run" /\ Goto(c, "send") /\ failed' = failed \cup {c}
  BY DEF Fail
<1>2. "send" \in Phases
  BY DEF Phases
<1>3. MainInv' /\ ChunksInv' /\ numChunks' = Cardinality(Started')
  BY <1>1, <1>2, WorkerMove DEF Fail
<1>4. TypeOK'
  BY <1>1, <1>2, PhaseMove DEF TypeOK, Fail
<1>5. sem' = Cardinality(Holding') /\ wg' = Cardinality(Counted')
  BY <1>1, <1>2, PhaseCount DEF Holding, Counted, Fail, CountersInv
<1>6. OutcomeInv'
  <2>1. InPhase({"send"})' = InPhase({"send"}) \cup {c}
    BY <1>1, <1>2, PhaseMove
  <2>2. InPhase({"release", "signal", "done"})' = InPhase({"release", "signal", "done"})
    BY <1>1, <1>2, PhaseMove DEF InPhase
  <2>3. c \notin InPhase({"release", "signal", "done"})
    BY <1>1 DEF InPhase
  <2>4. Merged' = Merged
    BY <1>1, <2>2, <2>3 DEF Merged
  <2> QED
    BY <1>1, <2>1, <2>2, <2>4 DEF OutcomeInv, Fail
<1>7. FailuresInv'
  <2>1. failed \in SUBSET Chunks
    BY DEF TypeOK
  <2>2. IsFiniteSet(failed) /\ Cardinality(failed) \in Nat
    BY <2>1, ChunksFinite
  <2>3. Cardinality(failed') <= Cardinality(failed) + 1
    BY <1>1, <2>2, FS_AddElement
  <2>4. Cardinality(failed') \in Nat
    BY <1>4, ChunksFinite DEF TypeOK
  <2>5. Cardinality(failed) < MaxFailures
    BY DEF Fail
  <2> QED
    BY <2>2, <2>3, <2>4, <2>5, FailuresAssumption DEF FailuresInv
<1> QED
  BY <1>3, <1>4, <1>5, <1>6, <1>7 DEF CountersInv

LEMMA MergeStep ==
  ASSUME IInv, NEW c \in Chunks, Merge(c)
  PROVE  IInv'
<1> USE DEF IInv
<1>1. pc[c] = "merge" /\ Goto(c, "release") /\ result' = result \cup Output(c)
  BY DEF Merge
<1>2. "release" \in Phases
  BY DEF Phases
<1>3. MainInv' /\ ChunksInv' /\ numChunks' = Cardinality(Started')
  BY <1>1, <1>2, WorkerMove DEF Merge
<1>4. TypeOK'
  <2>1. Output(c) \subseteq Output(Items)
    BY DEF Output, Chunks
  <2> QED
    BY <1>1, <1>2, <2>1, PhaseMove DEF TypeOK, Merge
<1>5. sem' = Cardinality(Holding') /\ wg' = Cardinality(Counted')
  BY <1>1, <1>2, PhaseCount DEF Holding, Counted, Merge, CountersInv
<1>6. OutcomeInv' /\ FailuresInv'
  <2>1. InPhase({"send"})' = InPhase({"send"})
    BY <1>1, <1>2, PhaseMove DEF InPhase
  <2>2. InPhase({"release", "signal", "done"})' =
          InPhase({"release", "signal", "done"}) \cup {c}
    BY <1>1, <1>2, PhaseMove
  <2>3. c \notin failed
    BY <1>1 DEF OutcomeInv, InPhase
  <2>4. Merged' = Merged \cup {c}
    BY <2>2, <2>3 DEF Merged, Merge
  <2>5. result' = UNION { Output(d) : d \in Merged' }
    BY <1>1, <2>4 DEF OutcomeInv
  <2> QED
    BY <2>1, <2>2, <2>5 DEF OutcomeInv, FailuresInv, Merge
<1> QED
  BY <1>3, <1>4, <1>5, <1>6 DEF CountersInv

LEMMA ReceiveErrStep ==
  ASSUME IInv, NEW c \in Chunks, ReceiveErr(c)
  PROVE  IInv'
<1> USE DEF IInv
<1>1. pc[c] = "send" /\ Goto(c, "release") /\ errs' = errs \cup {c}
  BY DEF ReceiveErr
<1>2. "release" \in Phases
  BY DEF Phases
<1>3. MainInv' /\ ChunksInv' /\ numChunks' = Cardinality(Started')
  BY <1>1, <1>2, WorkerMove DEF ReceiveErr
<1>4. TypeOK'
  BY <1>1, <1>2, PhaseMove DEF TypeOK, ReceiveErr
<1>5. sem' = Cardinality(Holding') /\ wg' = Cardinality(Counted')
  BY <1>1, <1>2, PhaseCount DEF Holding, Counted, ReceiveErr, CountersInv
<1>6. OutcomeInv' /\ FailuresInv'
  <2>1. InPhase({"send"})' = InPhase({"send"}) \ {c} /\ c \in InPhase({"send"})
    BY <1>1, <1>2, PhaseMove DEF InPhase
  <2>2. InPhase({"release", "signal", "done"})' =
          InPhase({"release", "signal", "done"}) \cup {c}
    BY <1>1, <1>2, PhaseMove
  <2>3. failed' = InPhase({"send"})' \cup errs'
    BY <1>1, <2>1 DEF OutcomeInv, ReceiveErr
  <2>4. c \in failed
    BY <2>1 DEF OutcomeInv
  <2>5. Merged' = Merged
    BY <2>2, <2>4 DEF Merged, ReceiveErr
  <2> QED
    BY <1>1, <2>2, <2>3, <2>5 DEF OutcomeInv, FailuresInv, ReceiveErr
<1> QED
  BY <1>3, <1>4, <1>5, <1>6 DEF CountersInv

LEMMA ReleaseSemaphoreStep ==
  ASSUME IInv, NEW c \in Chunks, ReleaseSemaphore(c)
  PROVE  IInv'
<1> USE DEF IInv
<1>1. pc[c] = "release" /\ Goto(c, "signal") /\ sem' = sem - 1
  BY DEF ReleaseSemaphore
<1>2. "signal" \in Phases
  BY DEF Phases
<1>3. MainInv' /\ ChunksInv' /\ numChunks' = Cardinality(Started')
  BY <1>1, <1>2, WorkerMove DEF ReleaseSemaphore
<1>4. sem' = Cardinality(Holding') /\ wg' = Cardinality(Counted')
  BY <1>1, <1>2, PhaseCount DEF Holding, Counted, ReleaseSemaphore, CountersInv
<1>5. TypeOK'
  <2>1. Holding' \in SUBSET Chunks
    BY DEF Holding, InPhase
  <2>2. sem' \in Nat
    BY <1>4, <2>1, ChunksFinite
  <2>3. sem' \in 0..MaxWorkers
    BY <1>1, <2>2, WorkersAssumption DEF TypeOK
  <2> QED
    BY <1>1, <1>2, <2>3, PhaseMove DEF TypeOK, ReleaseSemaphore
<1>6. OutcomeInv' /\ FailuresInv'
  <2>1. InPhase({"send"})' = InPhase({"send"})
    BY <1>1, <1>2, PhaseMove DEF InPhase
  <2>2. InPhase({"release", "signal", "done"})' = InPhase({"release", "signal", "done"})
    BY <1>1, <1>2, PhaseMove DEF InPhase
  <2>3. Merged' = Merged
    BY <2>2 DEF Merged, ReleaseSemaphore
  <2> QED
    BY <2>1, <2>2, <2>3 DEF OutcomeInv, FailuresInv, ReleaseSemaphore
<1> QED
  BY <1>3, <1>4, <1>5, <1>6 DEF CountersInv

LEMMA WgDoneStep ==
  ASSUME IInv, NEW c \in Chunks, WgDone(c)
  PROVE  IInv'
<1> USE DEF IInv
<1>1. pc[c] = "signal" /\ Goto(c, "done") /\ wg' = wg - 1
  BY DEF WgDone
<1>2. "done" \in Phases
  BY DEF Phases
<1>3. MainInv' /\ ChunksInv' /\ numChunks' = Cardinality(Started')
  BY <1>1, <1>2, WorkerMove DEF WgDone
<1>4. sem' = Cardinality(Holding') /\ wg' = Cardinality(Counted')
  BY <1>1, <1>2, PhaseCount DEF Holding, Counted, WgDone, CountersInv
<1>5. TypeOK'
  <2>1. Counted' \in SUBSET Chunks
    BY DEF Counted, InPhase
  <2>2. wg' \in Nat
    BY <1>4, <2>1, ChunksFinite
  <2> QED
    BY <1>1, <1>2, <2>2, PhaseMove DEF TypeOK, WgDone
<1>6. OutcomeInv' /\ FailuresInv'
  <2>1. InPhase({"send"})' = InPhase({"send"})
    BY <1>1, <1>2, PhaseMove DEF InPhase
  <2>2. InPhase({"release", "signal", "done"})' = InPhase({"release", "signal", "done"})
    BY <1>1, <1>2, PhaseMove DEF InPhase
  <2>3. Merged' = Merged
    BY <2>2 DEF Merged, WgDone
  <2> QED
    BY <2>1, <2>2, <2>3 DEF OutcomeInv, FailuresInv, WgDone
<1> QED
  BY <1>3, <1>4, <1>5, <1>6 DEF CountersInv

------------------------------------------------------------------------------
\* The invariant is inductive, so it holds in every reachable state.
THEOREM Inductive == Spec => []IInv
<1>1. IInv /\ [Next]_vars => IInv'
  <2> SUFFICES ASSUME IInv, [Next]_vars PROVE IInv'
    OBVIOUS
  <2>1. ASSUME NEW c \in Chunks, Submit(c) PROVE IInv'
    BY <2>1, SubmitStep
  <2>2. ASSUME NEW c \in Chunks, Acquire(c) PROVE IInv'
    BY <2>2, AcquireStep
  <2>3. ASSUME NEW c \in Chunks, ReceiveErr(c) PROVE IInv'
    BY <2>3, ReceiveErrStep
  <2>4. CASE StartCollecting
    BY <2>4, StartCollectingStep
  <2>5. CASE Return \/ CloseWait
    BY <2>5, ReturnStep
  <2>6. ASSUME NEW c \in Chunks, Worker(c) PROVE IInv'
    BY <2>6, SucceedStep, FailStep, MergeStep, ReleaseSemaphoreStep, WgDoneStep DEF Worker
  <2>7. CASE UNCHANGED vars
    BY <2>7 DEF vars, IInv, TypeOK, CountersInv, MainInv, ChunksInv, OutcomeInv,
       FailuresInv, Holding, Counted, Started, Queued, Merged, Remaining, InPhase
  <2> QED
    BY <2>1, <2>2, <2>3, <2>4, <2>5, <2>6, <2>7 DEF Next, Caller, Finished
<1> QED
  BY InitIInv, <1>1, PTL DEF Spec

------------------------------------------------------------------------------
(* What the invariant gives.                                               *)

\* Every variable keeps its type; in particular the semaphore never holds
\* more than maxWorkers tokens and the wait group never goes negative (Go
\* would panic).
THEOREM TypeCorrect == Spec => []TypeOK
<1>1. IInv => TypeOK
  BY DEF IInv
<1> QED
  BY Inductive, <1>1, PTL

\* The throttle bounds the goroutines that process, report or merge.
THEOREM WorkersAreBounded == Spec => []WorkersBounded
<1>1. IInv => WorkersBounded
  BY WorkersAssumption DEF IInv, TypeOK, CountersInv, WorkersBounded
<1> QED
  BY Inductive, <1>1, PTL

\* No goroutine survives the call.
THEOREM NoWorkerIsLeft == Spec => []NoStrayWorker
<1>1. IInv => NoStrayWorker
  BY DEF IInv, MainInv, NoStrayWorker
<1> QED
  BY Inductive, <1>1, PTL

\* Closing chWait never overtakes an error.
THEOREM EveryErrorIsReturned == Spec => []NoErrorLost
<1>1. IInv => NoErrorLost
  <2> SUFFICES ASSUME IInv, main = "returned" PROVE errs = failed
    BY DEF NoErrorLost
  <2>1. InPhase({"send"}) = {}
    BY DEF IInv, MainInv, InPhase
  <2> QED
    BY <2>1 DEF IInv, OutcomeInv
<1> QED
  BY Inductive, <1>1, PTL

LEMMA AllDone ==
  ASSUME IInv, chWaitClosed
  PROVE  /\ Started = Processed
         /\ Merged = Processed \ failed
         /\ failed = errs
         /\ UNION Started = Items
<1>1. \A c \in Chunks : pc[c] \in {"idle", "done"}
  BY DEF IInv, MainInv
<1>2. "done" \in Phases
  BY DEF Phases
<1>3. Started = Processed
  BY <1>1, <1>2 DEF Started, Processed, InPhase
<1>4. Merged = Processed \ failed
  BY <1>1 DEF Merged, Processed, InPhase
<1>5. failed = errs
  BY <1>1 DEF IInv, OutcomeInv, InPhase
<1>6. UNION Started \subseteq Items
  BY DEF Started, InPhase, Chunks
<1>7. Items \subseteq UNION Started
  BY DEF IInv, MainInv, Remaining
<1> QED
  BY <1>3, <1>4, <1>5, <1>6, <1>7

\* The result does not depend on the order of the merges.
THEOREM ResultIsComplete == Spec => []ResultComplete
<1>1. IInv => ResultComplete
  <2> SUFFICES ASSUME IInv, main = "returned"
               PROVE  result = UNION { Output(c) : c \in Processed \ failed }
    BY DEF ResultComplete
  <2>1. Merged = Processed \ failed
    BY AllDone DEF IInv, MainInv
  <2> QED
    BY <2>1 DEF IInv, OutcomeInv
<1> QED
  BY Inductive, <1>1, PTL

\* The chunks are a partition of the items.
THEOREM ItemsArePartitioned == Spec => []EveryItemOnce
<1>1. IInv => EveryItemOnce
  BY AllDone DEF IInv, ChunksInv, MainInv, EveryItemOnce
<1> QED
  BY Inductive, <1>1, PTL

\* What the caller gets is exact: errors, entries and items.
THEOREM AnswerIsRight == Spec => []AnswerIsExact
<1>1. NoErrorLost /\ ResultComplete /\ EveryItemOnce => AnswerIsExact
  BY DEF AnswerIsExact
<1> QED
  BY EveryErrorIsReturned, ResultIsComplete, ItemsArePartitioned, <1>1, PTL

\* The call cannot get stuck while fewer batches can fail than there are
\* workers: if the caller waits for a token, some holder is not blocked on
\* chErr and will give its token back.
THEOREM NeverStuck == Spec => []NoDeadlock
<1>1. IInv => NoDeadlock
  <2> SUFFICES ASSUME IInv, MaxFailures < MaxWorkers PROVE CanStep
    BY DEF NoDeadlock
  <2> USE DEF IInv
  <2>1. CASE main = "returned"
    BY <2>1 DEF CanStep
  <2>2. CASE main = "split" /\ Queued = {}
    BY <2>2 DEF CanStep
  <2>3. CASE main = "split" /\ Queued # {}
    <3>1. PICK q \in Chunks : pc[q] = "queued"
      BY <2>3 DEF Queued, InPhase
    <3>2. CASE sem < MaxWorkers
      BY <3>1, <3>2 DEF CanStep
    <3>3. CASE ~(sem < MaxWorkers)
      <4>1. Cardinality(Holding) > Cardinality(failed)
        <5>1. Cardinality(failed) \in Nat
          BY ChunksFinite DEF TypeOK
        <5>2. sem = MaxWorkers
          BY <3>3, WorkersAssumption DEF TypeOK
        <5> QED
          BY <5>1, <5>2, WorkersAssumption, FailuresAssumption DEF CountersInv, FailuresInv
      <4>2. ~(Holding \subseteq failed)
        <5>1. IsFiniteSet(failed) /\ Cardinality(failed) \in Nat
          BY ChunksFinite DEF TypeOK
        <5>2. Holding \in SUBSET Chunks
          BY DEF Holding, InPhase
        <5>3. Cardinality(Holding) \in Nat
          BY <5>2, ChunksFinite
        <5> QED
          BY <4>1, <5>1, <5>3, FS_Subset
      <4>3. PICK c \in Holding : c \notin failed
        BY <4>2
      <4>4. c \in Chunks /\ pc[c] \in {"run", "merge", "release"}
        BY <4>3 DEF Holding, InPhase, OutcomeInv
      <4> QED
        BY <4>4 DEF CanStep
    <3> QED
      BY <3>2, <3>3
  <2>4. CASE main = "collect"
    <3>1. CASE wg = 0
      BY <2>4, <3>1 DEF CanStep
    <3>2. CASE wg # 0
      <4>1. Counted # {}
        BY <3>2, FS_EmptySet DEF CountersInv
      <4>2. PICK c \in Chunks :
              pc[c] \in {"queued", "run", "send", "merge", "release", "signal"}
        BY <4>1 DEF Counted, InPhase
      <4>3. pc[c] # "queued"
        BY <2>4, <4>2 DEF MainInv, Queued, InPhase
      <4> QED
        BY <2>4, <4>2, <4>3 DEF CanStep
    <3> QED
      BY <3>1, <3>2
  <2> QED
    BY <2>1, <2>2, <2>3, <2>4 DEF TypeOK
<1> QED
  BY Inductive, <1>1, PTL

------------------------------------------------------------------------------
(* Every step counts.                                                      *)

\* What is counted is counted in numbers.
LEMMA CountsAreNumbers ==
  ASSUME IInv
  PROVE  /\ IsFiniteSet(Remaining) /\ Cardinality(Remaining) \in Nat
         /\ GoroutineSteps \in Nat /\ CallerSteps \in Nat
<1>1. IsFiniteSet(Remaining) /\ Cardinality(Remaining) \in Nat
  BY ItemsAssumption, FS_Subset, FS_CardinalityType DEF Remaining
<1>2. \A S : Cardinality(InPhase(S)) \in Nat
  BY ChunksFinite DEF InPhase
<1>3. GoroutineSteps \in Nat
  BY <1>2 DEF GoroutineSteps, Counted
<1>4. CallerSteps \in Nat
  BY DEF IInv, TypeOK, CallerSteps
<1> QED
  BY <1>1, <1>3, <1>4

\* A chunk that goes from one phase to the next has one step less to go, and
\* five from the queue on.
LEMMA PhasesCount ==
  ASSUME IInv, NEW c \in Chunks, NEW p \in Phases, Goto(c, p)
  PROVE  /\ pc[c] = "idle" /\ p = "queued" => GoroutineSteps' = GoroutineSteps + 5
         /\ <<pc[c], p>> \in {<<"queued", "run">>, <<"run", "send">>, <<"run", "merge">>,
                              <<"send", "release">>, <<"merge", "release">>,
                              <<"release", "signal">>, <<"signal", "done">>} =>
              GoroutineSteps' = GoroutineSteps - 1 /\ Remaining' = Remaining
<1> DEFINE A == InPhase({"queued"})
           B == InPhase({"queued", "run"})
           C == InPhase({"queued", "run", "send", "merge"})
           D == InPhase({"queued", "run", "send", "merge", "release"})
<1>1. TypeOK
  BY DEF IInv
<1>2. /\ Cardinality(A) \in Nat
      /\ Cardinality(A') = Cardinality(A) + (IF p = "queued" THEN 1 ELSE 0)
                                          - (IF pc[c] = "queued" THEN 1 ELSE 0)
  BY <1>1, PhaseCount
<1>3. /\ Cardinality(B) \in Nat
      /\ Cardinality(B') = Cardinality(B) + (IF p \in {"queued", "run"} THEN 1 ELSE 0)
                                          - (IF pc[c] \in {"queued", "run"} THEN 1 ELSE 0)
  BY <1>1, PhaseCount
<1>4. /\ Cardinality(C) \in Nat
      /\ Cardinality(C') = Cardinality(C)
           + (IF p \in {"queued", "run", "send", "merge"} THEN 1 ELSE 0)
           - (IF pc[c] \in {"queued", "run", "send", "merge"} THEN 1 ELSE 0)
  BY <1>1, PhaseCount
<1>5. /\ Cardinality(D) \in Nat
      /\ Cardinality(D') = Cardinality(D)
           + (IF p \in {"queued", "run", "send", "merge", "release"} THEN 1 ELSE 0)
           - (IF pc[c] \in {"queued", "run", "send", "merge", "release"} THEN 1 ELSE 0)
  BY <1>1, PhaseCount
<1>6. /\ Cardinality(Counted) \in Nat
      /\ Cardinality(Counted') = Cardinality(Counted)
           + (IF p \in {"queued", "run", "send", "merge", "release", "signal"} THEN 1 ELSE 0)
           - (IF pc[c] \in {"queued", "run", "send", "merge", "release", "signal"} THEN 1 ELSE 0)
  BY <1>1, PhaseCount DEF Counted
<1>7. /\ GoroutineSteps = Cardinality(A) + Cardinality(B) + Cardinality(C) + Cardinality(D) + Cardinality(Counted)
      /\ GoroutineSteps' = Cardinality(A') + Cardinality(B') + Cardinality(C') + Cardinality(D')
                           + Cardinality(Counted')
  BY DEF GoroutineSteps
<1>8. pc[c] # "idle" /\ p # "idle" => Remaining' = Remaining
  <2>1. pc[c] # "idle" /\ p # "idle" => Started' = Started \cup {c} /\ c \in Started
    BY <1>1, PhaseMove DEF Started, InPhase, TypeOK
  <2>2. pc[c] # "idle" /\ p # "idle" => Started' = Started
    BY <2>1
  <2> QED
    BY <2>2 DEF Remaining
<1> HIDE DEF A, B, C, D
<1> QED
  BY <1>2, <1>3, <1>4, <1>5, <1>6, <1>7, <1>8

\* A chunk takes at least one of the remaining items.
LEMMA SubmitCounts ==
  ASSUME IInv, NEW c \in Chunks, Submit(c)
  PROVE  StepsLeft' \in 0..(StepsLeft - 1)
<1>1. c \subseteq Remaining /\ c # {} /\ Goto(c, "queued") /\ UNCHANGED <<main, chWaitClosed>>
  BY DEF Submit, IsNextChunk, Chunks
<1>2. "queued" \in Phases /\ TypeOK
  BY DEF Phases, IInv
<1>3. pc[c] = "idle"
  <2>1. c \notin Started
    BY <1>1 DEF Remaining
  <2> QED
    BY <1>2, <2>1 DEF Started, InPhase, TypeOK, Phases
<1>4. GoroutineSteps' = GoroutineSteps + 5
  BY <1>1, <1>2, <1>3, PhasesCount
<1>5. CallerSteps' = CallerSteps
  BY <1>1 DEF CallerSteps
<1>6. Remaining' \subseteq Remaining \ c
  <2>1. Started' = Started \cup {c}
    BY <1>1, <1>2, PhaseMove DEF Started
  <2> QED
    BY <2>1 DEF Remaining
<1>7. Cardinality(Remaining') < Cardinality(Remaining) /\ Cardinality(Remaining') \in Nat
  <2>1. Remaining' \subseteq Remaining /\ Remaining' # Remaining
    BY <1>1, <1>6
  <2>2. IsFiniteSet(Remaining) /\ Cardinality(Remaining) \in Nat
    BY CountsAreNumbers
  <2>3. IsFiniteSet(Remaining') /\ Cardinality(Remaining') <= Cardinality(Remaining)
    BY <2>1, <2>2, FS_Subset
  <2>4. Cardinality(Remaining') = Cardinality(Remaining) => Remaining' = Remaining
    BY <2>1, <2>2, FS_Subset
  <2>5. Cardinality(Remaining') \in Nat
    BY <2>3, FS_CardinalityType
  <2> QED
    BY <2>1, <2>2, <2>3, <2>4, <2>5
<1>8. /\ StepsLeft = 6 * Cardinality(Remaining) + GoroutineSteps + CallerSteps
      /\ StepsLeft' = 6 * Cardinality(Remaining') + GoroutineSteps' + CallerSteps'
  BY DEF StepsLeft
<1> QED
  BY <1>4, <1>5, <1>7, <1>8, CountsAreNumbers

\* A goroutine goes to its next phase.
LEMMA MoveCounts ==
  ASSUME IInv, NEW c \in Chunks,
         Acquire(c) \/ ReceiveErr(c) \/ Worker(c)
  PROVE  StepsLeft' \in 0..(StepsLeft - 1)
<1>1. PICK p \in Phases :
        /\ Goto(c, p)
        /\ <<pc[c], p>> \in {<<"queued", "run">>, <<"run", "send">>, <<"run", "merge">>,
                             <<"send", "release">>, <<"merge", "release">>,
                             <<"release", "signal">>, <<"signal", "done">>}
  BY DEF Acquire, ReceiveErr, Worker, Succeed, Fail, Merge, ReleaseSemaphore, WgDone, Phases
<1>2. GoroutineSteps' = GoroutineSteps - 1 /\ Remaining' = Remaining
  BY <1>1, PhasesCount
<1>3. UNCHANGED <<main, chWaitClosed>>
  BY DEF Acquire, ReceiveErr, Worker, Succeed, Fail, Merge, ReleaseSemaphore, WgDone
<1>4. CallerSteps' = CallerSteps
  BY <1>3 DEF CallerSteps
<1>5. GoroutineSteps - 1 \in Nat
  <2>1. pc[c] \in {"queued", "run", "send", "merge", "release", "signal"}
    BY <1>1
  <2>2. c \in Counted
    BY <2>1 DEF Counted, InPhase
  <2>3. \A S : InPhase(S) \in SUBSET Chunks
    BY DEF InPhase
  <2>4. \A S : IsFiniteSet(InPhase(S)) /\ Cardinality(InPhase(S)) \in Nat
    BY <2>3, ChunksFinite
  <2>5. Cardinality(Counted) # 0 /\ Cardinality(Counted) \in Nat
    BY <2>2, <2>4, FS_EmptySet DEF Counted
  <2> QED
    BY <2>4, <2>5 DEF GoroutineSteps
<1>6. /\ StepsLeft = 6 * Cardinality(Remaining) + GoroutineSteps + CallerSteps
      /\ StepsLeft' = 6 * Cardinality(Remaining) + (GoroutineSteps - 1) + CallerSteps
  BY <1>2, <1>4 DEF StepsLeft
<1> QED
  BY <1>5, <1>6, CountsAreNumbers

\* The caller goes on, or the waiter closes chWait.
LEMMA CallerCounts ==
  ASSUME IInv, StartCollecting \/ Return \/ CloseWait
  PROVE  StepsLeft' \in 0..(StepsLeft - 1)
<1>1. UNCHANGED pc
  BY DEF StartCollecting, Return, CloseWait
<1>2. GoroutineSteps' = GoroutineSteps /\ Remaining' = Remaining
  BY <1>1 DEF GoroutineSteps, Counted, InPhase, Remaining, Started
<1>3. CallerSteps' = CallerSteps - 1 /\ CallerSteps - 1 \in Nat
  BY DEF StartCollecting, Return, CloseWait, CallerSteps, IInv, TypeOK
<1>4. /\ StepsLeft = 6 * Cardinality(Remaining) + GoroutineSteps + CallerSteps
      /\ StepsLeft' = 6 * Cardinality(Remaining) + GoroutineSteps + (CallerSteps - 1)
  BY <1>2, <1>3 DEF StepsLeft
<1> QED
  BY <1>3, <1>4, CountsAreNumbers

\* processInConcurrentBatches makes six steps per item at most, and three more:
\* together with NeverStuck, a call of which fewer batches fail than there are
\* workers comes to its end whichever goroutine the scheduler picks, as long as
\* it picks one that can go on.
THEOREM CallsComeToAnEnd == Spec => StepsRunOut
<1>1. IInv /\ [Next]_vars => [StepsLeft' \in 0..(StepsLeft - 1)]_vars
  <2> SUFFICES ASSUME IInv, Next PROVE StepsLeft' \in 0..(StepsLeft - 1) \/ UNCHANGED vars
    OBVIOUS
  <2>1. CASE \E c \in Chunks : Submit(c)
    BY <2>1, SubmitCounts
  <2>2. CASE \E c \in Chunks : Acquire(c) \/ ReceiveErr(c) \/ Worker(c)
    BY <2>2, MoveCounts
  <2>3. CASE StartCollecting \/ Return \/ CloseWait
    BY <2>3, CallerCounts
  <2>4. CASE UNCHANGED vars
    BY <2>4
  <2> QED
    BY <2>1, <2>2, <2>3, <2>4 DEF Next, Caller, Finished
<1> QED
  BY Inductive, <1>1, PTL DEF Spec, StepsRunOut

------------------------------------------------------------------------------
(* Refinement.                                                             *)

\* The instance has its own copy of FiniteSets.
LEMMA SameCardinality == \A S : Abstract!Cardinality(S) = Cardinality(S)
  BY DEF Abstract!Cardinality, Cardinality

\* A step that moves chunk c within, or outside, the processed phases and
\* neither returns nor fails a chunk is invisible to the abstract call.
LEMMA Invisible ==
  ASSUME IInv, NEW c \in Chunks, NEW p \in Phases, Goto(c, p), failed' = failed,
         LET P == {"send", "merge", "release", "signal", "done"}
         IN  pc[c] \in P <=> p \in P
  PROVE  Processed' = Processed
<1>1. TypeOK
  BY DEF IInv
<1> QED
  BY <1>1, PhaseMove DEF Processed, InPhase

\* Every interleaving of the goroutines is a behaviour of the abstract call.
THEOREM Refinement == Spec => ImplementsBatchProcessing
<1>1. Init => Abstract!Init
  <2> SUFFICES ASSUME Init PROVE Abstract!Init
    OBVIOUS
  <2>1. Processed = {}
    BY DEF Init, Processed, InPhase
  <2> QED
    BY <2>1 DEF Init, Abstract!Init, Abstract!NoAnswer
<1>2. IInv /\ [Next]_vars =>
        [Abstract!Next]_<<Processed, failed,
           IF main = "returned"
           THEN [ status |-> "returned", numChunks |-> numChunks,
                  result |-> result, errs |-> errs ]
           ELSE [status |-> "none"]>>
  <2> DEFINE answer == IF main = "returned"
                       THEN [ status |-> "returned", numChunks |-> numChunks,
                              result |-> result, errs |-> errs ]
                       ELSE [status |-> "none"]
             Stutter == UNCHANGED <<Processed, failed, answer>>
  <2> SUFFICES ASSUME IInv, [Next]_vars
               PROVE  Abstract!Next \/ Stutter
    OBVIOUS
  <2>0. /\ "idle" \in Phases /\ "queued" \in Phases /\ "run" \in Phases
        /\ "send" \in Phases /\ "merge" \in Phases /\ "release" \in Phases
        /\ "signal" \in Phases /\ "done" \in Phases
    BY DEF Phases
  <2>1. ASSUME NEW c \in Chunks, Submit(c) PROVE Stutter
    <3>1. pc[c] = "idle"
      <4>1. c \notin Started
        BY <2>1 DEF Submit, IsNextChunk, Remaining, Chunks
      <4> QED
        BY <4>1 DEF Started, InPhase, IInv, TypeOK, Phases
    <3>2. Processed' = Processed
      BY <2>1, <2>0, <3>1, Invisible DEF Submit
    <3> QED
      BY <2>1, <3>2 DEF Submit
  <2>2. ASSUME NEW c \in Chunks, Acquire(c) PROVE Stutter
    <3>1. Processed' = Processed
      BY <2>2, <2>0, Invisible DEF Acquire
    <3>2. main # "returned"
      BY <2>2 DEF Acquire, IInv, MainInv, Queued, InPhase
    <3> QED
      BY <2>2, <3>1, <3>2 DEF Acquire
  <2>3. ASSUME NEW c \in Chunks, ReceiveErr(c) PROVE Stutter
    <3>1. Processed' = Processed
      BY <2>3, <2>0, Invisible DEF ReceiveErr
    <3> QED
      BY <2>3, <3>1 DEF ReceiveErr
  <2>4. CASE StartCollecting
    BY <2>4 DEF StartCollecting, Processed, InPhase
  <2>5. CASE CloseWait
    BY <2>5 DEF CloseWait, Processed, InPhase
  <2>6. CASE Return
    <3>1. /\ numChunks = Cardinality(Processed) /\ UNION Processed = Items
          /\ result = UNION { Output(c) : c \in Processed \ failed }
          /\ errs = failed
      BY <2>6, AllDone DEF Return, IInv, CountersInv, OutcomeInv
    <3>2. Processed' = Processed
      BY <2>6 DEF Return, Processed, InPhase
    <3>3. \A c : Abstract!Output(c) = Output(c)
      BY DEF Abstract!Output, Output
    <3>4. { Abstract!Output(c) : c \in Processed \ failed } =
            { Output(c) : c \in Processed \ failed }
      BY <3>3
    <3>5. answer' = Abstract!Answer(Processed, failed)
      BY <2>6, <3>1, <3>4, SameCardinality DEF Return, Abstract!Answer
    <3>6. Abstract!Return
      BY <2>6, <3>1, <3>2, <3>5 DEF Return, Abstract!Return, Abstract!NoAnswer
    <3> QED
      BY <3>6 DEF Abstract!Next
  <2>7. ASSUME NEW c \in Chunks, Succeed(c) \/ Fail(c) PROVE Abstract!Next
    <3>1. pc[c] = "run"
      BY <2>7 DEF Succeed, Fail
    <3>2. PICK p \in {"send", "merge"} : Goto(c, p) /\ (p = "send" <=> failed' # failed \/ Fail(c))
      BY <2>7 DEF Succeed, Fail
    <3>3. Processed' = Processed \cup {c}
      BY <2>0, <3>2, PhaseMove DEF Processed, IInv
    <3>4. main # "returned" /\ main' = main
      BY <2>7, <3>1 DEF IInv, MainInv, Succeed, Fail
    <3>5. c \in Started /\ c \notin Processed
      BY <3>1, <2>0 DEF Started, Processed, InPhase
    <3>6. Processed \subseteq Started
      BY <2>0 DEF Started, Processed, InPhase
    <3>7. \A d \in Processed : c \cap d = {}
      BY <3>5, <3>6 DEF IInv, ChunksInv
    <3>8. BatchSize # 0 => Cardinality(c) <= BatchSize
      BY <3>5 DEF IInv, ChunksInv
    <3>9. c \in SUBSET Items /\ c # {}
      BY DEF Chunks
    <3>10. CASE Succeed(c)
      <4>1. failed' = failed
        BY <3>10 DEF Succeed
      <4>2. Abstract!Process(c, TRUE)
        BY <3>3, <3>4, <3>7, <3>8, <3>9, <4>1, SameCardinality
          DEF Abstract!Process, Abstract!NoAnswer
      <4> QED
        BY <3>9, <4>2 DEF Abstract!Next
    <3>11. CASE Fail(c)
      <4>1. failed' = failed \cup {c}
        BY <3>11 DEF Fail
      <4>2. Abstract!Process(c, FALSE)
        BY <3>3, <3>4, <3>7, <3>8, <3>9, <4>1, SameCardinality
          DEF Abstract!Process, Abstract!NoAnswer
      <4> QED
        BY <3>9, <4>2 DEF Abstract!Next
    <3> QED
      BY <2>7, <3>10, <3>11
  <2>8. ASSUME NEW c \in Chunks, Merge(c) \/ ReleaseSemaphore(c) \/ WgDone(c)
        PROVE  Stutter
    <3>1. main # "returned" /\ main' = main /\ failed' = failed
      BY <2>8 DEF IInv, MainInv, Merge, ReleaseSemaphore, WgDone
    <3>2. Processed' = Processed
      <4>1. CASE Merge(c)
        BY <4>1, <2>0, Invisible DEF Merge
      <4>2. CASE ReleaseSemaphore(c)
        BY <4>2, <2>0, Invisible DEF ReleaseSemaphore
      <4>3. CASE WgDone(c)
        BY <4>3, <2>0, Invisible DEF WgDone
      <4> QED
        BY <2>8, <4>1, <4>2, <4>3
    <3> QED
      BY <3>1, <3>2
  <2>9. CASE UNCHANGED vars
    BY <2>9 DEF vars, Processed, InPhase
  <2> QED
    BY <2>1, <2>2, <2>3, <2>4, <2>5, <2>6, <2>7, <2>8, <2>9
       DEF Next, Caller, Worker, Finished
<1> QED
  BY Inductive, <1>1, <1>2, PTL DEF Spec, ImplementsBatchProcessing, Abstract!Spec
==============================================================================
