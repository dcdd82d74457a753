--------------------------- MODULE BatchProcessing ---------------------------
(***************************************************************************)
(* What a call of processInConcurrentBatches (neptune/utils.go) promises   *)
(* its caller, with no goroutine, channel or semaphore in sight: the items *)
(* are cut into chunks of at most BatchSize, every item is in exactly one  *)
(* chunk, every chunk is processed once, and the answer carries the number *)
(* of chunks, the aggregated results of the chunks that succeeded and the  *)
(* errors of exactly those that failed.                                    *)
(***************************************************************************)
EXTENDS Integers, FiniteSets

CONSTANTS Items,     \* the items of the call
          BatchSize, \* items per chunk; 0 puts everything in one chunk
          Yield      \* Yield[i]: the result entries processing item i adds

VARIABLES processed, \* the chunks processed so far
          failed,    \* those of them whose processing returned an error
          answer     \* what the call has returned, NoAnswer before

NoAnswer == [status |-> "none"]

\* The result entries of a chunk.
Output(c) == UNION { Yield[i] : i \in c }

Answer(chunks, bad) ==
  [ status    |-> "returned",
    numChunks |-> Cardinality(chunks),
    result    |-> UNION { Output(c) : c \in chunks \ bad },
    errs      |-> bad ]

Init ==
  /\ processed = {}
  /\ failed = {}
  /\ answer = NoAnswer

Process(c, ok) ==
  /\ answer = NoAnswer
  /\ c # {}
  /\ BatchSize # 0 => Cardinality(c) <= BatchSize
  /\ \A d \in processed : c \cap d = {}
  /\ processed' = processed \cup {c}
  /\ failed' = IF ok THEN failed ELSE failed \cup {c}
  /\ UNCHANGED answer

Return ==
  /\ answer = NoAnswer
  /\ UNION processed = Items
  /\ answer' = Answer(processed, failed)
  /\ UNCHANGED <<processed, failed>>

Next ==
  \/ \E c \in SUBSET Items, ok \in BOOLEAN : Process(c, ok)
  \/ Return

Spec == Init /\ [][Next]_<<processed, failed, answer>>
==============================================================================
