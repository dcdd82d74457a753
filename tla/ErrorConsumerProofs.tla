------------------------- MODULE ErrorConsumerProofs -------------------------
(***************************************************************************)
(* Proofs about ErrorConsumer, for any number of producers and closers.    *)
(***************************************************************************)
EXTENDS ErrorConsumer, TLAPS

------------------------------------------------------------------------------
(* The inductive invariant: closed says that the goroutine has finished,   *)
(* the positions in Close say what has been closed, and calls made one at  *)
(* a time never meet between the test and the closing.                     *)

PositionInv ==
  /\ closed <=> consumer = "exited"
  /\ \A k \in Closers : closer[k] = "nilWaited" => closed
  /\ \A k \in Closers : closer[k] \in {"nil", "waiting", "nilWaited", "ErrContextDone"} => closing
  /\ closing => \E k \in Closers : closer[k] \notin {"idle", "entered", "closing"}
  /\ consumer \in {"leaving", "exited"} => closing

SerialInv ==
  Serialised =>
    /\ \A j, k \in Inside : j = k
    /\ \A k \in Closers : closer[k] = "closing" => ~closing
    /\ \A k \in Closers : closer[k] # "panic"

IInv == TypeOK /\ PositionInv /\ SerialInv

THEOREM InitIInv == Init => IInv
BY DEF Init, IInv, TypeOK, PositionInv, SerialInv, Inside

LEMMA ConsumerStep ==
  ASSUME IInv, Consumer \/ \E p \in Producers : Report(p)
  PROVE  IInv'
<1>1. closer' = closer /\ closing' = closing /\ ctxDone' = ctxDone
  BY DEF Consumer, Receive, Consume, Leave, Exit, Report
<1>2. TypeOK'
  BY <1>1 DEF IInv, TypeOK, Consumer, Receive, Consume, Leave, Exit, Report
<1>3. PositionInv'
  <2>1. closed' <=> consumer' = "exited"
    BY DEF IInv, PositionInv, Consumer, Receive, Consume, Leave, Exit, Report
  <2>2. closed => closed'
    BY DEF Consumer, Receive, Consume, Leave, Exit, Report
  <2>3. consumer' \in {"leaving", "exited"} => closing
    BY DEF IInv, PositionInv, Consumer, Receive, Consume, Leave, Exit, Report
  <2> QED
    BY <1>1, <2>1, <2>2, <2>3 DEF IInv, PositionInv
<1>4. SerialInv'
  BY <1>1 DEF IInv, SerialInv, Inside
<1> QED
  BY <1>2, <1>3, <1>4 DEF IInv

\* A move of k in Close leaves the other closers where they are.
LEMMA CloserMove ==
  ASSUME TypeOK, NEW k \in Closers, NEW where, Move(k, where)
  PROVE  /\ closer'[k] = where
         /\ \A j \in Closers : j # k => closer'[j] = closer[j]
BY DEF TypeOK, Move

LEMMA CloserStep ==
  ASSUME IInv, NEW k \in Closers, Call(k) \/ Closer(k)
  PROVE  IInv'
<1> USE DEF IInv
<1>1. UNCHANGED <<closed, consumer, sender, ctxDone>>
  BY DEF Call, Closer, Test, CloseClosing, WaitClosed, WaitCtx
<1>2. PICK where \in {"entered", "closing", "waiting", "nil", "nilWaited",
                      "ErrContextDone", "panic"} :
        /\ Move(k, where)
        /\ where = "entered" => closer[k] = "idle" /\ (Serialised => Inside = {})
        /\ where # "entered" => closer[k] \in {"entered", "closing", "waiting"}
        /\ where \in {"waiting", "panic"} => closer[k] = "closing" /\ closing' = TRUE
        /\ where \notin {"waiting", "panic"} => closing' = closing
        /\ where = "closing" => ~closing
        /\ where = "panic" => closing
        /\ where = "nil" => closing
        /\ where \in {"nilWaited", "ErrContextDone"} => closer[k] = "waiting"
        /\ where = "nilWaited" => closed
  BY DEF Call, Closer, Test, CloseClosing, WaitClosed, WaitCtx, PositionInv, TypeOK
<1>3. /\ closer'[k] = where
      /\ \A j \in Closers : j # k => closer'[j] = closer[j]
  BY <1>2, CloserMove
<1>4. closing \in BOOLEAN /\ closing' \in BOOLEAN
  BY <1>2 DEF TypeOK
<1>5. TypeOK'
  BY <1>1, <1>2, <1>4 DEF TypeOK, Move
<1>6. PositionInv'
  <2>1. \A j \in Closers : closer'[j] = "nilWaited" => closed'
    BY <1>1, <1>2, <1>3 DEF PositionInv
  <2>2. closing => closing'
    BY <1>2, <1>4
  <2>3. \A j \in Closers :
          closer'[j] \in {"nil", "waiting", "nilWaited", "ErrContextDone"} => closing'
    BY <1>2, <1>3, <2>2 DEF PositionInv
  <2>4. closing' => \E j \in Closers : closer'[j] \notin {"idle", "entered", "closing"}
    <3>1. CASE where \in {"waiting", "panic"}
      BY <1>3, <3>1
    <3>2. CASE where \notin {"waiting", "panic"}
      <4>1. SUFFICES ASSUME closing
                     PROVE  \E j \in Closers : closer'[j] \notin {"idle", "entered", "closing"}
        BY <1>2, <3>2
      <4>2. PICK j \in Closers : closer[j] \notin {"idle", "entered", "closing"}
        BY <4>1 DEF PositionInv
      <4>3. CASE j # k
        BY <1>3, <4>2, <4>3
      <4>4. CASE j = k
        BY <1>2, <1>3, <4>1, <4>2, <4>4
      <4> QED
        BY <4>3, <4>4
    <3> QED
      BY <3>1, <3>2
  <2> QED
    BY <1>1, <2>1, <2>2, <2>3, <2>4 DEF PositionInv
<1>7. SerialInv'
  <2> SUFFICES ASSUME Serialised
               PROVE  /\ \A i, j \in Inside' : i = j
                      /\ \A j \in Closers : closer'[j] = "closing" => ~closing'
                      /\ \A j \in Closers : closer'[j] # "panic"
    BY DEF SerialInv
  <2>1. /\ \A i, j \in Inside : i = j
        /\ \A j \in Closers : closer[j] = "closing" => ~closing
        /\ \A j \in Closers : closer[j] # "panic"
    BY DEF SerialInv
  <2>2. where # "panic"
    BY <1>2, <2>1
  <2>3. \A j \in Closers : j # k => closer[j] \notin {"entered", "closing", "waiting"}
    <3>1. CASE where = "entered"
      BY <1>2, <3>1 DEF Inside
    <3>2. CASE where # "entered"
      BY <1>2, <2>1, <3>2 DEF Inside
    <3> QED
      BY <3>1, <3>2
  <2>4. \A i, j \in Inside' : i = j
    BY <1>3, <2>3 DEF Inside
  <2>5. \A j \in Closers : closer'[j] = "closing" => ~closing'
    BY <1>2, <1>3, <2>3
  <2>6. \A j \in Closers : closer'[j] # "panic"
    BY <1>3, <2>1, <2>2
  <2> QED
    BY <2>4, <2>5, <2>6
<1> QED
  BY <1>5, <1>6, <1>7

THEOREM Inductive == Spec => []IInv
<1>1. IInv /\ [Next]_vars => IInv'
  <2> SUFFICES ASSUME IInv, [Next]_vars PROVE IInv'
    OBVIOUS
  <2>1. ASSUME NEW k \in Closers, CtxDone(k) PROVE IInv'
    BY <2>1 DEF CtxDone, IInv, TypeOK, PositionInv, SerialInv, Inside
  <2>2. CASE UNCHANGED vars
    BY <2>2 DEF vars, IInv, TypeOK, PositionInv, SerialInv, Inside
  <2> QED
    BY <2>1, <2>2, ConsumerStep, CloserStep DEF Next
<1> QED
  BY InitIInv, <1>1, PTL DEF Spec

------------------------------------------------------------------------------
\* The channels, the goroutines' positions and the errors keep their types.
THEOREM TypeCorrect == Spec => []TypeOK
<1>1. IInv => TypeOK
  BY DEF IInv
<1> QED
  BY Inductive, <1>1, PTL

\* Close calls made one at a time never close the channel twice.
THEOREM SerialCloseIsSafe == ASSUME Serialised PROVE Spec => []NoPanic
<1>1. IInv => NoPanic
  BY DEF IInv, SerialInv, NoPanic, Panicked
<1> QED
  BY Inductive, <1>1, PTL

\* The call that stopped the consumer waits for it, also with other calls
\* at the same time.
THEOREM FirstCloseIsSynchronous == Spec => []FirstCloseWaits
<1>1. IInv => FirstCloseWaits
  BY DEF IInv, PositionInv, FirstCloseWaits
<1> QED
  BY Inductive, <1>1, PTL

\* A Close call that waits is answered, or the consumer can go on to answer it:
\* the two never wait for one another, whatever other calls do.
THEOREM CloseIsNeverStuck == Spec => []WaitIsAnswered
<1>1. IInv => WaitIsAnswered
  BY DEF IInv, TypeOK, PositionInv, WaitIsAnswered
<1> QED
  BY Inductive, <1>1, PTL

\* The consumer runs until it is closed.
THEOREM OnlyCloseEnds == Spec => []OnlyCloseStops
<1>1. IInv => OnlyCloseStops
  BY DEF IInv, PositionInv, OnlyCloseStops
<1> QED
  BY Inductive, <1>1, PTL
==============================================================================
