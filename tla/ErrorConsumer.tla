---------------------------- MODULE ErrorConsumer ----------------------------
(***************************************************************************)
(* graph.ErrorConsumer (graph/error_consumer.go): a goroutine that drains  *)
(* the error channel of a graph database until Close stops it.  Producers  *)
(* are the goroutines of the connection pool that report errors, closers   *)
(* the goroutines of the application that call Close, each of them once.   *)
(***************************************************************************)
CONSTANTS Producers,
          Closers,
          Serialised \* TRUE: the application makes one Close call at a time

ASSUME SerialisedAssumption == Serialised \in BOOLEAN

VARIABLES
  closing,  \* channel closing has been closed
  closed,   \* channel closed has been closed
  consumer, \* position of the consuming goroutine
  sender,   \* sender[p]: what producer p does
  closer,   \* closer[k]: position of k in Close, or what its call returned
  ctxDone   \* ctxDone[k]: the context k passes to Close is done

vars == <<closing, closed, consumer, sender, closer, ctxDone>>

Init ==
  /\ closing = FALSE
  /\ closed = FALSE
  /\ consumer = "select"
  /\ sender = [p \in Producers |-> "working"]
  /\ closer = [k \in Closers |-> "idle"]
  /\ ctxDone = [k \in Closers |-> FALSE]

Inside == { k \in Closers : closer[k] \in {"entered", "closing", "waiting"} }

------------------------------------------------------------------------------
(* The producers and the consumer.  The error channel is unbuffered.       *)

Report(p) ==
  /\ sender[p] = "working"
  /\ sender' = [sender EXCEPT ![p] = "sending"]
  /\ UNCHANGED <<closing, closed, consumer, closer, ctxDone>>

\* case err := <-errors
Receive(p) ==
  /\ consumer = "select"
  /\ sender[p] = "sending"
  /\ consumer' = "consume"
  /\ sender' = [sender EXCEPT ![p] = "working"]
  /\ UNCHANGED <<closing, closed, closer, ctxDone>>

ConsumeOnce ==
  /\ consumer = "consume"
  /\ consumer' = "leaving"
  /\ UNCHANGED <<closing, closed, sender, closer, ctxDone>>

Consume_noDefer ==
  /\ consumer = "consume"
  /\ consumer' = "gone"
  /\ UNCHANGED <<closing, closed, sender, closer, ctxDone>>

Consume ==
  /\ consumer = "consume"
  /\ consumer' = "select"
  /\ UNCHANGED <<closing, closed, sender, closer, ctxDone>>

\* case <-c.closing
Leave_never ==
  /\ consumer = "select"
  /\ closing
  /\ \A p \in Producers : sender[p] # "sending"
  /\ consumer' = "leaving"
  /\ UNCHANGED <<closing, closed, sender, closer, ctxDone>>

Leave ==
  /\ consumer = "select"
  /\ closing
  /\ consumer' = "leaving"
  /\ UNCHANGED <<closing, closed, sender, closer, ctxDone>>

\* The deferred close(c.closed).
Exit ==
  /\ consumer = "leaving"
  /\ consumer' = "exited"
  /\ closed' = TRUE
  /\ UNCHANGED <<closing, sender, closer, ctxDone>>

------------------------------------------------------------------------------
(* Close.                                                                  *)

Move(k, where) == closer' = [closer EXCEPT ![k] = where]

Call(k) ==
  /\ closer[k] = "idle"
  /\ Serialised => Inside = {}
  /\ Move(k, "entered")
  /\ UNCHANGED <<closing, closed, consumer, sender, ctxDone>>

\* The first select: it looks at closing in one step, and closes it in
\* another.
Test_always(k) ==
  /\ closer[k] = "entered"
  /\ Move(k, "closing")
  /\ UNCHANGED <<closing, closed, consumer, sender, ctxDone>>

Test(k) ==
  /\ closer[k] = "entered"
  /\ Move(k, IF closing THEN "nil" ELSE "closing")
  /\ UNCHANGED <<closing, closed, consumer, sender, ctxDone>>

\* close(c.closing): closing a closed channel panics.
CloseClosing_noWait(k) ==
  /\ closer[k] = "closing"
  /\ closing' = TRUE
  /\ Move(k, IF closing THEN "panic" ELSE "nilWaited")
  /\ UNCHANGED <<closed, consumer, sender, ctxDone>>

CloseClosing(k) ==
  /\ closer[k] = "closing"
  /\ closing' = TRUE
  /\ Move(k, IF closing THEN "panic" ELSE "waiting")
  /\ UNCHANGED <<closed, consumer, sender, ctxDone>>

\* The second select; "nilWaited" is a nil returned by it.
WaitClosed(k) ==
  /\ closer[k] = "waiting"
  /\ closed
  /\ Move(k, "nilWaited")
  /\ UNCHANGED <<closing, closed, consumer, sender, ctxDone>>

WaitCtx(k) ==
  /\ closer[k] = "waiting"
  /\ ctxDone[k]
  /\ Move(k, "ErrContextDone")
  /\ UNCHANGED <<closing, closed, consumer, sender, ctxDone>>

CtxDone(k) ==
  /\ ~ctxDone[k]
  /\ ctxDone' = [ctxDone EXCEPT ![k] = TRUE]
  /\ UNCHANGED <<closing, closed, consumer, sender, closer>>

------------------------------------------------------------------------------
Panicked == \E k \in Closers : closer[k] = "panic"

Consumer == (\E p \in Producers : Receive(p)) \/ Consume \/ Leave \/ Exit

Closer(k) == Test(k) \/ CloseClosing(k) \/ WaitClosed(k) \/ WaitCtx(k)

\* An unrecovered panic ends the process.
Next ==
  \/ ~Panicked /\ Consumer
  \/ ~Panicked /\ \E p \in Producers : Report(p)
  \/ ~Panicked /\ \E k \in Closers : Closer(k) \/ Call(k) \/ CtxDone(k)
  \/ (consumer = "exited" \/ Panicked) /\ UNCHANGED vars

Spec == Init /\ [][Next]_vars

\* Goroutines that can run do run.  The select in the consumer picks among
\* the ready cases at random: a case that is ready again and again is taken
\* eventually, and so is a producer waiting in the queue of the channel.
FairSpec ==
  /\ Spec
  /\ WF_vars(Consume) /\ WF_vars(Exit)
  /\ SF_vars(Leave)
  /\ \A p \in Producers : SF_vars(Receive(p))
  /\ \A k \in Closers : WF_vars(Closer(k))

------------------------------------------------------------------------------
(* Properties.                                                             *)

\* The channels, the positions of all goroutines and the contexts keep
\* their types.
TypeOK ==
  /\ closing \in BOOLEAN /\ closed \in BOOLEAN
  /\ consumer \in {"select", "consume", "leaving", "exited"}
  /\ sender \in [Producers -> {"working", "sending"}]
  /\ closer \in [Closers -> {"idle", "entered", "closing", "waiting", "nil",
                             "nilWaited", "ErrContextDone", "panic"}]
  /\ ctxDone \in [Closers -> BOOLEAN]

\* "close closing channel, safely return if it is already closed"
\* (error_consumer.go:51).
NoPanic == ~Panicked

\* The Close call that stopped the consumer reports success only when the
\* goroutine has finished, so nothing is consumed after it.
FirstCloseWaits ==
  (\E k \in Closers : closer[k] = "nilWaited") => consumer = "exited"

\* No wake-up is lost: while a Close call waits, the goroutine has finished, or
\* it can go on by itself towards its end, in its select because closing is
\* closed, so that call and goroutine never wait for one another.
WaitIsAnswered ==
  \A k \in Closers : closer[k] = "waiting" =>
    closed \/ consumer \in {"consume", "leaving"} \/ (consumer = "select" /\ closing)

\* Only Close ends the consumer: no reported error does, and until a Close
\* call has begun every error is received.
OnlyCloseStops ==
  consumer \in {"leaving", "exited"} =>
    \E k \in Closers : closer[k] \notin {"idle", "entered", "closing"}

ErrorsAreDrained ==
  \A p \in Producers : sender[p] = "sending" ~> (sender[p] = "working" \/ closing)

\* A Close call ends although errors keep coming and the context may never
\* be done.
CloseReturns ==
  \A k \in Closers : closer[k] = "waiting" ~> closer[k] \in {"nilWaited", "ErrContextDone"}
==============================================================================
