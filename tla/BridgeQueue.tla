---------------------------- MODULE BridgeQueue ----------------------------
(***************************************************************************)
(* The queue bridge (queue.c) around the event queue: dispatch loops and   *)
(* how they are stopped, watermarks, activation, the enqueue callback, and *)
(* the copies of messages that transport.c puts on the queue.              *)
(*                                                                         *)
(* The event queue itself is the FIFO of EventFifo: an event is taken when *)
(* its semaphore is passed, so that Len(queue) is also what getSize reads. *)
(***************************************************************************)
EXTENDS Integers, Sequences, FiniteSets

CONSTANTS Threads,     \* threads that dispatch
          Callers,     \* threads that enqueue
          None,        \* no thread
          MaxSize,     \* events the event queue holds
          MaxCopies    \* bound: copies of messages that exist at a time

ASSUME BridgeQueueAssumption ==
    /\ None \notin Threads
    /\ MaxSize \in Nat
    /\ MaxCopies \in Nat

VARIABLES queue,          \* the events: messages, or other events
          mIsActive, mIsDispatching,
          mDispatchLock,  \* the thread that holds it
          mHighWatermark, mLowWatermark, mHighWaterFired,
          mEnqueueCallback, mEnqueueClosure,  \* 0: NULL, 1: the application's
          use,            \* what each dispatching thread calls
          pc,             \* where it is
          event,          \* the event whose callback it runs
          epc,            \* where each enqueueing thread is
          copies,         \* copies of messages that have not been closed
          life            \* of the queue

lockVars == <<mIsDispatching, mDispatchLock>>
markVars == <<mHighWatermark, mLowWatermark, mHighWaterFired>>
hookVars == <<mEnqueueCallback, mEnqueueClosure, epc>>
vars == <<queue, mIsActive, lockVars, markVars, hookVars, use, pc, event, copies, life>>

\* Threads that call zmqBridgeMamaQueue_dispatch; the others call timedDispatch and
\* dispatchEvent, which dispatch once and take no lock.
Loopers == {d \in Threads : use[d] = "dispatch"}
Pollers == Threads \ Loopers
Full == Len(queue) >= MaxSize

\* zmqBridgeMamaQueue_create
Init ==
    /\ queue = <<>>
    /\ mIsActive = TRUE
    /\ mIsDispatching = FALSE
    /\ mDispatchLock = None
    /\ mHighWatermark = 0 /\ mLowWatermark = 0 /\ mHighWaterFired = FALSE
    /\ mEnqueueCallback = 0 /\ mEnqueueClosure = 0
    /\ use \in [Threads -> {"dispatch", "timedDispatch"}]
    /\ pc = [d \in Threads |-> "idle"]
    /\ event = [d \in Threads |-> "none"]
    /\ epc = [c \in Callers |-> "idle"]
    /\ copies = 0
    /\ life = "open"

Goto(d, at) == pc' = [pc EXCEPT ![d] = at]

-----------------------------------------------------------------------------
\* Plausible errors in the definitions that follow.

DestroyUnlocked ==
    /\ life = "open"
    /\ \A d \in Threads : pc[d] # "lock" /\ (d \in Pollers => pc[d] = "idle")
    /\ \A c \in Callers : epc[c] = "idle"
    /\ life' = "destroyed"
    /\ queue' = <<>>
    /\ UNCHANGED <<use, mIsActive, lockVars, markVars, hookVars, pc, event, copies>>

CheckWatermarksLate(d) ==
    /\ pc[d] = "check"
    /\ mHighWaterFired' = IF mHighWaterFired
                          THEN Len(queue) # mLowWatermark + 1
                          ELSE Len(queue) >= mHighWatermark
    /\ Goto(d, "wait")
    /\ UNCHANGED <<use, queue, mIsActive, lockVars, mHighWatermark, mLowWatermark, hookVars,
                   event, copies, life>>

CallbackDoneUnclosed(d) ==
    /\ pc[d] = "callback"
    /\ event' = [event EXCEPT ![d] = "none"]
    /\ IF d \in Loopers /\ mIsDispatching
       THEN Goto(d, "check") ELSE Goto(d, IF d \in Loopers THEN "unlock" ELSE "idle")
    /\ UNCHANGED <<use, queue, mIsActive, lockVars, markVars, hookVars, copies, life>>

AgainForever(d) == d \in Loopers

EnqueuedUnchecked(kind) == queue' = Append(queue, kind)

-----------------------------------------------------------------------------
\* Threads that enqueue.

\* enqueueEventInt puts the event on the queue unless that is full.
Enqueued(kind) == queue' = IF Full THEN queue ELSE Append(queue, kind)

\* transport.c copies a message and calls enqueueMsg, which drops it silently
\* when the queue is inactive.
EnqueueMsg(c) ==
    /\ life = "open"
    /\ epc[c] = "idle"
    /\ copies < MaxCopies
    /\ copies' = copies + 1
    /\ \/ /\ mIsActive
          /\ Enqueued("msg")
          /\ epc' = [epc EXCEPT ![c] = "hook"]
       \/ ~mIsActive /\ UNCHANGED <<queue, epc>>
    /\ UNCHANGED <<use, mIsActive, lockVars, markVars, mEnqueueCallback, mEnqueueClosure, pc,
                   event, life>>

\* enqueueEvent, or enqueueEventEx on an active queue.
EnqueueEvent(c) ==
    /\ life = "open"
    /\ epc[c] = "idle"
    /\ Enqueued("event")
    /\ epc' = [epc EXCEPT ![c] = "hook"]
    /\ UNCHANGED <<use, mIsActive, lockVars, markVars, mEnqueueCallback, mEnqueueClosure, pc,
                   event, copies, life>>

\* The end of enqueueEventInt: mEnqueueCallback is looked at ...
CheckEnqueueCallback(c) ==
    /\ epc[c] = "hook"
    /\ epc' = [epc EXCEPT ![c] = IF mEnqueueCallback = 0 THEN "idle" ELSE "call"]
    /\ UNCHANGED <<use, queue, mIsActive, lockVars, markVars, mEnqueueCallback, mEnqueueClosure,
                   pc, event, copies, life>>

\* ... and then it and its closure are read again and called.
CallEnqueueCallback(c) ==
    /\ epc[c] = "call"
    /\ epc' = [epc EXCEPT ![c] = "idle"]
    /\ UNCHANGED <<use, queue, mIsActive, lockVars, markVars, mEnqueueCallback, mEnqueueClosure,
                   pc, event, copies, life>>

-----------------------------------------------------------------------------
\* Threads that dispatch.

\* dispatch, timedDispatch or dispatchEvent is called.
Dispatch(d) ==
    /\ life = "open"
    /\ pc[d] = "idle"
    /\ Goto(d, IF d \in Loopers THEN "lock" ELSE "check")
    /\ UNCHANGED <<use, queue, mIsActive, lockVars, markVars, hookVars,
                   event, copies, life>>

Lock(d) ==
    /\ pc[d] = "lock"
    /\ mDispatchLock = None
    /\ mDispatchLock' = d
    /\ Goto(d, "set")
    /\ UNCHANGED <<use, queue, mIsActive, mIsDispatching, markVars, hookVars, event,
                   copies, life>>

SetDispatching(d) ==
    /\ pc[d] = "set"
    /\ mIsDispatching' = TRUE
    /\ Goto(d, "check")
    /\ UNCHANGED <<use, queue, mIsActive, mDispatchLock, markVars, hookVars, event,
                   copies, life>>

\* checkWatermarks fires at the first event count that has reached the high
\* watermark and again when the count equals the low one.
CheckWatermarks(d) ==
    /\ pc[d] = "check"
    /\ mHighWaterFired' = IF mHighWaterFired
                          THEN Len(queue) # mLowWatermark
                          ELSE Len(queue) >= mHighWatermark
    /\ Goto(d, "wait")
    /\ UNCHANGED <<use, queue, mIsActive, lockVars, mHighWatermark, mLowWatermark, hookVars,
                   event, copies, life>>

\* The condition of the loop in dispatch; the other two dispatch once.
Again(d) == d \in Loopers /\ mIsDispatching
Leave(d) == Goto(d, IF d \in Loopers THEN "unlock" ELSE "idle")

\* uQueue_timedDispatch or uQueue_dispatch takes an event ...
Take(d) ==
    /\ pc[d] = "wait"
    /\ queue # <<>>
    /\ event' = [event EXCEPT ![d] = Head(queue)]
    /\ queue' = Tail(queue)
    /\ Goto(d, "callback")
    /\ UNCHANGED <<use, mIsActive, lockVars, markVars, hookVars, copies, life>>

\* ... and runs its callback, which closes the message.
CallbackDone(d) ==
    /\ pc[d] = "callback"
    /\ copies' = IF event[d] = "msg" THEN copies - 1 ELSE copies
    /\ event' = [event EXCEPT ![d] = "none"]
    /\ IF Again(d) THEN Goto(d, "check") ELSE Leave(d)
    /\ UNCHANGED <<use, queue, mIsActive, lockVars, markVars, hookVars, life>>

Timeout(d) ==
    /\ pc[d] = "wait"
    /\ queue = <<>>
    /\ IF Again(d) THEN Goto(d, "check") ELSE Leave(d)
    /\ UNCHANGED <<use, queue, mIsActive, lockVars, markVars, hookVars, event, copies, life>>

Unlock(d) ==
    /\ pc[d] = "unlock"
    /\ mDispatchLock' = None
    /\ Goto(d, "idle")
    /\ UNCHANGED <<use, queue, mIsActive, mIsDispatching, markVars, hookVars, event,
                   copies, life>>

-----------------------------------------------------------------------------
\* The application.

StopDispatch ==
    /\ life = "open"
    /\ mIsDispatching' = FALSE
    /\ UNCHANGED <<use, queue, mIsActive, mDispatchLock, markVars, hookVars, pc, event, copies,
                   life>>

\* activate and deactivate
SetActive(b) ==
    /\ life = "open"
    /\ mIsActive' = b
    /\ UNCHANGED <<use, queue, lockVars, markVars, hookVars, pc, event, copies, life>>

\* Watermarks are set, the low one below the high one, before the queue is used.
Unused == queue = <<>> /\ ~mHighWaterFired /\ \A d \in Threads : pc[d] = "idle"

SetHighWatermark(n) ==
    /\ life = "open" /\ Unused /\ n > mLowWatermark
    /\ mHighWatermark' = n
    /\ UNCHANGED <<use, queue, mIsActive, lockVars, mLowWatermark, mHighWaterFired, hookVars, pc,
                   event, copies, life>>

SetLowWatermark(n) ==
    /\ life = "open" /\ Unused /\ n < mHighWatermark
    /\ mLowWatermark' = n
    /\ UNCHANGED <<use, queue, mIsActive, lockVars, mHighWatermark, mHighWaterFired, hookVars, pc,
                   event, copies, life>>

\* setEnqueueCallback and removeEnqueueCallback: first the callback ...
ChangeCallback(f) ==
    /\ life = "open"
    /\ mEnqueueCallback = mEnqueueClosure
    /\ mEnqueueCallback' = f
    /\ UNCHANGED <<use, queue, mIsActive, lockVars, markVars, mEnqueueClosure, epc, pc, event,
                   copies, life>>

\* ... then its closure.
ChangeClosure ==
    /\ mEnqueueCallback # mEnqueueClosure
    /\ mEnqueueClosure' = mEnqueueCallback
    /\ UNCHANGED <<use, queue, mIsActive, lockVars, markVars, mEnqueueCallback, epc, pc, event,
                   copies, life>>

\* uQueue_destroy frees the events that are left without looking at them.
UQueueDestroy == queue' = <<>>

\* destroy waits for mDispatchLock; the events still on the queue go with it.
\* The application has seen to it that nobody else is about to use the queue.
Destroy ==
    /\ life = "open"
    /\ \A d \in Threads : pc[d] # "lock" /\ (d \in Pollers => pc[d] = "idle")
    /\ \A c \in Callers : epc[c] = "idle"
    /\ mDispatchLock = None
    /\ life' = "destroyed"
    /\ UQueueDestroy
    /\ UNCHANGED <<use, mIsActive, lockVars, markVars, hookVars, pc, event, copies>>

-----------------------------------------------------------------------------
Step(d) ==
    \/ Lock(d) \/ SetDispatching(d) \/ CheckWatermarks(d)
    \/ Take(d) \/ CallbackDone(d) \/ Timeout(d) \/ Unlock(d)

Next ==
    \/ \E d \in Threads : Dispatch(d) \/ Step(d)
    \/ \E c \in Callers :
          \/ EnqueueMsg(c) \/ EnqueueEvent(c)
          \/ CheckEnqueueCallback(c) \/ CallEnqueueCallback(c)
    \/ StopDispatch
    \/ \E b \in BOOLEAN : SetActive(b)
    \/ \E n \in 1..MaxSize : SetHighWatermark(n) \/ SetLowWatermark(n)
    \/ \E f \in {0, 1} : ChangeCallback(f)
    \/ ChangeClosure
    \/ Destroy

Spec == Init /\ [][Next]_vars

\* Threads that are dispatching run; their timed waits end.
FairSpec == Spec /\ \A d \in Threads : WF_vars(d \in Loopers /\ Step(d))

-----------------------------------------------------------------------------
TypeOK ==
    /\ queue \in Seq({"msg", "event"}) /\ Len(queue) <= MaxSize
    /\ {mIsActive, mIsDispatching, mHighWaterFired} \subseteq BOOLEAN
    /\ mDispatchLock \in Loopers \cup {None}
    /\ {mHighWatermark, mLowWatermark} \subseteq 0..MaxSize
    /\ {mEnqueueCallback, mEnqueueClosure} \subseteq {0, 1}
    /\ use \in [Threads -> {"dispatch", "timedDispatch"}]
    /\ pc \in [Threads -> {"idle", "lock", "set", "check", "wait", "callback", "unlock"}]
    /\ event \in [Threads -> {"none", "msg", "event"}]
    /\ epc \in [Callers -> {"idle", "hook", "call"}]
    /\ copies \in 0..MaxCopies
    /\ life \in {"open", "destroyed"}

\* "If the high watermark had been fired but the event count is now down"
\* (checkWatermarks): the low watermark is reported although the code compares for
\* equality, that is, no thread finds the event count already below it.  This needs
\* mDispatchLock: it holds where every thread uses dispatch.
LowWatermarkReported ==
    Loopers = Threads =>
        \A d \in Threads :
            pc[d] = "check" /\ mHighWaterFired => Len(queue) >= mLowWatermark

\* However many threads take turns in dispatch, destroy frees the queue under none
\* of them: it waits for the loop that holds mDispatchLock to be stopped.
DestroyWaitsForDispatch == life = "destroyed" => \A d \in Threads : pc[d] = "idle"

\* Once mIsDispatching is cleared under a running dispatch loop the loop ends, for no
\* other thread that calls dispatch can set it again before.
StopEndsLoop ==
    \A d \in Threads :
        d \in Loopers /\ pc[d] \in {"check", "wait", "callback"} /\ ~mIsDispatching
            ~> pc[d] = "idle"

\* Where messages are: their places on a queue, and the threads whose callback has one.
Places(q) == {i \in DOMAIN q : q[i] = "msg"}
InHand == {d \in Threads : event[d] = "msg"}

\* Copies that no callback is going to close.
Stranded == copies - Cardinality(Places(queue)) - Cardinality(InHand)

\* "queue up message, callback will free" (transport.c): a copy of a message is closed
\* once, by the callback it was queued for.  Copies are left behind only where the
\* code drops them: refused by a full or an inactive queue, or still on the queue
\* when it is destroyed.
OnlyRefusedCopiesAreLost ==
    [][ /\ Stranded' >= Stranded
        /\ Stranded' > Stranded => Full \/ ~mIsActive \/ life' = "destroyed" ]_vars
=============================================================================
