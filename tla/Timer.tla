------------------------------- MODULE Timer -------------------------------
(***************************************************************************)
(* Timers (timer.c): a timer is armed by one element of the bridge's timer *)
(* heap.  When the element expires the heap's thread re-arms the timer and *)
(* puts an event on the timer's queue, whose thread runs the application's *)
(* action.  A timer is destroyed on that queue thread: events of the timer *)
(* may still be queued, so the memory is freed by one more event.          *)
(*                                                                         *)
(* The timer heap is OpenMAMA's: it calls back with its (recursive) lock   *)
(* held, so that from the expiry of an element to the return of            *)
(* timerCallback nobody else can lock the heap.  What another thread does  *)
(* with the heap locked is one step.                                       *)
(***************************************************************************)
EXTENDS Integers, Sequences

CONSTANTS Timers,
          Elements,    \* elements of the timer heap; destroyTimer makes one available again
          NoElement,   \* NULL
          Intervals,
          Apps,        \* threads other than the queue's that reset timers
          QueueThread,
          MaxQueue     \* events the queue holds; uQueue_enqueue refuses the next one

ASSUME TimerAssumption ==
    /\ NoElement \notin Elements
    /\ QueueThread \notin Apps
    /\ MaxQueue \in Nat

VARIABLES stage,         \* life of a timer: destroy sets mDestroying and mAction, destroys
                         \* the element ("unlinked") and queues the last event ("pending")
          mInterval,
          lastSet,       \* history: the interval that the application set last
          mTimerElement,
          heap,          \* heap[t]: elements in the heap whose closure is t
          tpc,           \* where the heap's thread is in timerCallback for a timer
          queue,         \* events of timers, on the queue
          request        \* the call of reset or setInterval that a thread is in, if any

timerVars == <<stage, mInterval, lastSet, mTimerElement, heap>>
vars == <<timerVars, tpc, queue, request>>

Resetters == Apps \cup {QueueThread}
Requests == [timer : Timers, interval : Intervals, set : BOOLEAN]
Events == [kind : {"fire", "destroy"}, timer : Timers]

MDestroying(t) == stage[t] # "live"
HeapLocked == \E t \in Timers : tpc[t] # "idle"

\* The queue's thread is neither in destroy nor in reset.
QueueThreadFree ==
    /\ \A t \in Timers : stage[t] \notin {"destroying", "unlinked"}
    /\ request[QueueThread] = {}

Init ==
    /\ stage = [t \in Timers |-> "none"]
    /\ mInterval \in [Timers -> Intervals]
    /\ lastSet = mInterval
    /\ mTimerElement = [t \in Timers |-> NoElement]
    /\ heap = [t \in Timers |-> {}]
    /\ tpc = [t \in Timers |-> "idle"]
    /\ queue = <<>>
    /\ request = [r \in Resetters |-> {}]

-----------------------------------------------------------------------------
\* An element that is not in use by a timer other than t, nor an orphan of t.
Available(t, x) ==
    /\ x \notin heap[t] \ {mTimerElement[t]}
    /\ \A u \in Timers \ {t} : x \notin heap[u] /\ x # mTimerElement[u]

\* Plausible errors in the definitions that follow.

RearmWithoutDestroy(t, i, x) ==
    /\ Available(t, x)
    /\ mInterval' = [mInterval EXCEPT ![t] = i]
    /\ heap' = [heap EXCEPT ![t] = @ \cup {x}]
    /\ mTimerElement' = [mTimerElement EXCEPT ![t] = x]

RearmKeepingInterval(t, i, x) ==
    /\ Available(t, x)
    /\ heap' = [heap EXCEPT ![t] = (@ \ {mTimerElement[t]}) \cup {x}]
    /\ mTimerElement' = [mTimerElement EXCEPT ![t] = x]
    /\ UNCHANGED mInterval

DestroyElementUnlocked(t) ==
    /\ stage[t] = "destroying"
    /\ stage' = [stage EXCEPT ![t] = "unlinked"]
    /\ heap' = [heap EXCEPT ![t] = @ \ {mTimerElement[t]}]
    /\ mTimerElement' = [mTimerElement EXCEPT ![t] = NoElement]
    /\ UNCHANGED <<mInterval, lastSet, tpc, queue, request>>

DestroyEnqueueEx(t) ==
    /\ stage[t] = "unlinked"
    /\ stage' = [stage EXCEPT ![t] = "pending"]
    /\ UNCHANGED <<mInterval, lastSet, mTimerElement, heap, tpc, queue, request>>

-----------------------------------------------------------------------------
\* zmqBridgeMamaTimerImpl_reset with the heap locked: destroyTimer and createTimer.
Rearm(t, i, x) ==
    /\ Available(t, x)
    /\ mInterval' = [mInterval EXCEPT ![t] = i]
    /\ heap' = [heap EXCEPT ![t] = (@ \ {mTimerElement[t]}) \cup {x}]
    /\ mTimerElement' = [mTimerElement EXCEPT ![t] = x]

\* uQueue_enqueue refuses an event when the queue is full.
EnqueueEvent(kind, t) ==
    queue' = IF Len(queue) < MaxQueue
             THEN Append(queue, [kind |-> kind, timer |-> t])
             ELSE queue

Create(t, i, x) ==
    /\ stage[t] = "none"
    /\ ~HeapLocked
    /\ Available(t, x)
    /\ stage' = [stage EXCEPT ![t] = "live"]
    /\ mInterval' = [mInterval EXCEPT ![t] = i]
    /\ lastSet' = [lastSet EXCEPT ![t] = i]
    /\ mTimerElement' = [mTimerElement EXCEPT ![t] = x]
    /\ heap' = [heap EXCEPT ![t] = @ \cup {x}]
    /\ UNCHANGED <<tpc, queue, request>>

-----------------------------------------------------------------------------
\* The thread of the timer heap.

\* An element expires: the heap locks itself, removes the element and calls back.
Expire(t) ==
    /\ ~HeapLocked
    /\ \E x \in heap[t] : heap' = [heap EXCEPT ![t] = @ \ {x}]
    /\ tpc' = [tpc EXCEPT ![t] = "check"]
    /\ UNCHANGED <<stage, mInterval, lastSet, mTimerElement, queue, request>>

TimerCallback(t) ==
    /\ tpc[t] = "check"
    /\ tpc' = [tpc EXCEPT ![t] = IF MDestroying(t) THEN "idle" ELSE "reset"]
    /\ UNCHANGED <<timerVars, queue, request>>

\* reset looks at mDestroying again.
CallbackReset(t) ==
    /\ tpc[t] = "reset"
    /\ \/ MDestroying(t) /\ UNCHANGED <<mInterval, mTimerElement, heap>>
       \/ ~MDestroying(t) /\ \E x \in Elements : Rearm(t, mInterval[t], x)
    /\ tpc' = [tpc EXCEPT ![t] = "enqueue"]
    /\ UNCHANGED <<stage, lastSet, queue, request>>

\* enqueueEventEx drops the event of an inactive queue.
CallbackEnqueue(t) ==
    /\ tpc[t] = "enqueue"
    /\ EnqueueEvent("fire", t) \/ UNCHANGED queue
    /\ tpc' = [tpc EXCEPT ![t] = "idle"]
    /\ UNCHANGED <<timerVars, request>>

-----------------------------------------------------------------------------
\* reset and setInterval on any other thread: mDestroying is read before the
\* heap is locked.

ResetCheck(r, t) ==
    /\ request[r] = {}
    /\ r = QueueThread => QueueThreadFree
    /\ ~MDestroying(t)
    /\ \E i \in Intervals, set \in BOOLEAN :
          /\ set \/ i = mInterval[t]
          /\ request' = [request EXCEPT ![r] = {[timer |-> t, interval |-> i, set |-> set]}]
    /\ UNCHANGED <<timerVars, tpc, queue>>

ResetLocked(r) ==
    /\ ~HeapLocked
    /\ \E q \in request[r], x \in Elements :
          /\ Rearm(q.timer, q.interval, x)
          /\ lastSet' = [lastSet EXCEPT ![q.timer] = IF q.set THEN q.interval ELSE @]
    /\ request' = [request EXCEPT ![r] = {}]
    /\ UNCHANGED <<stage, tpc, queue>>

-----------------------------------------------------------------------------
\* The queue's thread.

Destroy(t) ==
    /\ QueueThreadFree
    /\ stage[t] = "live"
    /\ stage' = [stage EXCEPT ![t] = "destroying"]
    /\ UNCHANGED <<mInterval, lastSet, mTimerElement, heap, tpc, queue, request>>

DestroyElement(t) ==
    /\ stage[t] = "destroying"
    /\ ~HeapLocked
    /\ stage' = [stage EXCEPT ![t] = "unlinked"]
    /\ heap' = [heap EXCEPT ![t] = @ \ {mTimerElement[t]}]
    /\ mTimerElement' = [mTimerElement EXCEPT ![t] = NoElement]
    /\ UNCHANGED <<mInterval, lastSet, tpc, queue, request>>

\* The last event; destroy ignores the status of the queue.
DestroyEnqueue(t) ==
    /\ stage[t] = "unlinked"
    /\ EnqueueEvent("destroy", t)
    /\ stage' = [stage EXCEPT ![t] = IF Len(queue) < MaxQueue THEN "pending" ELSE "leaked"]
    /\ UNCHANGED <<mInterval, lastSet, mTimerElement, heap, tpc, request>>

\* queueCallback runs the action unless it is NULL.
QueueCallback ==
    /\ QueueThreadFree
    /\ queue # <<>>
    /\ Head(queue).kind = "fire"
    /\ queue' = Tail(queue)
    /\ UNCHANGED <<timerVars, tpc, request>>

DestroyCallback ==
    /\ QueueThreadFree
    /\ queue # <<>>
    /\ Head(queue).kind = "destroy"
    /\ stage' = [stage EXCEPT ![Head(queue).timer] = "freed"]
    /\ queue' = Tail(queue)
    /\ UNCHANGED <<mInterval, lastSet, mTimerElement, heap, tpc, request>>

-----------------------------------------------------------------------------
HeapThread == \E t \in Timers : TimerCallback(t) \/ CallbackReset(t) \/ CallbackEnqueue(t)

DestroySteps == \E t \in Timers : DestroyElement(t) \/ DestroyEnqueue(t)
DispatchEvent == QueueCallback \/ DestroyCallback

Next ==
    \/ \E t \in Timers :
          \/ \E i \in Intervals, x \in Elements : Create(t, i, x)
          \/ Expire(t)
          \/ Destroy(t)
          \/ \E r \in Resetters : ResetCheck(r, t)
    \/ \E r \in Resetters : ResetLocked(r)
    \/ HeapThread
    \/ DestroySteps
    \/ DispatchEvent

Spec == Init /\ [][Next]_vars

\* The threads run, callbacks of the application return to the dispatch loop, and
\* the queue's thread gets the heap's lock however often timers expire.
FairSpec ==
    /\ Spec
    /\ WF_vars(HeapThread)
    /\ SF_vars(ResetLocked(QueueThread))
    /\ SF_vars(DestroySteps)
    /\ SF_vars(DispatchEvent)

-----------------------------------------------------------------------------
TypeOK ==
    /\ stage \in [Timers -> {"none", "live", "destroying", "unlinked", "pending",
                             "leaked", "freed"}]
    /\ mInterval \in [Timers -> Intervals]
    /\ lastSet \in [Timers -> Intervals]
    /\ mTimerElement \in [Timers -> Elements \cup {NoElement}]
    /\ heap \in [Timers -> SUBSET Elements]
    /\ tpc \in [Timers -> {"idle", "check", "reset", "enqueue"}]
    /\ queue \in Seq(Events)
    /\ request \in [Resetters -> SUBSET Requests]

\* Nothing that may still run refers to a timer that destroyCallback has freed:
\* no element of the heap, no callback of the heap's thread, no event on the
\* queue (however many were there when destroy was called), no call of reset.
NoUseAfterFree ==
    \A t \in Timers : stage[t] = "freed" =>
        /\ heap[t] = {}
        /\ tpc[t] = "idle"
        /\ \A i \in 1..Len(queue) : queue[i].timer # t
        /\ \A r \in Resetters : \A q \in request[r] : q.timer # t

\* "destroyTimer/createTimer must be executed atomically!" (reset): a timer never
\* has a second element in the heap, so that it neither fires at two rates nor
\* outlives destroy, and a live timer never loses its only element for good: it
\* is armed, or timerCallback is about to re-arm it.
ArmedOnce ==
    \A t \in Timers :
        /\ heap[t] \subseteq {mTimerElement[t]}
        /\ stage[t] = "live" =>
              heap[t] = {mTimerElement[t]} \/ tpc[t] \in {"check", "reset"}

\* The heap's thread re-arms a timer with the interval it finds, while other
\* threads may be setting a new one: the interval set last is never undone.
IntervalKept == \A t \in Timers : mInterval[t] = lastSet[t]

\* A timer that is being destroyed is freed, and the application told, or its
\* last event has been refused by a full queue.
DestroyedIsReported ==
    \A t \in Timers : stage[t] = "destroying" ~> stage[t] \in {"freed", "leaked"}
=============================================================================
