--------------------------- MODULE CallbackProofs ---------------------------
(***************************************************************************)
(* Proofs about what the callbacks of a queue are given.                   *)
(*                                                                         *)
(* Timers: for any number of timers, heap elements, intervals and any size *)
(* of the queue, when only the queue's thread (and the heap's own) resets  *)
(* timers, no callback runs for a timer that is freed.                     *)
(*                                                                         *)
(* Replies: they reach the inbox that asked, for any queues, inboxes and   *)
(* number of messages.  The inductive invariant follows a request's handle *)
(* and number together through the wire, the queue's one bridge message,   *)
(* the duplicated handles and the wire again.                              *)
(***************************************************************************)
EXTENDS Timer, RequestReply, TLAPS

-----------------------------------------------------------------------------
\* Timers.

\* What the heap holds for a timer at each stage of its life, and how far the
\* heap's thread may be with it.
HeapFollowsStage ==
    \A t \in Timers :
        /\ heap[t] \subseteq {mTimerElement[t]}
        /\ stage[t] = "live" =>
              \/ heap[t] = {mTimerElement[t]} /\ tpc[t] \in {"idle", "enqueue"}
              \/ heap[t] = {} /\ tpc[t] \in {"check", "reset"}
        /\ stage[t] \in {"none", "unlinked", "pending", "leaked", "freed"} =>
              heap[t] = {} /\ tpc[t] = "idle"

\* Events on the queue belong to timers whose memory is there, and the event that
\* frees a timer is the last one of that timer.
QueueFollowsStage ==
    \A i \in 1..Len(queue) :
        /\ stage[queue[i].timer] \notin {"none", "freed"}
        /\ queue[i].kind = "destroy" =>
              /\ stage[queue[i].timer] = "pending"
              /\ \A j \in 1..Len(queue) : j > i => queue[j].timer # queue[i].timer

\* The queue's thread resets only timers that are alive, and what reset has read
\* of mInterval stays up to date while it waits for the heap.
RequestsAreCurrent ==
    \A q \in request[QueueThread] :
        /\ stage[q.timer] = "live"
        /\ ~q.set => q.interval = mInterval[q.timer]

\* The inductive invariant.
Inv ==
    /\ TypeOK
    /\ HeapFollowsStage
    /\ QueueFollowsStage
    /\ RequestsAreCurrent
    /\ IntervalKept

\* Every initial state satisfies the invariant.
LEMMA InitInv == Init => Inv
  BY DEF Init, Inv, TypeOK, HeapFollowsStage, QueueFollowsStage, RequestsAreCurrent,
         IntervalKept, Resetters

\* Re-arming a timer leaves it with the new element as its only one.
LEMMA RearmHeap ==
  ASSUME TypeOK, HeapFollowsStage, NEW t \in Timers, NEW i \in Intervals,
         NEW x \in Elements, Rearm(t, i, x)
  PROVE  /\ heap' \in [Timers -> SUBSET Elements]
         /\ mTimerElement' \in [Timers -> Elements \cup {NoElement}]
         /\ mInterval' \in [Timers -> Intervals]
         /\ heap'[t] = {x} /\ mTimerElement'[t] = x /\ mInterval'[t] = i
         /\ \A u \in Timers \ {t} : /\ heap'[u] = heap[u]
                                    /\ mTimerElement'[u] = mTimerElement[u]
                                    /\ mInterval'[u] = mInterval[u]
  BY DEF TypeOK, HeapFollowsStage, Rearm

\* Creating a timer: it was in no table, no queue and no request before.
LEMMA CreateInv ==
  ASSUME Inv, NEW t \in Timers, NEW i \in Intervals, NEW x \in Elements, Create(t, i, x)
  PROVE  Inv'
<1> USE DEF Inv
<1>1. TypeOK'
  BY DEF Create, TypeOK
<1>2. HeapFollowsStage'
  BY DEF Create, TypeOK, HeapFollowsStage
<1>3. QueueFollowsStage'
  BY DEF Create, TypeOK, QueueFollowsStage
<1>4. RequestsAreCurrent'
  BY DEF Create, TypeOK, RequestsAreCurrent, Resetters, Requests
<1>5. IntervalKept'
  BY DEF Create, TypeOK, IntervalKept
<1> QED
  BY <1>1, <1>2, <1>3, <1>4, <1>5

\* The heap's thread, up to re-arming the timer.
LEMMA ExpireInv ==
  ASSUME Inv, NEW t \in Timers, Expire(t) \/ TimerCallback(t)
  PROVE  Inv'
<1> USE DEF Inv
<1>1. TypeOK'
  BY DEF Expire, TimerCallback, timerVars, TypeOK
<1>2. HeapFollowsStage'
  BY DEF Expire, TimerCallback, timerVars, TypeOK, HeapFollowsStage, HeapLocked, MDestroying
<1>3. QueueFollowsStage' /\ RequestsAreCurrent' /\ IntervalKept'
  BY DEF Expire, TimerCallback, timerVars, QueueFollowsStage, RequestsAreCurrent, IntervalKept
<1> QED
  BY <1>1, <1>2, <1>3

\* The heap's thread re-arms the timer, or finds that it is being destroyed.
LEMMA CallbackResetInv ==
  ASSUME Inv, NEW t \in Timers, CallbackReset(t)
  PROVE  Inv'
<1> USE DEF Inv
<1>1. CASE MDestroying(t)
  <2>1. UNCHANGED <<stage, mInterval, lastSet, mTimerElement, heap, queue, request>>
    BY <1>1 DEF CallbackReset, Rearm
  <2>2. tpc' = [tpc EXCEPT ![t] = "enqueue"] /\ tpc[t] = "reset"
    BY DEF CallbackReset
  <2>3. stage[t] = "destroying"
    BY <1>1, <2>2 DEF TypeOK, HeapFollowsStage, MDestroying
  <2>4. TypeOK' /\ HeapFollowsStage'
    BY <2>1, <2>2, <2>3 DEF TypeOK, HeapFollowsStage
  <2>5. QueueFollowsStage' /\ RequestsAreCurrent' /\ IntervalKept'
    BY <2>1 DEF QueueFollowsStage, RequestsAreCurrent, IntervalKept
  <2> QED
    BY <2>4, <2>5
<1>2. CASE ~MDestroying(t)
  <2>1. PICK x \in Elements : Rearm(t, mInterval[t], x)
    BY <1>2 DEF CallbackReset
  <2>2. mInterval[t] \in Intervals
    BY DEF TypeOK
  <2>3. /\ heap' \in [Timers -> SUBSET Elements]
        /\ mTimerElement' \in [Timers -> Elements \cup {NoElement}]
        /\ mInterval' \in [Timers -> Intervals]
        /\ heap'[t] = {x} /\ mTimerElement'[t] = x /\ mInterval'[t] = mInterval[t]
        /\ \A u \in Timers \ {t} : /\ heap'[u] = heap[u]
                                   /\ mTimerElement'[u] = mTimerElement[u]
                                   /\ mInterval'[u] = mInterval[u]
    BY <2>1, <2>2, RearmHeap
  <2>4. UNCHANGED <<stage, lastSet, queue, request>> /\ tpc' = [tpc EXCEPT ![t] = "enqueue"]
    BY DEF CallbackReset
  <2>5. TypeOK'
    BY <2>3, <2>4 DEF TypeOK
  <2>6. HeapFollowsStage'
    BY <1>2, <2>3, <2>4 DEF HeapFollowsStage, MDestroying, TypeOK
  <2>7. QueueFollowsStage' /\ RequestsAreCurrent'
    <3>1. mInterval' = mInterval
      BY <2>3 DEF TypeOK
    <3> QED
      BY <2>4, <3>1 DEF QueueFollowsStage, RequestsAreCurrent
  <2>8. IntervalKept'
    BY <2>3, <2>4 DEF IntervalKept
  <2> QED
    BY <2>5, <2>6, <2>7, <2>8
<1> QED
  BY <1>1, <1>2

\* The events on the queue are events of timers.
LEMMA QueueTimers ==
  ASSUME TypeOK
  PROVE  Len(queue) \in Nat /\ \A i \in 1..Len(queue) : queue[i].timer \in Timers
<1>1. queue \in Seq(Events)
  BY DEF TypeOK
<1>2. Len(queue) \in Nat /\ \A i \in 1..Len(queue) : queue[i] \in Events
  BY <1>1
<1> QED
  BY <1>2 DEF Events

\* What enqueueing an event does to the queue.
LEMMA EnqueueFacts ==
  ASSUME TypeOK, NEW t \in Timers, NEW kind \in {"fire", "destroy"}, EnqueueEvent(kind, t)
  PROVE  /\ queue' \in Seq(Events)
         /\ \/ queue' = queue /\ ~(Len(queue) < MaxQueue)
            \/ /\ Len(queue) < MaxQueue
               /\ Len(queue') = Len(queue) + 1
               /\ \A i \in 1..Len(queue) : queue'[i] = queue[i]
               /\ queue'[Len(queue')] = [kind |-> kind, timer |-> t]
<1> DEFINE e == [kind |-> kind, timer |-> t]
<1>1. e \in Events
  BY DEF Events
<1>2. queue \in Seq(Events)
  BY DEF TypeOK
<1>3. queue' = IF Len(queue) < MaxQueue THEN Append(queue, e) ELSE queue
  BY DEF EnqueueEvent
<1> HIDE DEF e
<1>4. CASE Len(queue) < MaxQueue
  BY <1>1, <1>2, <1>3, <1>4 DEF e
<1>5. CASE ~(Len(queue) < MaxQueue)
  BY <1>2, <1>3, <1>5
<1> QED
  BY <1>4, <1>5

\* The heap's thread queues the event of a timer that is not yet unlinked, hence
\* not behind the event that frees it.
LEMMA CallbackEnqueueInv ==
  ASSUME Inv, NEW t \in Timers, CallbackEnqueue(t)
  PROVE  Inv'
<1> USE DEF Inv
<1>1. UNCHANGED <<timerVars, request>> /\ tpc[t] = "enqueue"
      /\ tpc' = [tpc EXCEPT ![t] = "idle"]
  BY DEF CallbackEnqueue
<1>2. stage[t] \in {"live", "destroying"}
  BY <1>1 DEF TypeOK, HeapFollowsStage
<1>3. HeapFollowsStage' /\ RequestsAreCurrent' /\ IntervalKept'
  BY <1>1 DEF TypeOK, HeapFollowsStage, RequestsAreCurrent, IntervalKept, timerVars
<1>4. CASE UNCHANGED queue
  BY SMTT(30), <1>1, <1>3, <1>4 DEF TypeOK, QueueFollowsStage, timerVars
<1>5. CASE EnqueueEvent("fire", t)
  <2>1. /\ queue' \in Seq(Events)
        /\ \/ queue' = queue
           \/ /\ Len(queue') = Len(queue) + 1
              /\ \A i \in 1..Len(queue) : queue'[i] = queue[i]
              /\ queue'[Len(queue')] = [kind |-> "fire", timer |-> t]
    BY Zenon, <1>5, EnqueueFacts
  <2>2. TypeOK'
    BY <1>1, <2>1 DEF TypeOK, timerVars
  <2>3. Len(queue) \in Nat
    BY DEF TypeOK
  <2>4. ASSUME NEW i \in 1..Len(queue')
        PROVE  /\ stage[queue'[i].timer] \notin {"none", "freed"}
               /\ queue'[i].kind = "destroy" =>
                     /\ stage[queue'[i].timer] = "pending"
                     /\ \A j \in 1..Len(queue') : j > i => queue'[j].timer # queue'[i].timer
    <3>1. CASE queue' = queue
      BY <3>1 DEF QueueFollowsStage
    <3>2. CASE queue' # queue /\ i \in 1..Len(queue)
      <4>1. queue'[i] = queue[i]
        BY <2>1, <3>2
      <4>2. /\ stage[queue[i].timer] \notin {"none", "freed"}
            /\ queue[i].kind = "destroy" =>
                  /\ stage[queue[i].timer] = "pending"
                  /\ \A j \in 1..Len(queue) : j > i => queue[j].timer # queue[i].timer
        BY <3>2 DEF QueueFollowsStage
      <4>3. ASSUME queue[i].kind = "destroy", NEW j \in 1..Len(queue'), j > i
            PROVE  queue'[j].timer # queue[i].timer
        <5>1. CASE j \in 1..Len(queue)
          BY <2>1, <3>2, <4>2, <4>3, <5>1
        <5>2. CASE j = Len(queue')
          BY <1>2, <2>1, <3>2, <4>2, <4>3, <5>2
        <5> QED
          BY <2>1, <2>3, <3>2, <5>1, <5>2
      <4> QED
        BY <4>1, <4>2, <4>3
    <3>3. CASE queue' # queue /\ i = Len(queue')
      BY <1>2, <2>1, <2>3, <3>3
    <3> QED
      BY <2>1, <2>3, <3>1, <3>2, <3>3
  <2>5. QueueFollowsStage'
    BY <1>1, <2>4 DEF QueueFollowsStage, timerVars
  <2> QED
    BY <1>3, <2>2, <2>5
<1> QED
  BY <1>4, <1>5 DEF CallbackEnqueue

\* reset and setInterval on the queue's thread: mDestroying is read.
LEMMA ResetCheckInv ==
  ASSUME Inv, NEW t \in Timers, NEW r \in Resetters, ResetCheck(r, t)
  PROVE  Inv'
<1> USE DEF Inv
<1>1. PICK i \in Intervals, set \in BOOLEAN :
        /\ set \/ i = mInterval[t]
        /\ request' = [request EXCEPT ![r] = {[timer |-> t, interval |-> i, set |-> set]}]
  BY Zenon DEF ResetCheck
<1>2. UNCHANGED <<timerVars, tpc, queue>> /\ stage[t] = "live"
  BY DEF ResetCheck, MDestroying
<1>3. TypeOK'
  BY <1>1, <1>2 DEF TypeOK, timerVars, Requests
<1>4. RequestsAreCurrent'
  BY <1>1, <1>2 DEF TypeOK, timerVars, RequestsAreCurrent, Resetters
<1>5. HeapFollowsStage' /\ IntervalKept'
  BY <1>2 DEF HeapFollowsStage, IntervalKept, timerVars
<1>6. QueueFollowsStage'
  BY <1>2 DEF QueueFollowsStage, timerVars
<1> QED
  BY <1>3, <1>4, <1>5, <1>6

\* ... and the timer is re-armed with the heap locked.
LEMMA ResetLockedInv ==
  ASSUME Inv, ResetLocked(QueueThread)
  PROVE  Inv'
<1> USE DEF Inv
<1>1. PICK q \in request[QueueThread], x \in Elements :
        /\ Rearm(q.timer, q.interval, x)
        /\ lastSet' = [lastSet EXCEPT ![q.timer] = IF q.set THEN q.interval ELSE @]
  BY Zenon DEF ResetLocked
<1>2. q \in Requests /\ stage[q.timer] = "live"
  BY DEF TypeOK, RequestsAreCurrent, Resetters
<1>3. q.timer \in Timers /\ q.interval \in Intervals /\ q.set \in BOOLEAN
  BY <1>2 DEF Requests
<1>4. /\ heap' \in [Timers -> SUBSET Elements]
      /\ mTimerElement' \in [Timers -> Elements \cup {NoElement}]
      /\ mInterval' \in [Timers -> Intervals]
      /\ heap'[q.timer] = {x} /\ mTimerElement'[q.timer] = x
      /\ mInterval'[q.timer] = q.interval
      /\ \A u \in Timers \ {q.timer} : /\ heap'[u] = heap[u]
                                       /\ mTimerElement'[u] = mTimerElement[u]
                                       /\ mInterval'[u] = mInterval[u]
  BY <1>1, <1>3, RearmHeap
<1>5. /\ UNCHANGED <<stage, tpc, queue>>
      /\ request' = [request EXCEPT ![QueueThread] = {}]
      /\ \A t \in Timers : tpc[t] = "idle"
  BY DEF ResetLocked, HeapLocked
<1>6. TypeOK'
  BY Zenon, <1>1, <1>3, <1>4, <1>5 DEF TypeOK
<1>7. HeapFollowsStage'
  BY <1>2, <1>3, <1>4, <1>5 DEF HeapFollowsStage
<1>8. QueueFollowsStage'
  BY <1>5 DEF QueueFollowsStage
<1>9. RequestsAreCurrent'
  BY <1>5 DEF RequestsAreCurrent, TypeOK, Resetters
<1>10. IntervalKept'
  BY <1>1, <1>2, <1>3, <1>4 DEF IntervalKept, RequestsAreCurrent, TypeOK
<1> QED
  BY <1>6, <1>7, <1>8, <1>9, <1>10

\* destroy on the queue's thread, which has no call of reset under way.
LEMMA DestroyInv ==
  ASSUME Inv, NEW t \in Timers, Destroy(t) \/ DestroyElement(t)
  PROVE  Inv'
<1> USE DEF Inv
<1>1. UNCHANGED <<mInterval, lastSet, tpc, queue, request>>
  BY DEF Destroy, DestroyElement
<1>2. /\ stage[t] \in {"live", "destroying"}
      /\ stage' = [stage EXCEPT ![t] = IF stage[t] = "live" THEN "destroying" ELSE "unlinked"]
  BY DEF Destroy, DestroyElement
<1>3. TypeOK'
  <2>1. CASE Destroy(t)
    BY <1>1, <2>1 DEF Destroy, TypeOK
  <2>2. CASE DestroyElement(t)
    BY <1>1, <2>2 DEF DestroyElement, TypeOK
  <2> QED
    BY <2>1, <2>2
<1>4. HeapFollowsStage'
  BY <1>1 DEF Destroy, DestroyElement, HeapFollowsStage, TypeOK, HeapLocked
<1>5. QueueFollowsStage'
  BY <1>1, <1>2 DEF QueueFollowsStage, TypeOK
<1>6. RequestsAreCurrent'
  BY DEF Destroy, DestroyElement, RequestsAreCurrent, QueueThreadFree, TypeOK, Resetters, Requests
<1>7. IntervalKept'
  BY <1>1 DEF IntervalKept
<1> QED
  BY <1>3, <1>4, <1>5, <1>6, <1>7

\* The event that frees the timer goes behind all the others, or is refused.
LEMMA DestroyEnqueueInv ==
  ASSUME Inv, NEW t \in Timers, DestroyEnqueue(t)
  PROVE  Inv'
<1> USE DEF Inv
<1>1. /\ UNCHANGED <<mInterval, lastSet, mTimerElement, heap, tpc, request>>
      /\ stage[t] = "unlinked"
      /\ stage' = [stage EXCEPT ![t] = IF Len(queue) < MaxQueue THEN "pending" ELSE "leaked"]
  BY DEF DestroyEnqueue
<1>2. /\ queue' \in Seq(Events)
      /\ \/ queue' = queue /\ ~(Len(queue) < MaxQueue)
         \/ /\ Len(queue) < MaxQueue
            /\ Len(queue') = Len(queue) + 1
            /\ \A i \in 1..Len(queue) : queue'[i] = queue[i]
            /\ queue'[Len(queue')] = [kind |-> "destroy", timer |-> t]
  BY Zenon, EnqueueFacts DEF DestroyEnqueue
<1>3. TypeOK'
  BY <1>1, <1>2 DEF TypeOK
<1>4. HeapFollowsStage' /\ IntervalKept'
  BY <1>1 DEF HeapFollowsStage, IntervalKept, TypeOK
<1>5. RequestsAreCurrent'
  BY <1>1 DEF RequestsAreCurrent, TypeOK, Resetters, Requests
<1>6. Len(queue) \in Nat /\ \A i \in 1..Len(queue) : queue[i].timer \in Timers
  BY QueueTimers
<1>7. ASSUME NEW i \in 1..Len(queue')
      PROVE  /\ stage'[queue'[i].timer] \notin {"none", "freed"}
             /\ queue'[i].kind = "destroy" =>
                   /\ stage'[queue'[i].timer] = "pending"
                   /\ \A j \in 1..Len(queue') : j > i => queue'[j].timer # queue'[i].timer
  <2>1. CASE queue' = queue
    BY <1>1, <1>6, <2>1 DEF QueueFollowsStage, TypeOK
  <2>2. CASE queue' # queue /\ i \in 1..Len(queue)
    <3>1. queue'[i] = queue[i] /\ queue[i].timer \in Timers
      BY <1>2, <1>6, <2>2
    <3>2. DOMAIN stage = Timers /\ Len(queue) < MaxQueue
      BY <1>2, <2>2 DEF TypeOK
    <3>3. stage'[queue[i].timer] \notin {"none", "freed"}
      BY <1>1, <2>2, <3>1, <3>2 DEF QueueFollowsStage
    <3>4. queue[i].kind = "destroy" => queue[i].timer # t
      BY <1>1, <2>2 DEF QueueFollowsStage
    <3>5. queue[i].kind = "destroy" => stage'[queue[i].timer] = "pending"
      BY <1>1, <2>2, <3>1, <3>2, <3>4 DEF QueueFollowsStage
    <3>6. ASSUME queue[i].kind = "destroy", NEW j \in 1..Len(queue'), j > i
          PROVE  queue'[j].timer # queue[i].timer
      BY <1>2, <1>6, <2>2, <3>4, <3>6 DEF QueueFollowsStage
    <3> QED
      BY <3>1, <3>3, <3>5, <3>6
  <2>3. CASE queue' # queue /\ i = Len(queue')
    BY <1>1, <1>2, <1>6, <2>3 DEF TypeOK
  <2> QED
    BY <1>2, <1>6, <2>1, <2>2, <2>3
<1>8. QueueFollowsStage'
  BY <1>7 DEF QueueFollowsStage
<1> QED
  BY <1>3, <1>4, <1>5, <1>8

\* The queue's thread takes the next event; the one that frees a timer leaves no
\* other event of that timer behind.
LEMMA DispatchEventInv ==
  ASSUME Inv, DispatchEvent
  PROVE  Inv'
<1> USE DEF Inv
<1>1. /\ UNCHANGED <<mInterval, lastSet, mTimerElement, heap, tpc, request>>
      /\ queue # <<>> /\ queue' = Tail(queue) /\ request[QueueThread] = {}
  BY DEF DispatchEvent, QueueCallback, DestroyCallback, QueueThreadFree, timerVars
<1>2. /\ queue' \in Seq(Events)
      /\ Len(queue) \in Nat \ {0} /\ Len(queue') = Len(queue) - 1
      /\ \A i \in 1..Len(queue') : queue'[i] = queue[i + 1]
      /\ Head(queue) = queue[1]
      /\ \A i \in 1..Len(queue) : queue[i].timer \in Timers
  <2>1. queue \in Seq(Events)
    BY DEF TypeOK
  <2>2. \A i \in 1..Len(queue) : queue[i].timer \in Timers
    BY QueueTimers
  <2> QED
    BY <1>1, <2>1, <2>2
<1>3. RequestsAreCurrent' /\ IntervalKept'
  BY <1>1 DEF RequestsAreCurrent, IntervalKept
<1>4. CASE QueueCallback
  <2>1. UNCHANGED stage
    BY <1>4 DEF QueueCallback, timerVars
  <2>2. TypeOK' /\ HeapFollowsStage'
    BY Zenon, <1>1, <1>2, <2>1 DEF TypeOK, HeapFollowsStage
  <2>3. ASSUME NEW i \in 1..Len(queue')
        PROVE  /\ stage'[queue'[i].timer] \notin {"none", "freed"}
               /\ queue'[i].kind = "destroy" =>
                     /\ stage'[queue'[i].timer] = "pending"
                     /\ \A j \in 1..Len(queue') : j > i => queue'[j].timer # queue'[i].timer
    <3>1. i + 1 \in 1..Len(queue) /\ queue'[i] = queue[i + 1]
      BY <1>2
    <3>2. \A j \in 1..Len(queue') : /\ j + 1 \in 1..Len(queue)
                                   /\ queue'[j] = queue[j + 1]
                                   /\ j > i => j + 1 > i + 1
      BY <1>2
    <3>3. /\ stage[queue[i + 1].timer] \notin {"none", "freed"}
          /\ queue[i + 1].kind = "destroy" =>
                /\ stage[queue[i + 1].timer] = "pending"
                /\ \A j \in 1..Len(queue) : j > i + 1 => queue[j].timer # queue[i + 1].timer
      BY <3>1 DEF QueueFollowsStage
    <3>4. ASSUME queue[i + 1].kind = "destroy", NEW j \in 1..Len(queue'), j > i
          PROVE  queue'[j].timer # queue[i + 1].timer
      <4>1. j + 1 \in 1..Len(queue) /\ queue'[j] = queue[j + 1] /\ j + 1 > i + 1
        BY <1>2, <3>4
      <4>2. \A k \in 1..Len(queue) : k > i + 1 => queue[k].timer # queue[i + 1].timer
        BY <3>3, <3>4
      <4>3. queue[j + 1].timer # queue[i + 1].timer
        BY <4>1, <4>2
      <4> QED
        BY <4>1, <4>3
    <3> QED
      BY <2>1, <3>1, <3>3, <3>4
  <2>4. QueueFollowsStage'
    BY <2>3 DEF QueueFollowsStage
  <2> QED
    BY <1>3, <2>2, <2>4
<1>5. CASE DestroyCallback
  <2>1. /\ stage' = [stage EXCEPT ![queue[1].timer] = "freed"]
        /\ queue[1].kind = "destroy"
    BY Zenon, <1>2, <1>5 DEF DestroyCallback
  <2>2. /\ stage[queue[1].timer] = "pending"
        /\ \A j \in 1..Len(queue) : j > 1 => queue[j].timer # queue[1].timer
    BY <1>2, <2>1 DEF QueueFollowsStage
  <2>3. TypeOK' /\ HeapFollowsStage'
    BY <1>1, <1>2, <2>1, <2>2 DEF TypeOK, HeapFollowsStage
  <2>4. ASSUME NEW i \in 1..Len(queue')
        PROVE  /\ stage'[queue'[i].timer] \notin {"none", "freed"}
               /\ queue'[i].kind = "destroy" =>
                     /\ stage'[queue'[i].timer] = "pending"
                     /\ \A j \in 1..Len(queue') : j > i => queue'[j].timer # queue'[i].timer
    <3>1. i + 1 \in 1..Len(queue) /\ i + 1 > 1 /\ queue'[i] = queue[i + 1]
      BY <1>2
    <3>2. \A j \in 1..Len(queue') : /\ j + 1 \in 1..Len(queue)
                                   /\ queue'[j] = queue[j + 1]
                                   /\ j > i => j + 1 > i + 1
      BY <1>2
    <3>3. stage'[queue[i + 1].timer] = stage[queue[i + 1].timer]
      BY <1>2, <2>1, <2>2, <3>1 DEF TypeOK
    <3>4. /\ stage[queue[i + 1].timer] \notin {"none", "freed"}
          /\ queue[i + 1].kind = "destroy" =>
                /\ stage[queue[i + 1].timer] = "pending"
                /\ \A j \in 1..Len(queue) : j > i + 1 => queue[j].timer # queue[i + 1].timer
      BY <3>1 DEF QueueFollowsStage
    <3>5. ASSUME queue[i + 1].kind = "destroy", NEW j \in 1..Len(queue'), j > i
          PROVE  queue'[j].timer # queue[i + 1].timer
      <4>1. j + 1 \in 1..Len(queue) /\ queue'[j] = queue[j + 1] /\ j + 1 > i + 1
        BY <1>2, <3>5
      <4>2. \A k \in 1..Len(queue) : k > i + 1 => queue[k].timer # queue[i + 1].timer
        BY <3>4, <3>5
      <4>3. queue[j + 1].timer # queue[i + 1].timer
        BY <4>1, <4>2
      <4> QED
        BY <4>1, <4>3
    <3> QED
      BY <3>1, <3>3, <3>4, <3>5
  <2>5. QueueFollowsStage'
    BY <2>4 DEF QueueFollowsStage
  <2> QED
    BY <1>3, <2>3, <2>5
<1> QED
  BY <1>4, <1>5 DEF DispatchEvent

\* Every step preserves the invariant when no other thread resets timers.
LEMMA StepInv ==
  ASSUME Apps = {}, Inv, [Next]_vars
  PROVE  Inv'
<1>1. CASE UNCHANGED vars
  <2> USE <1>1 DEF vars, timerVars, Inv
  <2>1. TypeOK'
    BY DEF TypeOK
  <2>2. HeapFollowsStage' /\ IntervalKept'
    BY DEF HeapFollowsStage, IntervalKept
  <2>3. QueueFollowsStage'
    BY DEF QueueFollowsStage
  <2>4. RequestsAreCurrent'
    BY DEF RequestsAreCurrent
  <2> QED
    BY <2>1, <2>2, <2>3, <2>4
<1>2. CASE Next
  BY <1>2, CreateInv, ExpireInv, CallbackResetInv, CallbackEnqueueInv, ResetCheckInv,
     ResetLockedInv, DestroyInv, DestroyEnqueueInv, DispatchEventInv
  DEF Next, HeapThread, DestroySteps, Resetters
<1> QED
  BY <1>1, <1>2

\* The inductive invariant holds in every reachable state.
THEOREM Invariance ==
  ASSUME Apps = {}
  PROVE  Spec => []Inv
BY InitInv, StepInv, PTL DEF Spec

\* A timer that has been freed is referred to by no heap element, callback, event
\* or call of reset.
THEOREM FreedIsForgotten ==
  ASSUME Apps = {}
  PROVE  Spec => []NoUseAfterFree
<1>1. Inv => NoUseAfterFree
  <2> SUFFICES ASSUME Inv, NEW t \in Timers, stage[t] = "freed"
               PROVE  /\ heap[t] = {} /\ tpc[t] = "idle"
                      /\ \A i \in 1..Len(queue) : queue[i].timer # t
                      /\ \A r \in Resetters : \A q \in request[r] : q.timer # t
    BY DEF NoUseAfterFree
  <2>1. heap[t] = {} /\ tpc[t] = "idle"
    BY DEF Inv, HeapFollowsStage
  <2>2. \A i \in 1..Len(queue) : queue[i].timer # t
    BY DEF Inv, QueueFollowsStage
  <2>3. \A r \in Resetters : \A q \in request[r] : q.timer # t
    BY DEF Inv, RequestsAreCurrent, Resetters
  <2> QED
    BY <2>1, <2>2, <2>3
<1> QED
  BY <1>1, Invariance, PTL

\* A live timer has one element in the heap, or is about to be re-armed.
THEOREM TimersAreArmedOnce ==
  ASSUME Apps = {}
  PROVE  Spec => []ArmedOnce
<1>1. Inv => ArmedOnce
  BY Zenon DEF Inv, HeapFollowsStage, ArmedOnce
<1> QED
  BY <1>1, Invariance, PTL

\* The interval set last stays in force.
THEOREM IntervalsAreKept ==
  ASSUME Apps = {}
  PROVE  Spec => []IntervalKept
<1>1. Inv => IntervalKept
  BY DEF Inv
<1> QED
  BY <1>1, Invariance, PTL

-----------------------------------------------------------------------------
\* Requests and replies.

Messages == [subject : Inboxes \cup {Subject}, type : MsgTypes, num : Nat, reply : Handles]

Exchanges == [inbox : Inboxes, num : Nat]

TypeInv ==
    /\ sent \in Nat
    /\ requests \subseteq Exchanges
    /\ wire \in [Queues -> Seq(Messages)]
    /\ cached \in [Queues -> BridgeMsgs]
    /\ payload \in [Queues -> Nat]
    /\ cpc \in [Queues -> {"idle", "callback"}]
    /\ saved \subseteq [handle : Inboxes, num : Nat]
    /\ answers \subseteq Exchanges

\* Number n has been given out, and if a request has it, inbox h sent that request.
Owed(h, n) == n <= sent /\ \A r \in requests : r.num = n => r.inbox = h

\* A message that may be on the wire: a request or a reply is for the inbox that it
\* names, and a plain message has no request's number.
Truthful(m) ==
    \/ /\ m.type = "INBOX_REQUEST" /\ m.subject = Subject
       /\ m.reply \in Inboxes /\ Owed(m.reply, m.num)
    \/ /\ m.type = "PUB_SUB" /\ m.subject = Subject
       /\ \A h \in Inboxes : Owed(h, m.num)
    \/ /\ m.type = "INBOX_RESPONSE" /\ m.subject \in Inboxes
       /\ Owed(m.subject, m.num)

WireTruthful ==
    \A q \in Queues : \A k \in 1..Len(wire[q]) : Truthful(wire[q][k])

\* A callback that may reply finds its own message's inbox in the bridge message.
CallbackTruthful ==
    \A q \in Queues : cpc[q] = "callback" /\ IsFromInbox(cached[q]) =>
        /\ cached[q].mReplyHandle \in Inboxes
        /\ Owed(cached[q].mReplyHandle, payload[q])

HistoryTruthful ==
    /\ \A s \in saved : Owed(s.handle, s.num)
    /\ \A a \in answers : Owed(a.inbox, a.num)
    /\ discarded = {}

RequestInv ==
    /\ TypeInv
    /\ \A r \in requests : r.num <= sent
    /\ WireTruthful
    /\ CallbackTruthful
    /\ HistoryTruthful

-----------------------------------------------------------------------------
\* What is on the wire of a queue after zmqBridgeMamaPublisherImpl_sendSubject was
\* there before, or is the message that was sent.
LEMMA WireGrows ==
  ASSUME wire \in [Queues -> Seq(Messages)], NEW R, NEW m \in Messages,
         wire' = [q \in Queues |-> IF q \in R THEN Append(wire[q], m) ELSE wire[q]]
  PROVE  /\ wire' \in [Queues -> Seq(Messages)]
         /\ \A q \in Queues : \A k \in 1..Len(wire'[q]) :
               \/ wire'[q][k] = m
               \/ k \in 1..Len(wire[q]) /\ wire'[q][k] = wire[q][k]
<1> SUFFICES ASSUME NEW q \in Queues
             PROVE  /\ wire'[q] \in Seq(Messages)
                    /\ \A k \in 1..Len(wire'[q]) :
                          \/ wire'[q][k] = m
                          \/ k \in 1..Len(wire[q]) /\ wire'[q][k] = wire[q][k]
  OBVIOUS
<1>1. wire[q] \in Seq(Messages)
  OBVIOUS
<1>2. CASE q \in R
  <2>1. wire'[q] = Append(wire[q], m)
    BY <1>2
  <2> QED
    BY <1>1, <2>1
<1>3. CASE q \notin R
  BY <1>1, <1>3
<1> QED
  BY <1>2, <1>3

\* When a callback takes the first message of a queue, the others stay.
LEMMA WireShrinks ==
  ASSUME wire \in [Queues -> Seq(Messages)], NEW p \in Queues, wire[p] # <<>>,
         wire' = [wire EXCEPT ![p] = Tail(@)]
  PROVE  /\ Head(wire[p]) \in Messages /\ Head(wire[p]) = wire[p][1] /\ 1 \in 1..Len(wire[p])
         /\ wire' \in [Queues -> Seq(Messages)]
         /\ \A q \in Queues : \A k \in 1..Len(wire'[q]) :
               \E j \in 1..Len(wire[q]) : wire'[q][k] = wire[q][j]
<1>1. wire[p] \in Seq(Messages)
  OBVIOUS
<1>2. /\ Head(wire[p]) \in Messages /\ Head(wire[p]) = wire[p][1] /\ 1 \in 1..Len(wire[p])
      /\ Tail(wire[p]) \in Seq(Messages)
      /\ \A k \in 1..Len(Tail(wire[p])) :
            k + 1 \in 1..Len(wire[p]) /\ Tail(wire[p])[k] = wire[p][k + 1]
  BY <1>1
<1>3. wire' \in [Queues -> Seq(Messages)]
  BY <1>2
<1>4. ASSUME NEW q \in Queues, NEW k \in 1..Len(wire'[q])
      PROVE  \E j \in 1..Len(wire[q]) : wire'[q][k] = wire[q][j]
  <2>1. CASE q = p
    <3>1. wire'[q] = Tail(wire[p])
      BY <2>1
    <3> QED
      BY <1>2, <2>1, <3>1
  <2>2. CASE q # p
    BY <2>2
  <2> QED
    BY <2>1, <2>2
<1> QED
  BY Zenon, <1>2, <1>3, <1>4

\* A number keeps its inbox: a request that is added has a new number.
LEMMA OwedKept ==
  ASSUME sent \in Nat, sent' \in Nat, sent <= sent',
         \A r \in requests' : r \in requests \/ r.num = sent + 1,
         NEW h, NEW n \in Nat, Owed(h, n)
  PROVE  Owed(h, n)'
  BY DEF Owed

\* Likewise for a message on the wire.
LEMMA TruthfulKept ==
  ASSUME sent \in Nat, sent' \in Nat, sent <= sent',
         \A r \in requests' : r \in requests \/ r.num = sent + 1,
         NEW m \in Messages, Truthful(m)
  PROVE  Truthful(m)'
  BY OwedKept DEF Truthful, Messages

\* What is truthful is so on the wire.
LEMMA TruthfulOnWire ==
  ASSUME NEW x, NEW q, NEW k, wire'[q][k] = x, Truthful(x)'
  PROVE  Truthful(wire[q][k])'
  BY DEF Truthful, Owed

\* What was true of the numbers stays true while no number and no request is added.
LEMMA SameWire ==
  ASSUME WireTruthful, UNCHANGED <<wire, sent, requests>>
  PROVE  WireTruthful'
  BY DEF WireTruthful, Truthful, Owed

\* Likewise for the callbacks, when none has been given a message.
LEMMA SameCallback ==
  ASSUME CallbackTruthful, UNCHANGED <<cached, payload, sent, requests>>,
         \A q \in Queues : cpc'[q] = "callback" => cpc[q] = "callback"
  PROVE  CallbackTruthful'
  BY DEF CallbackTruthful, Owed

\* Likewise for the duplicated handles and the answers.
LEMMA SameHistory ==
  ASSUME HistoryTruthful, UNCHANGED <<sent, requests, answers, discarded>>,
         \A s \in saved' : s \in saved \/ Owed(s.handle, s.num)
  PROVE  HistoryTruthful'
  BY DEF HistoryTruthful, Owed

-----------------------------------------------------------------------------
\* Nothing has been sent in the beginning.
LEMMA InitRequestInv ==
  RequestInit => RequestInv
<1> SUFFICES ASSUME RequestInit PROVE RequestInv
  OBVIOUS
<1>1. TypeInv
  BY DEF RequestInit, TypeInv, MsgInit, BridgeMsgs, MsgTypes, Handles
<1>2. WireTruthful
  BY DEF RequestInit, WireTruthful
<1>3. CallbackTruthful /\ HistoryTruthful
  BY DEF RequestInit, CallbackTruthful, HistoryTruthful
<1> QED
  BY <1>1, <1>2, <1>3 DEF RequestInv, RequestInit

\* Sending a truthful message keeps the wire truthful, whatever else the step does
\* with numbers and requests.
LEMMA SendTruthful ==
  ASSUME RequestInv, sent' \in Nat, sent <= sent',
         \A r \in requests' : r \in requests \/ r.num = sent + 1,
         NEW msg \in BridgeMsgs, NEW subject \in Inboxes \cup {Subject}, NEW n \in Nat,
         SendSubject(msg, subject, n), Truthful(Serialize(msg, subject, n))'
  PROVE  wire' \in [Queues -> Seq(Messages)] /\ WireTruthful'
<1> DEFINE m == Serialize(msg, subject, n)
<1>1. m \in Messages
  BY DEF Serialize, Messages, BridgeMsgs, Handles
<1>2. wire \in [Queues -> Seq(Messages)] /\ sent \in Nat
  BY DEF RequestInv, TypeInv
<1>3. wire' = [q \in Queues |->
                 IF q \in Receivers(subject) THEN Append(wire[q], m) ELSE wire[q]]
  BY DEF SendSubject
<1>4. Truthful(m)'
  OBVIOUS
<1> HIDE DEF m
<1>5. /\ wire' \in [Queues -> Seq(Messages)]
      /\ \A q \in Queues : \A k \in 1..Len(wire'[q]) :
            \/ wire'[q][k] = m
            \/ k \in 1..Len(wire[q]) /\ wire'[q][k] = wire[q][k]
  BY <1>1, <1>2, <1>3, WireGrows
<1>6. ASSUME NEW q \in Queues, NEW k \in 1..Len(wire'[q])
      PROVE  Truthful(wire[q][k])'
  <2>1. CASE wire'[q][k] = m
    BY <1>4, <2>1, TruthfulOnWire
  <2>2. CASE k \in 1..Len(wire[q]) /\ wire'[q][k] = wire[q][k]
    <3>1. wire[q][k] \in Messages /\ Truthful(wire[q][k])
      BY <1>2, <2>2 DEF RequestInv, WireTruthful
    <3>2. PICK x \in Messages : x = wire[q][k] /\ Truthful(x)
      BY <3>1
    <3>3. Truthful(x)'
      BY <1>2, <3>2, TruthfulKept
    <3> QED
      BY <2>2, <3>2, <3>3, TruthfulOnWire
  <2> QED
    BY <1>5, <2>1, <2>2
<1> QED
  BY <1>5, <1>6 DEF WireTruthful

\* What Send and SendFromInbox have in common: a message with a new number is sent.
LEMMA NewNumberInv ==
  ASSUME RequestInv, NEW n \in Nat, n = sent + 1, sent' = n, requests' \subseteq Exchanges,
         \A r \in requests' : r \in requests \/ r.num = n,
         UNCHANGED <<cached, payload, cpc, saved, answers, discarded>>,
         NEW msg \in BridgeMsgs, SendSubject(msg, Subject, n),
         Truthful(Serialize(msg, Subject, n))'
  PROVE  RequestInv'
<1>1. /\ sent \in Nat /\ sent' \in Nat /\ sent <= sent'
      /\ \A r \in requests' : r \in requests \/ r.num = sent + 1
  BY DEF RequestInv, TypeInv
<1>2. wire' \in [Queues -> Seq(Messages)] /\ WireTruthful'
  BY <1>1, SendTruthful
<1>3. TypeInv'
  BY <1>1, <1>2 DEF RequestInv, TypeInv
<1>4. \A r \in requests' : r.num <= sent'
  BY <1>1 DEF RequestInv, TypeInv, Exchanges
<1>5. ASSUME NEW h, NEW k \in Nat, Owed(h, k)
      PROVE  Owed(h, k)'
  BY <1>1, <1>5, OwedKept
<1>6. CallbackTruthful'
  BY <1>5 DEF RequestInv, TypeInv, CallbackTruthful
<1>7. HistoryTruthful'
  BY <1>5 DEF RequestInv, TypeInv, HistoryTruthful, Exchanges
<1> QED
  BY <1>2, <1>3, <1>4, <1>6, <1>7 DEF RequestInv

\* zmqBridgeMamaPublisher_send: a plain message takes a number that no request has.
LEMMA SendInv ==
  ASSUME RequestInv, Send
  PROVE  RequestInv'
<1>1. sent \in Nat /\ requests \subseteq Exchanges /\ MsgInit \in BridgeMsgs
  BY DEF RequestInv, TypeInv, MsgInit, BridgeMsgs, MsgTypes, Handles
<1>2. PICK n \in Nat : n = sent + 1
  BY <1>1
<1>3. Truthful(Serialize(MsgInit, Subject, n))'
  <2>1. \A h \in Inboxes : Owed(h, n)'
    BY SMTT(30), <1>1, <1>2 DEF RequestInv, Send, Owed, Exchanges
  <2> QED
    BY <2>1 DEF Truthful, Serialize, MsgInit
<1> QED
  BY <1>1, <1>2, <1>3, NewNumberInv DEF Send

\* sendFromInboxByIndex: a request takes a number of its own.
LEMMA SendFromInboxInv ==
  ASSUME RequestInv, NEW i \in Inboxes, SendFromInbox(i)
  PROVE  RequestInv'
<1> DEFINE msg == [mMsgType |-> "INBOX_REQUEST", mReplyHandle |-> i]
<1>1. sent \in Nat /\ requests \subseteq Exchanges /\ msg \in BridgeMsgs
  BY DEF RequestInv, TypeInv, BridgeMsgs, MsgTypes, Handles
<1>2. PICK n \in Nat : n = sent + 1
  BY <1>1
<1>3. /\ requests' = requests \cup {[inbox |-> i, num |-> n]}
      /\ requests' \subseteq Exchanges
      /\ \A r \in requests' : r \in requests \/ r.num = n
  BY <1>1, <1>2 DEF SendFromInbox, Exchanges
<1>4. Truthful(Serialize(msg, Subject, n))'
  <2>1. Owed(i, n)'
    BY <1>1, <1>2, <1>3 DEF RequestInv, SendFromInbox, Owed, Exchanges
  <2> QED
    BY <2>1 DEF Truthful, Serialize
<1> QED
  BY <1>1, <1>2, <1>3, <1>4, NewNumberInv DEF SendFromInbox

\* What SubCallback and InboxCallback have in common: the first message of the queue
\* is taken off the wire and overwrites the bridge message.
LEMMA ReceiveTruthful ==
  ASSUME RequestInv, NEW p \in Queues, wire[p] # <<>>,
         wire' = [wire EXCEPT ![p] = Tail(@)],
         cached' = [cached EXCEPT ![p] = Deserialize(@, Head(wire[p]))],
         payload' = [payload EXCEPT ![p] = Head(wire[p]).num],
         UNCHANGED <<sent, requests>>
  PROVE  /\ Head(wire[p]) \in Messages /\ Truthful(Head(wire[p]))
         /\ wire' \in [Queues -> Seq(Messages)] /\ WireTruthful'
         /\ cached' \in [Queues -> BridgeMsgs] /\ payload' \in [Queues -> Nat]
<1>1. /\ wire \in [Queues -> Seq(Messages)]
      /\ cached \in [Queues -> BridgeMsgs] /\ payload \in [Queues -> Nat]
  BY DEF RequestInv, TypeInv
<1>2. /\ Head(wire[p]) \in Messages /\ Head(wire[p]) = wire[p][1] /\ 1 \in 1..Len(wire[p])
      /\ wire' \in [Queues -> Seq(Messages)]
      /\ \A q \in Queues : \A k \in 1..Len(wire'[q]) :
            \E j \in 1..Len(wire[q]) : wire'[q][k] = wire[q][j]
  BY <1>1, WireShrinks
<1>3. Truthful(Head(wire[p]))
  BY <1>2 DEF RequestInv, WireTruthful
<1>4. WireTruthful'
  <2>1. SUFFICES ASSUME NEW q \in Queues, NEW k \in 1..Len(wire'[q])
                 PROVE  Truthful(wire[q][k])'
    BY Zenon DEF WireTruthful
  <2>2. PICK j \in 1..Len(wire[q]) : wire'[q][k] = wire[q][j]
    BY <1>2
  <2>3. PICK x : x = wire[q][j] /\ Truthful(x)
    BY ZenonT(30) DEF RequestInv, WireTruthful
  <2>4. Truthful(x)'
    BY <2>3 DEF Truthful, Owed
  <2> QED
    BY <2>2, <2>3, <2>4, TruthfulOnWire
<1>5. Deserialize(cached[p], Head(wire[p])) \in BridgeMsgs
  <2> DEFINE m == Head(wire[p])
  <2>1. m \in Messages /\ Truthful(m) /\ cached[p] \in BridgeMsgs
    BY <1>1, <1>2, <1>3
  <2> HIDE DEF m
  <2>2. m.type \in MsgTypes /\ m.reply \in Handles /\ cached[p].mReplyHandle \in Handles
    BY <2>1 DEF Messages, BridgeMsgs
  <2>3. m.type = "INBOX_RESPONSE" => m.subject \in Handles
    BY <2>1 DEF Truthful, Handles
  <2>4. Deserialize(cached[p], m) \in BridgeMsgs
    BY <2>2, <2>3 DEF Deserialize, BridgeMsgs, MsgTypes
  <2> QED
    BY <2>4 DEF m
<1>6. cached' \in [Queues -> BridgeMsgs]
  BY <1>1, <1>5
<1>7. payload' \in [Queues -> Nat]
  BY <1>1, <1>2 DEF Messages
<1> QED
  BY <1>2, <1>3, <1>4, <1>6, <1>7

\* A callback is given a request with its handle, or a plain message, whose number
\* is owed to nobody: whatever handle the bridge message still has does no harm.
LEMMA SubCallbackInv ==
  ASSUME RequestInv, NEW p \in Queues, SubCallback(p)
  PROVE  RequestInv'
<1> DEFINE m == Head(wire[p])
<1>1. /\ m \in Messages /\ Truthful(m)
      /\ wire' \in [Queues -> Seq(Messages)] /\ WireTruthful'
      /\ cached' \in [Queues -> BridgeMsgs] /\ payload' \in [Queues -> Nat]
  BY Zenon, ReceiveTruthful DEF SubCallback
<1>2. TypeInv'
  BY SMTT(30), <1>1 DEF RequestInv, TypeInv, SubCallback
<1>3. HistoryTruthful' /\ \A r \in requests' : r.num <= sent'
  BY SMTT(30) DEF RequestInv, HistoryTruthful, SubCallback, Owed
<1>4. /\ m.subject = Subject
      /\ cached'[p] = Deserialize(cached[p], m) /\ payload'[p] = m.num
      /\ cached[p].mReplyHandle \in Handles
  BY DEF RequestInv, TypeInv, SubCallback, BridgeMsgs
<1>5. \A q \in Queues : q # p =>
         cached'[q] = cached[q] /\ payload'[q] = payload[q] /\ cpc'[q] = cpc[q]
  BY DEF RequestInv, TypeInv, SubCallback
<1>6. UNCHANGED <<sent, requests>>
  BY DEF SubCallback
<1> HIDE DEF m
<1>7. IsFromInbox(cached'[p]) =>
         cached'[p].mReplyHandle \in Inboxes /\ Owed(cached'[p].mReplyHandle, payload'[p])
  <2>1. CASE m.type = "INBOX_REQUEST"
    BY <1>1, <1>4, <2>1 DEF Truthful, Deserialize
  <2>2. CASE m.type = "PUB_SUB"
    BY SMTT(30), <1>1, <1>4, <2>2 DEF Truthful, Deserialize, IsFromInbox, Handles
  <2>3. m.type # "INBOX_RESPONSE"
    BY <1>1, <1>4, RequestReplyAssumption DEF Truthful
  <2> QED
    BY <1>1, <2>1, <2>2, <2>3 DEF Truthful
<1>8. CallbackTruthful'
  BY <1>5, <1>6, <1>7 DEF RequestInv, CallbackTruthful, Owed, IsFromInbox
<1> QED
  BY <1>1, <1>2, <1>3, <1>8 DEF RequestInv

\* An inbox is given a reply that bears its handle, and takes it.
LEMMA InboxCallbackInv ==
  ASSUME RequestInv, NEW p \in Queues, InboxCallback(p)
  PROVE  RequestInv'
<1> DEFINE m == Head(wire[p])
           answer == [inbox |-> m.subject, num |-> m.num]
<1>1. /\ m \in Messages /\ Truthful(m)
      /\ wire' \in [Queues -> Seq(Messages)] /\ WireTruthful'
      /\ cached' \in [Queues -> BridgeMsgs] /\ payload' \in [Queues -> Nat]
  BY ZenonT(30), ReceiveTruthful DEF InboxCallback
<1>2. UNCHANGED <<sent, requests, cpc, saved>> /\ m.subject \in Inboxes /\ cpc[p] = "idle"
  BY SMTT(30) DEF InboxCallback
<1>3. \/ answers' = answers \cup {answer} /\ UNCHANGED discarded
      \/ cached'[p].mReplyHandle # m.subject
  BY SMTT(30) DEF InboxCallback
<1>4. cached'[p] = Deserialize(cached[p], m)
  BY DEF RequestInv, TypeInv, InboxCallback
<1>5. \A q \in Queues : q # p => cached'[q] = cached[q] /\ payload'[q] = payload[q]
  BY Zenon DEF RequestInv, TypeInv, InboxCallback
<1> HIDE DEF m
<1>6. m.type = "INBOX_RESPONSE" /\ Owed(m.subject, m.num)
  BY <1>1, <1>2, RequestReplyAssumption DEF Truthful
<1>7. answers' = answers \cup {answer} /\ UNCHANGED discarded
  BY <1>3, <1>4, <1>6 DEF Deserialize
<1>8. TypeInv'
  <2>1. answer \in Exchanges
    BY Zenon, <1>1, <1>2 DEF Exchanges, Messages
  <2> QED
    BY SMTT(30), <1>1, <1>2, <1>7, <2>1 DEF RequestInv, TypeInv
<1>9. HistoryTruthful' /\ \A r \in requests' : r.num <= sent'
  <2>1. \A h, n : Owed(h, n)' <=> Owed(h, n)
    BY Zenon, <1>2 DEF Owed
  <2>2. \A a \in answers' : Owed(a.inbox, a.num)
    <3>1. answer.inbox = m.subject /\ answer.num = m.num
      BY ZenonT(30)
    <3> QED
      BY Zenon, <1>6, <1>7, <3>1 DEF RequestInv, HistoryTruthful
  <2> QED
    BY <1>2, <1>7, <2>1, <2>2 DEF RequestInv, HistoryTruthful
<1>10. CallbackTruthful'
  BY <1>2, <1>5 DEF RequestInv, CallbackTruthful, Owed, IsFromInbox
<1> QED
  BY <1>1, <1>8, <1>9, <1>10 DEF RequestInv

\* Sending a reply for a number to the inbox that it is owed to.
LEMMA ReplyTruthful ==
  ASSUME RequestInv, NEW h \in Inboxes, NEW n \in Nat, Owed(h, n), SendReply(h, n),
         UNCHANGED <<sent, requests>>
  PROVE  wire' \in [Queues -> Seq(Messages)] /\ WireTruthful'
<1> DEFINE msg == [mMsgType |-> "INBOX_RESPONSE", mReplyHandle |-> h]
<1>1. sent \in Nat /\ msg \in BridgeMsgs
  BY Zenon DEF RequestInv, TypeInv, BridgeMsgs, MsgTypes, Handles
<1>2. Truthful(Serialize(msg, h, n))'
  BY DEF Truthful, Serialize, Owed
<1>3. SendSubject(msg, h, n)
  BY DEF SendReply
<1> HIDE DEF msg
<1> QED
  BY <1>1, <1>2, <1>3, SendTruthful

\* A reply from the callback goes to the inbox that its message is owed to.
LEMMA SendReplyToInboxInv ==
  ASSUME RequestInv, NEW p \in Queues, SendReplyToInbox(p)
  PROVE  RequestInv'
<1>1. PICK h \in Inboxes, n \in Nat :
         h = cached[p].mReplyHandle /\ n = payload[p] /\ Owed(h, n)
  BY Zenon DEF RequestInv, TypeInv, CallbackTruthful, SendReplyToInbox
<1>2. UNCHANGED <<sent, requests, cached, payload, saved, answers, discarded>>
  BY Zenon DEF SendReplyToInbox
<1>3. wire' \in [Queues -> Seq(Messages)] /\ WireTruthful'
  BY <1>1, <1>2, ReplyTruthful DEF SendReplyToInbox
<1>4. cpc' = [cpc EXCEPT ![p] = "idle"]
  BY DEF SendReplyToInbox
<1>5. TypeInv'
  BY <1>2, <1>3, <1>4 DEF RequestInv, TypeInv
<1>6. CallbackTruthful'
  BY <1>2, <1>4, SameCallback DEF RequestInv, TypeInv
<1>7. HistoryTruthful' /\ \A r \in requests' : r.num <= sent'
  BY <1>2, SameHistory DEF RequestInv
<1> QED
  BY <1>3, <1>5, <1>6, <1>7 DEF RequestInv

\* A duplicated handle is the one that the number is owed to.
LEMMA DuplicateReplyHandleInv ==
  ASSUME RequestInv, NEW p \in Queues, DuplicateReplyHandle(p)
  PROVE  RequestInv'
<1>1. PICK h \in Inboxes, n \in Nat :
         h = cached[p].mReplyHandle /\ n = payload[p] /\ Owed(h, n)
  BY Zenon DEF RequestInv, TypeInv, CallbackTruthful, DuplicateReplyHandle
<1>2. UNCHANGED <<sent, requests, wire, cached, payload, answers, discarded>>
  BY DEF DuplicateReplyHandle
<1>3. /\ cpc' = [cpc EXCEPT ![p] = "idle"]
      /\ saved' = saved \cup {[handle |-> h, num |-> n]}
  BY <1>1 DEF DuplicateReplyHandle
<1>4. TypeInv'
  BY <1>2, <1>3 DEF RequestInv, TypeInv
<1>5. WireTruthful' /\ \A r \in requests' : r.num <= sent'
  BY <1>2, SameWire DEF RequestInv
<1>6. CallbackTruthful'
  BY <1>2, <1>3, SameCallback DEF RequestInv, TypeInv
<1>7. \A s \in saved' : s \in saved \/ Owed(s.handle, s.num)
  BY <1>1, <1>3
<1>8. HistoryTruthful'
  BY <1>2, <1>7, SameHistory DEF RequestInv
<1> QED
  BY <1>4, <1>5, <1>6, <1>8 DEF RequestInv

\* A reply from a duplicated handle goes where the number is owed to.
LEMMA SendReplyToInboxHandleInv ==
  ASSUME RequestInv, SendReplyToInboxHandle
  PROVE  RequestInv'
<1>1. PICK s \in saved : SendReply(s.handle, s.num) /\ saved' = saved \ {s}
  BY DEF SendReplyToInboxHandle
<1>2. UNCHANGED <<sent, requests, cached, payload, cpc, answers, discarded>>
  BY DEF SendReplyToInboxHandle
<1>3. s.handle \in Inboxes /\ s.num \in Nat /\ Owed(s.handle, s.num)
  BY DEF RequestInv, TypeInv, HistoryTruthful
<1>4. wire' \in [Queues -> Seq(Messages)] /\ WireTruthful'
  BY <1>1, <1>2, <1>3, ReplyTruthful
<1>5. TypeInv'
  BY <1>1, <1>2, <1>4 DEF RequestInv, TypeInv
<1>6. CallbackTruthful'
  BY <1>2, SameCallback DEF RequestInv
<1>7. HistoryTruthful' /\ \A r \in requests' : r.num <= sent'
  BY <1>1, <1>2, SameHistory DEF RequestInv
<1> QED
  BY <1>4, <1>5, <1>6, <1>7 DEF RequestInv

\* A callback without a reply changes nothing else.
LEMMA CallbackDoneInv ==
  ASSUME RequestInv, NEW p \in Queues, CallbackDone(p)
  PROVE  RequestInv'
<1>1. /\ UNCHANGED <<sent, requests, wire, cached, payload, saved, answers, discarded>>
      /\ cpc' = [cpc EXCEPT ![p] = "idle"]
  BY DEF CallbackDone
<1>2. TypeInv'
  BY <1>1 DEF RequestInv, TypeInv
<1>3. WireTruthful' /\ \A r \in requests' : r.num <= sent'
  BY <1>1, SameWire DEF RequestInv
<1>4. CallbackTruthful' /\ HistoryTruthful'
  BY <1>1, SameCallback, SameHistory DEF RequestInv, TypeInv
<1> QED
  BY <1>2, <1>3, <1>4 DEF RequestInv

\* Every step preserves the invariant.
LEMMA StepRequestInv ==
  ASSUME RequestInv, [RequestNext]_requestVars
  PROVE  RequestInv'
<1>1. CASE UNCHANGED requestVars
  <2>1. TypeInv'
    BY <1>1 DEF requestVars, RequestInv, TypeInv
  <2>2. WireTruthful' /\ CallbackTruthful' /\ HistoryTruthful'
    BY <1>1, SameWire, SameCallback, SameHistory DEF requestVars, RequestInv
  <2> QED
    BY <1>1, <2>1, <2>2 DEF requestVars, RequestInv
<1>2. CASE RequestNext
  BY <1>2, SendInv, SendFromInboxInv, SubCallbackInv, InboxCallbackInv, SendReplyToInboxInv,
     DuplicateReplyHandleInv, SendReplyToInboxHandleInv, CallbackDoneInv
  DEF RequestNext, CallbackStep
<1> QED
  BY <1>1, <1>2

\* The answer to a request is given to the inbox that sent it, and to no other, and no
\* inbox refuses one, although plain messages leave an old reply handle in the queue's
\* one bridge message.
THEOREM RepliesAreRouted == RequestSpec => []RepliesReachRequester
<1>1. RequestInv => RepliesReachRequester
  <2> SUFFICES ASSUME RequestInv, NEW a \in answers, NEW r \in requests, a.num = r.num
               PROVE  a = r
    BY DEF RequestInv, HistoryTruthful, RepliesReachRequester
  <2>1. r.inbox = a.inbox
    BY DEF RequestInv, HistoryTruthful, Owed
  <2>2. a \in Exchanges /\ r \in Exchanges
    BY DEF RequestInv, TypeInv
  <2> QED
    BY <2>1, <2>2 DEF Exchanges
<1> QED
  BY <1>1, InitRequestInv, StepRequestInv, PTL DEF RequestSpec
=============================================================================
