------------------------- MODULE BridgeQueueProofs -------------------------
(***************************************************************************)
(* What mDispatchLock achieves in queue.c, for any number of threads and   *)
(* any size of the queue: destroy does not free the queue under a thread   *)
(* that dispatches, and the low watermark is always reported.              *)
(*                                                                         *)
(* Neither is inductive.  LockFollowsLoop says which threads hold the      *)
(* lock, so that at most one is in the body of dispatch, and               *)
(* WatermarkPending that, once the high watermark has fired, a thread that *)
(* is about to take an event leaves at least the low watermark behind.     *)
(*                                                                         *)
(* The second part counts the copies of messages, on the queue and in the  *)
(* hands of threads (CopiesOK): only enqueueMsg and destroy lose any.      *)
(***************************************************************************)
EXTENDS BridgeQueue, SequenceTheorems, FiniteSetTheorems, TLAPS

Types ==
    /\ queue \in Seq({"msg", "event"})
    /\ mHighWaterFired \in BOOLEAN
    /\ mHighWatermark \in Nat
    /\ mLowWatermark \in Nat
    /\ use \in [Threads -> {"dispatch", "timedDispatch"}]
    /\ pc \in [Threads -> {"idle", "lock", "set", "check", "wait", "callback", "unlock"}]
    /\ life \in {"open", "destroyed"}

LockFollowsLoop ==
    /\ mDispatchLock \in Loopers \cup {None}
    /\ \A d \in Loopers : mDispatchLock = d <=> pc[d] \notin {"idle", "lock"}
    /\ \A d \in Pollers : pc[d] \in {"idle", "check", "wait", "callback"}

MarksInOrder ==
    \/ mLowWatermark < mHighWatermark
    \/ mHighWatermark = 0 /\ mLowWatermark = 0

WatermarkPending ==
    Loopers = Threads /\ mHighWaterFired /\ life = "open" =>
        /\ Len(queue) >= mLowWatermark
        /\ \A d \in Threads :
              pc[d] = "wait" => Len(queue) > mLowWatermark \/ mLowWatermark = 0

Inv == /\ Types
       /\ LockFollowsLoop
       /\ DestroyWaitsForDispatch
       /\ MarksInOrder
       /\ WatermarkPending

-----------------------------------------------------------------------------
(* A new queue satisfies the invariant.                                    *)
LEMMA InitInv == Init => Inv
  <1> SUFFICES ASSUME Init PROVE Inv
    OBVIOUS
  <1> USE DEF Init
  <1>1. Types
    <2>1. mHighWaterFired \in BOOLEAN
      BY Zenon
    <2>2. queue \in Seq({"msg", "event"}) /\ mHighWatermark \in Nat /\ mLowWatermark \in Nat
      OBVIOUS
    <2>3. QED
      BY <2>1, <2>2 DEF Types
  <1>2. LockFollowsLoop
    BY BridgeQueueAssumption DEF LockFollowsLoop, Loopers, Pollers
  <1>3. DestroyWaitsForDispatch /\ MarksInOrder /\ WatermarkPending
    BY DEF DestroyWaitsForDispatch, MarksInOrder, WatermarkPending
  <1>4. QED
    BY <1>1, <1>2, <1>3 DEF Inv

(* At most one thread is in the body of dispatch.                          *)
LEMMA OneLoop ==
    ASSUME Types, LockFollowsLoop, NEW d \in Loopers, NEW e \in Loopers,
           pc[d] \notin {"idle", "lock"}, pc[e] \notin {"idle", "lock"}
    PROVE  d = e
  BY DEF LockFollowsLoop

(* What enqueueEventInt does to the queue: it stays or grows by one event. *)
LEMMA EnqueuedGrows ==
    ASSUME Types, NEW kind \in {"msg", "event"}, Enqueued(kind)
    PROVE  queue' \in Seq({"msg", "event"}) /\ Len(queue') >= Len(queue)
  BY DEF Types, Enqueued

(* A step that leaves the threads, the lock, the marks and the life of the *)
(* queue alone, and takes no event away, preserves the invariant.          *)
LEMMA QuietStep ==
    ASSUME Inv, UNCHANGED <<use, mDispatchLock, markVars, pc, life>>,
           queue' \in Seq({"msg", "event"}), Len(queue') >= Len(queue)
    PROVE  Inv'
  <1> USE DEF Inv, markVars
  <1>1. Types'
    BY DEF Types
  <1>2. LockFollowsLoop'
    BY DEF LockFollowsLoop, Loopers, Pollers
  <1>3. (DestroyWaitsForDispatch /\ MarksInOrder)'
    BY DEF DestroyWaitsForDispatch, MarksInOrder
  <1>4. Len(queue) \in Nat /\ Len(queue') \in Nat
    BY DEF Types
  <1>5. WatermarkPending'
    BY <1>4 DEF WatermarkPending, Loopers, Types
  <1>6. QED
    BY <1>1, <1>2, <1>3, <1>5

(* Every step of a thread that dispatches preserves who holds the lock.    *)
LEMMA StepLock ==
    ASSUME Inv, NEW d \in Threads, Dispatch(d) \/ Step(d)
    PROVE  LockFollowsLoop'
  <1> USE BridgeQueueAssumption DEF Inv, Types, LockFollowsLoop, Loopers, Pollers, Goto, lockVars
  <1>1. CASE Dispatch(d)
    BY <1>1 DEF Dispatch
  <1>2. CASE Lock(d)
    BY <1>2 DEF Lock
  <1>3. CASE SetDispatching(d) \/ CheckWatermarks(d)
    BY <1>3 DEF SetDispatching, CheckWatermarks
  <1>4. CASE Take(d)
    BY <1>4 DEF Take
  <1>5. CASE CallbackDone(d) \/ Timeout(d)
    BY <1>5 DEF CallbackDone, Timeout, Again, Leave
  <1>6. CASE Unlock(d)
    BY <1>6 DEF Unlock
  <1>7. QED
    BY <1>1, <1>2, <1>3, <1>4, <1>5, <1>6 DEF Step

(* A thread that dispatches finds the low watermark still to be reported,  *)
(* and takes no event that would bring the count below it.                 *)
LEMMA StepWatermark ==
    ASSUME Inv, NEW d \in Threads, Dispatch(d) \/ Step(d)
    PROVE  WatermarkPending'
  <1> SUFFICES ASSUME Loopers = Threads, mHighWaterFired', life = "open"
               PROVE  /\ Len(queue') >= mLowWatermark
                      /\ \A e \in Threads :
                            pc'[e] = "wait" => Len(queue') > mLowWatermark \/ mLowWatermark = 0
    BY Zenon DEF WatermarkPending, Loopers, Dispatch, Step, Lock, SetDispatching, CheckWatermarks,
       Take, CallbackDone, Timeout, Unlock, markVars
  <1> USE DEF Inv, Types, Goto, markVars
  <1>0. Len(queue) \in Nat
    OBVIOUS
  <1>1. CASE Dispatch(d)
    BY <1>0, <1>1 DEF Dispatch, WatermarkPending
  <1>2. CASE Lock(d) \/ SetDispatching(d) \/ Unlock(d)
    BY Zenon, <1>0, <1>2 DEF Lock, SetDispatching, Unlock, WatermarkPending
  <1>3. CASE CheckWatermarks(d)
    <2>1. UNCHANGED <<queue, mLowWatermark>>
      BY <1>3 DEF CheckWatermarks
    <2>2. CASE mHighWaterFired
      <3>1. Len(queue) # mLowWatermark
        BY Zenon, <1>3, <2>2 DEF CheckWatermarks
      <3>2. Len(queue) >= mLowWatermark
        BY <2>2 DEF WatermarkPending
      <3>3. QED
        BY <1>0, <2>1, <3>1, <3>2
    <2>3. CASE ~mHighWaterFired
      <3>1. Len(queue) >= mHighWatermark
        BY <1>3, <2>3 DEF CheckWatermarks
      <3>2. QED
        BY <1>0, <2>1, <3>1 DEF MarksInOrder
    <2>4. QED
      BY <2>2, <2>3
  <1>4. CASE Take(d)
    <2>1. Len(queue') = Len(queue) - 1 /\ Len(queue) > 0
      BY <1>4 DEF Take
    <2>2. mHighWaterFired /\ mLowWatermark' = mLowWatermark
      BY <1>4 DEF Take
    <2>3. Len(queue) > mLowWatermark \/ mLowWatermark = 0
      BY <1>4, <2>2 DEF Take, WatermarkPending
    <2>4. ASSUME NEW e \in Threads
          PROVE  pc'[e] # "wait"
      <3>1. CASE e = d
        BY <1>4, <3>1 DEF Take
      <3>2. CASE e # d
        <4>1. pc[d] = "wait" /\ pc'[e] = pc[e]
          BY <1>4, <3>2 DEF Take
        <4>2. QED
          BY <3>2, <4>1, OneLoop
      <3>3. QED
        BY <3>1, <3>2
    <2>5. QED
      BY <1>0, <2>1, <2>2, <2>3, <2>4
  <1>5. CASE CallbackDone(d) \/ Timeout(d)
    BY Zenon, <1>0, <1>5 DEF CallbackDone, Timeout, Again, Leave, WatermarkPending
  <1>6. QED
    BY <1>1, <1>2, <1>3, <1>4, <1>5 DEF Step

(* checkWatermarks leaves a truth value in mHighWaterFired.                *)
LEMMA FiredIsBoolean ==
    ASSUME NEW d \in Threads, CheckWatermarks(d)
    PROVE  mHighWaterFired' \in BOOLEAN
  <1>1. CASE mHighWaterFired
    BY <1>1 DEF CheckWatermarks
  <1>2. CASE ~mHighWaterFired
    BY <1>2 DEF CheckWatermarks
  <1>3. QED
    BY <1>1, <1>2

(* Every step of a thread that dispatches preserves the invariant.         *)
LEMMA StepInv ==
    ASSUME Inv, NEW d \in Threads, Dispatch(d) \/ Step(d)
    PROVE  Inv'
  <1> USE DEF Dispatch, Step, Lock, SetDispatching, CheckWatermarks, Take, CallbackDone, Timeout,
              Unlock, Again, Leave, Goto, markVars
  <1>1. Types'
    <2>1. mHighWaterFired' \in BOOLEAN
      <3>1. CASE CheckWatermarks(d)
        BY Zenon, <3>1, FiredIsBoolean
      <3>2. CASE ~CheckWatermarks(d)
        <4>1. mHighWaterFired' = mHighWaterFired
          BY <3>2
        <4>2. QED
          BY <4>1, Zenon DEF Inv, Types
      <3>3. QED
        BY Zenon, <3>1, <3>2
    <2>2. queue' \in Seq({"msg", "event"})
      <3>1. CASE Take(d)
        BY <3>1 DEF Inv, Types
      <3>2. CASE ~Take(d)
        <4>1. queue' = queue
          BY Zenon, <3>2
        <4>2. QED
          BY <4>1, Zenon DEF Inv, Types
      <3>3. QED
        BY <3>1, <3>2
    <2>3. pc' \in [Threads -> {"idle", "lock", "set", "check", "wait", "callback", "unlock"}]
      BY DEF Inv, Types
    <2>4. UNCHANGED <<use, mHighWatermark, mLowWatermark, life>>
      BY Zenon
    <2>5. QED
      BY <2>1, <2>2, <2>3, <2>4, Zenon DEF Inv, Types
  <1>2. DestroyWaitsForDispatch'
    BY DEF Inv, Types, DestroyWaitsForDispatch
  <1>3. MarksInOrder'
    BY DEF Inv, MarksInOrder
  <1>4. QED
    BY Zenon, <1>1, <1>2, <1>3, StepLock, StepWatermark DEF Inv

(* destroy finds the lock free, and so every thread out of dispatch.       *)
LEMMA DestroyInv ==
    ASSUME Inv, Destroy
    PROVE  Inv'
  <1> USE DEF Inv, Destroy, UQueueDestroy, markVars, lockVars
  <1>1. Types'
    BY DEF Types
  <1>2. LockFollowsLoop'
    BY DEF LockFollowsLoop, Loopers, Pollers
  <1>3. DestroyWaitsForDispatch'
    BY BridgeQueueAssumption DEF DestroyWaitsForDispatch, LockFollowsLoop, Loopers, Pollers, Types
  <1>4. (MarksInOrder /\ WatermarkPending)'
    BY DEF MarksInOrder, WatermarkPending
  <1>5. QED
    BY <1>1, <1>2, <1>3, <1>4

(* Watermarks change only while nothing has fired and nobody dispatches.   *)
LEMMA SetMarksInv ==
    ASSUME Inv, NEW n \in 1..MaxSize, SetHighWatermark(n) \/ SetLowWatermark(n)
    PROVE  Inv'
  <1> USE BridgeQueueAssumption DEF Inv, SetHighWatermark, SetLowWatermark, Unused, lockVars
  <1>1. Types'
    <2>1. mHighWatermark' \in Nat /\ mLowWatermark' \in Nat
      BY DEF Types
    <2>2. UNCHANGED <<queue, mHighWaterFired, use, pc, life>>
      OBVIOUS
    <2>3. QED
      BY <2>1, <2>2, Zenon DEF Types
  <1>2. LockFollowsLoop'
    BY DEF LockFollowsLoop, Loopers, Pollers
  <1>3. (DestroyWaitsForDispatch /\ WatermarkPending)'
    BY DEF DestroyWaitsForDispatch, WatermarkPending, Types
  <1>4. MarksInOrder'
    BY DEF MarksInOrder, Types
  <1>5. QED
    BY <1>1, <1>2, <1>3, <1>4

(* The invariant is inductive.                                             *)
LEMMA NextInv == Inv /\ [Next]_vars => Inv'
  <1> SUFFICES ASSUME Inv, [Next]_vars
               PROVE  Inv'
    OBVIOUS
  <1>0. Len(queue) \in Nat /\ queue \in Seq({"msg", "event"})
    BY DEF Inv, Types
  <1>1. ASSUME NEW d \in Threads, Dispatch(d) \/ Step(d)
        PROVE  Inv'
    BY <1>1, StepInv
  <1>2. ASSUME NEW c \in Callers, EnqueueMsg(c) \/ EnqueueEvent(c)
        PROVE  Inv'
    <2>1. queue' \in Seq({"msg", "event"}) /\ Len(queue') >= Len(queue)
      BY <1>0, <1>2, EnqueuedGrows DEF EnqueueMsg, EnqueueEvent, Inv
    <2>2. QED
      BY <1>2, <2>1, QuietStep DEF EnqueueMsg, EnqueueEvent, lockVars
  <1>3. CASE \/ \E c \in Callers : CheckEnqueueCallback(c) \/ CallEnqueueCallback(c)
             \/ StopDispatch
             \/ \E b \in BOOLEAN : SetActive(b)
             \/ \E f \in {0, 1} : ChangeCallback(f)
             \/ ChangeClosure
             \/ UNCHANGED vars
    <2>1. UNCHANGED <<queue, use, mDispatchLock, markVars, pc, life>>
      BY <1>3 DEF CheckEnqueueCallback, CallEnqueueCallback, StopDispatch, SetActive,
                  ChangeCallback, ChangeClosure, vars, lockVars
    <2>2. QED
      BY <1>0, <2>1, QuietStep
  <1>4. ASSUME NEW n \in 1..MaxSize, SetHighWatermark(n) \/ SetLowWatermark(n)
        PROVE  Inv'
    BY <1>4, SetMarksInv
  <1>5. CASE Destroy
    BY <1>5, DestroyInv
  <1>6. QED
    BY <1>1, <1>2, <1>3, <1>4, <1>5 DEF Next

-----------------------------------------------------------------------------
(* However many threads call dispatch, destroy frees the queue under none  *)
(* of them.                                                                *)
THEOREM DestroyIsSafe == Spec => []DestroyWaitsForDispatch
  <1>1. Inv => DestroyWaitsForDispatch
    BY DEF Inv
  <1>2. QED
    BY InitInv, NextInv, <1>1, PTL DEF Spec

(* checkWatermarks, which compares for equality, misses no low watermark   *)
(* on a queue whose threads all use dispatch.                              *)
THEOREM LowWatermarkIsReported == Spec => []LowWatermarkReported
  <1>1. Inv => LowWatermarkReported
    BY DEF Inv, LowWatermarkReported, WatermarkPending, DestroyWaitsForDispatch, Types
  <1>2. QED
    BY InitInv, NextInv, <1>1, PTL DEF Spec

-----------------------------------------------------------------------------
(* Copies of messages.  Every copy that is on the queue or in a callback   *)
(* is one that exists: without this, closing a message could be closing it *)
(* twice.                                                                  *)

OnlyInCallback == \A d \in Threads : event[d] # "none" => pc[d] = "callback"

CopiesOK ==
    /\ TypeOK
    /\ OnlyInCallback
    /\ IsFiniteSet(InHand)
    /\ Stranded >= 0

(* The places of messages on a queue are finitely many.                    *)
LEMMA PlacesFinite ==
    ASSUME NEW q \in Seq({"msg", "event"})
    PROVE  IsFiniteSet(Places(q)) /\ Cardinality(Places(q)) \in Nat
  <1>1. Places(q) \in SUBSET (1..Len(q)) /\ Len(q) \in Int
    BY DEF Places
  <1>2. IsFiniteSet(1..Len(q))
    BY <1>1, FS_Interval
  <1>3. QED
    BY <1>1, <1>2, FS_Subset, FS_CardinalityType

(* A message at the end of a queue is one more, another event is none.     *)
LEMMA PlacesAppend ==
    ASSUME NEW q \in Seq({"msg", "event"}), NEW kind \in {"msg", "event"}
    PROVE  Cardinality(Places(Append(q, kind))) =
               Cardinality(Places(q)) + (IF kind = "msg" THEN 1 ELSE 0)
  <1>1. Len(q) \in Nat /\ Len(q) + 1 \notin Places(q)
    BY DEF Places
  <1>2. CASE kind = "msg"
    <2>1. Places(Append(q, kind)) = Places(q) \cup {Len(q) + 1}
      BY <1>1, <1>2 DEF Places
    <2>2. QED
      BY <1>1, <1>2, <2>1, PlacesFinite, FS_AddElement
  <1>3. CASE kind # "msg"
    <2>1. Places(Append(q, kind)) = Places(q)
      BY <1>1, <1>3 DEF Places
    <2>2. QED
      BY <1>3, <2>1, PlacesFinite
  <1>4. QED
    BY <1>2, <1>3

(* A message at the head of a queue is one that its tail does not have.    *)
LEMMA PlacesTail ==
    ASSUME NEW q \in Seq({"msg", "event"}), q # <<>>
    PROVE  Cardinality(Places(Tail(q))) =
               Cardinality(Places(q)) - (IF Head(q) = "msg" THEN 1 ELSE 0)
  <1> DEFINE rest == Places(q) \ {1}
             shift == [i \in rest |-> i - 1]
  <1>1. /\ Tail(q) \in Seq({"msg", "event"}) /\ Len(q) \in Nat
        /\ DOMAIN Tail(q) = 1..(Len(q) - 1) /\ DOMAIN q = 1..Len(q)
        /\ \A i \in 1..(Len(q) - 1) : Tail(q)[i] = q[i + 1]
        /\ Len(q) > 0 /\ Head(q) = q[1]
    OBVIOUS
  <1>2. shift \in [rest -> Places(Tail(q))]
    BY <1>1 DEF Places
  <1>3. \A t \in Places(Tail(q)) : t + 1 \in rest /\ shift[t + 1] = t
    BY <1>1 DEF Places
  <1>4. shift \in Injection(rest, Places(Tail(q)))
    BY <1>1, <1>2 DEF Injection, IsInjective, Places
  <1>5. shift \in Surjection(rest, Places(Tail(q)))
    BY Zenon, <1>2, <1>3 DEF Surjection
  <1>6. ExistsBijection(rest, Places(Tail(q)))
    BY Zenon, <1>4, <1>5 DEF ExistsBijection, Bijection
  <1>7. IsFiniteSet(rest) /\ Cardinality(rest) =
           IF 1 \in Places(q) THEN Cardinality(Places(q)) - 1 ELSE Cardinality(Places(q))
    BY PlacesFinite, FS_RemoveElement
  <1>8. 1 \in Places(q) <=> Head(q) = "msg"
    BY <1>1 DEF Places
  <1>9. Cardinality(Places(Tail(q))) = Cardinality(rest)
    BY <1>6, <1>7, FS_Bijection
  <1>10. QED
    BY <1>7, <1>8, <1>9, PlacesFinite

(* A step that leaves the callbacks of all threads and the copies alone.   *)
LEMMA CopiesKept ==
    ASSUME CopiesOK, TypeOK', UNCHANGED <<queue, event, copies>>,
           \A d \in Threads : pc[d] = "callback" => pc'[d] = "callback"
    PROVE  CopiesOK' /\ Stranded' = Stranded
  <1>1. InHand' = InHand /\ OnlyInCallback'
    BY DEF InHand, OnlyInCallback, CopiesOK
  <1>2. Stranded' = Stranded
    BY <1>1 DEF Stranded
  <1>3. QED
    BY <1>1, <1>2 DEF CopiesOK

(* enqueueMsg: a copy that the queue refuses is stranded, another is not.  *)
LEMMA EnqueueMsgCopies ==
    ASSUME CopiesOK, NEW c \in Callers, EnqueueMsg(c)
    PROVE  /\ CopiesOK'
           /\ Stranded' >= Stranded
           /\ Stranded' > Stranded => Full \/ ~mIsActive
  <1>1. /\ Cardinality(Places(queue)) \in Nat /\ Cardinality(InHand) \in Nat
        /\ copies \in Nat /\ Len(queue) \in Nat
    BY PlacesFinite, FS_CardinalityType, BridgeQueueAssumption DEF CopiesOK, TypeOK
  <1>2. TypeOK'
    <2>1. queue' \in Seq({"msg", "event"}) /\ Len(queue') <= MaxSize
      <3>1. CASE mIsActive /\ ~Full
        BY <1>1, <3>1, BridgeQueueAssumption DEF CopiesOK, TypeOK, EnqueueMsg, Enqueued, Full
      <3>2. CASE ~mIsActive \/ Full
        <4>1. queue' = queue
          BY <3>2 DEF EnqueueMsg, Enqueued
        <4>2. QED
          BY <4>1 DEF CopiesOK, TypeOK
      <3>3. QED
        BY <3>1, <3>2
    <2>2. epc' \in [Callers -> {"idle", "hook", "call"}]
      BY DEF CopiesOK, TypeOK, EnqueueMsg
    <2>3. copies' \in 0..MaxCopies
      BY <1>1, BridgeQueueAssumption DEF CopiesOK, TypeOK, EnqueueMsg
    <2>4. UNCHANGED <<use, mIsActive, lockVars, markVars, mEnqueueCallback, mEnqueueClosure, pc,
                      event, life>>
      BY DEF EnqueueMsg
    <2>5. QED
      BY <2>1, <2>2, <2>3, <2>4 DEF CopiesOK, TypeOK, lockVars, markVars, Loopers
  <1>3. InHand' = InHand /\ OnlyInCallback' /\ copies' = copies + 1
    BY DEF InHand, OnlyInCallback, CopiesOK, EnqueueMsg
  <1>4. CASE mIsActive /\ ~Full
    <2>1. queue' = Append(queue, "msg")
      BY <1>4 DEF EnqueueMsg, Enqueued
    <2>2. Cardinality(Places(queue')) = Cardinality(Places(queue)) + 1
      BY <2>1, PlacesAppend DEF CopiesOK, TypeOK
    <2>3. Stranded' = Stranded
      BY <1>1, <1>3, <2>2 DEF Stranded
    <2>4. QED
      BY <1>1, <1>2, <1>3, <2>3 DEF CopiesOK, Stranded
  <1>5. CASE ~mIsActive \/ Full
    <2>1. queue' = queue
      BY <1>5 DEF EnqueueMsg, Enqueued
    <2>2. Stranded' = Stranded + 1
      BY <1>1, <1>3, <2>1 DEF Stranded
    <2>3. QED
      BY <1>1, <1>2, <1>3, <1>5, <2>2 DEF CopiesOK, Stranded
  <1>6. QED
    BY <1>4, <1>5

(* An event that is no message changes nothing for the copies.             *)
LEMMA EnqueueEventCopies ==
    ASSUME CopiesOK, NEW c \in Callers, EnqueueEvent(c)
    PROVE  CopiesOK' /\ Stranded' = Stranded
  <1>1. Cardinality(Places(queue)) \in Nat /\ Len(queue) \in Nat
    BY PlacesFinite, BridgeQueueAssumption DEF CopiesOK, TypeOK
  <1>2. TypeOK'
    BY <1>1, BridgeQueueAssumption
       DEF CopiesOK, TypeOK, EnqueueEvent, Enqueued, Full, lockVars, markVars, Loopers
  <1>3. InHand' = InHand /\ OnlyInCallback' /\ copies' = copies
    BY DEF InHand, OnlyInCallback, CopiesOK, EnqueueEvent
  <1>4. queue' = queue \/ queue' = Append(queue, "event")
    BY DEF EnqueueEvent, Enqueued
  <1>5. Cardinality(Places(queue')) = Cardinality(Places(queue))
    <2>1. Cardinality(Places(Append(queue, "event"))) = Cardinality(Places(queue))
      BY <1>1, PlacesAppend DEF CopiesOK, TypeOK
    <2>2. QED
      BY Zenon, <1>4, <2>1
  <1>6. Stranded' = Stranded
    BY <1>3, <1>5 DEF Stranded
  <1>7. QED
    BY <1>2, <1>3, <1>6 DEF CopiesOK

(* A message that is taken from the queue is in a callback next.           *)
LEMMA TakeCopies ==
    ASSUME CopiesOK, NEW d \in Threads, Take(d)
    PROVE  CopiesOK' /\ Stranded' = Stranded
  <1>1. /\ Cardinality(Places(queue)) \in Nat /\ Cardinality(InHand) \in Nat
        /\ copies \in Nat /\ queue \in Seq({"msg", "event"}) /\ queue # <<>>
    BY PlacesFinite, FS_CardinalityType, BridgeQueueAssumption DEF CopiesOK, TypeOK, Take
  <1>2. Tail(queue) \in Seq({"msg", "event"}) /\ Head(queue) \in {"msg", "event"}
        /\ Len(Tail(queue)) = Len(queue) - 1 /\ Len(queue) \in Nat
    BY <1>1
  <1>3. TypeOK'
    BY <1>2, BridgeQueueAssumption
       DEF CopiesOK, TypeOK, Take, Goto, lockVars, markVars, hookVars, Loopers
  <1>4. OnlyInCallback'
    BY DEF CopiesOK, TypeOK, OnlyInCallback, Take, Goto
  <1>5. d \notin InHand
    BY DEF CopiesOK, OnlyInCallback, InHand, Take
  <1>6. Cardinality(Places(queue')) =
           Cardinality(Places(queue)) - (IF Head(queue) = "msg" THEN 1 ELSE 0)
    BY <1>1, PlacesTail DEF Take
  <1>7. InHand' = IF Head(queue) = "msg" THEN InHand \cup {d} ELSE InHand
    BY <1>5 DEF CopiesOK, TypeOK, InHand, Take
  <1>8. /\ IsFiniteSet(InHand')
        /\ Cardinality(InHand') = Cardinality(InHand) + (IF Head(queue) = "msg" THEN 1 ELSE 0)
    <2>1. /\ IsFiniteSet(InHand) /\ IsFiniteSet(InHand \cup {d})
          /\ Cardinality(InHand \cup {d}) = Cardinality(InHand) + 1
      BY <1>5, FS_AddElement DEF CopiesOK
    <2>2. QED
      BY <1>1, <1>7, <2>1
  <1>9. Stranded' = Stranded
    <2>1. copies' = copies
      BY DEF Take
    <2>2. QED
      BY <1>1, <1>6, <1>8, <2>1 DEF Stranded
  <1>10. QED
    BY <1>3, <1>4, <1>8, <1>9 DEF CopiesOK

(* The callback closes its message, and only that.                         *)
LEMMA CallbackDoneCopies ==
    ASSUME CopiesOK, NEW d \in Threads, CallbackDone(d)
    PROVE  CopiesOK' /\ Stranded' = Stranded
  <1>1. Cardinality(Places(queue)) \in Nat /\ Cardinality(InHand) \in Nat /\ copies \in Int
    BY PlacesFinite, FS_CardinalityType, BridgeQueueAssumption DEF CopiesOK, TypeOK
  <1>2. InHand' = InHand \ {d}
    BY DEF CopiesOK, TypeOK, InHand, CallbackDone
  <1>3. /\ IsFiniteSet(InHand')
        /\ Cardinality(InHand') \in Nat
        /\ Cardinality(InHand') = Cardinality(InHand) - (IF d \in InHand THEN 1 ELSE 0)
    BY <1>1, <1>2, FS_RemoveElement, FS_CardinalityType DEF CopiesOK
  <1>4. copies' = copies - (IF d \in InHand THEN 1 ELSE 0)
    BY <1>1 DEF CallbackDone, InHand
  <1>5. Stranded' = Stranded
    <2>1. queue' = queue
      BY DEF CallbackDone
    <2>2. QED
      BY <1>1, <1>3, <1>4, <2>1 DEF Stranded
  <1>6. copies' \in 0..MaxCopies
    <2>1. copies \in 0..MaxCopies /\ Stranded >= 0 /\ queue' = queue
      BY DEF CopiesOK, TypeOK, CallbackDone
    <2>2. QED
      BY <1>1, <1>3, <1>4, <1>5, <2>1, BridgeQueueAssumption DEF Stranded
  <1>7. TypeOK'
    BY <1>6 DEF CopiesOK, TypeOK, CallbackDone, Again, Leave, Goto, lockVars, markVars, hookVars,
                Loopers
  <1>8. OnlyInCallback'
    BY DEF CopiesOK, TypeOK, OnlyInCallback, CallbackDone, Again, Leave, Goto
  <1>9. QED
    BY <1>3, <1>5, <1>7, <1>8 DEF CopiesOK

(* The other steps of a thread that dispatches.                            *)
LEMMA StepCopies ==
    ASSUME Inv, CopiesOK, NEW d \in Threads, Dispatch(d) \/ Step(d)
    PROVE  CopiesOK' /\ Stranded' = Stranded
  <1>1. CASE Take(d)
    BY <1>1, TakeCopies
  <1>2. CASE CallbackDone(d)
    BY <1>2, CallbackDoneCopies
  <1>3. CASE CheckWatermarks(d)
    <2>1. mHighWaterFired' \in BOOLEAN
      BY <1>3, FiredIsBoolean
    <2>2. TypeOK'
      BY <1>3, <2>1 DEF CopiesOK, TypeOK, CheckWatermarks, Goto, lockVars, hookVars, Loopers
    <2>3. UNCHANGED <<queue, event, copies>> /\ pc' = [pc EXCEPT ![d] = "wait"] /\ pc[d] = "check"
      BY <1>3 DEF CheckWatermarks, Goto
    <2>4. \A e \in Threads : pc[e] = "callback" => pc'[e] = "callback"
      BY <2>3 DEF CopiesOK, TypeOK
    <2>5. QED
      BY <2>2, <2>3, <2>4, CopiesKept
  <1>4. CASE Dispatch(d) \/ Lock(d) \/ SetDispatching(d) \/ Timeout(d) \/ Unlock(d)
    <2>1. TypeOK'
      <3>1. mDispatchLock' \in (Loopers \cup {None})'
        BY StepLock DEF LockFollowsLoop
      <3>2. mIsDispatching' \in BOOLEAN
        BY Zenon, <1>4 DEF CopiesOK, TypeOK, Dispatch, Lock, SetDispatching, Timeout, Unlock,
           lockVars
      <3>3. pc' \in [Threads -> {"idle", "lock", "set", "check", "wait", "callback", "unlock"}]
        <4>1. \E at \in {"idle", "lock", "set", "check", "unlock"} : pc' = [pc EXCEPT ![d] = at]
          BY <1>4, Zenon DEF Dispatch, Lock, SetDispatching, Timeout, Unlock, Leave, Goto
        <4>2. QED
          BY <4>1 DEF CopiesOK, TypeOK
      <3>4. UNCHANGED <<use, queue, mIsActive, markVars, hookVars, event, copies, life>>
        BY <1>4 DEF Dispatch, Lock, SetDispatching, Timeout, Unlock
      <3>5. QED
        BY <3>1, <3>2, <3>3, <3>4 DEF CopiesOK, TypeOK, markVars, hookVars, Loopers
    <2>2. /\ UNCHANGED <<queue, event, copies>>
          /\ \A e \in Threads : pc[e] = "callback" => pc'[e] = "callback"
      BY <1>4 DEF CopiesOK, TypeOK, Dispatch, Lock, SetDispatching, Timeout, Unlock, Again, Leave,
             Goto
    <2>3. QED
      BY Zenon, <2>1, <2>2, CopiesKept
  <1>5. QED
    BY <1>1, <1>2, <1>3, <1>4 DEF Step

(* uQueue_destroy takes no copy that a callback has.                       *)
LEMMA DestroyCopies ==
    ASSUME CopiesOK, Destroy
    PROVE  CopiesOK' /\ Stranded' >= Stranded
  <1>1. Cardinality(Places(queue)) \in Nat /\ Cardinality(InHand) \in Nat /\ copies \in Nat
    BY PlacesFinite, FS_CardinalityType, BridgeQueueAssumption DEF CopiesOK, TypeOK
  <1>2. TypeOK'
    BY BridgeQueueAssumption
       DEF CopiesOK, TypeOK, Destroy, UQueueDestroy, lockVars, markVars, hookVars, Loopers
  <1>3. OnlyInCallback' /\ InHand' = InHand /\ copies' = copies
    BY DEF CopiesOK, OnlyInCallback, InHand, Destroy
  <1>4. Cardinality(Places(queue')) = 0
    <2>1. Places(queue') = {}
      BY DEF Places, Destroy, UQueueDestroy
    <2>2. QED
      BY <2>1, FS_EmptySet
  <1>5. Stranded' >= Stranded
    BY <1>1, <1>3, <1>4 DEF Stranded
  <1>6. QED
    BY <1>1, <1>2, <1>3, <1>4, <1>5 DEF CopiesOK, Stranded

(* A copy is stranded by a queue that refuses it or that is destroyed.     *)
LEMMA NextCopies ==
    ASSUME Inv, CopiesOK, [Next]_vars
    PROVE  /\ CopiesOK'
           /\ Stranded' >= Stranded
           /\ Stranded' > Stranded => Full \/ ~mIsActive \/ life' = "destroyed"
  <1>0. Stranded \in Int
    BY PlacesFinite, FS_CardinalityType, BridgeQueueAssumption DEF CopiesOK, TypeOK, Stranded
  <1>1. ASSUME NEW d \in Threads, Dispatch(d) \/ Step(d)
        PROVE  CopiesOK' /\ Stranded' = Stranded
    BY <1>1, StepCopies
  <1>2. ASSUME NEW c \in Callers, EnqueueMsg(c)
        PROVE  CopiesOK' /\ Stranded' >= Stranded /\ (Stranded' > Stranded => Full \/ ~mIsActive)
    BY <1>2, EnqueueMsgCopies
  <1>3. ASSUME NEW c \in Callers, EnqueueEvent(c)
        PROVE  CopiesOK' /\ Stranded' = Stranded
    BY <1>3, EnqueueEventCopies
  <1>4. CASE Destroy
    BY <1>4, DestroyCopies DEF Destroy
  <1>5. ASSUME \/ \E c \in Callers : CheckEnqueueCallback(c) \/ CallEnqueueCallback(c)
               \/ StopDispatch
               \/ \E b \in BOOLEAN : SetActive(b)
               \/ \E n \in 1..MaxSize : SetHighWatermark(n) \/ SetLowWatermark(n)
               \/ \E f \in {0, 1} : ChangeCallback(f)
               \/ ChangeClosure
               \/ UNCHANGED vars
        PROVE  CopiesOK' /\ Stranded' = Stranded
    <2>1. UNCHANGED <<use, queue, mDispatchLock, mHighWaterFired, pc, event, copies, life>>
      BY Zenon, <1>5 DEF CheckEnqueueCallback, CallEnqueueCallback, StopDispatch, SetActive,
         SetHighWatermark, SetLowWatermark, ChangeCallback, ChangeClosure, vars, lockVars,
         markVars
    <2>2. mIsActive' \in BOOLEAN /\ mIsDispatching' \in BOOLEAN
      BY Zenon, <1>5 DEF CheckEnqueueCallback, CallEnqueueCallback, StopDispatch, SetActive,
         SetHighWatermark, SetLowWatermark, ChangeCallback, ChangeClosure, vars, lockVars,
         CopiesOK, TypeOK
    <2>3. mHighWatermark' \in 0..MaxSize /\ mLowWatermark' \in 0..MaxSize
      <3>1. /\ mHighWatermark' = mHighWatermark \/ mHighWatermark' \in 1..MaxSize
            /\ mLowWatermark' = mLowWatermark \/ mLowWatermark' \in 1..MaxSize
        BY <1>5 DEF CheckEnqueueCallback, CallEnqueueCallback, StopDispatch, SetActive,
               SetHighWatermark, SetLowWatermark, ChangeCallback, ChangeClosure, vars, markVars
      <3>2. QED
        BY SMTT(30), <3>1, BridgeQueueAssumption DEF CopiesOK, TypeOK
    <2>4. /\ mEnqueueCallback' \in {0, 1} /\ mEnqueueClosure' \in {0, 1}
          /\ epc' \in [Callers -> {"idle", "hook", "call"}]
      BY Zenon, <1>5 DEF CheckEnqueueCallback, CallEnqueueCallback, StopDispatch, SetActive,
         SetHighWatermark, SetLowWatermark, ChangeCallback, ChangeClosure, vars, hookVars,
         CopiesOK, TypeOK
    <2>5. TypeOK'
      BY <2>1, <2>2, <2>3, <2>4 DEF CopiesOK, TypeOK, Loopers
    <2>6. QED
      BY Zenon, <2>1, <2>5, CopiesKept
  <1>6. QED
    BY <1>0, <1>1, <1>2, <1>3, <1>4, <1>5 DEF Next, Destroy

(* A new queue has no copies.                                              *)
LEMMA InitCopies == Init => CopiesOK
  <1> SUFFICES ASSUME Init PROVE CopiesOK
    OBVIOUS
  <1>1. TypeOK
    <2>1. mIsActive \in BOOLEAN /\ mIsDispatching \in BOOLEAN /\ mHighWaterFired \in BOOLEAN
      BY Zenon DEF Init
    <2>2. /\ queue \in Seq({"msg", "event"}) /\ Len(queue) <= MaxSize
          /\ mHighWatermark \in 0..MaxSize /\ mLowWatermark \in 0..MaxSize
          /\ copies \in 0..MaxCopies
          /\ mEnqueueCallback \in {0, 1} /\ mEnqueueClosure \in {0, 1}
      BY BridgeQueueAssumption DEF Init
    <2>3. /\ mDispatchLock \in Loopers \cup {None}
          /\ use \in [Threads -> {"dispatch", "timedDispatch"}]
          /\ pc \in [Threads -> {"idle", "lock", "set", "check", "wait", "callback", "unlock"}]
          /\ event \in [Threads -> {"none", "msg", "event"}]
          /\ epc \in [Callers -> {"idle", "hook", "call"}]
          /\ life \in {"open", "destroyed"}
      BY DEF Init
    <2>4. QED
      BY <2>1, <2>2, <2>3 DEF TypeOK
  <1>2. OnlyInCallback
    BY DEF Init, OnlyInCallback
  <1>3. InHand = {} /\ Places(queue) = {} /\ copies = 0
    BY DEF Init, InHand, Places
  <1>4. QED
    BY <1>1, <1>2, <1>3, FS_EmptySet DEF CopiesOK, Stranded

(* The types of the queue's state, that its size stays within the limit    *)
(* that enqueueEventInt enforces, and that no message is closed twice.     *)
THEOREM TypeCorrect == Spec => []TypeOK
  <1>1. CopiesOK => TypeOK
    BY DEF CopiesOK
  <1>2. Inv /\ CopiesOK /\ [Next]_vars => CopiesOK'
    BY NextCopies
  <1>3. QED
    BY InitInv, NextInv, InitCopies, <1>1, <1>2, PTL DEF Spec

(* The copy that transport.c makes of a message is closed once, by the     *)
(* callback it was queued for, except where enqueueMsg or destroy drop it. *)
THEOREM CopiesAreClosed == Spec => OnlyRefusedCopiesAreLost
  <1>1. Inv /\ CopiesOK /\ [Next]_vars => CopiesOK'
    BY NextCopies
  <1>2. Inv /\ CopiesOK /\ [Next]_vars =>
           [ /\ Stranded' >= Stranded
             /\ Stranded' > Stranded => Full \/ ~mIsActive \/ life' = "destroyed" ]_vars
    BY NextCopies
  <1>3. QED
    BY InitInv, NextInv, InitCopies, <1>1, <1>2, PTL DEF Spec, OnlyRefusedCopiesAreLost
=============================================================================
