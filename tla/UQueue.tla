------------------------------- MODULE UQueue -------------------------------
(***************************************************************************)
(* The event queue (uqueue.c): a doubly linked list of events fed from a   *)
(* free list of items that grows chunk by chunk, a mutex (mLock) for the   *)
(* lists and a counting semaphore (mSem) that readers wait on.             *)
(*                                                                         *)
(* Everything done under mLock is one step: nothing else reads the lists   *)
(* outside it.  The semaphore is not covered by mLock: a reader passes     *)
(* wsem_wait first and takes mLock later, and in between the semaphore no  *)
(* longer counts an event that the list still holds.  Events are numbered  *)
(* in the order in which uQueue_enqueue accepts them.                      *)
(***************************************************************************)
EXTENDS Integers, Sequences, FiniteSets

CONSTANTS Readers,      \* the threads that call uQueue_dispatch and uQueue_timedDispatch
          MaxSize,      \* mMaxSize
          InitialSize,  \* items allocated by uQueue_create
          ChunkSize,    \* mChunkSize
          MaxEvents     \* bound: how many events are accepted in a run

ASSUME UQueueAssumption ==
    /\ IsFiniteSet(Readers)
    /\ MaxSize \in Nat
    /\ InitialSize \in Nat \ {0}
    /\ InitialSize <= MaxSize
    /\ ChunkSize \in Nat \ {0}
    /\ MaxEvents \in Nat

VARIABLES list,      \* mHead ... mTail
          free,      \* length of the list mFirstFree
          allocated, \* items in mChunks
          mCurrSize,
          mSem,
          pc,        \* where each reader is in uQueue_dispatchInt
          held,      \* the event whose callback a reader is running, or 0
          accepted,  \* number of events accepted so far
          status     \* what the last uQueue_enqueue returned

queueVars == <<list, free, allocated, mCurrSize, mSem, pc, held, accepted, status>>
lists == <<list, free, allocated, mCurrSize>>

NoEvent == 0

\* The readers that passed the semaphore and have not yet taken mLock.
PastSem == {r \in Readers : pc[r] = "lock"}

\* uQueue_allocate and a successful uQueue_create.
QueueInit ==
    /\ list = <<>>
    /\ free = InitialSize
    /\ allocated = InitialSize
    /\ mCurrSize = 0
    /\ mSem = 0
    /\ pc = [r \in Readers |-> "idle"]
    /\ held = [r \in Readers |-> NoEvent]
    /\ accepted = 0
    /\ status = "OK"

-----------------------------------------------------------------------------
\* Plausible errors in the definitions that follow.

AllocUnchecked == TRUE
AllocStrict == mSem + ChunkSize < MaxSize
LinkAtHead(e) == list' = <<e>> \o list
UnlinkTwice ==
    /\ list' = Tail(list)
    /\ free' = free + 1
    /\ mCurrSize' = mCurrSize - 2
SemWaitUnchecked(r) ==
    /\ pc[r] \in {"wait", "timedwait"}
    /\ mSem' = mSem - 1
    /\ pc' = [pc EXCEPT ![r] = "lock"]
    /\ UNCHANGED <<lists, held, accepted, status>>
SemWaitForTwo(r) ==
    /\ pc[r] \in {"wait", "timedwait"}
    /\ mSem > 1
    /\ mSem' = mSem - 1
    /\ pc' = [pc EXCEPT ![r] = "lock"]
    /\ UNCHANGED <<lists, held, accepted, status>>

-----------------------------------------------------------------------------
\* uQueueImpl_allocChunk grows the free list unless the semaphore says that the
\* queue would outgrow mMaxSize.
AllocChunkOK == mSem + ChunkSize <= MaxSize

\* An item is linked in before the dummy tail node.
LinkAtTail(e) == list' = Append(list, e)

SemPost == mSem' = mSem + 1

\* UQ_REMOVE
Unlink ==
    /\ list' = Tail(list)
    /\ free' = free + 1
    /\ mCurrSize' = mCurrSize - 1

\* uQueue_enqueue: from the free list, or from a new chunk when it is empty.
EnqueueOK ==
    /\ accepted < MaxEvents
    /\ \/ /\ free > 0
          /\ free' = free - 1
          /\ UNCHANGED allocated
       \/ /\ free = 0
          /\ AllocChunkOK
          /\ allocated' = allocated + ChunkSize
          /\ free' = ChunkSize - 1
    /\ LinkAtTail(accepted + 1)
    /\ mCurrSize' = mCurrSize + 1
    /\ SemPost
    /\ accepted' = accepted + 1
    /\ status' = "OK"
    /\ UNCHANGED <<pc, held>>

EnqueueFull ==
    /\ free = 0
    /\ ~AllocChunkOK
    /\ status' = "FULL"
    /\ UNCHANGED <<lists, mSem, pc, held, accepted>>

\* A thread calls uQueue_dispatch (blocks) or uQueue_timedDispatch.
Dispatch(r) ==
    /\ pc[r] = "idle"
    /\ \E at \in {"wait", "timedwait"} : pc' = [pc EXCEPT ![r] = at]
    /\ UNCHANGED <<lists, mSem, held, accepted, status>>

SemWait(r) ==
    /\ pc[r] \in {"wait", "timedwait"}
    /\ mSem > 0
    /\ mSem' = mSem - 1
    /\ pc' = [pc EXCEPT ![r] = "lock"]
    /\ UNCHANGED <<lists, held, accepted, status>>

\* wsem_timedwait gives up, WOMBAT_QUEUE_TIMEOUT: only while nothing is posted.
SemTimeout(r) ==
    /\ pc[r] = "timedwait"
    /\ mSem = 0
    /\ pc' = [pc EXCEPT ![r] = "idle"]
    /\ UNCHANGED <<lists, mSem, held, accepted, status>>

\* Under mLock: return if there is nothing to take, else unlink the head and
\* copy it out.
Remove(r) ==
    /\ pc[r] = "lock"
    /\ IF list = <<>>
       THEN /\ pc' = [pc EXCEPT ![r] = "idle"]
            /\ UNCHANGED <<list, free, mCurrSize, held>>
       ELSE /\ Unlink
            /\ held' = [held EXCEPT ![r] = Head(list)]
            /\ pc' = [pc EXCEPT ![r] = "callback"]
    /\ UNCHANGED <<allocated, mSem, accepted, status>>

\* The callback, run without mLock, returns.
CallbackDone(r) ==
    /\ pc[r] = "callback"
    /\ pc' = [pc EXCEPT ![r] = "idle"]
    /\ held' = [held EXCEPT ![r] = NoEvent]
    /\ UNCHANGED <<lists, mSem, accepted, status>>

Step(r) == SemWait(r) \/ Remove(r) \/ CallbackDone(r)

QueueNext ==
    \/ EnqueueOK
    \/ EnqueueFull
    \/ \E r \in Readers : Dispatch(r) \/ SemTimeout(r) \/ Step(r)

QueueSpec == QueueInit /\ [][QueueNext]_queueVars

\* Dispatcher threads come back for the next event (the loop of
\* zmqBridgeMamaQueue_dispatch), run when they can, and their callbacks return.
QueueFairSpec == QueueSpec /\ \A r \in Readers : WF_queueVars(Dispatch(r)) /\ WF_queueVars(Step(r))

-----------------------------------------------------------------------------
QueueTypeOK ==
    /\ list \in Seq(1..MaxEvents)
    /\ free \in Nat
    /\ allocated \in Nat
    /\ mCurrSize \in Int
    /\ mSem \in Nat
    /\ pc \in [Readers -> {"idle", "wait", "timedwait", "lock", "callback"}]
    /\ held \in [Readers -> 0..MaxEvents]
    /\ accepted \in 0..MaxEvents
    /\ status \in {"OK", "FULL"}

\* The semaphore and the readers on their way to mLock together account for
\* every event on the list: a reader that got past the semaphore always finds an
\* event (the early return of uQueue_dispatchInt is never taken), and no event
\* is left on the list without a wake-up of its own.
SemaphoreCountsList ==
    /\ mSem + Cardinality(PastSem) = Len(list)
    /\ mCurrSize = Len(list)

\* First in, first out, nothing lost, nothing delivered twice: the list holds
\* exactly the most recently accepted events in order, and what the readers'
\* callbacks run are older events, each in one callback only.
FifoOrder ==
    /\ \A i \in 1..Len(list) : list[i] = accepted - Len(list) + i
    /\ \A r \in Readers :
          /\ held[r] <= accepted - Len(list)
          /\ \A s \in Readers \ {r} : held[r] = held[s] => held[r] = NoEvent

\* Items are neither lost nor shared between the event list and the free list,
\* and although uQueueImpl_allocChunk trusts the semaphore instead of mCurrSize,
\* the queue outgrows mMaxSize by at most one item per reader.
CapacityBound ==
    /\ allocated = free + Len(list)
    /\ allocated <= MaxSize + Cardinality(Readers)

\* Every event that uQueue_enqueue accepted is eventually handed to a callback.
AcceptedIsDispatched ==
    \A e \in 1..MaxEvents :
        (\E i \in DOMAIN list : list[i] = e) ~> (\E r \in Readers : held[r] = e)

Fifo == INSTANCE EventFifo
        WITH Consumers <- Readers, None <- NoEvent, Maximum <- MaxSize,
             Slack <- ChunkSize, Bound <- MaxSize + Cardinality(Readers),
             q <- list, running <- held, count <- accepted, answer <- status

\* uqueue.c keeps the promise of EventFifo.
ImplementsFifo == Fifo!FifoSpec
=============================================================================
