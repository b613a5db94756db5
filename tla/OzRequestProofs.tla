------------------------- MODULE OzRequestProofs -------------------------
(***************************************************************************)
(* The requests and replies of examples/ozimpl.cpp: the lemmas for each    *)
(* step that OzClientProofs builds on.                                     *)
(*                                                                         *)
(* HandsOK says what each thread has in hand, RequestsOK that a request is *)
(* in the hand of one application thread at most and in what state it is   *)
(* there, and WireOK that no message is out for an async request before    *)
(* the application has let go of it.  Messages are never in two places     *)
(* (OncePerMessage), so that a semaphore counts replies (CountsReplies,    *)
(* PostsOK).                                                               *)
(***************************************************************************)
EXTENDS OzClient, TLAPS

Working == {"send", "find", "lock", "create", "init", "request", "wait", "replied", "timedout",
            "failed", "crashed"}
Sending == {"find", "lock", "create", "init", "request"}
Answering == {"find", "lock", "create", "reply", "refused", "crashed"}
Places == Working \cup Answering \cup {"idle", "stopped", "done", "remove", "post", "onReply"}
Hands == [req : Requests \cup {NoRequest}, num : 0..MaxSends]

(* TypeOK with the semaphores not bounded yet, and the threads.            *)
PubTypes ==
    /\ pubs_ \in [Conns -> Publishers \cup {NoPublisher}]
    /\ exists \subseteq Publishers
    /\ owners \in [Publishers -> SUBSET Owners]
    /\ entry \in [Threads -> BOOLEAN]

RequestTypes ==
    /\ stage \in [Requests -> {"none", "new", "open", "deleted"}]
    /\ mode \in [Requests -> {"async", "sync", "nosink"}]
    /\ pub_ \in [Requests -> Publishers \cup {NoPublisher}]
    /\ replied_ \in [Requests -> Nat]
    /\ sends \in [Requests -> 0..MaxSends]
    /\ posted \in [Requests -> SUBSET (1..MaxSends)]
    /\ since \in [Requests -> BOOLEAN]

WireTypes == net \subseteq Messages /\ queue \in Seq(Messages)

ThreadTypes ==
    /\ pc \in [Threads -> Places]
    /\ hand \in [Threads -> Hands]
    /\ dying \in [Threads -> Publishers \cup {NoPublisher}]

EndTypes == session \in {"running", "deleted", "leaked"} /\ closed \in BOOLEAN

Types == PubTypes /\ RequestTypes /\ WireTypes /\ ThreadTypes /\ EndTypes

(* What a thread of each kind may be doing, and with what in hand.         *)
Fits(t, where, with) ==
    /\ t \in Apps =>
          /\ where \in Working \cup {"idle", "stopped", "done", "remove"}
          /\ where \in Working => with.req \in Requests
          /\ where \in {"idle", "stopped", "done"} => with = Nothing
    /\ t = Session =>
          /\ where \in {"idle", "post", "onReply", "remove"}
          /\ where \in {"post", "onReply"} => with \in Messages
    /\ t \in Repliers =>
          /\ where \in Answering \cup {"idle", "remove"}
          /\ where \in Answering => with \in Messages

HandsOK == \A t \in Threads : Fits(t, pc[t], hand[t])

RequestsOK ==
    /\ \A t, u \in Apps : pc[t] \in Working /\ pc[u] \in Working /\ hand[t].req = hand[u].req
          => t = u
    /\ \A t \in Apps : pc[t] \in Working =>
          /\ stage[hand[t].req] \in {"new", "open"}
          /\ pc[t] = "send" => sends[hand[t].req] < MaxSends
          /\ pc[t] # "send" => stage[hand[t].req] = "open" /\ sends[hand[t].req] > 0
          /\ pc[t] \in {"find", "lock", "create"} => pub_[hand[t].req] = NoPublisher
          /\ pc[t] \in {"wait", "replied", "timedout", "failed"} => mode[hand[t].req] # "async"
    /\ \A r \in Requests : stage[r] \in {"none", "new"} => sends[r] = 0

(* Where messages are: with a thread of the server, on the queue, with the *)
(* callback, before it has posted the semaphore or not, and those for      *)
(* which it has.                                                           *)
Carried == {hand[t] : t \in {u \in Repliers : pc[u] \in Answering}}
InQueue == {queue[i] : i \in 1..Len(queue)}
Arrived == {m \in Messages : pc[Session] \in {"post", "onReply"} /\ m = hand[Session]}
AtPost == {m \in Messages : pc[Session] = "post" /\ m = hand[Session]}
Answered == {m \in Messages : m.num \in posted[m.req]}
OnTheWay == net \cup Carried \cup InQueue \cup Arrived

WireOK ==
    \A m \in OnTheWay :
        /\ m.num <= sends[m.req]
        /\ \A t \in Apps : pc[t] \in Working /\ hand[t].req = m.req => mode[m.req] # "async"

-----------------------------------------------------------------------------
(* Facts about the constants.                                              *)

(* The threads of a kind are threads and of no other kind.                 *)
LEMMA ThreadKinds ==
    /\ Session \in Threads /\ Apps \subseteq Threads /\ Repliers \subseteq Threads
    /\ Session \notin Apps /\ Session \notin Repliers
    /\ \A t \in Apps : t \notin Repliers /\ t # Session
    /\ \A t \in Repliers : t \notin Apps /\ t # Session
  BY OzClientAssumption DEF Threads

(* A request can be sent at least once.                                    *)
LEMMA SendsBound == MaxSends \in Nat /\ MaxSends > 0 /\ MaxSends = MaxRetries + 1
  BY OzClientAssumption DEF MaxSends

(* What a thread may have in hand.                                         *)
LEMMA HandKinds ==
    /\ Nothing \in Hands /\ Nothing.req = NoRequest /\ NoRequest \notin Requests
    /\ \A m \in Messages : m \in Hands /\ m.req \in Requests /\ m.num \in 1..MaxSends
    /\ \A h \in Hands : h.req \in Requests \cup {NoRequest}
  BY SendsBound, OzClientAssumption DEF Nothing, Hands, Messages

(* A null pointer points to no publisher.                                  *)
LEMMA NullIsNoPublisher == NoPublisher \notin Publishers
  BY DEF NoPublisher, Publishers

(* Who owns a publisher is of one kind.                                    *)
LEMMA OwnerKinds ==
    /\ \A r \in Requests : r \in Owners /\ r \notin Repliers
    /\ \A t \in Repliers : t \in Owners
  BY OzClientAssumption DEF Owners

(* The publishers of a connection.                                         *)
LEMMA PublisherKinds ==
    /\ \A t \in Threads : Conn(t) \in Conns
    /\ \A t \in Threads : \A p \in {Conn(t)} \X (1..MaxPubs) : p \in Publishers /\ p[1] = Conn(t)
  BY OzClientAssumption DEF Publishers, Conns, Conn

-----------------------------------------------------------------------------
(* Types, and what threads have in hand.                                   *)

Moves(t, where, with) ==
    pc' = [pc EXCEPT ![t] = where] /\ hand' = [hand EXCEPT ![t] = with]

(* The types that a step leaves alone.                                     *)
LEMMA KeptTypes ==
    /\ PubTypes /\ UNCHANGED pubVars => PubTypes'
    /\ RequestTypes /\ UNCHANGED requestVars => RequestTypes'
    /\ WireTypes /\ UNCHANGED wireVars => WireTypes'
    /\ EndTypes /\ UNCHANGED endVars => EndTypes'
    /\ ThreadTypes /\ HandsOK /\ UNCHANGED threadVars => ThreadTypes' /\ HandsOK'
  BY DEF PubTypes, pubVars, RequestTypes, requestVars, WireTypes, wireVars, EndTypes, endVars,
     ThreadTypes, HandsOK, threadVars

(* Every step keeps the types, and what threads have in hand.              *)
LEMMA NextTypes ==
    ASSUME Types, HandsOK, RequestsOK
    PROVE  Next => Types' /\ HandsOK'
  (* A thread that moves to where it may be leaves the others alone.       *)
  <1>MovesHands.
      ASSUME ThreadTypes, NEW t \in Threads, NEW where, NEW with \in Hands, Moves(t, where, with),
             Fits(t, where, with)
      PROVE  /\ pc' \in [Threads -> Places]
             /\ hand' \in [Threads -> Hands]
             /\ HandsOK'
             /\ pc'[t] = where /\ hand'[t] = with
             /\ \A u \in Threads : u # t => pc'[u] = pc[u] /\ hand'[u] = hand[u]
    <2> USE <1>MovesHands
    <2>1. where \in Places
      BY DEF Fits, Threads, Places
    <2>3. ASSUME NEW u \in Threads
          PROVE  Fits(u, pc'[u], hand'[u])
      BY DEF HandsOK, ThreadTypes, Moves
    <2>4. QED
      BY <2>1 DEF HandsOK, ThreadTypes, Moves
  (* A thread that goes on with what it has in hand.                       *)
  <1>StaysHands.
      ASSUME ThreadTypes, NEW t \in Threads, NEW where, Goto(t, where), hand' = hand,
             Fits(t, where, hand[t])
      PROVE  Moves(t, where, hand[t]) /\ hand[t] \in Hands
    BY <1>StaysHands DEF ThreadTypes, Goto, Moves
  (* Letting go of a publisher.                                            *)
  <1>ReleaseTypes.
      ASSUME PubTypes, ThreadTypes, NEW t \in Threads, NEW o,
             NEW p \in Publishers \cup {NoPublisher}, NEW where, Release(t, o, p, where)
      PROVE  /\ owners' \in [Publishers -> SUBSET Owners]
             /\ dying' \in [Threads -> Publishers \cup {NoPublisher}]
             /\ \/ Moves(t, "remove", hand[t])
                \/ Moves(t, where, Nothing)
    <2> USE <1>ReleaseTypes
    <2>2. CASE p # NoPublisher /\ owners'[p] = {}
      BY Zenon DEF Release, Goto, ThreadTypes, Moves, PubTypes, Dropped
    <2>3. CASE ~(p # NoPublisher /\ owners'[p] = {})
      BY DEF Release, Goto, Moves, ThreadTypes, PubTypes, Dropped
    <2>4. QED
      BY <2>2, <2>3
  (* getPublisher: the publisher found, or null.                           *)
  <1>GotPublisherTypes.
      ASSUME PubTypes, RequestTypes, ThreadTypes, NEW t \in Threads, pc[t] \in {"lock", "create"},
             NEW p \in Publishers \cup {NoPublisher}, GotPublisher(t, p), hand' = hand
      PROVE  /\ pub_' \in [Requests -> Publishers \cup {NoPublisher}]
             /\ t \in Apps => hand[t].req \in Requests /\ Moves(t, "init", hand[t])
             /\ t \notin Apps => t \in Repliers /\ hand[t] \in Messages /\ pub_' = pub_
             /\ t \notin Apps => Moves(t, IF p = NoPublisher THEN "refused" ELSE "reply", hand[t])
             /\ Owner(t) \in Owners
             /\ pc' \in [Threads -> Places] /\ hand' \in [Threads -> Hands] /\ HandsOK'
    <2> USE <1>GotPublisherTypes
    <2>2. t \in Apps => hand[t].req \in Requests
      BY DEF Fits, HandsOK, ThreadTypes
    <2>3. t \notin Apps => t \in Repliers /\ hand[t] \in Messages
      BY DEF Fits, Threads, HandsOK
    <2>7. t \in Apps => Moves(t, "init", hand[t])
      BY Zenon DEF GotPublisher, Goto, Moves, ThreadTypes
    <2>8. t \notin Apps => Moves(t, IF p = NoPublisher THEN "refused" ELSE "reply", hand[t])
      BY Zenon DEF GotPublisher, Goto, Moves, ThreadTypes
    <2>10. t \in Apps => Fits(t, "init", hand[t])
      BY <2>2, ThreadKinds DEF Fits, Working
    <2>11. t \in Repliers => Fits(t, "refused", hand[t]) /\ Fits(t, "reply", hand[t])
      BY Zenon, <2>3, ThreadKinds DEF Fits, Answering
    <2>13. QED
      BY <2>2, <2>3, <2>7, <2>8, OwnerKinds, <2>10, <1>MovesHands, <2>11 DEF GotPublisher,
         RequestTypes, Owner, ThreadTypes
  (* A thread in getPublisher or in the deleter of a publisher.            *)
  <1>PublisherTypes.
      ASSUME NEW t \in Threads, PublisherStep(t)
      PROVE  Types' /\ HandsOK'
    <2> USE <1>PublisherTypes
    <2> USE DEF Types
    <2>1. CASE LockPublisher(t)
      <3> DEFINE p == pubs_[Conn(t)]
      <3>3. /\ pub_' \in [Requests -> Publishers \cup {NoPublisher}] /\ Owner(t) \in Owners
            /\ pc' \in [Threads -> Places] /\ hand' \in [Threads -> Hands] /\ HandsOK'
        BY Zenon, <2>1, PublisherKinds, <1>GotPublisherTypes DEF PubTypes, LockPublisher
      <3>6. WireTypes' /\ EndTypes'
        BY Zenon, <2>1, KeptTypes DEF LockPublisher
      <3>8. QED
        BY Zenon, <3>3, <2>1, <3>6 DEF LockPublisher, PubTypes, Found, ThreadTypes, RequestTypes
    <2>6. CASE LockExpired(t)
      <3>3. /\ pub_' \in [Requests -> Publishers \cup {NoPublisher}]
            /\ pc' \in [Threads -> Places] /\ hand' \in [Threads -> Hands] /\ HandsOK'
        BY Zenon, <2>6, <1>GotPublisherTypes DEF LockExpired
      <3>6. WireTypes' /\ EndTypes'
        BY Zenon, <2>6, KeptTypes DEF LockExpired
      <3>8. QED
        BY <3>3, <2>6, <3>6 DEF LockExpired, PubTypes, ThreadTypes, RequestTypes
    <2>7. CASE FindPublisher(t) \/ LockDangling(t)
      <3>1. PICK w \in {"lock", "crashed"} : Goto(t, w) /\ hand' = hand /\ pc[t] \in {"find", "lock"}
        BY Zenon, <2>7 DEF FindPublisher, LockDangling
      <3>2. Fits(t, w, hand[t])
        BY <3>1, ThreadKinds DEF HandsOK, Fits, Working, Answering
      <3>3. pc' \in [Threads -> Places] /\ hand' \in [Threads -> Hands] /\ HandsOK'
        BY Zenon, <3>1, <3>2, <1>StaysHands, <1>MovesHands
      <3>4. PubTypes'
        BY Zenon, <2>7 DEF FindPublisher, LockDangling, PubTypes, pubVars
      <3>5. QED
        BY Zenon, <2>7, <3>3, <3>4, KeptTypes DEF FindPublisher, LockDangling, ThreadTypes
    <2>2. CASE FindNothing(t)
      <3>1. Fits(t, "find", hand[t]) /\ Goto(t, "create") /\ hand' = hand
        BY <2>2 DEF FindNothing, HandsOK
      <3>3. pc' \in [Threads -> Places] /\ hand' \in [Threads -> Hands] /\ HandsOK'
        BY <3>1, <1>StaysHands, <1>MovesHands DEF Fits, Working, Answering
      <3>5. QED
        BY Zenon, <2>2, <3>3, KeptTypes DEF FindNothing, ThreadTypes
    <2>3. CASE CreatePublisher(t)
      <3>1. PICK p \in {Conn(t)} \X (1..MaxPubs) :
               /\ exists' = exists \cup {p}
               /\ owners' = [owners EXCEPT ![p] = {Owner(t)}]
               /\ pubs_' = [pubs_ EXCEPT ![Conn(t)] = p]
               /\ GotPublisher(t, p)
        BY Zenon, <2>3 DEF CreatePublisher
      <3>3. /\ pub_' \in [Requests -> Publishers \cup {NoPublisher}] /\ Owner(t) \in Owners
            /\ pc' \in [Threads -> Places] /\ hand' \in [Threads -> Hands] /\ HandsOK'
        BY Zenon, <2>3, PublisherKinds, <1>GotPublisherTypes DEF CreatePublisher
      <3>4. PubTypes'
        BY <2>3, PublisherKinds, <3>3 DEF CreatePublisher, PubTypes
      <3>8. QED
        BY Zenon, <3>3, <3>4, <2>3, KeptTypes DEF CreatePublisher, RequestTypes, ThreadTypes
    <2>4. CASE RemovePublisher(t)
      <3>1. PubTypes'
        BY <2>4, PublisherKinds DEF RemovePublisher, RemoveFromMap, PubTypes
      <3>6. QED
        BY Zenon, <2>4, <3>1, ThreadKinds, HandKinds, <1>MovesHands, KeptTypes
           DEF ThreadTypes, RemovePublisher, Moves, Goto, Fits, Working, Answering
    <2>5. QED
      BY Zenon, <2>1, <2>2, <2>3, <2>4, <2>6, <2>7 DEF PublisherStep
  (* A request that is deleted.                                            *)
  <1>DeletedTypes.
      ASSUME NEW t \in Apps \cup {Session}, NEW r \in Requests, Deleted(t, r)
      PROVE  /\ Types' /\ HandsOK'
             /\ Moves(t, "remove", hand[t]) \/ Moves(t, "idle", Nothing)
    <2> USE <1>DeletedTypes
    <2> USE DEF Types
    <2>1. t \in Threads /\ pub_[r] \in Publishers \cup {NoPublisher} /\ hand[t] \in Hands
      BY ThreadKinds DEF RequestTypes, ThreadTypes
    <2>4. Fits(t, "remove", hand[t]) /\ Fits(t, "idle", Nothing)
      BY DEF Fits, Working, Answering
    <2>8. WireTypes' /\ EndTypes'
      BY Zenon, KeptTypes DEF Deleted
    <2>9. QED
      BY Zenon, <2>1, <1>ReleaseTypes, <2>4, HandKinds, <1>MovesHands, <2>8 DEF ThreadTypes,
         Deleted, PubTypes, RequestTypes
  (* Steps of a sending thread.                                            *)
  <1>SendTypes.
      ASSUME NEW t \in Apps, SendStep(t)
      PROVE  Types' /\ HandsOK'
    <2> USE <1>SendTypes
    <2> USE DEF Types
    <2> DEFINE r == hand[t].req
    <2>1. t \in Threads /\ pc[t] \in Working
      BY Zenon, ThreadKinds DEF SendStep, SendRequest, InitSemaphore, SendFromInbox, SendNull,
         WaitReply, WaitTimeout, WaitError, Working
    <2>2. r \in Requests /\ hand[t] \in Hands
      BY <2>1 DEF HandsOK, Fits, ThreadTypes
    <2>3. \A w \in Working : Fits(t, w, hand[t])
      BY <2>2, ThreadKinds DEF Fits, Working
    <2>4. Fits(t, "idle", Nothing)
      BY ThreadKinds DEF Fits, Working
    <2>5. /\ UNCHANGED <<pubVars, endVars>> /\ dying' = dying
          /\ (\E w \in Working : Goto(t, w) /\ hand' = hand) \/ Moves(t, "idle", Nothing)
      BY Zenon DEF SendStep, SendRequest, InitSemaphore, SendFromInbox, SendNull, WaitReply,
         WaitTimeout, WaitError, Moves, Goto, Working
    <2>8. RequestTypes' /\ WireTypes'
      <3>1. CASE SendRequest(t)
        <4>1. sends[r] \in 0..MaxSends /\ sends[r] < MaxSends
          BY Zenon, <2>1, <2>2, <3>1 DEF RequestTypes, RequestsOK, SendRequest
        <4>2. sends[r] + 1 \in 0..MaxSends
          BY <4>1, SendsBound
        <4>5. QED
          BY Zenon, <3>1, <4>2, KeptTypes DEF SendRequest, RequestTypes
      <3>2. CASE InitSemaphore(t)
        BY Zenon, <3>2, KeptTypes DEF InitSemaphore, RequestTypes
      <3>3. CASE SendFromInbox(t)
        <4>1. sends[r] \in 0..MaxSends /\ sends[r] > 0
          BY Zenon, <2>1, <2>2, <3>3 DEF RequestTypes, RequestsOK, SendFromInbox
        <4>2. [req |-> r, num |-> sends[r]] \in Messages
          BY <2>2, <4>1 DEF Messages
        <4>3. QED
          BY Zenon, <3>3, <4>2, KeptTypes DEF SendFromInbox, WireTypes
      <3>4. CASE WaitReply(t)
        <4>1. replied_[r] \in Nat /\ replied_[r] > 0 /\ replied_' = [replied_ EXCEPT ![r] = replied_[r] - 1]
          BY Zenon, <2>2, <3>4 DEF WaitReply, RequestTypes
        <4>2. replied_[r] - 1 \in Nat
          BY <4>1
        <4>3. replied_' \in [Requests -> Nat]
          BY Zenon, <4>1, <4>2 DEF RequestTypes
        <4>4. QED
          BY Zenon, <3>4, <4>3, KeptTypes DEF WaitReply, RequestTypes
      <3>5. CASE SendNull(t) \/ WaitTimeout(t) \/ WaitError(t)
        BY Zenon, <3>5, KeptTypes DEF SendNull, WaitTimeout, WaitError
      <3>6. QED
        BY Zenon, <3>1, <3>2, <3>3, <3>4, <3>5 DEF SendStep
    <2>9. QED
      BY Zenon, <2>1, <2>3, <1>StaysHands, <2>4, <2>5, HandKinds, <1>MovesHands, KeptTypes, <2>8
         DEF ThreadTypes
  (* The other steps of an application thread.                             *)
  <1>AppTypes.
      ASSUME NEW t \in Apps, AppStep(t)
      PROVE  Types' /\ HandsOK'
    <2> USE <1>AppTypes
    <2> USE DEF Types
    <2>0. t \in Threads /\ hand[t] \in Hands
      BY ThreadKinds DEF ThreadTypes
    <2>1. CASE PublisherStep(t)
      BY <2>0, <2>1, <1>PublisherTypes
    <2>2. CASE SendStep(t)
      BY <2>2, <1>SendTypes
    <2>3. CASE CreateRequest(t)
      <3>1. PICK r \in NextRequest, m \in {"async", "sync", "nosink"} :
               /\ stage' = [stage EXCEPT ![r] = "new"]
               /\ mode' = [mode EXCEPT ![r] = m]
               /\ hand' = [hand EXCEPT ![t] = [req |-> r, num |-> 0]]
        BY Zenon, <2>3 DEF CreateRequest
      <3>3. [req |-> r, num |-> 0] \in Hands
        BY SendsBound DEF Hands, NextRequest
      <3>4. Moves(t, "send", [req |-> r, num |-> 0]) /\ Fits(t, "send", [req |-> r, num |-> 0])
        BY Zenon, <2>3, ThreadKinds DEF CreateRequest, Moves, Goto, Fits, Working, NextRequest
      <3>8. QED
        BY Zenon, <2>3, <2>0, <3>3, <3>4, <1>MovesHands, <3>1, KeptTypes DEF CreateRequest,
           ThreadTypes, RequestTypes
    <2>4. CASE Retry(t)
      <3>1. Goto(t, "send") /\ hand' = hand /\ dying' = dying /\ Fits(t, "send", hand[t])
        BY Zenon, <2>4, ThreadKinds DEF Retry, HandsOK, Fits, Working
      <3>3. QED
        BY Zenon, <2>4, <3>1, <2>0, <1>StaysHands, <1>MovesHands, KeptTypes DEF Retry, ThreadTypes
    <2>5. CASE DestroyRequest(t)
      <3>1. hand[t].req \in Requests
        BY Zenon, <2>0, <2>5 DEF DestroyRequest, HandsOK, Fits
      <3>2. QED
        BY <2>5, <3>1, <1>DeletedTypes DEF DestroyRequest
    <2>6. CASE DestroySession(t)
      <3>1. Goto(t, "stopped") /\ hand' = hand /\ dying' = dying /\ Fits(t, "stopped", hand[t])
        BY Zenon, <2>6, ThreadKinds DEF DestroySession, HandsOK, Fits, Working
      <3>3. EndTypes'
        BY <2>6 DEF DestroySession, EndTypes
      <3>4. WireTypes'
        <4>1. <<>> \in Seq(Messages)
          OBVIOUS
        <4>3. QED
          BY Zenon, <4>1, <2>6 DEF WireTypes, DestroySession
      <3>5. QED
        BY Zenon, <2>6, <3>1, <2>0, <1>StaysHands, <1>MovesHands, <3>3, <3>4, KeptTypes
           DEF DestroySession, ThreadTypes
    <2>8. CASE DestroyConnection(t)
      <3>1. Goto(t, "done") /\ hand' = hand /\ dying' = dying /\ Fits(t, "done", hand[t])
        BY Zenon, <2>8, ThreadKinds DEF DestroyConnection, HandsOK, Fits, Working
      <3>4. QED
        BY Zenon, <2>8, <3>1, <2>0, <1>StaysHands, <1>MovesHands, KeptTypes DEF DestroyConnection,
           ThreadTypes, EndTypes
    <2>9. QED
      BY Zenon, <2>1, <2>2, <2>3, <2>4, <2>5, <2>6, <2>8 DEF AppStep
  (* The session's thread.                                                 *)
  <1>SessionTypes.
      ASSUME SessionStep
      PROVE  Types' /\ HandsOK'
    <2> USE <1>SessionTypes
    <2> USE DEF Types
    <2>0. Session \in Threads /\ hand[Session] \in Hands
      BY ThreadKinds DEF ThreadTypes
    <2>1. CASE InboxCallback
      <3>4. Fits(Session, "post", Head(queue)) /\ Head(queue) \in Hands
        BY <2>1, ThreadKinds, HandKinds DEF Fits, InboxCallback, WireTypes
      <3>6. pc' \in [Threads -> Places] /\ hand' \in [Threads -> Hands] /\ HandsOK'
        BY <3>4, <1>MovesHands, <2>1 DEF HandsOK, ThreadTypes, InboxCallback, Moves, Goto
      <3>7. QED
        BY <2>1, <3>6, KeptTypes DEF InboxCallback, ThreadTypes, WireTypes
    <2>2. CASE MsgPost
      <3>1. hand[Session] \in Messages
        BY Zenon, <2>0, <2>2 DEF MsgPost, HandsOK, Fits
      <3>4. hand[Session].req \in Requests /\ hand[Session].num \in 1..MaxSends
        BY <3>1, HandKinds
      <3>5. replied_' \in [Requests -> Nat]
        BY <2>2, <3>4 DEF MsgPost, Posted, RequestTypes
      <3>6. posted' \in [Requests -> SUBSET (1..MaxSends)]
        BY Zenon, <2>2, <3>4 DEF MsgPost, RequestTypes
      <3>8. QED
        BY Zenon, <2>2, <3>1, ThreadKinds, <1>StaysHands, <1>MovesHands, <3>5, <3>6, KeptTypes
           DEF MsgPost, ThreadTypes, Fits, RequestTypes
    <2>3. CASE OnReply
      <3>1. hand[Session].req \in Requests
        BY Zenon, <2>0, <2>3, HandKinds DEF OnReply, HandsOK, Fits
      <3>2. CASE Deleted(Session, hand[Session].req)
        BY <3>1, <3>2, <1>DeletedTypes
      <3>3. CASE ~Deleted(Session, hand[Session].req)
        <4>3. pc' \in [Threads -> Places] /\ hand' \in [Threads -> Hands] /\ HandsOK'
          BY Zenon, <2>3, <3>3, ThreadKinds, HandKinds, <1>MovesHands DEF Fits, OnReply, Moves, Goto
        <4>4. QED
          BY Zenon, <2>3, <3>3, <4>3, KeptTypes DEF ThreadTypes, OnReply, Goto
      <3>4. QED
        BY <3>2, <3>3
    <2>4. CASE PublisherStep(Session)
      BY <2>0, <2>4, <1>PublisherTypes
    <2>5. CASE MsgIgnored
      <3>1. pc' \in [Threads -> Places] /\ hand' \in [Threads -> Hands] /\ HandsOK'
        BY Zenon, <2>0, <2>5, ThreadKinds, HandKinds, <1>MovesHands DEF Fits, MsgIgnored, Moves,
           Goto
      <3>2. QED
        BY Zenon, <2>5, <3>1, KeptTypes DEF ThreadTypes, MsgIgnored
    <2>6. QED
      BY Zenon, <2>1, <2>2, <2>3, <2>4, <2>5 DEF SessionStep
  (* The threads of the server.                                            *)
  <1>ReplierTypes.
      ASSUME NEW t \in Repliers, ReplierStep(t)
      PROVE  Types' /\ HandsOK'
    <2> USE <1>ReplierTypes
    <2> USE DEF Types
    <2>0. t \in Threads /\ hand[t] \in Hands
      BY ThreadKinds DEF ThreadTypes
    <2>1. CASE PublisherStep(t)
      BY <2>0, <2>1, <1>PublisherTypes
    <2>2. CASE TakeRequest(t)
      BY Zenon, <2>2, HandKinds, ThreadKinds, <1>MovesHands, KeptTypes DEF TakeRequest, WireTypes,
         Moves, Goto, Fits, Answering, ThreadTypes
    <2>3. CASE SendReply(t)
      <3>1. PICK p \in exists : Release(t, t, p, "idle")
        BY Zenon, <2>3 DEF SendReply
      <3>3. /\ owners' \in [Publishers -> SUBSET Owners]
            /\ dying' \in [Threads -> Publishers \cup {NoPublisher}]
            /\ Moves(t, "remove", hand[t]) \/ Moves(t, "idle", Nothing)
        BY Zenon, <2>0, <3>1, <1>ReleaseTypes DEF PubTypes
      <3>7. WireTypes'
        BY <2>0, <2>3 DEF SendReply, HandsOK, Fits, Answering, WireTypes
      <3>8. QED
        BY Zenon, <2>3, <3>3, ThreadKinds, HandKinds, <1>MovesHands, <3>7, KeptTypes DEF SendReply,
           ThreadTypes, Fits, Answering, PubTypes
    <2>4. CASE RefuseReply(t)
      BY Zenon, <2>4, ThreadKinds, HandKinds, <1>MovesHands, KeptTypes DEF RefuseReply, Moves, Goto,
         Fits, Answering, ThreadTypes
    <2>5. QED
      BY Zenon, <2>1, <2>2, <2>3, <2>4 DEF ReplierStep
  <1> QED
    BY <1>AppTypes, <1>SessionTypes, <1>ReplierTypes DEF Next

-----------------------------------------------------------------------------
(* Who works on which request.                                             *)

Others(t) == \A u \in Threads \ {t} : pc'[u] = pc[u] /\ hand'[u] = hand[u]

(* A thread's step moves no other thread.                                  *)
LEMMA StepOthers ==
    ASSUME ThreadTypes, NEW t \in Threads,
           \/ t \in Apps /\ AppStep(t)
           \/ t = Session /\ SessionStep
           \/ t \in Repliers /\ ReplierStep(t)
    PROVE  Others(t)
  <1>1. \/ pc' = pc /\ hand' = hand
        \/ \E w : pc' = [pc EXCEPT ![t] = w] /\ hand' = hand
        \/ \E w, h : pc' = [pc EXCEPT ![t] = w] /\ hand' = [hand EXCEPT ![t] = h]
    <2>1. CASE PublisherStep(t)
      BY Zenon, <2>1 DEF PublisherStep, FindPublisher, FindNothing, LockPublisher, LockExpired,
         LockDangling, CreatePublisher, RemovePublisher, GotPublisher, Goto
    <2>2. ASSUME NEW o, NEW p, NEW where, Release(t, o, p, where)
          PROVE  \/ \E w : pc' = [pc EXCEPT ![t] = w] /\ hand' = hand
                 \/ \E w, h : pc' = [pc EXCEPT ![t] = w] /\ hand' = [hand EXCEPT ![t] = h]
      BY <2>2 DEF Release, Goto
    <2>3. CASE t \in Apps /\ SendStep(t)
      BY Zenon, <2>3 DEF SendStep, SendRequest, InitSemaphore, SendFromInbox, SendNull,
         WaitReply, WaitTimeout, WaitError, Goto
    <2>4. CASE t \in Apps /\ (CreateRequest(t) \/ Retry(t) \/ DestroySession(t) \/ DestroyConnection(t))
      BY <2>4 DEF CreateRequest, Retry, DestroySession, DestroyConnection, Goto
    <2>5. CASE t \in Apps /\ DestroyRequest(t)
      BY Zenon, <2>2, <2>5 DEF DestroyRequest, Deleted
    <2>6. CASE t = Session /\ (InboxCallback \/ MsgPost \/ MsgIgnored)
      BY Zenon, <2>6 DEF InboxCallback, MsgPost, MsgIgnored, Goto
    <2>7. CASE t = Session /\ OnReply
      BY Zenon, <2>2, <2>7 DEF OnReply, Deleted, Goto
    <2>8. CASE t \in Repliers /\ (TakeRequest(t) \/ RefuseReply(t))
      BY <2>8 DEF TakeRequest, RefuseReply, Goto
    <2>9. CASE t \in Repliers /\ SendReply(t)
      BY Zenon, <2>2, <2>9 DEF SendReply
    <2>10. QED
      BY Zenon, <2>1, <2>3, <2>4, <2>5, <2>6, <2>7, <2>8, <2>9 DEF AppStep, SessionStep, ReplierStep
  <1>2. QED
    BY <1>1 DEF ThreadTypes, Others

(* Every step keeps what is known of the requests in hand.                 *)
LEMMA NextRequests ==
    ASSUME Types, HandsOK, RequestsOK, WireOK,
           \A t \in Apps : Retry(t) => sends[hand[t].req] < MaxSends
    PROVE  Next => RequestsOK'
  (* The threads of the application stay where they are.                   *)
  <1>RequestsKept.
      ASSUME UNCHANGED <<stage, sends, pub_, mode>>,
             \A t \in Apps : pc'[t] = pc[t] /\ hand'[t] = hand[t]
      PROVE  RequestsOK'
    BY <1>RequestsKept DEF RequestsOK
  (* A thread of the application that works on no request from now on.     *)
  <1>RequestsRest.
      ASSUME NEW t \in Apps, Others(t), UNCHANGED <<stage, sends, pub_, mode>>,
             pc'[t] \notin Working
      PROVE  RequestsOK'
    BY <1>RequestsRest, ThreadKinds DEF RequestsOK, Others
  (* A thread that goes on with its request has it for itself.             *)
  <1>RequestsGoOn.
      ASSUME RequestTypes, NEW t \in Apps, Others(t), hand'[t] = hand[t],
             UNCHANGED <<stage, sends, mode>>, pc[t] \in Working, pc'[t] \in Working,
             \A r \in Requests : r # hand[t].req => pub_'[r] = pub_[r],
             \A u \in Apps : pc[u] \in Working => hand[u].req \in Requests,
             pc'[t] = "send" => sends[hand[t].req] < MaxSends, pc'[t] # "send" => pc[t] # "send",
             pc'[t] \in {"find", "lock", "create"} => pub_'[hand[t].req] = NoPublisher,
             pc'[t] \in {"wait", "replied", "timedout", "failed"} => mode[hand[t].req] # "async"
      PROVE  RequestsOK'
    <2> USE <1>RequestsGoOn
    <2>1. \A u \in Apps : u # t => pc'[u] = pc[u] /\ hand'[u] = hand[u]
      BY ZenonT(30), ThreadKinds DEF Others
    <2>3. \A u, v \in Apps : pc'[u] \in Working /\ pc'[v] \in Working /\ hand'[u].req = hand'[v].req
             => u = v
      BY <2>1 DEF RequestsOK
    <2>4. ASSUME NEW u \in Apps, pc'[u] \in Working
          PROVE  /\ stage'[hand'[u].req] \in {"new", "open"}
                 /\ pc'[u] = "send" => sends'[hand'[u].req] < MaxSends
                 /\ pc'[u] # "send" => stage'[hand'[u].req] = "open" /\ sends'[hand'[u].req] > 0
                 /\ pc'[u] \in {"find", "lock", "create"} => pub_'[hand'[u].req] = NoPublisher
                 /\ pc'[u] \in {"wait", "replied", "timedout", "failed"} => mode'[hand'[u].req] # "async"
      <3>1. CASE u = t
        BY <3>1 DEF RequestsOK
      <3>2. CASE u # t
        BY <2>1, <2>4, <3>2 DEF RequestsOK
      <3>3. QED
        BY Zenon, <3>1, <3>2
    <2>6. QED
      BY Zenon, <2>3, <2>4 DEF RequestsOK
  (* A request is deleted under no other thread of the application.        *)
  <1>DeletedRequests.
      ASSUME NEW t \in Apps \cup {Session}, NEW r \in Requests, Deleted(t, r), Others(t),
             \A u \in Apps : u # t /\ pc[u] \in Working => hand[u].req # r
      PROVE  RequestsOK'
    <2> USE <1>DeletedRequests
    <2>1. pc'[t] \notin Working
      BY ThreadKinds DEF Deleted, Release, Goto, Types, ThreadTypes, Working
    <2>2. \A u \in Apps : pc'[u] \in Working =>
             /\ pc'[u] = pc[u] /\ hand'[u] = hand[u]
             /\ hand[u].req \in Requests /\ hand[u].req # r
      BY Zenon, <2>1, ThreadKinds DEF Others, HandsOK, Fits
    <2>3. /\ \A q \in Requests : q # r => /\ stage'[q] = stage[q] /\ pub_'[q] = pub_[q]
                                          /\ mode'[q] = mode[q]
          /\ stage'[r] = "deleted" /\ sends' = sends
      BY Zenon DEF Deleted, Types, RequestTypes
    <2>4. QED
      BY <2>2, <2>3 DEF RequestsOK
  (* Every step of the application.                                        *)
  <1>AppRequests.
      ASSUME NEW t \in Apps, AppStep(t), Retry(t) => sends[hand[t].req] < MaxSends
      PROVE  RequestsOK'
    <2> USE <1>AppRequests
    <2> DEFINE r == hand[t].req
    <2>0. t \in Threads /\ Others(t) /\ RequestTypes /\ ThreadTypes
      BY Zenon, ThreadKinds, StepOthers DEF Types
    <2>1. \A u \in Apps : pc[u] \in Working => hand[u].req \in Requests
      BY Zenon, ThreadKinds DEF HandsOK, Fits
    <2>2. pc \in [Threads -> Places] /\ hand \in [Threads -> Hands]
      BY <2>0 DEF ThreadTypes
    <2>3. CASE LockPublisher(t) \/ LockExpired(t) \/ CreatePublisher(t)
      <3>1. PICK p : GotPublisher(t, p)
        BY Zenon, <2>3 DEF LockPublisher, LockExpired, CreatePublisher
      <3>4. \A q \in Requests : q # r => pub_'[q] = pub_[q]
        BY <3>1 DEF GotPublisher
      <3>5. QED
        BY Zenon, <2>0, <2>1, <2>3, <2>2, <3>1, <3>4, <1>RequestsGoOn DEF Working, LockPublisher,
           LockExpired, CreatePublisher, GotPublisher, Goto
    <2>4. CASE FindPublisher(t) \/ FindNothing(t) \/ LockDangling(t)
      BY Zenon, <2>0, <2>2, <2>4, <2>1, <1>RequestsGoOn DEF FindPublisher, FindNothing,
         LockDangling, Goto, requestVars, RequestsOK, Working
    <2>5. CASE RemovePublisher(t) \/ DestroySession(t) \/ DestroyConnection(t)
      <3>2. pc'[t] \in {"idle", "stopped", "done", "remove"}
        BY Zenon, <2>0, <2>2, <2>5 DEF RemovePublisher, DestroySession, Release,
               DestroyConnection, Goto
      <3>3. QED
        BY Zenon, <2>0, <2>5, <3>2, <1>RequestsRest DEF Working, RemovePublisher, DestroySession,
           DestroyConnection, requestVars
    <2>6. CASE InitSemaphore(t) \/ SendNull(t) \/ WaitReply(t) \/ WaitTimeout(t) \/ WaitError(t)
      <3>2. pc[t] = "wait" => mode[r] # "async"
        BY Zenon DEF RequestsOK, Working
      <3>3. QED
        BY Zenon, <2>0, <2>1, <2>2, <2>6, <3>2, <1>RequestsGoOn DEF Working, InitSemaphore,
           SendNull, WaitReply, WaitTimeout, WaitError, Goto, requestVars
    <2>7. CASE SendFromInbox(t)
      <3>2. CASE mode[r] = "async"
        BY Zenon, <2>0, <2>2, <2>7, <3>2, <1>RequestsRest DEF SendFromInbox, Goto, Working,
           requestVars
      <3>3. CASE mode[r] # "async"
        BY Zenon, <2>0, <2>2, <2>7, <3>3, <2>1, <1>RequestsGoOn DEF SendFromInbox, Goto,
           RequestTypes, Working, requestVars
      <3>4. QED
        BY <3>2, <3>3
    <2>8. CASE Retry(t)
      BY Zenon, <2>0, <2>2, <2>8, <2>1, <1>RequestsGoOn DEF Retry, Goto, requestVars, Working
    <2>9. CASE DestroyRequest(t)
      <3>2. \A u \in Apps : u # t /\ pc[u] \in Working => hand[u].req # r
        BY Zenon, <2>9 DEF RequestsOK, DestroyRequest, Working
      <3>3. QED
        BY Zenon, <2>0, <2>1, <2>9, <3>2, <1>DeletedRequests DEF DestroyRequest, Working
    <2>10. CASE SendRequest(t)
      <3>1. /\ pc[t] = "send" /\ pc'[t] \in {"find", "init"} /\ hand' = hand
            /\ pc'[t] = "find" => pub_[r] = NoPublisher
            /\ UNCHANGED <<mode, pub_>>
        BY Zenon, <2>0, <2>2, <2>10 DEF SendRequest, Goto
      <3>2. r \in Requests /\ sends[r] \in Nat
        BY <2>0, <2>1, <3>1 DEF Working, RequestTypes
      <3>3. /\ sends'[r] = sends[r] + 1 /\ stage'[r] = "open"
            /\ \A q \in Requests : q # r => sends'[q] = sends[q] /\ stage'[q] = stage[q]
        BY Zenon, <2>0, <2>10, <3>2 DEF SendRequest, RequestTypes
      <3>4. \A u \in Apps : u # t => pc'[u] = pc[u] /\ hand'[u] = hand[u]
        BY Zenon, <2>0, ThreadKinds DEF Others
      <3>6. \A u, v \in Apps : pc'[u] \in Working /\ pc'[v] \in Working
               /\ hand'[u].req = hand'[v].req => u = v
        BY <3>1, <3>4 DEF RequestsOK, Working
      <3>7. \A q \in Requests : stage'[q] \in {"none", "new"} => sends'[q] = 0
        BY ZenonT(30), <3>3 DEF RequestsOK
      <3>8. ASSUME NEW u \in Apps, pc'[u] \in Working
            PROVE  /\ stage'[hand'[u].req] \in {"new", "open"}
                   /\ pc'[u] = "send" => sends'[hand'[u].req] < MaxSends
                   /\ pc'[u] # "send" => stage'[hand'[u].req] = "open" /\ sends'[hand'[u].req] > 0
                   /\ pc'[u] \in {"find", "lock", "create"} => pub_'[hand'[u].req] = NoPublisher
                   /\ pc'[u] \in {"wait", "replied", "timedout", "failed"} => mode'[hand'[u].req] # "async"
        <4>1. CASE u = t
          BY <3>1, <3>2, <3>3, <4>1
        <4>2. CASE u # t
          <5>1. /\ pc[u] \in Working /\ hand[u].req \in Requests /\ hand[u].req # r
                /\ pc'[u] = pc[u] /\ hand'[u] = hand[u]
            BY Zenon, <2>1, <3>4, <3>1, <3>8, <4>2 DEF RequestsOK, Working
          <5>2. QED
            BY Zenon, <3>1, <3>3, <5>1 DEF RequestsOK
        <4>3. QED
          BY Zenon, <4>1, <4>2
      <3>9. QED
        BY Zenon, <3>6, <3>7, <3>8 DEF RequestsOK
    <2>11. CASE CreateRequest(t)
      <3>1. PICK q \in NextRequest, m \in {"async", "sync", "nosink"} :
               /\ stage' = [stage EXCEPT ![q] = "new"]
               /\ mode' = [mode EXCEPT ![q] = m]
               /\ hand' = [hand EXCEPT ![t] = [req |-> q, num |-> 0]]
        BY Zenon, <2>11 DEF CreateRequest
      <3>2. q \in Requests /\ stage[q] = "none"
        BY DEF NextRequest
      <3>3. /\ hand'[t].req = q /\ pc'[t] = "send" /\ UNCHANGED <<sends, pub_>>
            /\ stage'[q] = "new" /\ \A p \in Requests : p # q => stage'[p] = stage[p] /\ mode'[p] = mode[p]
        BY <2>0, <2>2, <2>11, <3>1, <3>2 DEF CreateRequest, Goto, RequestTypes
      <3>4. \A u \in Apps : u # t => pc'[u] = pc[u] /\ hand'[u] = hand[u]
        BY Zenon, <2>0, ThreadKinds DEF Others
      <3>5. \A u \in Apps : pc[u] \in Working => hand[u].req # q
        BY Zenon, <3>2 DEF RequestsOK
      <3>7. \A u, v \in Apps : pc'[u] \in Working /\ pc'[v] \in Working
               /\ hand'[u].req = hand'[v].req => u = v
        <4>1. \A u \in Apps : u # t /\ pc'[u] \in Working =>
                 pc[u] \in Working /\ hand'[u].req = hand[u].req /\ hand'[u].req # q
          BY Zenon, <3>4, <3>5
        <4>2. \A u, v \in Apps : u # t /\ v # t /\ pc'[u] \in Working /\ pc'[v] \in Working
                 /\ hand'[u].req = hand'[v].req => u = v
          BY Zenon, <4>1 DEF RequestsOK
        <4>3. QED
          BY Zenon, <3>3, <4>1, <4>2
      <3>8. \A p \in Requests : stage'[p] \in {"none", "new"} => sends'[p] = 0
        BY Zenon, <3>3, <3>2 DEF RequestsOK
      <3>9. ASSUME NEW u \in Apps, pc'[u] \in Working
            PROVE  /\ stage'[hand'[u].req] \in {"new", "open"}
                   /\ pc'[u] = "send" => sends'[hand'[u].req] < MaxSends
                   /\ pc'[u] # "send" => stage'[hand'[u].req] = "open" /\ sends'[hand'[u].req] > 0
                   /\ pc'[u] \in {"find", "lock", "create"} => pub_'[hand'[u].req] = NoPublisher
                   /\ pc'[u] \in {"wait", "replied", "timedout", "failed"} => mode'[hand'[u].req] # "async"
        <4>1. CASE u = t
          BY ZenonT(30), <3>3, <3>2, <4>1, SendsBound DEF RequestsOK
        <4>2. CASE u # t
          <5>1. /\ pc[u] \in Working /\ hand[u].req \in Requests /\ hand[u].req # q
                /\ pc'[u] = pc[u] /\ hand'[u] = hand[u]
            BY Zenon, <2>1, <3>4, <3>5, <3>9, <4>2
          <5>2. /\ stage[hand[u].req] \in {"new", "open"}
                /\ pc[u] = "send" => sends[hand[u].req] < MaxSends
                /\ pc[u] # "send" => stage[hand[u].req] = "open" /\ sends[hand[u].req] > 0
                /\ pc[u] \in {"find", "lock", "create"} => pub_[hand[u].req] = NoPublisher
                /\ pc[u] \in {"wait", "replied", "timedout", "failed"} => mode[hand[u].req] # "async"
            BY Zenon, <5>1 DEF RequestsOK
          <5>3. QED
            BY <3>3, <5>1, <5>2
        <4>3. QED
          BY Zenon, <4>1, <4>2
      <3>10. QED
        BY Zenon, <3>7, <3>8, <3>9 DEF RequestsOK
    <2>12. QED
      BY Zenon, <2>3, <2>4, <2>5, <2>6, <2>7, <2>8, <2>9, <2>10, <2>11 DEF AppStep,
         PublisherStep, SendStep
  (* The session's thread deletes only requests that the application has let *)
  (* go of, and the threads of the server delete none.                     *)
  <1>OtherRequests.
      ASSUME WireOK,
             \/ SessionStep
             \/ \E t \in Repliers : ReplierStep(t)
      PROVE  RequestsOK'
    <2> USE <1>OtherRequests
    <2>1. ASSUME NEW t \in Threads \ Apps, Others(t), UNCHANGED <<stage, sends, pub_, mode>>
          PROVE  RequestsOK'
      BY Zenon, <2>1, ThreadKinds, <1>RequestsKept DEF Others
    <2>2. ASSUME NEW t \in Threads \ Apps, PublisherStep(t)
          PROVE  UNCHANGED <<stage, sends, pub_, mode>>
      BY Zenon, <2>2 DEF PublisherStep, FindPublisher, FindNothing, LockPublisher, LockExpired,
         LockDangling, CreatePublisher, RemovePublisher, GotPublisher, requestVars
    <2>3. CASE \E t \in Repliers : ReplierStep(t)
      <3>1. PICK t \in Repliers : ReplierStep(t)
        BY <2>3
      <3>4. QED
        BY Zenon, <2>1, ThreadKinds, StepOthers, <2>2, <3>1 DEF Types, ReplierStep, TakeRequest,
           SendReply, RefuseReply, requestVars
    <2>4. CASE SessionStep
      <3> DEFINE r == hand[Session].req
      <3>1. Session \in Threads \ Apps /\ Others(Session)
        BY <2>4, ThreadKinds, StepOthers DEF Types
      <3>2. CASE UNCHANGED <<stage, sends, pub_, mode>>
        BY <2>1, <3>1, <3>2
      <3>3. CASE OnReply /\ mode[r] = "async"
        <4>1. hand[Session] \in Messages /\ Deleted(Session, r)
          BY Zenon, <3>1, <3>3 DEF OnReply, HandsOK, Fits
        <4>3. \A u \in Apps : pc[u] \in Working => hand[u].req # r
          BY Zenon, <3>3, <4>1 DEF WireOK, OnTheWay, Arrived, OnReply
        <4>4. QED
          BY Zenon, <3>1, <4>1, <4>3, HandKinds, <1>DeletedRequests
      <3>4. QED
        BY Zenon, <2>2, <2>4, <3>1, <3>2, <3>3 DEF SessionStep, InboxCallback, MsgPost,
           MsgIgnored, OnReply, requestVars
    <2>5. QED
      BY <2>3, <2>4
  <1> QED
    BY Zenon, <1>AppRequests, <1>OtherRequests DEF Next

-----------------------------------------------------------------------------
(* Where messages are.                                                     *)

(* No message is in two places.                                            *)
Injective == \A t, u \in Repliers : pc[t] \in Answering /\ pc[u] \in Answering /\ hand[t] = hand[u]
                => t = u

Distinct == \A i, j \in 1..Len(queue) : queue[i] = queue[j] => i = j

OncePerMessage ==
    /\ Injective
    /\ Distinct
    /\ net \cap Carried = {}
    /\ (net \cup Carried) \cap InQueue = {}
    /\ (net \cup Carried \cup InQueue) \cap AtPost = {}
    /\ (net \cup Carried \cup InQueue \cup AtPost) \cap Answered = {}

(* The message that is sent next is a new one.                             *)
NextIsNew ==
    /\ \A m \in Answered : m.num <= sends[m.req]
    /\ \A t \in Apps : pc[t] \in Sending =>
          [req |-> hand[t].req, num |-> sends[hand[t].req]] \notin OnTheWay \cup Answered

(* No message is given to a thread or taken from it.                       *)
Still ==
    /\ \A u \in Repliers : pc'[u] \in Answering <=> pc[u] \in Answering
    /\ \A u \in Repliers : pc[u] \in Answering => hand'[u] = hand[u]
    /\ \/ pc'[Session] = pc[Session] /\ hand'[Session] = hand[Session]
       \/ pc[Session] = "remove" /\ pc'[Session] = "idle"

(* What a step does to the places of messages, if it sends none.           *)
Flows == /\ OncePerMessage'
         /\ OnTheWay' \subseteq OnTheWay
         /\ Answered' \subseteq Answered \cup Arrived

(* The message that request::send sends.                                   *)
Sent(t) == [req |-> hand[t].req, num |-> sends[hand[t].req]]

(* Messages flow from the application to the server and back, and only a   *)
(* request that is sent puts a new one on the way.                         *)
LEMMA NextFlows ==
    ASSUME Types, HandsOK, OncePerMessage
    PROVE  /\ \A t \in Apps : AppStep(t) /\ ~SendFromInbox(t) => Flows
           /\ \A t \in Apps : NextIsNew /\ SendFromInbox(t) =>
                 /\ OncePerMessage'
                 /\ OnTheWay' \subseteq OnTheWay \cup {Sent(t)} /\ Answered' \subseteq Answered
           /\ SessionStep => Flows
           /\ \A t \in Repliers : ReplierStep(t) => Flows
  (* Then all messages stay with whoever has them.                         *)
  <1>StillSets.
      ASSUME Still
      PROVE  Carried' = Carried /\ Arrived' = Arrived /\ AtPost' = AtPost /\ (Injective => Injective')
    BY Zenon, <1>StillSets DEF Still, Carried, Arrived, AtPost, Injective
  (* Steps of the application, and of any thread with a publisher.         *)
  <1>StillSteps.
      ASSUME ThreadTypes, NEW t \in Threads,
             \/ t \in Apps /\ AppStep(t)
             \/ PublisherStep(t) /\ (t = Session \/ t \in Repliers)
      PROVE  Still
    <2> USE <1>StillSteps
    <2>1. Others(t)
      BY StepOthers DEF SessionStep, ReplierStep
    <2>2. CASE t \in Apps
      BY <2>1, <2>2, ThreadKinds DEF Others, Still
    <2>3. CASE PublisherStep(t) /\ t \in Repliers
      <3>2. CASE PublisherStep(t) /\ ~RemovePublisher(t)
        <4>1. pc[t] \in Answering /\ hand'[t] = hand[t] /\ pc'[t] \in Answering
          BY Zenon, <2>3, <3>2, ThreadKinds DEF PublisherStep, FindPublisher, FindNothing,
             LockPublisher, LockExpired, LockDangling, CreatePublisher, GotPublisher, Goto,
             Answering, ThreadTypes
        <4>2. QED
          BY <2>1, <4>1, <2>3, ThreadKinds DEF Still, Others
      <3>3. CASE RemovePublisher(t)
        BY <3>3, ThreadKinds DEF RemovePublisher, Goto, Answering, ThreadTypes, Still
      <3>4. QED
        BY <2>3, <3>2, <3>3 DEF PublisherStep
    <2>4. CASE PublisherStep(t) /\ t = Session
      <3>3. pc[t] = "remove" /\ pc'[t] = "idle"
        BY Zenon, <2>4, ThreadKinds DEF RemovePublisher, Goto, ThreadTypes, PublisherStep,
           FindPublisher, FindNothing, LockPublisher, LockExpired, LockDangling, CreatePublisher,
           HandsOK, Fits
      <3>4. QED
        BY <2>1, <2>4, <3>3, ThreadKinds DEF Others, Still
    <2>5. QED
      BY <2>2, <2>3, <2>4
  (* A thread of the server that takes a message,                          *)
  <1>TakeSets.
      ASSUME ThreadTypes, NEW t \in Repliers, TakeRequest(t)
      PROVE  \E m \in net :
                /\ net' = net \ {m} /\ Carried' = Carried \cup {m}
                /\ Arrived' = Arrived /\ AtPost' = AtPost
                /\ Injective /\ m \notin Carried => Injective'
    <2> USE <1>TakeSets
    <2>1. Others(t) /\ t \in Threads /\ pc[t] = "idle"
      BY Zenon, ThreadKinds, StepOthers DEF ReplierStep, TakeRequest
    <2>2. PICK m \in net : net' = net \ {m} /\ hand'[t] = m /\ pc'[t] = "find"
      BY <2>1 DEF TakeRequest, Goto, ThreadTypes
    <2>8. QED
      BY <2>2, <2>1, ThreadKinds DEF Carried, Others, Answering, Injective, Arrived, AtPost
  (* and one that is done with it.                                         *)
  <1>DoneSets.
      ASSUME ThreadTypes, NEW t \in Repliers, Others(t), pc[t] \in Answering,
             pc'[t] \notin Answering, Injective
      PROVE  /\ Carried' = Carried \ {hand[t]} /\ hand[t] \in Carried /\ Injective'
             /\ Arrived' = Arrived /\ AtPost' = AtPost
    BY <1>DoneSets, ThreadKinds DEF Others, Arrived, AtPost, Carried, Injective
  (* The queue when a reply is put on it,                                  *)
  <1>AppendSets.
      ASSUME WireTypes, NEW m \in Messages, queue' = Append(queue, m)
      PROVE  InQueue' = InQueue \cup {m} /\ (Distinct /\ m \notin InQueue => Distinct')
    BY <1>AppendSets DEF InQueue, Distinct
  (* and when one is taken from it.                                        *)
  <1>TailSets.
      ASSUME WireTypes, queue # <<>>, queue' = Tail(queue)
      PROVE  /\ Head(queue) \in InQueue /\ Head(queue) \in Messages /\ InQueue' \subseteq InQueue
             /\ Distinct => Distinct' /\ Head(queue) \notin InQueue'
    <2> USE <1>TailSets
    <2>6. ASSUME Distinct
          PROVE  Distinct'
      BY <2>6 DEF Distinct
    <2>7. ASSUME Distinct
          PROVE  Head(queue) \notin InQueue'
      BY <2>7 DEF Distinct, InQueue
    <2>8. QED
      BY <2>6, <2>7 DEF InQueue, WireTypes
  (* The session's thread takes a message,                                 *)
  <1>InboxSets.
      ASSUME InboxCallback
      PROVE  /\ Carried' = Carried /\ net' = net /\ Answered' = Answered
             /\ (Injective => Injective')
             /\ Arrived = {} /\ AtPost = {}
             /\ Arrived' \subseteq {Head(queue)} /\ AtPost' \subseteq {Head(queue)}
    <2> USE <1>InboxSets
    <2>0. Session \in Threads /\ ThreadTypes /\ pc[Session] = "idle"
      BY ThreadKinds DEF Types, InboxCallback
    <2>5. Arrived' \subseteq {Head(queue)} /\ AtPost' \subseteq {Head(queue)}
      BY <2>0 DEF Arrived, AtPost, InboxCallback, ThreadTypes
    <2>6. net' = net /\ Answered' = Answered
      BY Zenon DEF InboxCallback, Answered, requestVars
    <2>7. QED
      BY Zenon, <2>0, ThreadKinds, StepOthers, <2>5, <2>6 DEF Carried, Injective, SessionStep,
         Others, Arrived, AtPost
  (* posts the semaphore,                                                  *)
  <1>PostSets.
      ASSUME MsgPost
      PROVE  /\ Carried' = Carried /\ net' = net /\ InQueue' = InQueue
             /\ (Injective => Injective') /\ (Distinct => Distinct')
             /\ hand[Session] \in Messages
             /\ AtPost = {hand[Session]} /\ Arrived = {hand[Session]}
             /\ Arrived' = {hand[Session]} /\ AtPost' = {}
             /\ Answered' = Answered \cup {hand[Session]}
    <2> USE <1>PostSets
    <2>0. Session \in Threads /\ ThreadTypes /\ RequestTypes /\ pc[Session] = "post"
      BY Zenon, ThreadKinds DEF Types, MsgPost
    <2>3. hand[Session] \in Messages
      BY <2>0 DEF HandsOK, Fits
    <2>4. pc'[Session] = "onReply" /\ hand' = hand /\ net' = net /\ queue' = queue
      BY Zenon, <2>0 DEF MsgPost, Goto, ThreadTypes, wireVars
    <2>7. Answered' = Answered \cup {hand[Session]}
      <3>1. \A m \in Messages : m.num \in posted'[m.req] <=>
               (m.num \in posted[m.req] \/ (m.req = hand[Session].req /\ m.num = hand[Session].num))
        BY Zenon, <2>0, HandKinds DEF MsgPost, RequestTypes
      <3>3. QED
        BY <2>3, <3>1 DEF Answered, Messages
    <2>8. QED
      BY <2>0, ThreadKinds, StepOthers, <2>3, <2>4, <2>7 DEF AtPost, Arrived, Carried, Injective,
         SessionStep, Others, InQueue, Distinct
  (* and is done with it.                                                  *)
  <1>OnReplySets.
      ASSUME OnReply \/ MsgIgnored
      PROVE  /\ Carried' = Carried /\ net' = net /\ InQueue' = InQueue
             /\ (Injective => Injective') /\ (Distinct => Distinct')
             /\ Arrived' = {} /\ AtPost' = {} /\ Answered' \subseteq Answered
    <2> USE <1>OnReplySets
    <2>0. Session \in Threads /\ ThreadTypes /\ RequestTypes /\ pc[Session] \in {"post", "onReply"}
      BY Zenon, ThreadKinds DEF Types, OnReply, MsgIgnored
    <2>3. net' = net /\ queue' = queue /\ pc'[Session] \in {"idle", "remove"}
      BY Zenon, <2>0 DEF OnReply, MsgIgnored, Deleted, Release, Goto, ThreadTypes, wireVars
    <2>6. posted' = posted \/ posted' = [posted EXCEPT ![hand[Session].req] = {}]
      BY Zenon DEF OnReply, MsgIgnored, Deleted, requestVars
    <2>7. Answered' \subseteq Answered
      BY Zenon, <2>0, <2>6, HandKinds DEF RequestTypes, Answered
    <2>8. QED
      BY <2>0, ThreadKinds, StepOthers, <2>3, <2>7 DEF Carried, Injective, SessionStep, Others,
         Arrived, AtPost, InQueue, Distinct
  (* Steps of the application.                                             *)
  <1>AppSets.
      ASSUME NEW t \in Apps, AppStep(t)
      PROVE  /\ Carried' = Carried /\ Arrived' = Arrived /\ AtPost' = AtPost
             /\ (Injective => Injective') /\ (Distinct => Distinct')
             /\ InQueue' \subseteq InQueue /\ Answered' \subseteq Answered
             /\ SendFromInbox(t) => net' = net \cup {Sent(t)}
             /\ ~SendFromInbox(t) => net' = net
    <2> USE <1>AppSets
    <2>3. queue' = queue \/ queue' = <<>>
      BY Zenon DEF AppStep, PublisherStep, FindPublisher, FindNothing, LockPublisher,
         LockExpired, LockDangling, CreatePublisher, RemovePublisher, SendStep, SendRequest,
         InitSemaphore, SendFromInbox, SendNull, WaitReply, WaitTimeout, WaitError,
         CreateRequest, Retry, DestroyRequest, Deleted, DestroySession, DestroyConnection,
         wireVars
    <2>5. \A r \in Requests : posted'[r] = posted[r] \/ posted'[r] = {}
      <3>1. CASE DestroyRequest(t)
        BY Zenon, <3>1 DEF DestroyRequest, Deleted, RequestTypes, Types
      <3>2. CASE ~DestroyRequest(t)
        BY Zenon, <3>2 DEF AppStep, PublisherStep, FindPublisher, FindNothing, LockPublisher,
           LockExpired, LockDangling, CreatePublisher, RemovePublisher, SendStep, SendRequest,
           InitSemaphore, SendFromInbox, SendNull, WaitReply, WaitTimeout, WaitError,
           CreateRequest, Retry, DestroySession, DestroyConnection, requestVars
      <3>3. QED
        BY <3>1, <3>2
    <2>6. Answered' \subseteq Answered
      BY Zenon, <2>5, HandKinds DEF Answered
    <2>7. SendFromInbox(t) => net' = net \cup {Sent(t)}
      BY Zenon DEF SendFromInbox, Sent
    <2>8. ~SendFromInbox(t) => net' = net
      BY Zenon DEF AppStep, PublisherStep, FindPublisher, FindNothing, LockPublisher,
         LockExpired, LockDangling, CreatePublisher, RemovePublisher, SendStep, SendRequest,
         InitSemaphore, SendNull, WaitReply, WaitTimeout, WaitError, CreateRequest, Retry,
         DestroyRequest, Deleted, DestroySession, DestroyConnection, wireVars
    <2>9. QED
      BY ThreadKinds, <1>StillSteps, <1>StillSets, <2>3, <2>6, <2>7, <2>8 DEF Types, InQueue,
         Distinct
  (* None of them but sending puts a message in a second place.            *)
  <1>AppFlows.
      ASSUME NEW t \in Apps, AppStep(t), ~SendFromInbox(t)
      PROVE  Flows
    BY <1>AppFlows, <1>AppSets DEF Flows, OnTheWay, OncePerMessage
  (* Sending a message, which is a new one.                                *)
  <1>SendFlows.
      ASSUME NextIsNew, NEW t \in Apps, SendFromInbox(t)
      PROVE  /\ OncePerMessage'
             /\ OnTheWay' \subseteq OnTheWay \cup {Sent(t)} /\ Answered' \subseteq Answered
    <2> USE <1>SendFlows
    <2>4. Sent(t) \notin Carried \cup InQueue \cup AtPost \cup Answered
      BY Zenon DEF OnTheWay, AtPost, Arrived, NextIsNew, SendFromInbox, Sent, Sending
    <2>6. QED
      BY <1>AppSets, <2>4 DEF OnTheWay, AppStep, SendStep, OncePerMessage
  (* Steps of the session's thread.                                        *)
  <1>SessionFlows.
      ASSUME SessionStep
      PROVE  Flows
    <2> USE <1>SessionFlows
    <2>1. CASE InboxCallback
      <3> DEFINE m == Head(queue)
      <3>2. /\ m \in InQueue /\ InQueue' \subseteq InQueue
            /\ Distinct => Distinct' /\ m \notin InQueue'
        BY <2>1, <1>TailSets DEF Types, InboxCallback
      <3>7. QED
        BY Zenon, <3>2, <2>1, <1>InboxSets DEF Flows, OnTheWay, OncePerMessage
    <2>2. CASE MsgPost
      <3> DEFINE m == hand[Session]
      <3>4. QED
        BY <2>2, <1>PostSets DEF Flows, OnTheWay, OncePerMessage
    <2>3. CASE OnReply \/ MsgIgnored
      BY <2>3, <1>OnReplySets DEF OncePerMessage, Flows, OnTheWay
    <2>4. CASE PublisherStep(Session)
      <3>2. net' = net /\ queue' = queue /\ posted' = posted
        BY Zenon, <2>4 DEF PublisherStep, FindPublisher, FindNothing, LockPublisher, LockExpired,
           LockDangling, CreatePublisher, RemovePublisher, wireVars, requestVars
      <3>3. /\ Carried' = Carried /\ Arrived' = Arrived /\ AtPost' = AtPost
            /\ InQueue' = InQueue /\ Answered' = Answered
            /\ (Injective => Injective') /\ (Distinct => Distinct')
        BY Zenon, <2>4, ThreadKinds, <1>StillSteps, <3>2, <1>StillSets DEF InQueue, Answered,
           Distinct, Types
      <3>4. QED
        BY <3>2, <3>3 DEF Flows, OnTheWay, OncePerMessage
    <2>5. QED
      BY Zenon, <2>1, <2>2, <2>3, <2>4 DEF SessionStep
  (* Steps of the server.                                                  *)
  <1>ReplierFlows.
      ASSUME NEW t \in Repliers, ReplierStep(t)
      PROVE  Flows
    <2> USE <1>ReplierFlows
    <2>0. WireTypes /\ ThreadTypes /\ t \in Threads /\ Others(t)
      BY ThreadKinds, StepOthers DEF Types
    <2>1. posted' = posted /\ Answered' = Answered
      BY Zenon DEF ReplierStep, PublisherStep, FindPublisher, FindNothing, LockPublisher,
         LockExpired, LockDangling, CreatePublisher, RemovePublisher, TakeRequest, SendReply,
         RefuseReply, requestVars, Answered
    <2>2. CASE PublisherStep(t)
      <3>2. net' = net /\ queue' = queue
        BY Zenon, <2>2 DEF PublisherStep, FindPublisher, FindNothing, LockPublisher, LockExpired,
           LockDangling, CreatePublisher, RemovePublisher, wireVars
      <3>4. QED
        BY <2>1, <3>2, <2>0, <2>2, <1>StillSteps, <1>StillSets DEF Flows, OnTheWay, OncePerMessage,
           InQueue, Distinct
    <2>3. CASE TakeRequest(t)
      <3>1. PICK m \in net :
                /\ net' = net \ {m} /\ Carried' = Carried \cup {m}
                /\ Arrived' = Arrived /\ AtPost' = AtPost
                /\ Injective /\ m \notin Carried => Injective'
        BY Zenon, <2>0, <2>3, <1>TakeSets
      <3>2. InQueue' = InQueue /\ (Distinct => Distinct')
        BY <2>3 DEF TakeRequest, InQueue, Distinct
      <3>4. QED
        BY <2>1, <3>1, <3>2 DEF Flows, OnTheWay, OncePerMessage
    <2>4. CASE SendReply(t)
      <3> DEFINE m == hand[t]
      <3>1. pc[t] \in Answering /\ pc'[t] \notin Answering /\ m \in Messages
        BY Zenon, <2>0, <2>4 DEF SendReply, Release, Goto, ThreadTypes, HandsOK, Fits, Answering
      <3>2. /\ Carried' = Carried \ {m} /\ m \in Carried /\ Injective'
            /\ Arrived' = Arrived /\ AtPost' = AtPost
        BY <2>0, <3>1, <1>DoneSets DEF OncePerMessage
      <3>4. CASE queue' = queue
        <4>1. InQueue' = InQueue /\ (Distinct => Distinct') /\ net' = net
          BY Zenon, <2>4, <3>4 DEF SendReply, InQueue, Distinct
        <4>2. QED
          BY Zenon, <2>1, <3>2, <4>1 DEF Flows, OnTheWay, OncePerMessage
      <3>5. CASE queue' = Append(queue, m)
        <4>1. InQueue' = InQueue \cup {m} /\ (Distinct => Distinct') /\ net' = net
          BY Zenon, <2>0, <2>4, <3>1, <3>2, <3>5, <1>AppendSets DEF SendReply, OncePerMessage
        <4>3. QED
          BY <2>1, <3>2, <4>1 DEF Flows, OnTheWay, OncePerMessage
      <3>6. QED
        BY Zenon, <2>4, <3>4, <3>5 DEF SendReply
    <2>5. CASE RefuseReply(t)
      <3>1. pc[t] \in Answering /\ pc'[t] \notin Answering /\ net' = net /\ queue' = queue
        BY <2>0, <2>5 DEF RefuseReply, Goto, ThreadTypes, Answering, wireVars
      <3>2. InQueue' = InQueue /\ (Distinct => Distinct')
        BY Zenon, <3>1 DEF InQueue, Distinct
      <3>3. Carried' \subseteq Carried /\ Injective' /\ Arrived' = Arrived /\ AtPost' = AtPost
        BY <2>0, <3>1, <1>DoneSets DEF OncePerMessage
      <3>4. QED
        BY <2>1, <3>1, <3>2, <3>3 DEF Flows, OnTheWay, OncePerMessage
    <2>6. QED
      BY <2>2, <2>3, <2>4, <2>5 DEF ReplierStep
  <1> QED
    BY Zenon, <1>AppFlows, <1>SendFlows, <1>SessionFlows, <1>ReplierFlows

-----------------------------------------------------------------------------
(* Which messages are out for a request, and which of them are new.        *)

(* What most steps leave alone: no thread takes up a request, or begins to *)
(* send it, no request is sent more often or becomes async.                *)
NoneTakenUp == \A u \in Apps : pc'[u] \in Working => pc[u] \in Working /\ hand'[u] = hand[u]
NoneSends == \A u \in Apps : pc'[u] \in Sending => pc[u] \in Sending /\ hand'[u] = hand[u]
NoneAsync == \A r \in Requests : mode'[r] \in {mode[r], "sync"}

(* Steps of the application.                                               *)
LEMMA AppFrame ==
    ASSUME Types, HandsOK, NEW t \in Apps, AppStep(t)
    PROVE  /\ ~CreateRequest(t) => NoneTakenUp /\ NoneAsync
           /\ ~SendRequest(t) => NoneSends /\ sends' = sends
           /\ SendRequest(t) =>
                 /\ hand[t].req \in Requests /\ sends'[hand[t].req] = sends[hand[t].req] + 1
                 /\ \A r \in Requests : r # hand[t].req => sends'[r] = sends[r]
  <1>0. t \in Threads /\ ThreadTypes /\ RequestTypes
    BY ThreadKinds DEF Types
  <1>1. \A u \in Apps : u # t => pc'[u] = pc[u] /\ hand'[u] = hand[u]
    BY Zenon, <1>0, ThreadKinds, StepOthers DEF Others
  <1>3. CASE SendRequest(t)
    <2>2. /\ sends'[hand[t].req] = sends[hand[t].req] + 1
          /\ \A r \in Requests : r # hand[t].req => sends'[r] = sends[r]
      BY Zenon, <1>0, <1>3 DEF SendRequest, RequestTypes, Working, HandsOK, Fits
    <2>3. QED
      BY Zenon, <1>1, <1>3, <1>0, <2>2 DEF NoneTakenUp, NoneAsync, SendRequest, HandsOK, Fits
  <1>4. CASE CreateRequest(t)
    <2>1. pc'[t] = "send" /\ pc[t] = "idle" /\ sends' = sends
      BY Zenon, <1>0, <1>4 DEF CreateRequest, Goto, ThreadTypes
    <2>3. QED
      BY Zenon, <1>4, <2>1, <1>1 DEF NoneSends, Sending, SendRequest
  <1>5. CASE PublisherStep(t)
    <2>2. \/ pc[t] \in {"find", "lock", "create"} /\ hand' = hand
          \/ pc'[t] \in {"stopped", "idle"}
      BY Zenon, <1>0, <1>5 DEF PublisherStep, FindPublisher, FindNothing, LockPublisher,
         LockExpired, LockDangling, CreatePublisher, RemovePublisher, Goto, ThreadTypes
    <2>5. QED
      BY Zenon, <1>5, <1>1, <2>2 DEF NoneAsync, PublisherStep, FindPublisher, FindNothing,
         LockPublisher, LockExpired, LockDangling, CreatePublisher, RemovePublisher, requestVars,
         NoneSends, NoneTakenUp, Sending, Working, SendRequest
  <1>6. CASE \/ InitSemaphore(t) \/ SendFromInbox(t) \/ SendNull(t) \/ WaitReply(t)
             \/ WaitTimeout(t) \/ WaitError(t) \/ Retry(t)
    <2>2. /\ pc[t] \in Working /\ pc[t] # "send"
          /\ \/ pc'[t] \notin Working \cup Sending
             \/ hand' = hand /\ (pc'[t] \in Sending => pc[t] \in Sending)
      BY Zenon, <1>0, <1>6 DEF InitSemaphore, SendFromInbox, SendNull, WaitReply, WaitTimeout,
         WaitError, Retry, Goto, ThreadTypes, Sending, Working
    <2>5. QED
      BY Zenon, <1>6, <1>1, <2>2 DEF NoneAsync, InitSemaphore, SendFromInbox, SendNull,
         WaitReply, WaitTimeout, WaitError, Retry, requestVars, NoneSends, NoneTakenUp,
         CreateRequest, SendRequest, Working
  <1>7. CASE DestroyRequest(t)
    <2>1. /\ sends' = sends /\ pc'[t] \in {"idle", "remove"}
          /\ mode' = [mode EXCEPT ![hand[t].req] = "sync"] /\ pc[t] \in {"replied", "timedout", "failed"}
      BY Zenon, <1>0, <1>7 DEF DestroyRequest, Deleted, Release, Goto, ThreadTypes
    <2>4. QED
      BY Zenon, <2>1, <1>1, <1>0 DEF SendRequest, NoneSends, NoneTakenUp, Sending, Working,
         NoneAsync, RequestTypes
  <1>8. CASE DestroySession(t) \/ DestroyConnection(t)
    <2>1. /\ sends' = sends /\ mode' = mode /\ pc'[t] \in {"stopped", "done"}
          /\ pc[t] \in {"idle", "stopped"}
      BY Zenon, <1>0, <1>8 DEF DestroySession, Release, DestroyConnection, Goto,
             ThreadTypes, requestVars
    <2>3. QED
      BY Zenon, <2>1, <1>1 DEF SendRequest, NoneSends, NoneTakenUp, Sending, Working, NoneAsync
  <1>9. QED
    BY Zenon, <1>3, <1>4, <1>5, <1>6, <1>7, <1>8 DEF AppStep, SendStep

(* Steps of the other threads.                                             *)
LEMMA OtherFrame ==
    ASSUME Types, HandsOK,
           \/ SessionStep
           \/ \E t \in Repliers : ReplierStep(t)
    PROVE  /\ \A u \in Apps : pc'[u] = pc[u] /\ hand'[u] = hand[u]
           /\ NoneTakenUp /\ NoneSends /\ NoneAsync /\ sends' = sends
  <1>2. ASSUME NEW t \in Threads, PublisherStep(t)
        PROVE  sends' = sends /\ mode' = mode
    BY Zenon, <1>2 DEF PublisherStep, FindPublisher, FindNothing, LockPublisher, LockExpired,
       LockDangling, CreatePublisher, RemovePublisher, requestVars
  <1>3. sends' = sends /\ \/ mode' = mode
                          \/ mode' = [mode EXCEPT ![hand[Session].req] = "sync"]
    BY Zenon, <1>2, ThreadKinds DEF SessionStep, InboxCallback, MsgPost, MsgIgnored, OnReply,
       Deleted, ReplierStep, TakeRequest, SendReply, RefuseReply, requestVars
  <1>5. QED
    BY ThreadKinds, StepOthers, <1>3 DEF NoneTakenUp, NoneSends, Others, Types, NoneAsync,
       RequestTypes

(* Every step keeps what is known of the messages.                         *)
LEMMA NextWire ==
    ASSUME Types, HandsOK, RequestsOK, WireOK, OncePerMessage, NextIsNew
    PROVE  Next => WireOK' /\ OncePerMessage' /\ NextIsNew'
  (* Nothing but messages is on the way.                                   *)
  <1>OnTheWayTypes.
      OnTheWay \subseteq Messages
    BY ThreadKinds DEF OnTheWay, Types, WireTypes, Arrived, Carried, HandsOK, Fits, InQueue
  (* Messages that stay on the way.                                        *)
  <1>WireKept.
      ASSUME OnTheWay' \subseteq OnTheWay, NoneTakenUp, NoneAsync,
             \A r \in Requests : sends'[r] >= sends[r] /\ sends'[r] \in Nat
      PROVE  WireOK'
    <2> USE <1>WireKept
    <2>1. ASSUME NEW m \in OnTheWay'
          PROVE  /\ m.num <= sends'[m.req]
                 /\ \A u \in Apps : pc'[u] \in Working /\ hand'[u].req = m.req => mode'[m.req] # "async"
      BY <1>OnTheWayTypes, HandKinds DEF WireOK, Types, RequestTypes, NoneTakenUp, NoneAsync
    <2>2. QED
      BY Zenon, <2>1 DEF WireOK
  (* The numbers of sends, before and after a step.                        *)
  <1>SendsGrow.
      ASSUME Next
      PROVE  \A r \in Requests : sends[r] \in Nat /\ sends'[r] >= sends[r] /\ sends'[r] \in Nat
    <2> USE <1>SendsGrow
    <2>2. \/ sends' = sends
          \/ \E q \in Requests : /\ sends'[q] = sends[q] + 1
                                 /\ \A r \in Requests : r # q => sends'[r] = sends[r]
      BY Zenon, AppFrame, OtherFrame DEF Next
    <2>3. QED
      BY <2>2 DEF Types, RequestTypes
  (* A new request has no messages out.                                    *)
  <1>CreateWire.
      ASSUME NEW t \in Apps, CreateRequest(t)
      PROVE  WireOK'
    <2> USE <1>CreateWire
    <2>0. t \in Threads /\ ThreadTypes /\ RequestTypes
      BY ThreadKinds DEF Types
    <2>1. OnTheWay' \subseteq OnTheWay /\ sends' = sends
      BY Zenon, NextFlows DEF AppStep, Flows, CreateRequest, SendFromInbox
    <2>2. PICK q \in NextRequest, m \in {"async", "sync", "nosink"} :
             /\ mode' = [mode EXCEPT ![q] = m]
             /\ hand' = [hand EXCEPT ![t] = [req |-> q, num |-> 0]]
      BY Zenon DEF CreateRequest
    <2>3. q \in Requests /\ sends[q] = 0 /\ hand'[t].req = q
      BY Zenon, <2>0, <2>2 DEF NextRequest, RequestsOK, ThreadTypes
    <2>4. \A u \in Apps : u # t => pc'[u] = pc[u] /\ hand'[u] = hand[u]
      BY ZenonT(30), <2>0, ThreadKinds, StepOthers DEF Others, AppStep
    <2>5. ASSUME NEW x \in OnTheWay'
          PROVE  /\ x.num <= sends'[x.req]
                 /\ \A u \in Apps : pc'[u] \in Working /\ hand'[u].req = x.req => mode'[x.req] # "async"
      BY <2>1, <2>3, <2>4, <1>OnTheWayTypes, HandKinds, <2>2 DEF WireOK
    <2>6. QED
      BY <2>5 DEF WireOK
  (* A request that is sent.                                               *)
  <1>SendWire.
      ASSUME NEW t \in Apps, SendFromInbox(t)
      PROVE  WireOK' /\ NextIsNew'
    <2> USE <1>SendWire
    <2> DEFINE r == hand[t].req
    <2>0. t \in Threads /\ ThreadTypes /\ RequestTypes /\ AppStep(t) /\ pc[t] \in Working
      BY Zenon, ThreadKinds DEF Types, AppStep, SendStep, SendFromInbox, Working
    <2>2. NoneTakenUp /\ NoneAsync /\ NoneSends /\ sends' = sends /\ mode' = mode
      BY Zenon, <2>0, AppFrame DEF SendFromInbox, CreateRequest, SendRequest, requestVars
    <2>3. r \in Requests /\ sends[r] \in Nat
      BY <2>0 DEF HandsOK, Fits, RequestTypes
    <2>5. \A u \in Apps : u # t /\ pc[u] \in Working => hand[u].req # r
      BY Zenon, <2>0 DEF RequestsOK
    <2>6. pc'[t] \in Working => mode[r] # "async"
      <3>1. mode[r] = "async" => pc'[t] = "idle"
        BY Zenon, <2>0 DEF SendFromInbox, Goto, ThreadTypes
      <3>2. QED
        BY Zenon, <2>0, <2>3, <3>1 DEF RequestTypes, Working
    <2>7. ASSUME NEW x \in OnTheWay'
          PROVE  /\ x.num <= sends'[x.req]
                 /\ \A u \in Apps : pc'[u] \in Working /\ hand'[u].req = x.req => mode'[x.req] # "async"
      <3>1. x \in OnTheWay \/ x = Sent(t)
        BY Zenon, <2>7, NextFlows
      <3>2. CASE x \in OnTheWay
        BY Zenon, <2>2, <3>2 DEF WireOK, NoneTakenUp
      <3>3. CASE x = Sent(t)
        <4>1. x.req = r /\ x.num = sends[r]
          BY ONLY <3>3 DEF Sent
        <4>2. x.num <= sends'[x.req]
          BY <2>2, <2>3, <4>1
        <4>3. QED
          BY Zenon, <2>2, <2>5, <2>6, <4>1, <4>2 DEF NoneTakenUp
      <3>4. QED
        BY Zenon, <3>1, <3>2, <3>3
    <2>8. pc'[t] \notin Sending
      BY Zenon, <2>0 DEF SendFromInbox, Goto, ThreadTypes, Sending
    <2>9. ASSUME NEW u \in Apps, pc'[u] \in Sending
          PROVE  [req |-> hand'[u].req, num |-> sends'[hand'[u].req]] \notin OnTheWay' \cup Answered'
      <3>3. [req |-> hand[u].req, num |-> sends[hand[u].req]] # Sent(t)
        BY Zenon, <2>5, <2>2, <2>8, <2>9 DEF Sent, NoneSends, Sending, Working
      <3>4. QED
        BY Zenon, NextFlows, <2>2, <2>9, <3>3 DEF NextIsNew, NoneSends, Working
    <2>11. QED
      BY Zenon, <2>7, <2>9, NextFlows, <2>2 DEF WireOK, NextIsNew
  (* No thread begins to send.                                             *)
  <1>NewKept.
      ASSUME Flows, NoneSends, sends' = sends
      PROVE  NextIsNew'
    <2> USE <1>NewKept
    <2>3. OnTheWay' \cup Answered' \subseteq OnTheWay \cup Answered
      BY DEF Flows, OnTheWay
    <2>4. ASSUME NEW u \in Apps, pc'[u] \in Sending
          PROVE  [req |-> hand'[u].req, num |-> sends'[hand'[u].req]] \notin OnTheWay' \cup Answered'
      BY Zenon, <2>3, <2>4 DEF NextIsNew, NoneSends
    <2>5. QED
      BY Zenon, <2>4 DEF NextIsNew, Flows, WireOK, OnTheWay
  (* A send begins: its number is higher than those of all before.         *)
  <1>SendNew.
      ASSUME NEW t \in Apps, SendRequest(t)
      PROVE  NextIsNew'
    <2> USE <1>SendNew
    <2> DEFINE r == hand[t].req
    <2>0. t \in Threads /\ ThreadTypes /\ RequestTypes /\ AppStep(t) /\ pc[t] \in Working
      BY Zenon, ThreadKinds DEF Types, AppStep, SendStep, SendRequest, Working
    <2>2. /\ r \in Requests /\ sends'[r] = sends[r] + 1 /\ sends[r] \in Nat
          /\ \A q \in Requests : q # r => sends'[q] = sends[q]
      <3>1. /\ r \in Requests /\ sends'[r] = sends[r] + 1
            /\ \A q \in Requests : q # r => sends'[q] = sends[q]
        BY Zenon, <2>0, AppFrame
      <3>2. QED
        BY ONLY <2>0, <3>1, OzClientAssumption DEF RequestTypes
    <2>4. OnTheWay' \cup Answered' \subseteq OnTheWay \cup Answered
      BY Zenon, <2>0, NextFlows DEF Flows, OnTheWay, SendRequest, SendFromInbox
    <2>5. \A m \in OnTheWay \cup Answered : m.req \in Requests /\ m.num \in Nat /\ m.num <= sends[m.req]
      BY <1>OnTheWayTypes, HandKinds DEF WireOK, NextIsNew, Answered
    <2>6. \A m \in Answered' : m.num <= sends'[m.req]
      BY <2>2, <2>4, <2>5
    <2>7. [req |-> r, num |-> sends'[r]] \notin OnTheWay' \cup Answered'
      <3>1. [req |-> r, num |-> sends'[r]] \notin OnTheWay \cup Answered
        BY <2>2, <2>5
      <3>2. QED
        BY Zenon, <2>4, <3>1
    <2>8. /\ hand' = hand
          /\ \A u \in Apps : u # t => pc'[u] = pc[u]
          /\ \A u \in Apps : u # t /\ pc[u] \in Working => hand[u].req # r /\ hand[u].req \in Requests
      <3>1. hand' = hand /\ \A u \in Apps : u # t => pc'[u] = pc[u]
        BY Zenon, <2>0, ThreadKinds, StepOthers DEF SendRequest, Others
      <3>4. QED
        BY Zenon, <3>1, <2>0, ThreadKinds DEF RequestsOK, HandsOK, Fits
    <2>9. ASSUME NEW u \in Apps, pc'[u] \in Sending
          PROVE  [req |-> hand'[u].req, num |-> sends'[hand'[u].req]] \notin OnTheWay' \cup Answered'
      <3>1. CASE u = t
        BY Zenon, <2>7, <2>8, <3>1
      <3>2. CASE u # t
        <4>1. pc[u] \in Sending /\ pc[u] \in Working /\ hand'[u] = hand[u]
          BY Zenon, <2>8, <2>9, <3>2 DEF Sending, Working
        <4>2. sends'[hand[u].req] = sends[hand[u].req]
          BY Zenon, <2>2, <2>8, <3>2, <4>1
        <4>3. QED
          BY Zenon, <2>4, <4>1, <4>2 DEF NextIsNew
      <3>3. QED
        BY Zenon, <3>1, <3>2
    <2>10. QED
      BY Zenon, <2>6, <2>9 DEF NextIsNew
  <1>1. ASSUME NEW t \in Apps, AppStep(t), \A r \in Requests : sends'[r] >= sends[r] /\ sends'[r] \in Nat
        PROVE  WireOK' /\ OncePerMessage' /\ NextIsNew'
    <2>1. CASE SendFromInbox(t)
      BY <2>1, <1>SendWire, NextFlows
    <2>2. CASE ~SendFromInbox(t)
      <3>1. Flows /\ OnTheWay' \subseteq OnTheWay /\ OncePerMessage'
        BY <1>1, <2>2, NextFlows DEF Flows
      <3>2. WireOK'
        BY Zenon, <1>1, <3>1, AppFrame, <1>WireKept, <1>CreateWire
      <3>3. NextIsNew'
        BY Zenon, <1>1, <3>1, AppFrame, <1>NewKept, <1>SendNew
      <3>4. QED
        BY Zenon, <3>1, <3>2, <3>3
    <2>3. QED
      BY <2>1, <2>2
  <1>2. ASSUME SessionStep \/ \E t \in Repliers : ReplierStep(t),
               \A r \in Requests : sends'[r] >= sends[r] /\ sends'[r] \in Nat
        PROVE  WireOK' /\ OncePerMessage' /\ NextIsNew'
    <2>1. Flows /\ OnTheWay' \subseteq OnTheWay /\ OncePerMessage'
      BY <1>2, NextFlows DEF Flows
    <2>2. NoneTakenUp /\ NoneSends /\ NoneAsync /\ sends' = sends
      BY Zenon, <1>2, OtherFrame
    <2>3. WireOK'
      BY <1>2, <2>1, <2>2, <1>WireKept
    <2>4. NextIsNew'
      BY <2>1, <2>2, <1>NewKept
    <2>5. QED
      BY Zenon, <2>1, <2>3, <2>4
  <1> QED
    BY Zenon, <1>1, <1>2, <1>SendsGrow DEF Next

-----------------------------------------------------------------------------
(* The semaphore counts replies.                                           *)

CountsReplies ==
    \A t \in Apps :
       /\ pc[t] \in {"request", "wait"} /\ replied_[hand[t].req] > 0 => since[hand[t].req]
       /\ pc[t] = "wait" /\ sends[hand[t].req] \in posted[hand[t].req] =>
             replied_[hand[t].req] > 0

PostsOK == \A r \in Requests : replied_[r] <= Cardinality(posted[r])

(* What is counted for a thread that is waiting, or about to.              *)
Counts(t) ==
    /\ pc[t] \in {"request", "wait"} /\ replied_[hand[t].req] > 0 => since[hand[t].req]
    /\ pc[t] = "wait" /\ sends[hand[t].req] \in posted[hand[t].req] => replied_[hand[t].req] > 0

(* What a step does to a semaphore: it goes down or is reset, or a reply   *)
(* is posted that was not posted before.                                   *)
Posts ==
    \A q \in Requests :
       \/ replied_'[q] <= replied_[q] /\ posted'[q] = posted[q]
       \/ replied_'[q] = 0
       \/ \E n : /\ n \notin posted[q] /\ posted'[q] = posted[q] \cup {n}
               /\ replied_'[q] = replied_[q] + 1

(* Every step keeps the count of replies.                                  *)
LEMMA NextCounts ==
    ASSUME Types, HandsOK, RequestsOK, WireOK, OncePerMessage, NextIsNew, CountsReplies
    PROVE  Next => CountsReplies' /\ Posts
  (* It does not change as long as the request is left alone.              *)
  <1>CountsKept.
      ASSUME NEW u \in Apps, Counts(u), hand'[u] = hand[u],
             pc'[u] \in {"request", "wait"} => pc[u] = pc'[u],
             LET r == hand[u].req IN
               pc[u] \in {"request", "wait"} =>
                 /\ replied_'[r] = replied_[r] /\ since'[r] = since[r]
                 /\ sends'[r] = sends[r] /\ posted'[r] = posted[r]
      PROVE  Counts(u)'
    BY Zenon, <1>CountsKept DEF Counts
  (* Steps of the application.                                             *)
  <1>AppCounts.
      ASSUME NEW t \in Apps, AppStep(t)
      PROVE  CountsReplies' /\ Posts
    <2> USE <1>AppCounts
    <2> DEFINE r == hand[t].req
    <2>0. t \in Threads /\ ThreadTypes /\ RequestTypes /\ Others(t)
      BY ThreadKinds, StepOthers DEF Types
    <2>2. pc[t] \in Working => r \in Requests
      BY Zenon, <2>0 DEF HandsOK, Fits
    <2>3. \A u \in Apps : u # t /\ pc[u] \in Working =>
             hand[u].req \in Requests /\ (pc[t] \in Working => hand[u].req # r)
      BY Zenon, ThreadKinds DEF HandsOK, Fits, RequestsOK
    <2>5. SUFFICES /\ Posts
                   /\ Counts(t)'
                   /\ \A u \in Apps : u # t /\ pc[u] \in {"request", "wait"} =>
                         LET q == hand[u].req IN
                           /\ replied_'[q] = replied_[q] /\ since'[q] = since[q]
                           /\ sends'[q] = sends[q] /\ posted'[q] = posted[q]
      <3>1. SUFFICES ASSUME NEW u \in Apps
                     PROVE  Counts(u)'
        BY Zenon DEF CountsReplies, Counts
      <3>2. CASE u = t
        BY Zenon, <3>2
      <3>3. CASE u # t
        BY Zenon, <2>0, ThreadKinds, <2>5, <3>3, <1>CountsKept DEF CountsReplies, Counts, Others
      <3>4. QED
        BY Zenon, <3>3
    <2>6. \A q \in Requests : replied_[q] \in Nat
      BY <2>0 DEF RequestTypes
    <2>7. CASE UNCHANGED <<replied_, posted, since, sends>> /\ ~InitSemaphore(t)
      <3>1. CASE pc'[t] \notin {"request", "wait"}
        <4>1. Posts
          BY <2>6, <2>7 DEF Posts
        <4>2. QED
          BY Zenon, <2>7, <3>1, <4>1 DEF Counts
      <3>2. CASE pc'[t] \in {"request", "wait"}
        <4>1. SendFromInbox(t)
          <5>1. CASE PublisherStep(t)
            BY Zenon, <2>0, <3>2, <5>1 DEF PublisherStep, FindPublisher, FindNothing,
               LockPublisher, LockExpired, LockDangling, CreatePublisher, GotPublisher,
               RemovePublisher, Goto, ThreadTypes
          <5>2. CASE SendStep(t)
            BY Zenon, <2>0, <2>7, <3>2, <5>2 DEF SendStep, SendRequest, SendNull, WaitReply,
               WaitTimeout, WaitError, Goto, ThreadTypes
          <5>3. CASE CreateRequest(t) \/ Retry(t) \/ DestroySession(t) \/ DestroyConnection(t)
            BY Zenon, <2>0, <3>2, <5>3 DEF CreateRequest, Retry, DestroySession,
               DestroyConnection, Goto, ThreadTypes
          <5>4. CASE DestroyRequest(t)
            BY Zenon, <2>0, <3>2, <5>4 DEF DestroyRequest, Deleted, Release, Goto, ThreadTypes
          <5>5. QED
            BY <5>1, <5>2, <5>3, <5>4 DEF AppStep
        <4>5. sends[r] \notin posted[r]
          BY Zenon, <2>0, <2>2, <4>1 DEF Answered, Messages, RequestTypes, Working, NextIsNew,
             Sending, SendFromInbox
        <4>6. Counts(t)'
          BY Zenon, <2>7, <2>0, <2>2, <4>1, <4>5 DEF Counts, CountsReplies, SendFromInbox, Goto,
             ThreadTypes, Working
        <4>7. QED
          BY <2>6, <2>7, <4>6 DEF Posts
      <3>3. QED
        BY Zenon, <3>1, <3>2
    <2>8. CASE SendRequest(t)
      <3>1. /\ r \in Requests /\ pc[t] \in Working /\ pc'[t] \in {"find", "init"}
            /\ replied_' = replied_ /\ posted' = posted
        BY Zenon, <2>0, <2>2, <2>8 DEF SendRequest, Goto, ThreadTypes, Working
      <3>2. \A q \in Requests : q # r => sends'[q] = sends[q] /\ since'[q] = since[q]
        BY Zenon, <2>0, <2>8 DEF SendRequest, RequestTypes
      <3>3. QED
        BY <2>3, <2>6, <3>1, <3>2 DEF Counts, Posts, Working
    <2>9. CASE InitSemaphore(t)
      <3>1. /\ r \in Requests /\ pc[t] \in Working /\ pc'[t] = "request" /\ hand' = hand
            /\ UNCHANGED <<sends, posted, since>>
        BY Zenon, <2>0, <2>2, <2>9 DEF InitSemaphore, Goto, ThreadTypes, Working
      <3>2. replied_'[r] = 0 /\ \A q \in Requests : q # r => replied_'[q] = replied_[q]
        BY Zenon, <2>0, <2>9, <3>1 DEF InitSemaphore, RequestTypes
      <3>4. QED
        BY <2>3, <3>1, <3>2, <2>6 DEF Counts, Working, Posts
    <2>10. CASE WaitReply(t)
      <3>1. /\ r \in Requests /\ pc[t] \in Working /\ pc'[t] = "replied"
            /\ UNCHANGED <<sends, posted, since>>
        BY Zenon, <2>0, <2>2, <2>10 DEF WaitReply, Goto, ThreadTypes, Working
      <3>2. replied_'[r] = replied_[r] - 1 /\ \A q \in Requests : q # r => replied_'[q] = replied_[q]
        BY Zenon, <2>0, <2>10, <3>1 DEF WaitReply, RequestTypes
      <3>3. Posts
        BY <2>6, <3>1, <3>2 DEF Posts
      <3>4. QED
        BY Zenon, <2>3, <3>1, <3>2, <3>3 DEF Counts, Working
    <2>11. CASE DestroyRequest(t)
      <3>1. r \in Requests /\ pc[t] \in Working /\ pc'[t] \in {"idle", "remove"} /\ sends' = sends
        BY Zenon, <2>0, <2>2, <2>11 DEF DestroyRequest, Deleted, Release, Goto, ThreadTypes, Working
      <3>2. /\ replied_'[r] = 0 /\ posted'[r] = {}
            /\ \A q \in Requests : q # r => /\ replied_'[q] = replied_[q] /\ posted'[q] = posted[q]
                                            /\ since'[q] = since[q]
        BY Zenon, <2>0, <2>11, <3>1 DEF DestroyRequest, Deleted, RequestTypes
      <3>3. Posts
        BY <2>6, <3>2 DEF Posts
      <3>4. QED
        BY Zenon, <2>3, <3>1, <3>2, <3>3 DEF Counts, Working
    <2>12. CASE ~(SendRequest(t) \/ InitSemaphore(t) \/ WaitReply(t) \/ DestroyRequest(t))
      BY Zenon, <2>12, <2>7 DEF AppStep, PublisherStep, FindPublisher, FindNothing,
         LockPublisher, LockExpired, LockDangling, CreatePublisher, RemovePublisher, SendStep,
         SendFromInbox, SendNull, WaitTimeout, WaitError, CreateRequest, Retry, DestroySession,
         DestroyConnection, requestVars
    <2>13. QED
      BY Zenon, <2>8, <2>9, <2>10, <2>11, <2>12
  (* Steps of the other threads.                                           *)
  <1>OtherCounts.
      ASSUME SessionStep \/ \E t \in Repliers : ReplierStep(t)
      PROVE  CountsReplies' /\ Posts
    <2> USE <1>OtherCounts
    <2> DEFINE m == hand[Session]
    <2>0. RequestTypes /\ ThreadTypes /\ Session \in Threads
      BY ZenonT(30), ThreadKinds DEF Types
    <2>2. sends' = sends
      BY OtherFrame
    <2>3. \A q \in Requests : replied_[q] \in Nat
      BY Zenon, <2>0 DEF RequestTypes
    <2>5. CASE UNCHANGED <<replied_, posted, since>>
      BY OtherFrame, <2>3, <2>5 DEF CountsReplies, Posts
    <2>6. CASE MsgPost
      <3>1. m \in Messages /\ m.req \in Requests /\ pc[Session] = "post"
        BY Zenon, <2>0, <2>6, HandKinds DEF MsgPost, HandsOK, Fits
      <3>2. m.num \notin posted[m.req]
        BY Zenon, <3>1 DEF AtPost, OncePerMessage, Answered
      <3>3. /\ replied_'[m.req] = replied_[m.req] + 1 /\ since'[m.req] = TRUE
            /\ posted'[m.req] = posted[m.req] \cup {m.num}
            /\ \A q \in Requests : q # m.req => /\ replied_'[q] = replied_[q]
                                                /\ posted'[q] = posted[q] /\ since'[q] = since[q]
        BY Zenon, <2>0, <2>6, <3>1 DEF MsgPost, Posted, RequestTypes
      <3>5. Posts
        BY <2>3, <3>2, <3>3 DEF Posts
      <3>6. ASSUME NEW u \in Apps, pc'[u] \in {"request", "wait"}
            PROVE  /\ replied_'[hand'[u].req] > 0 => since'[hand'[u].req]
                   /\ pc'[u] = "wait" /\ sends'[hand'[u].req] \in posted'[hand'[u].req] =>
                         replied_'[hand'[u].req] > 0
        <4>1. /\ pc[u] \in {"request", "wait"} /\ hand[u].req \in Requests
              /\ pc'[u] = pc[u] /\ hand'[u] = hand[u]
          BY Zenon, OtherFrame, ThreadKinds, <3>6 DEF HandsOK, Fits
        <4>2. CASE hand[u].req = m.req
          <5>1. replied_'[m.req] > 0
            BY <2>3, <3>1, <3>3
          <5>2. QED
            BY Zenon, <3>3, <4>1, <4>2, <5>1
        <4>3. CASE hand[u].req # m.req
          <5>1. /\ replied_'[hand[u].req] = replied_[hand[u].req]
                /\ posted'[hand[u].req] = posted[hand[u].req]
                /\ since'[hand[u].req] = since[hand[u].req]
            BY Zenon, <3>3, <4>1, <4>3
          <5>2. /\ replied_[hand[u].req] > 0 => since[hand[u].req]
                /\ pc[u] = "wait" /\ sends[hand[u].req] \in posted[hand[u].req] =>
                      replied_[hand[u].req] > 0
            BY Zenon, <4>1 DEF CountsReplies
          <5>3. QED
            BY ONLY Zenon, <2>2, <4>1, <5>1, <5>2
        <4>4. QED
          BY Zenon, <4>2, <4>3
      <3>7. QED
        BY Zenon, <3>5, <3>6 DEF CountsReplies
    <2>7. CASE OnReply /\ mode[m.req] = "async"
      <3>1. m \in Messages /\ m.req \in Requests /\ Deleted(Session, m.req)
        BY Zenon, <2>0, <2>7, HandKinds DEF OnReply, HandsOK, Fits
      <3>4. /\ replied_'[m.req] = 0 /\ posted'[m.req] = {}
            /\ \A q \in Requests : q # m.req => /\ replied_'[q] = replied_[q]
                                                /\ posted'[q] = posted[q] /\ since'[q] = since[q]
        BY Zenon, <2>0, <3>1 DEF Deleted, RequestTypes
      <3>5. Posts
        BY <2>3, <3>4 DEF Posts
      <3>6. ASSUME NEW u \in Apps, pc'[u] \in {"request", "wait"}
            PROVE  /\ replied_'[hand'[u].req] > 0 => since'[hand'[u].req]
                   /\ pc'[u] = "wait" /\ sends'[hand'[u].req] \in posted'[hand'[u].req] =>
                         replied_'[hand'[u].req] > 0
        <4>1. /\ pc[u] \in {"request", "wait"} /\ hand[u].req \in Requests /\ hand[u].req # m.req
              /\ pc'[u] = pc[u] /\ hand'[u] = hand[u]
          BY Zenon, OtherFrame, ThreadKinds, <2>7, <3>1, <3>6 DEF HandsOK, Fits, WireOK, OnTheWay,
             Arrived, OnReply
        <4>2. QED
          BY <2>2, <3>4, <4>1 DEF CountsReplies
      <3>7. QED
        BY Zenon, <3>5, <3>6 DEF CountsReplies
    <2>8. CASE ~MsgPost /\ ~(OnReply /\ mode[m.req] = "async")
      <3>1. ASSUME NEW t \in Threads, PublisherStep(t)
            PROVE  UNCHANGED <<replied_, posted, since>>
        BY Zenon, <3>1 DEF PublisherStep, FindPublisher, FindNothing, LockPublisher, LockExpired,
           LockDangling, CreatePublisher, RemovePublisher, requestVars
      <3>3. QED
        BY Zenon, <2>5, <2>8, <3>1, ThreadKinds DEF SessionStep, InboxCallback, MsgIgnored, OnReply,
           ReplierStep, TakeRequest, SendReply, RefuseReply, requestVars
    <2>9. QED
      BY <2>6, <2>7, <2>8
  <1> QED
    BY Zenon, <1>AppCounts, <1>OtherCounts DEF Next

-----------------------------------------------------------------------------
(* All of this together.                                                   *)

WireInv == /\ Types /\ HandsOK /\ RequestsOK /\ WireOK /\ OncePerMessage /\ NextIsNew
           /\ CountsReplies

(* It holds when the program starts.                                       *)
LEMMA InitWire == Init => WireInv
  <1> SUFFICES ASSUME Init
               PROVE  WireInv
    OBVIOUS
  <1>4. ThreadTypes
    BY HandKinds DEF Init, ThreadTypes, Places
  <1>5. EndTypes
    BY Zenon DEF Init, EndTypes
  <1>8. RequestsOK
    BY Zenon, ThreadKinds DEF RequestsOK, Working, Init
  <1>10. InQueue = {} /\ Distinct
    BY DEF Init, InQueue, Distinct
  <1>11. Answered = {} /\ OnTheWay = {}
    BY Zenon, ThreadKinds, <1>10, HandKinds DEF Answered, OnTheWay, Init, Carried, Arrived,
       AtPost, Injective, Answering
  <1>12. WireOK /\ OncePerMessage
    BY Zenon, ThreadKinds, <1>10, <1>11 DEF WireOK, OncePerMessage, Carried, Arrived, AtPost,
       Injective, Answering, Init
  <1>13. NextIsNew
    BY Zenon, <1>11 DEF NextIsNew
  <1>14. CountsReplies
    BY Zenon, ThreadKinds DEF CountsReplies, Init
  <1>15. QED
    BY OwnerKinds, PublisherKinds, SendsBound, <1>4, <1>5, <1>8, <1>12, <1>13, <1>14 DEF WireInv,
       Types, Init, PubTypes, RequestTypes, WireTypes, HandsOK, Fits, Working, Answering

(* A step that changes nothing.                                            *)
LEMMA StutterWire == WireInv /\ UNCHANGED vars => WireInv'
  <1> SUFFICES ASSUME WireInv, UNCHANGED vars
               PROVE  WireInv'
    OBVIOUS
  <1>3. /\ pc' = pc /\ hand' = hand /\ net' = net /\ queue' = queue /\ stage' = stage /\ mode' = mode
        /\ pub_' = pub_ /\ replied_' = replied_ /\ sends' = sends /\ posted' = posted /\ since' = since
    BY DEF requestVars, wireVars, threadVars, vars
  <1>4. RequestsOK' /\ CountsReplies'
    BY Zenon, <1>3 DEF WireInv, RequestsOK, CountsReplies
  <1>5. /\ Carried' = Carried /\ Arrived' = Arrived /\ AtPost' = AtPost /\ InQueue' = InQueue
        /\ Answered' = Answered
    BY Zenon, <1>3 DEF Carried, Arrived, AtPost, InQueue, Answered
  <1>7. OncePerMessage'
    BY <1>3, <1>5 DEF WireInv, OncePerMessage, Injective, Distinct
  <1>9. QED
    BY Zenon, KeptTypes, <1>4, <1>7, <1>3, <1>5 DEF WireInv, Types, vars, WireOK, NextIsNew,
       OnTheWay

-----------------------------------------------------------------------------
(* What the theorems say of a step and of a state.                         *)

(* Every step keeps what is known of the messages.                         *)
LEMMA StepWire ==
    ASSUME WireInv, [Next]_vars, \A t \in Apps : Retry(t) => sends[hand[t].req] < MaxSends
    PROVE  WireInv'
  <1>1. CASE UNCHANGED vars
    BY <1>1, StutterWire
  <1>2. CASE Next
    <2>1. Types' /\ HandsOK' /\ RequestsOK'
      BY Zenon, <1>2, NextTypes, NextRequests DEF WireInv
    <2>2. WireOK' /\ OncePerMessage' /\ NextIsNew' /\ CountsReplies'
      BY Zenon, <1>2, NextWire, NextCounts DEF WireInv
    <2>3. QED
      BY Zenon, <2>1, <2>2 DEF WireInv
  <1>3. QED
    BY <1>1, <1>2

(* A step posts the reply to a message that was not answered before, sets  *)
(* the semaphore back, or does neither.                                    *)
LEMMA StepPosts ==
    ASSUME WireInv, [Next]_vars
    PROVE  Posts
  <1>1. CASE UNCHANGED vars
    BY <1>1 DEF WireInv, Types, Posts, vars, requestVars, RequestTypes
  <1>2. CASE Next
    BY Zenon, <1>2, NextCounts DEF WireInv
  <1>3. QED
    BY <1>1, <1>2

(* What the semaphores count, when they count no more than the posts.      *)
LEMMA PostsBound ==
    ASSUME WireInv, PostsOK,
           \A r \in Requests : Cardinality(posted[r]) \in Nat /\ Cardinality(posted[r]) <= MaxSends
    PROVE  TypeOK
  <1>1. PubTypes /\ RequestTypes /\ WireTypes /\ ThreadTypes /\ EndTypes
    BY DEF WireInv, Types
  <1>2. \A r \in Requests : replied_[r] \in 0..MaxSends
    BY <1>1, SendsBound DEF PostsOK, RequestTypes
  <1>3. replied_ \in [Requests -> 0..MaxSends]
    BY Zenon, <1>1, <1>2 DEF RequestTypes
  <1>4. QED
    BY Zenon, <1>1, <1>3 DEF PubTypes, RequestTypes, WireTypes, ThreadTypes, EndTypes, TypeOK

(* A thread that waits goes on in its own steps only.                      *)
LEMMA StepTruth ==
    ASSUME WireInv, Next, NEW t \in Apps, pc[t] = "wait", pc'[t] \in {"replied", "timedout"}
    PROVE  /\ pc'[t] = "replied" => since[hand[t].req]
           /\ pc'[t] = "timedout" => sends[hand[t].req] \notin posted[hand[t].req]
  <1>1. /\ Types /\ HandsOK /\ ThreadTypes /\ RequestTypes /\ t \in Threads
        /\ hand[t].req \in Requests
    BY Zenon, ThreadKinds DEF WireInv, Types, HandsOK, Fits, Working
  <1>2. \E u \in Apps : AppStep(u)
    BY Zenon, <1>1, OtherFrame DEF Next
  <1>3. AppStep(t)
    BY <1>1, <1>2, ThreadKinds, StepOthers DEF Others
  <1>4. WaitReply(t) \/ WaitTimeout(t)
    BY Zenon, <1>1, <1>3 DEF WaitError, Goto, ThreadTypes, AppStep, PublisherStep, FindPublisher,
       FindNothing, LockPublisher, LockExpired, LockDangling, CreatePublisher, RemovePublisher,
       SendStep, SendRequest, InitSemaphore, SendFromInbox, SendNull, CreateRequest, Retry,
       DestroyRequest, DestroySession, DestroyConnection
  <1>5. /\ WaitReply(t) => pc'[t] = "replied" /\ replied_[hand[t].req] > 0
        /\ WaitTimeout(t) => pc'[t] = "timedout" /\ replied_[hand[t].req] = 0
    BY Zenon, <1>1 DEF WaitReply, WaitTimeout, WaitError, Goto, ThreadTypes
  <1>6. QED
    <2>1. /\ replied_[hand[t].req] > 0 => since[hand[t].req]
          /\ sends[hand[t].req] \in posted[hand[t].req] => replied_[hand[t].req] > 0
      BY Zenon DEF WireInv, CountsReplies
    <2>2. CASE WaitReply(t)
      <3>1. pc'[t] = "replied" /\ since[hand[t].req] /\ "replied" # "timedout"
        BY <1>5, <2>1, <2>2
      <3> QED
        BY ZenonT(30), <3>1
    <2>3. CASE WaitTimeout(t)
      <3>1. pc'[t] = "timedout" /\ replied_[hand[t].req] = 0
        BY Zenon, <1>5, <2>3
      <3>2. ~(replied_[hand[t].req] > 0) /\ "replied" # "timedout"
        BY ONLY <3>1
      <3> QED
        BY Zenon, <2>1, <3>1, <3>2
    <2> QED
      BY Zenon, <1>4, <2>2, <2>3
=============================================================================
