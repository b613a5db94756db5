--------------------------- MODULE OzClientProofs ---------------------------
(***************************************************************************)
(* The requests, replies and publishers of examples/ozimpl.cpp, for any    *)
(* number of requests, of server threads, of application threads and of    *)
(* resends.                                                                *)
(*                                                                         *)
(* The argument goes from who works on what, in OzRequestProofs, to what   *)
(* may be freed.  PublishersOK ties the owners of a publisher to the       *)
(* threads that are going to remove it, and EndOK and CallbackOK say who   *)
(* may still be there when the session and the connection end.             *)
(***************************************************************************)
EXTENDS OzRequestProofs

-----------------------------------------------------------------------------
(* Publishers, their owners, and the threads that remove them.             *)

PublishersOK ==
    /\ \A p \in Publishers \ exists : owners[p] = {}
    /\ \A t \in Threads : pc[t] = "remove" <=> dying[t] # NoPublisher
    /\ \A t \in Threads : pc[t] = "remove" => dying[t] \in exists /\ owners[dying[t]] = {}
    /\ \A t, u \in Threads : pc[t] = "remove" /\ pc[u] = "remove" /\ dying[t] = dying[u] => t = u
    /\ \A p \in exists : owners[p] = {} => \E t \in Threads : pc[t] = "remove" /\ dying[t] = p
    /\ \A r \in Requests : pub_[r] # NoPublisher => r \in owners[pub_[r]]

(* Steps that have to do with no publisher.                                *)
LEMMA QuietPublishers ==
    ASSUME PublishersOK, UNCHANGED <<exists, owners, pub_, dying>>,
           \A u \in Threads : pc'[u] = "remove" <=> pc[u] = "remove"
    PROVE  PublishersOK'
  BY DEF PublishersOK

(* Every step keeps the owners of the publishers.                          *)
LEMMA NextPublishers ==
    ASSUME Types, HandsOK, PublishersOK
    PROVE  Next => PublishersOK'
  (* A publisher is shared,                                                *)
  <1>LockPublishers.
      ASSUME NEW t \in Threads, LockPublisher(t)
      PROVE  PublishersOK'
    <2> USE <1>LockPublishers
    <2> DEFINE p == pubs_[Conn(t)]
               o == Owner(t)
    <2>0. PubTypes /\ RequestTypes /\ ThreadTypes
      BY DEF Types
    <2>1. p \in Publishers /\ pc[t] = "lock" /\ UNCHANGED <<exists, dying, hand>>
      BY Zenon, <2>0, PublisherKinds DEF PubTypes, LockPublisher, Found
    <2>2. \A u \in Threads : pc'[u] = "remove" <=> pc[u] = "remove"
      BY Zenon, <2>0 DEF LockPublisher, GotPublisher, Goto, ThreadTypes
    <2>3. t \in Apps => hand[t].req \in Requests /\ o = hand[t].req
      BY Zenon, <2>1 DEF HandsOK, Fits, Working, Owner
    <2>4. /\ owners' = [owners EXCEPT ![p] = @ \cup {o}] /\ GotPublisher(t, p)
          /\ owners[p] # {}
      BY Zenon DEF LockPublisher
    <2>5. /\ owners'[p] = owners[p] \cup {o}
          /\ \A q \in Publishers : q # p => owners'[q] = owners[q]
      BY Zenon, <2>0, <2>1, <2>4 DEF PubTypes
    <2>6. \A r \in Requests : pub_'[r] = pub_[r] \/ (r = o /\ pub_'[r] = p)
      BY <2>3, <2>4 DEF GotPublisher
    <2>7. \A r \in Requests : pub_'[r] # NoPublisher => r \in owners'[pub_'[r]]
      BY <2>5, <2>0, <2>6 DEF RequestTypes, PublishersOK
    <2>8. \A q \in Publishers \ exists' : owners'[q] = {}
      BY Zenon, <2>1, <2>5, <2>4 DEF PublishersOK
    <2>9. \A u \in Threads : pc'[u] = "remove" => dying'[u] \in exists' /\ owners'[dying'[u]] = {}
      BY <2>0, <2>1, <2>2, <2>5, <2>4 DEF PublishersOK, PubTypes
    <2>10. \A q \in exists' : owners'[q] = {} => \E u \in Threads : pc'[u] = "remove" /\ dying'[u] = q
      BY <2>0, <2>1, <2>2, <2>5 DEF PublishersOK, PubTypes
    <2>11. QED
      BY <2>1, <2>2, <2>7, <2>8, <2>9, <2>10 DEF PublishersOK
  (* or it is not.                                                         *)
  <1>ExpiredPublishers.
      ASSUME NEW t \in Threads, LockExpired(t)
      PROVE  PublishersOK'
    <2> USE <1>ExpiredPublishers
    <2>0. ThreadTypes /\ pc[t] = "lock" /\ UNCHANGED <<exists, owners, dying, hand>>
      BY Zenon DEF Types, LockExpired
    <2>1. \A u \in Threads : pc'[u] = "remove" <=> pc[u] = "remove"
      BY Zenon, <2>0 DEF LockExpired, GotPublisher, Goto, ThreadTypes
    <2>2. \A r \in Requests : pub_'[r] = pub_[r] \/ pub_'[r] = NoPublisher
      BY DEF LockExpired, GotPublisher, Types, RequestTypes
    <2>3. QED
      BY <2>0, <2>1, <2>2 DEF PublishersOK
  (* A publisher is created.                                               *)
  <1>CreatePublishers.
      ASSUME NEW t \in Threads, CreatePublisher(t)
      PROVE  PublishersOK'
    <2> USE <1>CreatePublishers
    <2> DEFINE o == Owner(t)
    <2>0. PubTypes /\ RequestTypes /\ ThreadTypes
      BY DEF Types
    <2>1. pc[t] = "create" /\ UNCHANGED <<dying, hand>>
      BY DEF CreatePublisher
    <2>2. PICK p \in {Conn(t)} \X (1..MaxPubs) :
             /\ p \notin exists /\ exists' = exists \cup {p}
             /\ owners' = [owners EXCEPT ![p] = {o}] /\ GotPublisher(t, p)
      BY Zenon DEF CreatePublisher
    <2>3. p \in Publishers /\ owners[p] = {}
      BY Zenon, <2>2, PublisherKinds DEF PublishersOK
    <2>4. \A u \in Threads : pc'[u] = "remove" <=> pc[u] = "remove"
      BY <2>1, <2>2 DEF GotPublisher, Goto, ThreadTypes
    <2>5. t \in Apps => hand[t].req \in Requests /\ o = hand[t].req
      BY Zenon, <2>1 DEF HandsOK, Fits, Working, Owner
    <2>6. /\ owners'[p] = {o}
          /\ \A q \in Publishers : q # p => owners'[q] = owners[q]
      BY Zenon, <2>0, <2>2, <2>3 DEF PubTypes
    <2>8. \A r \in Requests : pub_'[r] # NoPublisher => r \in owners'[pub_'[r]]
      BY <2>6, <2>0, <2>2, <2>5 DEF RequestTypes, PublishersOK, GotPublisher
    <2>11. \A q \in Publishers \ exists' : owners'[q] = {}
      BY <2>2 DEF PublishersOK
    <2>12. \A u \in Threads : pc'[u] = "remove" => dying'[u] \in exists' /\ owners'[dying'[u]] = {}
      BY <2>1, <2>2, <2>4 DEF PublishersOK, PubTypes
    <2>13. \A q \in exists' : owners'[q] = {} => \E u \in Threads : pc'[u] = "remove" /\ dying'[u] = q
      BY <2>0, <2>1, <2>2, <2>4, <2>6 DEF PublishersOK, PubTypes
    <2>14. QED
      BY <2>1, <2>4, <2>8, <2>11, <2>12, <2>13 DEF PublishersOK
  (* An owner lets go of a publisher.                                      *)
  <1>ReleasePublishers.
      ASSUME NEW t \in Threads, NEW o, NEW p \in Publishers \cup {NoPublisher}, NEW where,
             Release(t, o, p, where), pc[t] # "remove", where # "remove", exists' = exists,
             p # NoPublisher => o \in owners[p],
             \A r \in Requests : pub_'[r] # NoPublisher => pub_'[r] = pub_[r] /\ r # o
      PROVE  PublishersOK'
    <2> USE <1>ReleasePublishers
    <2>0. PubTypes /\ RequestTypes /\ ThreadTypes /\ dying[t] = NoPublisher
      BY Zenon DEF Types, PublishersOK
    <2>1. CASE p = NoPublisher
      BY <2>1, <2>0 DEF Release, Goto, ThreadTypes, PublishersOK
    <2>2. CASE p # NoPublisher
      <3>1. p \in Publishers /\ o \in owners[p] /\ p \in exists
        BY Zenon, <2>2 DEF PublishersOK
      <3>2. /\ owners'[p] = owners[p] \ {o}
            /\ \A q \in Publishers : q # p => owners'[q] = owners[q]
        BY Zenon, <2>0, <2>2 DEF Release, Dropped, PubTypes
      <3>4. \A r \in Requests : pub_'[r] # NoPublisher => r \in owners'[pub_'[r]]
        BY <2>0, <3>2 DEF RequestTypes, PublishersOK
      <3>6. \A q \in Publishers \ exists' : owners'[q] = {}
        BY Zenon, <3>1, <3>2 DEF PublishersOK
      <3>7. \A u \in Threads : pc[u] = "remove" => u # t /\ dying[u] \in exists
                                                   /\ owners'[dying[u]] = {}
        BY <2>0, <3>2 DEF PublishersOK, PubTypes
      <3>8. CASE owners'[p] = {}
        <4>1. /\ pc'[t] = "remove" /\ dying'[t] = p
              /\ \A u \in Threads : u # t => pc'[u] = pc[u] /\ dying'[u] = dying[u]
          BY Zenon, <2>0, <2>2, <3>8 DEF Release, Goto, ThreadTypes
        <4>2. \A u \in Threads : pc'[u] = "remove" <=> dying'[u] # NoPublisher
          BY <2>2, <4>1 DEF PublishersOK
        <4>3. \A u \in Threads : pc'[u] = "remove" => dying'[u] \in exists' /\ owners'[dying'[u]] = {}
          BY <3>1, <3>7, <3>8, <4>1
        <4>4. \A u, v \in Threads : pc'[u] = "remove" /\ pc'[v] = "remove" /\ dying'[u] = dying'[v]
                 => u = v
          BY <3>1, <4>1 DEF PublishersOK
        <4>5. \A q \in exists' : owners'[q] = {} => \E u \in Threads : pc'[u] = "remove" /\ dying'[u] = q
          BY <4>1, <2>0, <3>2 DEF PubTypes, PublishersOK
        <4>6. QED
          BY Zenon, <3>4, <3>6, <4>2, <4>3, <4>4, <4>5 DEF PublishersOK
      <3>9. CASE owners'[p] # {}
        <4>1. Goto(t, where) /\ dying' = dying
          BY Zenon, <3>9 DEF Release
        <4>2. \A u \in Threads : pc'[u] = "remove" <=> pc[u] = "remove"
          BY Zenon, <2>0, <4>1 DEF Goto, ThreadTypes
        <4>3. \A q \in exists' : owners'[q] = {} => owners[q] = {}
          BY Zenon, <2>0, <3>2, <3>9 DEF PubTypes
        <4>4. QED
          BY <3>4, <3>6, <3>7, <4>1, <4>2, <4>3 DEF PublishersOK
      <3>10. QED
        BY <3>8, <3>9
    <2>3. QED
      BY Zenon, <2>1, <2>2
  (* A publisher is removed.                                               *)
  <1>RemovePublishers.
      ASSUME NEW t \in Threads, RemovePublisher(t)
      PROVE  PublishersOK'
    <2> USE <1>RemovePublishers
    <2> DEFINE p == dying[t]
    <2>1. pc[t] = "remove" /\ p \in exists /\ owners[p] = {} /\ p # NoPublisher
      BY Zenon DEF RemovePublisher, PublishersOK
    <2>2. exists' = exists \ {p} /\ UNCHANGED <<owners, pub_>>
      BY DEF RemovePublisher, requestVars
    <2>3. /\ pc'[t] # "remove" /\ dying'[t] = NoPublisher
          /\ \A u \in Threads : u # t => pc'[u] = pc[u] /\ dying'[u] = dying[u]
      BY DEF RemovePublisher, Goto, ThreadTypes, Types
    <2>5. \A q \in Publishers \ exists' : owners'[q] = {}
      BY Zenon, <2>1, <2>2 DEF PublishersOK
    <2>6. \A u \in Threads : pc'[u] = "remove" <=> dying'[u] # NoPublisher
      BY <2>3 DEF PublishersOK
    <2>7. \A u \in Threads : pc'[u] = "remove" => dying'[u] \in exists' /\ owners'[dying'[u]] = {}
      BY <2>2, <2>3 DEF PublishersOK
    <2>8. \A u, v \in Threads : pc'[u] = "remove" /\ pc'[v] = "remove" /\ dying'[u] = dying'[v]
             => u = v
      BY <2>3 DEF PublishersOK
    <2>9. \A q \in exists' : owners'[q] = {} => \E u \in Threads : pc'[u] = "remove" /\ dying'[u] = q
      BY <2>2, <2>3 DEF PublishersOK
    <2>10. QED
      BY Zenon, <2>2, <2>5, <2>6, <2>7, <2>8, <2>9 DEF PublishersOK
  (* A request that is deleted lets go of its publisher.                   *)
  <1>DeletedPublishers.
      ASSUME NEW t \in Threads, NEW r \in Requests, pc[t] # "remove", Deleted(t, r)
      PROVE  PublishersOK'
    <2> USE <1>DeletedPublishers
    <2>4. pub_[r] # NoPublisher => r \in owners[pub_[r]]
      BY Zenon DEF PublishersOK
    <2>6. QED
      BY Zenon, <2>4, OwnerKinds, <1>ReleasePublishers DEF Types, RequestTypes, Deleted
  (* Every step.                                                           *)
  <1>StepPublishers.
      ASSUME Next
      PROVE  PublishersOK'
    <2> USE <1>StepPublishers
    <2>0. PubTypes /\ RequestTypes /\ ThreadTypes
      BY DEF Types
    <2>1. ASSUME NEW t \in Threads, NEW w, Goto(t, w), w # "remove", pc[t] # "remove",
                 UNCHANGED <<exists, owners, pub_, dying>>
          PROVE  PublishersOK'
      BY <2>1, QuietPublishers DEF Goto
    <2>2. ASSUME NEW t \in Threads, PublisherStep(t)
          PROVE  PublishersOK'
      BY Zenon, <2>1, <2>2, <1>LockPublishers, <1>ExpiredPublishers, <1>CreatePublishers,
         <1>RemovePublishers DEF FindPublisher, FindNothing, LockDangling, pubVars, requestVars,
         PublisherStep
    <2>3. ASSUME NEW t \in Apps, AppStep(t)
          PROVE  PublishersOK'
      <3>0. t \in Threads
        BY ThreadKinds
      <3>1. CASE PublisherStep(t)
        BY <2>2, <3>0, <3>1
      <3>2. CASE SendStep(t) \/ CreateRequest(t) \/ Retry(t) \/ DestroySession(t) \/ DestroyConnection(t)
        <4>2. pc[t] # "remove" /\ pc'[t] # "remove"
          BY Zenon, <2>0, <3>0, <3>2 DEF SendStep, SendRequest, InitSemaphore, SendFromInbox,
             SendNull, WaitReply, WaitTimeout, WaitError, Goto, ThreadTypes, CreateRequest,
             Retry, DestroySession, DestroyConnection
        <4>4. QED
          BY Zenon, <3>2, <4>2, <2>0, <2>3, <3>0, StepOthers, QuietPublishers DEF SendStep,
             SendRequest, InitSemaphore, SendFromInbox, SendNull, WaitReply, WaitTimeout,
             WaitError, CreateRequest, Retry, DestroySession, DestroyConnection, pubVars,
             requestVars, Others
      <3>3. CASE DestroyRequest(t)
        BY Zenon, <3>0, <3>3, <1>DeletedPublishers DEF DestroyRequest, HandsOK, Fits
      <3>5. QED
        BY <2>3, <3>1, <3>2, <3>3 DEF AppStep
    <2>4. CASE SessionStep
      <3>0. Session \in Threads
        BY ThreadKinds
      <3>1. CASE PublisherStep(Session)
        BY <2>2, <3>0, <3>1
      <3>2. CASE InboxCallback
        BY <3>2, <2>0, QuietPublishers DEF InboxCallback, pubVars, requestVars, Goto, ThreadTypes
      <3>3. CASE MsgPost \/ MsgIgnored
        BY Zenon, <2>1, <3>0, <3>3 DEF MsgPost, MsgIgnored, pubVars, requestVars
      <3>4. CASE OnReply
        BY Zenon, <3>0, <3>4, HandKinds, <1>DeletedPublishers, <2>1 DEF OnReply, HandsOK, Fits,
           pubVars, requestVars
      <3>5. QED
        BY <2>4, <3>1, <3>2, <3>3, <3>4 DEF SessionStep
    <2>5. ASSUME NEW t \in Repliers, ReplierStep(t)
          PROVE  PublishersOK'
      <3>0. t \in Threads
        BY ThreadKinds
      <3>1. CASE PublisherStep(t)
        BY <2>2, <3>0, <3>1
      <3>2. CASE TakeRequest(t) \/ RefuseReply(t)
        BY Zenon, <2>1, <3>0, <3>2 DEF TakeRequest, RefuseReply, pubVars, requestVars
      <3>3. CASE SendReply(t)
        BY Zenon, <3>3, <2>0, OwnerKinds, <3>0, <1>ReleasePublishers DEF SendReply, requestVars,
           PubTypes
      <3>4. QED
        BY <2>5, <3>1, <3>2, <3>3 DEF ReplierStep
    <2>6. QED
      BY <2>3, <2>4, <2>5 DEF Next
  <1> QED
    BY <1>StepPublishers

(* And initially.                                                          *)
LEMMA InitPublishers == Init => PublishersOK
  <1> SUFFICES ASSUME Init
               PROVE  PublishersOK
    OBVIOUS
  <1>5. QED
    BY Zenon, PublisherKinds DEF PublishersOK, Init

-----------------------------------------------------------------------------
(* Nothing is used after it has been freed.                                *)

EndOK ==
    /\ session = "running" => ~closed /\ \A t \in Apps : pc[t] \notin {"stopped", "done"}
    /\ session # "running" =>
          /\ pc[Session] = "idle"
          /\ \E t \in Apps : /\ pc[t] \in {"stopped", "done"}
                             /\ closed => pc[t] = "done"
                             /\ \A a \in Apps \ {t} : pc[a] = "idle"

CallbackOK == pc[Session] \in {"post", "onReply"} => stage[hand[Session].req] = "open"

(* The end of the session and of the connection.                           *)
LEMMA NextEnd ==
    ASSUME Types, HandsOK, EndOK, Next
    PROVE  EndOK'
  <1>0. ThreadTypes /\ Session \in Threads
    BY ThreadKinds DEF Types
  <1>1. ASSUME NEW t \in Apps, AppStep(t)
        PROVE  EndOK'
    <2>0. t \in Threads /\ Others(t)
      BY <1>0, <1>1, ThreadKinds, StepOthers
    <2>1. pc'[Session] = pc[Session] /\ \A a \in Apps : a # t => pc'[a] = pc[a]
      BY <2>0, ThreadKinds DEF Others
    <2>2. CASE session # "running"
      <3>1. PICK u \in Apps : /\ pc[u] \in {"stopped", "done"}
                              /\ closed => pc[u] = "done"
                              /\ \A a \in Apps \ {u} : pc[a] = "idle"
        BY <2>2 DEF EndOK
      <3>3. t = u
        BY Zenon, <3>1, <1>1, <2>2 DEF AppStep, PublisherStep, FindPublisher, FindNothing,
           LockPublisher, LockExpired, LockDangling, CreatePublisher, RemovePublisher, SendStep,
           SendRequest, InitSemaphore, SendFromInbox, SendNull, WaitReply, WaitTimeout,
           WaitError, CreateRequest, Retry, DestroyRequest, DestroySession, DestroyConnection
      <3>4. DestroyConnection(t)
        BY Zenon, <1>1, <3>1, <3>3 DEF AppStep, PublisherStep, FindPublisher, FindNothing,
           LockPublisher, LockExpired, LockDangling, CreatePublisher, RemovePublisher, SendStep,
           SendRequest, InitSemaphore, SendFromInbox, SendNull, WaitReply, WaitTimeout,
           WaitError, CreateRequest, Retry, DestroyRequest, DestroySession
      <3>5. /\ session' = session /\ pc'[t] \in {"stopped", "done"}
            /\ closed' => pc'[t] = "done"
        BY <1>0, <2>0, <2>2, <3>4 DEF DestroyConnection, Goto, ThreadTypes
      <3>6. QED
        BY <2>1, <2>2, <3>1, <3>3, <3>5 DEF EndOK
    <2>3. CASE session = "running" /\ DestroySession(t)
      BY <1>0, <2>0, <2>3, <2>1 DEF DestroySession, Goto, ThreadTypes, EndOK
    <2>4. CASE session = "running" /\ ~DestroySession(t)
      <3>3. session' = session /\ closed' = closed
        BY Zenon, <1>1, <2>4 DEF AppStep, PublisherStep, FindPublisher, FindNothing,
           LockPublisher, LockExpired, LockDangling, CreatePublisher, RemovePublisher, SendStep,
           SendRequest, InitSemaphore, SendFromInbox, SendNull, WaitReply, WaitTimeout,
           WaitError, CreateRequest, Retry, DestroyRequest, Deleted, endVars, DestroyConnection,
           EndOK
      <3>4. pc'[t] \notin {"stopped", "done"}
        <4>1. CASE PublisherStep(t)
          BY Zenon, <1>0, <2>0, <2>4, <4>1 DEF PublisherStep, FindPublisher, FindNothing,
             LockPublisher, LockExpired, LockDangling, CreatePublisher, GotPublisher,
             RemovePublisher, Goto, ThreadTypes
        <4>2. CASE SendStep(t) \/ CreateRequest(t) \/ Retry(t)
          BY Zenon, <1>0, <2>0, <4>2 DEF SendStep, SendRequest, InitSemaphore, SendFromInbox,
             SendNull, WaitReply, WaitTimeout, WaitError, CreateRequest, Retry, Goto, ThreadTypes
        <4>3. CASE DestroyRequest(t)
          BY Zenon, <1>0, <2>0, <4>3 DEF DestroyRequest, Deleted, Release, Goto, ThreadTypes
        <4>4. QED
          BY Zenon, <1>1, <2>4, <4>1, <4>2, <4>3 DEF AppStep, DestroyConnection,
             EndOK
      <3>5. QED
        BY <2>1, <2>4, <3>3, <3>4 DEF EndOK
    <2>5. QED
      BY <2>2, <2>3, <2>4
  <1>2. ASSUME SessionStep \/ \E t \in Repliers : ReplierStep(t)
        PROVE  EndOK'
    <2>2. session' = session /\ closed' = closed
      <3>1. ASSUME NEW t \in Threads, PublisherStep(t)
            PROVE  session' = session /\ closed' = closed
        BY Zenon, <3>1 DEF PublisherStep, FindPublisher, FindNothing, LockPublisher, LockExpired,
           LockDangling, CreatePublisher, RemovePublisher, endVars
      <3>2. QED
        BY Zenon, <1>2, <3>1, ThreadKinds DEF SessionStep, InboxCallback, MsgPost, MsgIgnored,
           OnReply, Deleted, ReplierStep, TakeRequest, SendReply, RefuseReply, endVars
    <2>3. session # "running" => pc'[Session] = pc[Session]
      <3>1. ASSUME session # "running"
            PROVE  ~SessionStep
        BY Zenon, <3>1 DEF EndOK, SessionStep, InboxCallback, MsgPost, MsgIgnored, OnReply,
           PublisherStep, FindPublisher, FindNothing, LockPublisher, LockExpired, LockDangling,
           CreatePublisher, RemovePublisher
      <3>2. QED
        BY <1>0, <1>2, <3>1, ThreadKinds, StepOthers DEF Others
    <2>4. QED
      BY <1>2, OtherFrame, <2>2, <2>3 DEF EndOK
  <1>3. QED
    BY <1>1, <1>2 DEF Next

(* A careful application deletes no request under its callback.            *)
LEMMA NextCallback ==
    ASSUME Types, HandsOK, CallbackOK, Careful, Next
    PROVE  CallbackOK'
  <1> DEFINE q == hand[Session].req
  <1>0. ThreadTypes /\ RequestTypes /\ Session \in Threads
    BY ThreadKinds DEF Types
  <1>1. ASSUME NEW t \in Threads \ {Session}, \/ t \in Apps /\ AppStep(t)
                                              \/ t \in Repliers /\ ReplierStep(t)
        PROVE  CallbackOK'
    <2>1. pc'[Session] = pc[Session] /\ hand'[Session] = hand[Session]
      BY <1>0, <1>1, StepOthers DEF Others
    <2>2. SUFFICES ASSUME pc[Session] \in {"post", "onReply"}, stage[q] = "open", q \in Requests
                   PROVE  stage'[q] = "open"
      BY Zenon, <1>0, <2>1, HandKinds DEF CallbackOK, HandsOK, Fits
    <2>3. CASE UNCHANGED stage
      BY <2>2, <2>3
    <2>4. CASE t \in Apps /\ SendRequest(t)
      BY Zenon, <1>0, <2>2, <2>4 DEF SendRequest, RequestTypes
    <2>5. CASE t \in Apps /\ CreateRequest(t)
      <3>1. PICK r \in NextRequest : stage' = [stage EXCEPT ![r] = "new"]
        BY Zenon, <2>5 DEF CreateRequest
      <3>3. QED
        BY Zenon, <1>0, <2>2, <3>1 DEF RequestTypes, NextRequest
    <2>6. CASE t \in Apps /\ DestroyRequest(t)
      BY Zenon, <2>6, <1>0, <2>2 DEF DestroyRequest, Deleted, RequestTypes
    <2>7. ASSUME PublisherStep(t)
          PROVE  UNCHANGED stage
      BY Zenon, <2>7 DEF PublisherStep, FindPublisher, FindNothing, LockPublisher, LockExpired,
         LockDangling, CreatePublisher, RemovePublisher, requestVars
    <2>8. CASE t \in Apps /\ ~SendRequest(t) /\ ~CreateRequest(t) /\ ~DestroyRequest(t)
      BY Zenon, <1>1, <2>7, <2>8, ThreadKinds, <2>3 DEF AppStep, SendStep, InitSemaphore,
         SendFromInbox, SendNull, WaitReply, WaitTimeout, WaitError, Retry, DestroySession,
         DestroyConnection, requestVars
    <2>9. CASE t \in Repliers
      BY Zenon, <1>1, <2>7, <2>9, ThreadKinds, <2>3 DEF ReplierStep, TakeRequest, SendReply,
         RefuseReply, requestVars
    <2>10. QED
      BY Zenon, <1>1, <2>4, <2>5, <2>6, <2>8, <2>9
  <1>2. CASE InboxCallback
    BY Zenon, <1>2, <1>0 DEF InboxCallback, requestVars, ThreadTypes, CallbackOK
  <1>3. CASE MsgPost \/ MsgIgnored
    BY Zenon, <1>0, <1>3 DEF MsgPost, MsgIgnored, Goto, ThreadTypes, requestVars, CallbackOK
  <1>4. CASE OnReply
    BY Zenon, <1>0, <1>4 DEF OnReply, Deleted, Release, Goto, ThreadTypes, CallbackOK
  <1>5. CASE PublisherStep(Session)
    <2>2. pc'[Session] = "idle"
      BY Zenon, <1>0, <1>5, ThreadKinds DEF PublisherStep, FindPublisher, FindNothing,
         LockPublisher, LockExpired, LockDangling, CreatePublisher, RemovePublisher, Goto,
         ThreadTypes, HandsOK, Fits
    <2>3. QED
      BY <2>2 DEF CallbackOK
  <1>6. QED
    BY <1>1, <1>2, <1>3, <1>4, <1>5, ThreadKinds DEF Next, SessionStep

-----------------------------------------------------------------------------
(* What the theorems say of a step and of a state.                         *)

(* No thread, or one, is removing a publisher.                             *)
LEMMA Removers ==
    ASSUME PublishersOK, NEW p \in exists
    PROVE  LET S == {t \in Threads : pc[t] = "remove" /\ dying[t] = p}
           IN  IF owners[p] = {} THEN \E u \in Threads : S = {u} ELSE S = {}
  <1>1. CASE owners[p] = {}
    <2>1. PICK u \in Threads : pc[u] = "remove" /\ dying[u] = p
      BY Zenon, <1>1 DEF PublishersOK
    <2>2. QED
      BY <1>1, <2>1 DEF PublishersOK
  <1>2. CASE owners[p] # {}
    BY <1>2 DEF PublishersOK
  <1>3. QED
    BY Zenon, <1>1, <1>2

(* Steps that do nothing to the owners of the publishers.                  *)
LEMMA StepOwners ==
    ASSUME WireInv, PublishersOK, [Next]_vars
    PROVE  PublishersOK'
  <1>1. CASE UNCHANGED vars
    BY Zenon, <1>1, QuietPublishers DEF vars, pubVars, requestVars, threadVars
  <1>2. QED
    BY <1>1, NextPublishers DEF WireInv

(* All threads are idle at first.                                          *)
LEMMA InitEnd ==
    ASSUME Init
    PROVE  EndOK /\ CallbackOK /\ \A t \in Threads : pc[t] = "idle"
  <1>1. (\A t \in Threads : pc[t] = "idle") /\ session = "running" /\ closed = FALSE
    BY DEF Init
  <1>2. QED
    BY <1>1, ThreadKinds DEF EndOK, CallbackOK

(* The end of the session, for any step.                                   *)
LEMMA StepEnd ==
    ASSUME WireInv, EndOK, [Next]_vars
    PROVE  EndOK' /\ (Careful /\ CallbackOK => CallbackOK')
  <1>1. CASE UNCHANGED vars
    BY Zenon, <1>1 DEF vars, requestVars, threadVars, endVars, EndOK, CallbackOK
  <1>2. QED
    BY <1>1, NextEnd, NextCallback DEF WireInv

(* So nothing is used that has been freed.                                 *)
LEMMA EndIsSafe ==
    ASSUME WireInv, EndOK, CallbackOK
    PROVE  NoUseAfterFree
  <1>1. ASSUME NEW t \in Apps, hand[t].req # NoRequest, pc[t] # "remove"
        PROVE  stage[hand[t].req] # "deleted"
    <2>1. Fits(t, pc[t], hand[t])
      BY ThreadKinds DEF WireInv, HandsOK
    <2>2. pc[t] \in Working
      BY Zenon, <1>1, <2>1, HandKinds DEF Fits
    <2>3. QED
      BY Zenon, <2>2 DEF WireInv, RequestsOK
  <1>2. closed => \A t \in Apps \cup {Session} : pc[t] \in {"idle", "done"}
    BY DEF EndOK
  <1>3. QED
    BY Zenon, <1>1, <1>2 DEF NoUseAfterFree, CallbackOK

-----------------------------------------------------------------------------
(* What needs the sizes of finite sets, and the theorems.                  *)

INSTANCE FiniteSetTheorems

(* A request that may be sent again has not used up all sends.             *)
LEMMA RetryBound ==
    ASSUME RequestTypes, NEW r \in Requests,
           Cardinality({x \in Requests \X (2..MaxSends) : x[2] <= sends[x[1]]}) < MaxRetries
    PROVE  sends[r] < MaxSends
  <1> DEFINE S == {x \in Requests \X (2..MaxSends) : x[2] <= sends[x[1]]}
             T == {r} \X (2..MaxSends)
  <1>1. MaxSends \in Nat /\ MaxSends = MaxRetries + 1 /\ MaxRetries \in Nat
    BY Zenon, SendsBound, OzClientAssumption
  <1>2. IsFiniteSet(2..MaxSends) /\ Cardinality(2..MaxSends) = MaxRetries
    <2>1. /\ IsFiniteSet(2..MaxSends)
          /\ Cardinality(2..MaxSends) = IF 2 > MaxSends THEN 0 ELSE MaxSends - 2 + 1
      <3>1. 2 \in Int /\ MaxSends \in Int
        BY ONLY <1>1
      <3> QED
        BY Zenon, <3>1, FS_Interval
    <2> QED
      BY ONLY <1>1, <2>1
  <1>3. IsFiniteSet(Requests \X (2..MaxSends))
    BY Zenon, <1>2, FS_Product, OzClientAssumption
  <1>4. IsFiniteSet(S)
    BY Zenon, <1>3, FS_Subset
  <1>5. Cardinality(T) = MaxRetries
    <2>1. IsFiniteSet({r}) /\ Cardinality({r}) = 1
      BY Zenon, FS_Singleton
    <2>2. Cardinality(T) = Cardinality({r}) * Cardinality(2..MaxSends)
      BY Zenon, <1>2, <2>1, FS_Product
    <2>3. QED
      BY SMTT(30), <1>1, <1>2, <2>1, <2>2
  <1>6. SUFFICES ASSUME sends[r] = MaxSends
                 PROVE  FALSE
    BY <1>1 DEF RequestTypes
  <1>7. T \subseteq S
    BY <1>1, <1>6
  <1>8. Cardinality(T) <= Cardinality(S) /\ Cardinality(S) \in Nat
    BY Zenon, <1>4, <1>7, FS_Subset, FS_CardinalityType
  <1>9. QED
    BY <1>1, <1>5, <1>8

(* The replies that were posted are finitely many.                         *)
LEMMA PostedFinite ==
    ASSUME RequestTypes, NEW r \in Requests
    PROVE  /\ IsFiniteSet(posted[r]) /\ Cardinality(posted[r]) \in Nat
           /\ Cardinality(posted[r]) <= MaxSends
  <1>1. posted[r] \subseteq 1..MaxSends
    BY DEF RequestTypes
  <1>2. IsFiniteSet(1..MaxSends) /\ Cardinality(1..MaxSends) = MaxSends
    BY SendsBound, FS_Interval
  <1>3. IsFiniteSet(posted[r]) /\ Cardinality(posted[r]) <= MaxSends
    BY Zenon, <1>1, <1>2, FS_Subset
  <1>4. QED
    BY Zenon, <1>3, FS_CardinalityType

(* All of this holds in every state.                                       *)
LEMMA WireCorrect == Spec => []WireInv
  <1>1. WireInv /\ [Next]_vars => WireInv'
    <2>1. SUFFICES ASSUME WireInv, [Next]_vars
                   PROVE  WireInv'
      BY Zenon
    <2>2. ASSUME NEW t \in Apps, Retry(t)
          PROVE  sends[hand[t].req] < MaxSends
      <3>1. RequestTypes /\ hand[t].req \in Requests
        BY Zenon, <2>1, <2>2, ThreadKinds DEF WireInv, Types, HandsOK, Fits, Retry, Working
      <3>2. QED
        BY Zenon, <2>2, <3>1, RetryBound DEF Retry
    <2>3. QED
      BY Zenon, <2>1, <2>2, StepWire
  <1>2. QED
    BY <1>1, InitWire, PTL DEF Spec

(* A semaphore holds no more than the replies that were posted.            *)
LEMMA PostsCorrect == Spec => []PostsOK
  <1>1. Init => PostsOK
    BY FS_EmptySet DEF Init, PostsOK
  <1>2. WireInv /\ WireInv' /\ PostsOK /\ [Next]_vars => PostsOK'
    <2>1. SUFFICES ASSUME WireInv, WireInv', PostsOK, [Next]_vars, NEW q \in Requests
                   PROVE  replied_'[q] <= Cardinality(posted'[q])
      BY DEF PostsOK
    <2>2. RequestTypes /\ RequestTypes' /\ Posts
      BY Zenon, <2>1, StepPosts DEF WireInv, Types
    <2>3. /\ IsFiniteSet(posted[q]) /\ Cardinality(posted[q]) \in Nat
          /\ replied_[q] \in Nat /\ replied_[q] <= Cardinality(posted[q])
      BY <2>1, <2>2, PostedFinite DEF PostsOK, RequestTypes
    <2>4. replied_'[q] \in Nat /\ Cardinality(posted'[q]) \in Nat
      <3>1. posted'[q] \subseteq 1..MaxSends /\ replied_'[q] \in Nat
        BY <2>2 DEF RequestTypes
      <3>2. IsFiniteSet(1..MaxSends)
        BY SendsBound, FS_Interval
      <3>3. IsFiniteSet(posted'[q])
        BY ZenonT(30), <3>1, <3>2, FS_Subset
      <3>4. QED
        BY Zenon, <3>1, <3>3, FS_CardinalityType
    <2>5. CASE \E n : /\ n \notin posted[q] /\ posted'[q] = posted[q] \cup {n}
                      /\ replied_'[q] = replied_[q] + 1
      <3>1. PICK n : /\ n \notin posted[q] /\ posted'[q] = posted[q] \cup {n}
                     /\ replied_'[q] = replied_[q] + 1
        BY <2>5
      <3>2. Cardinality(posted[q] \cup {n}) = Cardinality(posted[q]) + 1
        BY ZenonT(30), <2>3, <3>1, FS_AddElement
      <3>3. QED
        BY SMTT(30), <2>3, <3>1, <3>2
    <2>6. CASE replied_'[q] <= replied_[q] /\ posted'[q] = posted[q]
      BY SMTT(30), <2>3, <2>4, <2>6
    <2>7. CASE replied_'[q] = 0
      BY <2>4, <2>7
    <2>8. QED
      BY ZenonT(30), <2>2, <2>5, <2>6, <2>7 DEF Posts
  <1>3. QED
    BY <1>1, <1>2, WireCorrect, PTL DEF Spec

(* The values of the variables, whatever the number of requests and of     *)
(* resends.  In particular, a semaphore is posted once for each message at *)
(* most: its count never exceeds the number of sends.                      *)
THEOREM TypeCorrect == Spec => []TypeOK
  <1>1. WireInv /\ PostsOK => TypeOK
    BY PostedFinite, PostsBound DEF WireInv, Types
  <1>2. QED
    BY <1>1, WireCorrect, PostsCorrect, PTL

(* waitReply of a request returns OK only if a reply was posted after the  *)
(* last send began, and does not time out when the reply to that very send *)
(* has been posted: for any number of application threads, of requests and *)
(* of resends, and also when the application is not careful.               *)
THEOREM WaitingIsTruthful == Spec => WaitReplyTellsTheTruth
  <1> DEFINE Truth == \A t \in Apps : pc[t] = "wait" =>
                /\ pc'[t] = "replied" => since[hand[t].req]
                /\ pc'[t] = "timedout" => sends[hand[t].req] \notin posted[hand[t].req]
  <1>1. WireInv /\ [Next]_vars => [Truth]_vars
    BY Zenon, StepTruth
  <1>2. QED
    BY <1>1, WireCorrect, PTL DEF Spec, WaitReplyTellsTheTruth

(* The publishers of both connections, for any number of requests and of   *)
(* threads: one that has no owner any more is being removed by exactly one *)
(* thread, the one that dropped the last shared_ptr, and none that has an  *)
(* owner is being removed.                                                 *)
THEOREM UnusedAreRemoved == Spec => []UnusedIsRemoved
  <1>1. PublishersOK => UnusedIsRemoved
    <2>1. SUFFICES ASSUME PublishersOK, NEW p \in exists
                   PROVE  owners[p] = {} <=>
                          Cardinality({t \in Threads : pc[t] = "remove" /\ dying[t] = p}) = 1
      BY Zenon DEF UnusedIsRemoved
    <2> DEFINE S == {t \in Threads : pc[t] = "remove" /\ dying[t] = p}
    <2>2. IF owners[p] = {} THEN \E u \in Threads : S = {u} ELSE S = {}
      BY Zenon, <2>1, Removers
    <2> HIDE DEF S
    <2>3. owners[p] = {} <=> Cardinality(S) = 1
      BY Zenon, <2>2, FS_Singleton, FS_EmptySet
    <2>4. QED
      BY Zenon, <2>3 DEF S
  <1>2. WireInv /\ PublishersOK /\ [Next]_vars => PublishersOK'
    BY StepOwners
  <1>3. QED
    BY <1>1, <1>2, InitPublishers, WireCorrect, PTL DEF Spec

(* If the application is careful, no thread of the client works on a       *)
(* request that has been deleted, by itself or by another, and none needs  *)
(* the connection after connection::destroy: for any number of application *)
(* threads, of requests and of resends.                                    *)
THEOREM NothingFreedIsUsed ==
    ASSUME Careful
    PROVE  Spec => []NoUseAfterFree
  <1>1. Init => EndOK /\ CallbackOK
    BY InitEnd
  <1>2. WireInv /\ EndOK /\ CallbackOK /\ [Next]_vars => EndOK' /\ CallbackOK'
    BY StepEnd
  <1>3. WireInv /\ EndOK /\ CallbackOK => NoUseAfterFree
    BY EndIsSafe
  <1>4. QED
    BY <1>1, <1>2, <1>3, WireCorrect, PTL DEF Spec
=============================================================================
