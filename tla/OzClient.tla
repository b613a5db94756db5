------------------------------ MODULE OzClient ------------------------------
(***************************************************************************)
(* Requests and replies through the C++ classes of examples/ozimpl.cpp:    *)
(* request objects that are sent, waited for, sent again and deleted, the  *)
(* publishers that they share through the connection, and the end of the   *)
(* session and of the connection.                                          *)
(*                                                                         *)
(* Two processes.  In the client, application threads create requests and  *)
(* send them, and the session's thread runs the callbacks of their         *)
(* inboxes.  A request is "async" (as in req.cpp: onReply destroys it) or  *)
(* "sync" (as in req2.cpp: the application waits for the reply); the       *)
(* application destroys a sync request itself, or sends it again.  A       *)
(* request without a sink, "nosink", is waited for in the same way.  In    *)
(* the server, the threads of several sessions answer with a reply object, *)
(* which asks the connection for a publisher each time and lets go of it   *)
(* afterwards.                                                             *)
(*                                                                         *)
(* A publisher belongs to whoever holds a shared_ptr to it.  The           *)
(* connection holds a weak_ptr: when the last owner is gone, the thread    *)
(* that dropped it goes on to take the publisher out of the connection's   *)
(* map, and until then lock() returns null.  The map has no lock: between  *)
(* find and lock() in getPublisher, another thread may erase the entry     *)
(* that was found.  Each single operation on the map is taken to be        *)
(* atomic.  All requests of the client have one topic, and all replies of  *)
(* the server are published under "_INBOX".  A process that crashes does   *)
(* not go on.                                                              *)
(***************************************************************************)
EXTENDS Naturals, Sequences, FiniteSets

CONSTANTS Apps,      \* application threads of the client
          Session,   \* the thread of the client's session
          Repliers,  \* the threads of the server's sessions
          Requests,  \* request objects
          NoRequest, \* no request
          MaxPubs,   \* bound: publishers of a connection at a time
          MaxRetries, \* bound: sends beyond the first, of all requests
          Careful    \* see DestroyRequest

MaxSends == MaxRetries + 1
Conns == {"client", "server"}
Publishers == Conns \X (1..MaxPubs)
NoPublisher == <<>>
Threads == Apps \cup {Session} \cup Repliers
Owners == Requests \cup Repliers

ASSUME OzClientAssumption ==
    /\ MaxPubs \in Nat \ {0}
    /\ MaxRetries \in Nat
    /\ Careful \in BOOLEAN
    /\ Session \notin Apps \cup Repliers
    /\ Apps \cap Repliers = {}
    /\ Requests \cap Repliers = {}
    /\ NoRequest \notin Requests
    /\ IsFiniteSet(Requests)

VARIABLES pubs_,    \* connection::pubs_ of each connection
          exists,   \* the publisher objects that have been created and not deleted
          owners,   \* who holds a shared_ptr to each
          entry,    \* whether what each thread found in the map is still there
          stage,    \* of each request: none, new, open (has an inbox), deleted
          mode,     \* "async", "sync" or "nosink"
          pub_,     \* request::pub_
          replied_, \* the count of the semaphore request::replied_
          sends,    \* how often each request was sent
          posted,   \* history: the sends to which the reply was posted
          since,    \* history: a reply was posted since the last send began
          net,      \* requests that are on their way to the server
          queue,    \* replies on the session's queue
          pc,       \* where each thread is
          hand,     \* the request, or the message, it is working on
          dying,    \* the publisher whose last owner it has dropped
          session,  \* running, deleted, or leaked: its queue could not be destroyed
          closed    \* connection::destroy has been completed

pubVars == <<pubs_, exists, owners, entry>>
requestVars == <<stage, mode, pub_, replied_, sends, posted, since>>
wireVars == <<net, queue>>
threadVars == <<pc, hand, dying>>
endVars == <<session, closed>>
vars == <<pubVars, requestVars, wireVars, threadVars, endVars>>

(* The process that a thread belongs to, and whether it is running.        *)
Conn(t) == IF t \in Repliers THEN "server" ELSE "client"
Alive(c) == \A t \in Threads : Conn(t) = c => pc[t] # "crashed"
Goto(t, where) == pc' = [pc EXCEPT ![t] = where]
Messages == [req : Requests, num : 1..MaxSends]
Nothing == [req |-> NoRequest, num |-> 0]

Init ==
    /\ pubs_ = [c \in Conns |-> NoPublisher]
    /\ exists = {}
    /\ owners = [p \in Publishers |-> {}]
    /\ entry = [t \in Threads |-> FALSE]
    /\ stage = [r \in Requests |-> "none"]
    /\ mode = [r \in Requests |-> "sync"]
    /\ pub_ = [r \in Requests |-> NoPublisher]
    /\ replied_ = [r \in Requests |-> 0]
    /\ sends = [r \in Requests |-> 0]
    /\ posted = [r \in Requests |-> {}]
    /\ since = [r \in Requests |-> FALSE]
    /\ net = {}
    /\ queue = <<>>
    /\ pc = [t \in Threads |-> "idle"]
    /\ hand = [t \in Threads |-> Nothing]
    /\ dying = [t \in Threads |-> NoPublisher]
    /\ session = "running"
    /\ closed = FALSE

-----------------------------------------------------------------------------
(* Plausible errors in the definitions that follow.                        *)

NotReset(t) ==
    /\ pc[t] = "init"
    /\ Goto(t, "request")
    /\ UNCHANGED <<pubVars, requestVars, wireVars, hand, dying, endVars>>

PostTwice(r) == [replied_ EXCEPT ![r] = @ + 2]

InboxCallbackUnchecked ==
    /\ pc[Session] = "idle"
    /\ session = "running"
    /\ queue # <<>>
    /\ queue' = Tail(queue)
    /\ Goto(Session, "post")
    /\ hand' = [hand EXCEPT ![Session] = Head(queue)]
    /\ UNCHANGED <<pubVars, requestVars, net, dying, endVars>>

OnReplyKeeping ==
    /\ pc[Session] = "onReply"
    /\ Goto(Session, "idle")
    /\ hand' = [hand EXCEPT ![Session] = Nothing]
    /\ UNCHANGED <<pubVars, requestVars, wireVars, dying, endVars>>

RemoveNothing(t) ==
    /\ pc[t] = "remove"
    /\ Goto(t, "idle")
    /\ dying' = [dying EXCEPT ![t] = NoPublisher]
    /\ hand' = [hand EXCEPT ![t] = Nothing]
    /\ UNCHANGED <<pubVars, requestVars, wireVars, endVars>>

-----------------------------------------------------------------------------
(* connection::getPublisher and the end of a publisher.                    *)

(* Whoever a thread gets the publisher for.                                *)
Owner(t) == IF t \in Apps THEN hand[t].req ELSE t

(* The topic is in the map.                                                *)
Found(t) == pubs_[Conn(t)] # NoPublisher

(* Where a thread goes with a publisher, and without.                      *)
GotPublisher(t, p) ==
    /\ pub_' = IF t \in Apps THEN [pub_ EXCEPT ![hand[t].req] = p] ELSE pub_
    /\ Goto(t, CASE t \in Apps -> "init"
                 [] t \notin Apps /\ p = NoPublisher -> "refused"
                 [] OTHER -> "reply")

(* The map is searched.  What is found there can be erased before it is    *)
(* used,                                                                   *)
FindPublisher(t) ==
    /\ pc[t] = "find"
    /\ Found(t)
    /\ entry' = [entry EXCEPT ![t] = TRUE]
    /\ Goto(t, "lock")
    /\ UNCHANGED <<pubs_, exists, owners, requestVars, wireVars, hand, dying, endVars>>

FindNothing(t) ==
    /\ pc[t] = "find"
    /\ ~Found(t)
    /\ Goto(t, "create")
    /\ UNCHANGED <<pubVars, requestVars, wireVars, hand, dying, endVars>>

(* and its weak_ptr is locked.  A publisher that has owners is shared; an  *)
(* entry that was erased may be in the same place as the one that is there *)
(* now.                                                                    *)
LockPublisher(t) ==
    LET p == pubs_[Conn(t)]
    IN  /\ pc[t] = "lock"
        /\ Found(t)
        /\ owners[p] # {}
        /\ owners' = [owners EXCEPT ![p] = @ \cup {Owner(t)}]
        /\ entry' = [entry EXCEPT ![t] = FALSE]
        /\ GotPublisher(t, p)
        /\ UNCHANGED <<pubs_, exists, stage, mode, replied_, sends, posted, since, wireVars,
                       hand, dying, endVars>>

(* The result is null if the last owner is gone, and may be null or no     *)
(* result at all if the entry has been erased: the iterator dangles.       *)
LockExpired(t) ==
    /\ pc[t] = "lock"
    /\ entry[t] => owners[pubs_[Conn(t)]] = {}
    /\ entry' = [entry EXCEPT ![t] = FALSE]
    /\ GotPublisher(t, NoPublisher)
    /\ UNCHANGED <<pubs_, exists, owners, stage, mode, replied_, sends, posted, since,
                   wireVars, hand, dying, endVars>>

LockDangling(t) ==
    /\ pc[t] = "lock"
    /\ ~entry[t]
    /\ Goto(t, "crashed")
    /\ UNCHANGED <<pubVars, requestVars, wireVars, hand, dying, endVars>>

(* A new publisher is put into the map, over whatever is there by now.     *)
CreatePublisher(t) ==
    /\ pc[t] = "create"
    /\ \E p \in {Conn(t)} \X (1..MaxPubs) :
          /\ p \notin exists
          /\ \A i \in 1..(p[2] - 1) : <<Conn(t), i>> \in exists
          /\ exists' = exists \cup {p}
          /\ owners' = [owners EXCEPT ![p] = {Owner(t)}]
          /\ pubs_' = [pubs_ EXCEPT ![Conn(t)] = p]
          /\ GotPublisher(t, p)
    /\ UNCHANGED <<entry, stage, mode, replied_, sends, posted, since, wireVars, hand,
                   dying, endVars>>

(* An owner lets go; the thread that drops the last shared_ptr has the     *)
(* deleter to run.                                                         *)
Dropped(o, p) == [owners EXCEPT ![p] = @ \ {o}]

Release(t, o, p, where) ==
    /\ owners' = IF p = NoPublisher THEN owners ELSE Dropped(o, p)
    /\ IF p # NoPublisher /\ owners'[p] = {}
       THEN /\ Goto(t, "remove")
            /\ dying' = [dying EXCEPT ![t] = p]
            /\ UNCHANGED hand
       ELSE /\ Goto(t, where)
            /\ hand' = [hand EXCEPT ![t] = Nothing]
            /\ UNCHANGED dying

(* publisher::destroy: the topic is erased from the map, whichever         *)
(* publisher it stands for, and the publisher is deleted.                  *)
RemoveFromMap(c) ==
    /\ pubs_' = [pubs_ EXCEPT ![c] = NoPublisher]
    /\ entry' = [t \in Threads |-> entry[t] /\ Conn(t) # c]

RemovePublisher(t) ==
    /\ pc[t] = "remove"
    /\ RemoveFromMap(Conn(t))
    /\ exists' = exists \ {dying[t]}
    /\ dying' = [dying EXCEPT ![t] = NoPublisher]
    /\ hand' = [hand EXCEPT ![t] = Nothing]
    /\ Goto(t, "idle")
    /\ UNCHANGED <<owners, requestVars, wireVars, endVars>>

-----------------------------------------------------------------------------
(* The application.                                                        *)

(* The request object that is allocated next; all are alike.               *)
NextRequest ==
    LET unused == {r \in Requests : stage[r] = "none"}
    IN  IF unused = {} THEN {} ELSE {CHOOSE r \in unused : TRUE}

CreateRequest(t) ==
    /\ pc[t] = "idle"
    /\ session = "running"
    /\ \E r \in NextRequest, m \in {"async", "sync", "nosink"} :
          /\ stage' = [stage EXCEPT ![r] = "new"]
          /\ mode' = [mode EXCEPT ![r] = m]
          /\ hand' = [hand EXCEPT ![t] = [req |-> r, num |-> 0]]
    /\ Goto(t, "send")
    /\ UNCHANGED <<pubVars, pub_, replied_, sends, posted, since, wireVars, dying, endVars>>

(* request::send: an inbox and a publisher unless there are some, a fresh  *)
(* semaphore, and the message.                                             *)
SendRequest(t) ==
    LET r == hand[t].req
    IN  /\ pc[t] = "send"
        /\ sends' = [sends EXCEPT ![r] = @ + 1]
        /\ since' = [since EXCEPT ![r] = FALSE]
        /\ stage' = [stage EXCEPT ![r] = "open"]
        /\ Goto(t, IF pub_[r] = NoPublisher THEN "find" ELSE "init")
        /\ UNCHANGED <<pubVars, mode, pub_, replied_, posted, wireVars, hand, dying, endVars>>

InitSemaphore(t) ==
    /\ pc[t] = "init"
    /\ replied_' = [replied_ EXCEPT ![hand[t].req] = 0]
    /\ Goto(t, "request")
    /\ UNCHANGED <<pubVars, stage, mode, pub_, sends, posted, since, wireVars, hand, dying,
                   endVars>>

SendFromInbox(t) ==
    LET r == hand[t].req
    IN  /\ pc[t] = "request"
        /\ pub_[r] # NoPublisher
        /\ net' = net \cup {[req |-> r, num |-> sends[r]]}
        /\ IF mode[r] = "async"
           THEN Goto(t, "idle") /\ hand' = [hand EXCEPT ![t] = Nothing]
           ELSE Goto(t, "wait") /\ UNCHANGED hand
        /\ UNCHANGED <<pubVars, requestVars, queue, dying, endVars>>

(* send does not check what getPublisher has returned.                     *)
SendNull(t) ==
    /\ pc[t] = "request"
    /\ pub_[hand[t].req] = NoPublisher
    /\ Goto(t, "crashed")
    /\ UNCHANGED <<pubVars, requestVars, wireVars, hand, dying, endVars>>

(* request::waitReply: a reply, a timeout, or an error of the semaphore    *)
(* (its result is neither; a signal causes one, for instance).             *)
WaitReply(t) ==
    LET r == hand[t].req
    IN  /\ pc[t] = "wait"
        /\ replied_[r] > 0
        /\ replied_' = [replied_ EXCEPT ![r] = @ - 1]
        /\ Goto(t, "replied")
        /\ UNCHANGED <<pubVars, stage, mode, pub_, sends, posted, since, wireVars, hand,
                       dying, endVars>>

WaitTimeout(t) ==
    /\ pc[t] = "wait"
    /\ replied_[hand[t].req] = 0
    /\ Goto(t, "timedout")
    /\ UNCHANGED <<pubVars, requestVars, wireVars, hand, dying, endVars>>

WaitError(t) ==
    /\ pc[t] = "wait"
    /\ Goto(t, "failed")
    /\ UNCHANGED <<pubVars, requestVars, wireVars, hand, dying, endVars>>

(* The same request is sent once more.                                     *)
Retry(t) ==
    /\ pc[t] \in {"replied", "timedout", "failed"}
    /\ Cardinality({x \in Requests \X (2..MaxSends) : x[2] <= sends[x[1]]}) < MaxRetries
    /\ Goto(t, "send")
    /\ UNCHANGED <<pubVars, requestVars, wireVars, hand, dying, endVars>>

(* request::destroy, mamaInbox_destroy, and destroyCB on the same thread:  *)
(* the request is deleted and lets go of its publisher.                    *)
Deleted(t, r) ==
    /\ stage' = [stage EXCEPT ![r] = "deleted"]
    /\ pub_' = [pub_ EXCEPT ![r] = NoPublisher]
    /\ replied_' = [replied_ EXCEPT ![r] = 0]
    /\ posted' = [posted EXCEPT ![r] = {}]
    /\ since' = [since EXCEPT ![r] = FALSE]
    /\ Release(t, r, pub_[r], "idle")
    /\ mode' = [mode EXCEPT ![r] = "sync"]
    /\ UNCHANGED <<pubs_, exists, entry, sends, wireVars, endVars>>

(* A careful application does not destroy a request while its callback is  *)
(* running.                                                                *)
DestroyRequest(t) ==
    /\ pc[t] \in {"replied", "timedout", "failed"}
    /\ Careful => hand[Session].req # hand[t].req
    /\ Deleted(t, hand[t].req)

-----------------------------------------------------------------------------
(* The session's thread.                                                   *)

(* inboxCallback: the reply is dropped if the inbox is gone.               *)
InboxCallback ==
    /\ pc[Session] = "idle"
    /\ session = "running"
    /\ queue # <<>>
    /\ queue' = Tail(queue)
    /\ IF stage[Head(queue).req] = "open"
       THEN Goto(Session, "post") /\ hand' = [hand EXCEPT ![Session] = Head(queue)]
       ELSE UNCHANGED <<pc, hand>>
    /\ UNCHANGED <<pubVars, requestVars, net, dying, endVars>>

(* request::msgCB: if the request has a sink, the waiter is woken up       *)
(* first,                                                                  *)
Posted(r) == [replied_ EXCEPT ![r] = @ + 1]

MsgPost ==
    LET m == hand[Session]
    IN  /\ pc[Session] = "post"
        /\ mode[m.req] # "nosink"
        /\ replied_' = Posted(m.req)
        /\ posted' = [posted EXCEPT ![m.req] = @ \cup {m.num}]
        /\ since' = [since EXCEPT ![m.req] = TRUE]
        /\ Goto(Session, "onReply")
        /\ UNCHANGED <<pubVars, stage, mode, pub_, sends, wireVars, hand, dying, endVars>>

(* then onReply is called, which destroys an async request.                *)
OnReply ==
    LET r == hand[Session].req
    IN  /\ pc[Session] = "onReply"
        /\ IF mode[r] = "async" THEN Deleted(Session, r)
           ELSE /\ Goto(Session, "idle")
                /\ hand' = [hand EXCEPT ![Session] = Nothing]
                /\ UNCHANGED <<pubVars, requestVars, wireVars, dying, endVars>>

(* Without a sink, nobody is told of the reply.                            *)
MsgIgnored ==
    /\ pc[Session] = "post"
    /\ mode[hand[Session].req] = "nosink"
    /\ Goto(Session, "idle")
    /\ hand' = [hand EXCEPT ![Session] = Nothing]
    /\ UNCHANGED <<pubVars, requestVars, wireVars, dying, endVars>>

-----------------------------------------------------------------------------
(* The server.                                                             *)

(* A callback is given a request and calls reply::send.                    *)
TakeRequest(t) ==
    /\ pc[t] = "idle"
    /\ \E m \in net : /\ net' = net \ {m}
                      /\ hand' = [hand EXCEPT ![t] = m]
    /\ Goto(t, "find")
    /\ UNCHANGED <<pubVars, requestVars, queue, dying, endVars>>

(* The reply goes to the inbox, unless it is lost on the way, and the      *)
(* publisher is released.                                                  *)
SendReply(t) ==
    /\ pc[t] = "reply"
    /\ queue' \in {queue, Append(queue, hand[t])}
    /\ \E p \in exists : t \in owners[p] /\ Release(t, t, p, "idle")
    /\ UNCHANGED <<pubs_, exists, entry, requestVars, net, endVars>>

(* getPublisher has returned null: no reply is sent.                       *)
RefuseReply(t) ==
    /\ pc[t] = "refused"
    /\ hand' = [hand EXCEPT ![t] = Nothing]
    /\ Goto(t, "idle")
    /\ UNCHANGED <<pubVars, requestVars, wireVars, dying, endVars>>

-----------------------------------------------------------------------------
(* The end of the client.                                                  *)

(* session::destroy: the dispatcher is stopped and its thread joined; the  *)
(* queue is destroyed unless inboxes are still open on it, in which case   *)
(* the session is never deleted.                                           *)
DestroySession(t) ==
    /\ pc[t] = "idle"
    /\ session = "running"
    /\ pc[Session] = "idle"
    /\ \A a \in Apps : pc[a] = "idle"
    /\ IF \E r \in Requests : stage[r] = "open"
       THEN session' = "leaked" /\ UNCHANGED queue
       ELSE session' = "deleted" /\ queue' = <<>>
    /\ Goto(t, "stopped")
    /\ UNCHANGED <<pubVars, requestVars, net, hand, dying, closed>>

(* connection::destroy.                                                    *)
DestroyConnection(t) ==
    /\ pc[t] = "stopped"
    /\ closed' = TRUE
    /\ Goto(t, "done")
    /\ UNCHANGED <<pubVars, requestVars, wireVars, hand, dying, session>>

PublisherStep(t) == \/ FindPublisher(t) \/ FindNothing(t) \/ LockPublisher(t)
                    \/ LockExpired(t) \/ LockDangling(t) \/ CreatePublisher(t)
                    \/ RemovePublisher(t)
SendStep(t) == \/ SendRequest(t) \/ InitSemaphore(t) \/ SendFromInbox(t) \/ SendNull(t)
               \/ WaitReply(t) \/ WaitTimeout(t) \/ WaitError(t)
AppStep(t) == \/ PublisherStep(t) \/ SendStep(t) \/ CreateRequest(t) \/ Retry(t)
              \/ DestroyRequest(t) \/ DestroySession(t) \/ DestroyConnection(t)
SessionStep == InboxCallback \/ MsgPost \/ MsgIgnored \/ OnReply \/ PublisherStep(Session)
ReplierStep(t) == PublisherStep(t) \/ TakeRequest(t) \/ SendReply(t) \/ RefuseReply(t)

Next ==
    \/ Alive("client") /\ \E t \in Apps : AppStep(t)
    \/ Alive("client") /\ SessionStep
    \/ Alive("server") /\ \E t \in Repliers : ReplierStep(t)

Spec == Init /\ [][Next]_vars

(* Threads that are in the middle of a call or a callback go on with it.   *)
FairSpec ==
    /\ Spec
    /\ \A t \in Apps : WF_vars(Alive("client") /\ (PublisherStep(t) \/ SendStep(t)))
    /\ WF_vars(Alive("client") /\ SessionStep)
    /\ \A t \in Repliers : WF_vars(Alive("server") /\ ReplierStep(t))

-----------------------------------------------------------------------------
TypeOK ==
    /\ pubs_ \in [Conns -> Publishers \cup {NoPublisher}]
    /\ exists \subseteq Publishers
    /\ owners \in [Publishers -> SUBSET Owners]
    /\ entry \in [Threads -> BOOLEAN]
    /\ stage \in [Requests -> {"none", "new", "open", "deleted"}]
    /\ mode \in [Requests -> {"async", "sync", "nosink"}]
    /\ pub_ \in [Requests -> Publishers \cup {NoPublisher}]
    /\ replied_ \in [Requests -> 0..MaxSends]
    /\ sends \in [Requests -> 0..MaxSends]
    /\ posted \in [Requests -> SUBSET (1..MaxSends)]
    /\ since \in [Requests -> BOOLEAN]
    /\ net \subseteq Messages
    /\ queue \in Seq(Messages)
    /\ dying \in [Threads -> Publishers \cup {NoPublisher}]
    /\ session \in {"running", "deleted", "leaked"}
    /\ closed \in BOOLEAN

(* No thread of the client works on a request that has been deleted, by    *)
(* itself or by the other thread, and none needs the connection once it is *)
(* gone: neither a callback (inboxCallback looks the inbox up again) nor   *)
(* the deleter of a publisher.  (The entries of the map of publishers are  *)
(* another matter, see SharedByAllThreads.)                                *)
NoUseAfterFree ==
    /\ \A t \in Apps : hand[t].req # NoRequest /\ pc[t] # "remove" => stage[hand[t].req] # "deleted"
    /\ pc[Session] \in {"post", "onReply"} => stage[hand[Session].req] = "open"
    /\ closed => \A t \in Apps \cup {Session} : pc[t] \in {"idle", "done"}

(* "publishers can be shared among all threads that need to publish        *)
(* messages": each thread that asks for a publisher gets one.              *)
SharedByAllThreads == \A t \in Threads : pc[t] \notin {"refused", "crashed"}

(* What waitReply returns is true of the last send.  It returns OK only if *)
(* a reply came in after that send began: a late reply to an earlier send, *)
(* posted while nobody waited, does not count.  It does not time out when  *)
(* the callback for this very send has already posted the semaphore:       *)
(* initializing it cannot wipe that out.                                   *)
WaitReplyTellsTheTruth ==
    [][\A t \in Apps : pc[t] = "wait" =>
          /\ pc'[t] = "replied" => since[hand[t].req]
          /\ pc'[t] = "timedout" => sends[hand[t].req] \notin posted[hand[t].req]]_vars

(* The publishers are reference-counted and deleted when no longer used,   *)
(* in the client and in the server: one without owners is about to be      *)
(* taken out of the map by exactly one thread.                             *)
UnusedIsRemoved ==
    \A p \in exists :
        owners[p] = {} <=> Cardinality({t \in Threads : pc[t] = "remove" /\ dying[t] = p}) = 1

(* A request that its callback destroys is deleted once its reply has been *)
(* queued, unless the application ends the session first or crashes.       *)
AnsweredIsDeleted ==
    \A r \in Requests :
        (mode[r] = "async" /\ \E i \in DOMAIN queue : queue[i].req = r)
            ~> (stage[r] = "deleted" \/ session # "running" \/ ~Alive("client"))
=============================================================================
