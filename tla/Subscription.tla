---------------------------- MODULE Subscription ----------------------------
(***************************************************************************)
(* Subscriptions and inboxes from creation to destruction, and the path of *)
(* a data message: the transport's main dispatch thread (transport.c)      *)
(* reads it, looks up who wants it and enqueues an event; the callback     *)
(* thread of the queue looks the subscriber up again and delivers.         *)
(*                                                                         *)
(* Actors: application threads (create, mute), the dispatch thread, and    *)
(* one callback thread per queue, which is also the thread on which the    *)
(* subscribers of that queue are destroyed (the comments of the ...Callback *)
(* functions say that the layer above guarantees this).                    *)
(*                                                                         *)
(* A subscriber is a heap object: it has an address, which malloc may hand *)
(* out again, and an identifier (zmqBridge_generateSerial), which is never *)
(* reused.  The three kinds of subscribers are "sub" (mSubEndpoints), "wc" *)
(* (mWcEndpoints) and "inbox" (mInboxes).                                  *)
(***************************************************************************)
EXTENDS Integers, Sequences, FiniteSets

CONSTANTS Addresses,   \* where subscribers may be allocated
          Queues,      \* event queues, each with its callback thread
          Topics,      \* subjects that are published
          Wildcards,   \* subject keys (prefixes) of wildcard subscriptions
          Covers,      \* Covers[k]: the topics that the key k is a prefix of
          Accepts,     \* Accepts[k]: the topics that the wildcard's regex accepts
          MaxCreated,  \* bound: subscribers created in a run
          MaxMessages, \* bound: messages published in a run
          MaxTotal     \* bound: both together

Keys == Topics \cup Wildcards
Kinds == {"sub", "wc", "inbox"}

ASSUME SubscriptionAssumption ==
    /\ Covers \in [Keys -> SUBSET Topics]
    /\ \A t \in Topics : t \in Covers[t]
    /\ Accepts \in [Wildcards -> SUBSET Topics]
    /\ MaxCreated \in Nat
    /\ MaxMessages \in Nat
    /\ MaxTotal \in Nat

VARIABLES heap,      \* the subscriber at each address, or Freed
          uid,       \* mSubUid, mWcsUid and mInboxUid
          registry,  \* mSubEndpoints, mWcEndpoints and mInboxes
          control,   \* commands on their way to the dispatch thread
          interest,  \* mZmqDataSub: how often each key is subscribed
          wire,      \* messages that have reached the data socket
          published, \* number of messages published so far
          dpc,       \* where the dispatch thread is
          revents,   \* sockets that were readable at the last zmq_poll
          current,   \* the message being dispatched
          todo,      \* the subscribers still to be given it
          queue,     \* the events on each queue
          cpc,       \* where each callback thread is
          event,     \* the event that it is handling
          target,    \* the subscriber that it has looked up
          delivered  \* history: what was delivered to whom, in that order

heapVars == <<heap, uid, registry>>
dispatchVars == <<dpc, revents, current, todo>>
callbackVars == <<cpc, event, target>>
vars == <<heapVars, control, interest, wire, published, dispatchVars, queue,
          callbackVars, delivered>>

Freed == [stage |-> "freed"]
Nothing == [num |-> 0]
NoAddress == {}

Init ==
    /\ heap = [a \in Addresses |-> Freed]
    /\ uid = [k \in Kinds |-> 0]
    /\ registry = [k \in Kinds |-> {}]
    /\ control = <<>>
    /\ interest = [k \in Keys |-> 0]
    /\ wire = <<>>
    /\ published = 0
    /\ dpc = "poll"
    /\ revents = {}
    /\ current = Nothing
    /\ todo = {}
    /\ queue = [q \in Queues |-> <<>>]
    /\ cpc = [q \in Queues |-> "idle"]
    /\ event = [q \in Queues |-> Nothing]
    /\ target = [q \in Queues |-> NoAddress]
    /\ delivered = <<>>

-----------------------------------------------------------------------------
\* Plausible errors in the definitions that follow.

LockedNever(kind) == FALSE
SubscribeSwapped(k) == interest' = [interest EXCEPT ![k] = @ - 1]
UnsubscribeIgnored(k) == UNCHANGED interest
EnqueueMsgTwice(kind, a, m) ==
    LET e == [kind |-> kind, id |-> heap[a].id, num |-> m.num]
    IN  queue' = [queue EXCEPT ![heap[a].queue] = @ \o <<e, e>>]

\* The loop over the subscribers ends after the first.
QueueUpdateFirst ==
    /\ dpc = "subs"
    /\ \E a \in todo :
          \/ ~heap[a].mIsNotMuted /\ UNCHANGED queue
          \/ /\ heap[a].mIsNotMuted
             /\ queue' = [queue EXCEPT ![heap[a].queue] =
                   Append(@, [kind |-> "sub", id |-> heap[a].id, num |-> current.num])]
    /\ todo' = {}
    /\ UNCHANGED <<heapVars, control, interest, wire, published, dpc, revents,
                   current, callbackVars, delivered>>

-----------------------------------------------------------------------------
\* Who wants a message, and the events that carry it.

\* endpointPool_getRegistered: exactly this topic.
Registered(t) == {a \in registry["sub"] : heap[a].key = t}

\* The prefix and the regex of a wildcard subscription both have to match.
MatchWildcards(t) ==
    {a \in registry["wc"] : t \in Covers[heap[a].key] /\ t \in Accepts[heap[a].key]}

\* The subscriber of this kind that is registered with this identifier.
Lookup(kind, id) == {a \in registry[kind] : heap[a].id = id}

\* zmqTransportMsg: the message and the identifier of the subscriber.
TransportMsg(kind, a, m) == [kind |-> kind, id |-> heap[a].id, num |-> m.num]

\* zmqBridgeMamaQueue_enqueueMsg
EnqueueMsg(kind, a, m) ==
    queue' = [queue EXCEPT ![heap[a].queue] = Append(@, TransportMsg(kind, a, m))]

-----------------------------------------------------------------------------
\* Application threads.

\* zmqBridge_generateSerial
NextSerial(kind) == uid[kind] + 1
Created == uid["sub"] + uid["wc"] + uid["inbox"]

\* zmqBridgeMamaTransportImpl_sendCommand: PUSH to the PULL socket of the dispatch
\* thread; the two are one ordered queue.
SendCommand(command, key) == control' = Append(control, [command |-> command, key |-> key])

\* create and createWildCard up to the registration, which takes no lock.
Create(kind, key, q, a) ==
    /\ heap[a] = Freed
    /\ Created < MaxCreated /\ Created + published < MaxTotal
    /\ uid' = [uid EXCEPT ![kind] = NextSerial(kind)]
    /\ heap' = [heap EXCEPT ![a] =
          [stage |-> "registered", kind |-> kind, key |-> key, queue |-> q,
           id |-> NextSerial(kind), mIsNotMuted |-> TRUE]]
    /\ registry' = [registry EXCEPT ![kind] = @ \cup {a}]
    /\ UNCHANGED <<control, interest, wire, published, dispatchVars, queue,
                   callbackVars, delivered>>

\* The rest of create: the dispatch thread is asked to subscribe.
SendSubscribe(a) ==
    /\ heap[a].stage = "registered"
    /\ SendCommand("S", heap[a].key)
    /\ heap' = [heap EXCEPT ![a].stage = "live"]
    /\ UNCHANGED <<uid, registry, interest, wire, published, dispatchVars,
                   queue, callbackVars, delivered>>

\* zmqBridgeMamaTransportImpl_registerInbox, under mInboxesLock.
RegisterInbox(a) == registry' = [registry EXCEPT !["inbox"] = @ \cup {a}]

\* zmqBridgeMamaInbox_createByIndex: the inbox subject of the transport has been
\* subscribed to since init, so that there is only the table to fill in.
CreateInbox(q, a) ==
    /\ heap[a] = Freed
    /\ Created < MaxCreated /\ Created + published < MaxTotal
    /\ uid' = [uid EXCEPT !["inbox"] = NextSerial("inbox")]
    /\ heap' = [heap EXCEPT ![a] =
          [stage |-> "live", kind |-> "inbox", queue |-> q,
           id |-> NextSerial("inbox")]]
    /\ RegisterInbox(a)
    /\ UNCHANGED <<control, interest, wire, published, dispatchVars, queue,
                   callbackVars, delivered>>

Mute(a) ==
    /\ heap[a].stage = "live"
    /\ heap[a].kind # "inbox"
    /\ heap[a].mIsNotMuted
    /\ heap' = [heap EXCEPT ![a].mIsNotMuted = FALSE]
    /\ UNCHANGED <<uid, registry, control, interest, wire, published,
                   dispatchVars, queue, callbackVars, delivered>>

-----------------------------------------------------------------------------
\* The network: a peer publishes on a topic, or replies to an inbox whose handle
\* has been given out.
Publish(m) ==
    /\ published < MaxMessages /\ Created + published < MaxTotal
    /\ published' = published + 1
    /\ wire' = Append(wire, m)
    /\ UNCHANGED <<heapVars, control, interest, dispatchVars, queue,
                   callbackVars, delivered>>

PublishTopic ==
    \E t \in Topics : Publish([to |-> "topic", topic |-> t, num |-> published + 1])

PublishReply ==
    \E id \in 1..uid["inbox"] : Publish([to |-> "inbox", id |-> id, num |-> published + 1])

-----------------------------------------------------------------------------
\* The dispatch thread: poll, then drain the control and the data socket.

Poll ==
    /\ dpc = "poll"
    /\ revents' = {s \in {"control", "data"} :
                      IF s = "control" THEN control # <<>> ELSE wire # <<>>}
    /\ revents' # {}
    /\ dpc' = "control"
    /\ UNCHANGED <<heapVars, control, interest, wire, published, current, todo,
                   queue, callbackVars, delivered>>

ControlReadable == "control" \in revents /\ control # <<>>
DataReadable == "data" \in revents /\ wire # <<>>

\* libzmq counts the subscriptions of a socket and ignores one unsubscribe too many.
Subscribe(k) == interest' = [interest EXCEPT ![k] = @ + 1]
Unsubscribe(k) == interest' = [interest EXCEPT ![k] = IF @ > 0 THEN @ - 1 ELSE 0]

DispatchControlMsg ==
    /\ dpc = "control"
    /\ ControlReadable
    /\ control' = Tail(control)
    /\ \/ Head(control).command = "S" /\ Subscribe(Head(control).key)
       \/ Head(control).command = "U" /\ Unsubscribe(Head(control).key)
    /\ UNCHANGED <<heapVars, wire, published, dispatchVars, queue,
                   callbackVars, delivered>>

ControlDrained ==
    /\ dpc = "control"
    /\ ~ControlReadable
    /\ dpc' = "data"
    /\ UNCHANGED <<heapVars, control, interest, wire, published, revents,
                   current, todo, queue, callbackVars, delivered>>

\* libzmq passes a message on if some subscribed key is a prefix of its topic.
Passes(m) ==
    m.to = "topic" => \E k \in Keys : interest[k] > 0 /\ m.topic \in Covers[k]

Filtered ==
    /\ dpc = "data"
    /\ DataReadable
    /\ ~Passes(Head(wire))
    /\ wire' = Tail(wire)
    /\ UNCHANGED <<heapVars, control, interest, published, dispatchVars, queue,
                   callbackVars, delivered>>

\* dispatchInboxMsg: under mInboxesLock only to find the queue of the inbox.
DispatchInboxMsg ==
    /\ dpc = "data"
    /\ DataReadable
    /\ Head(wire).to = "inbox"
    /\ wire' = Tail(wire)
    /\ LET m == Head(wire)
       IN  \/ /\ Lookup("inbox", m.id) = {}
              /\ UNCHANGED queue
           \/ \E a \in Lookup("inbox", m.id) : EnqueueMsg("inbox", a, m)
    /\ UNCHANGED <<heapVars, control, interest, published, dispatchVars,
                   callbackVars, delivered>>

\* dispatchSubMsg takes mWcsLock and goes through the wildcard subscriptions ...
DispatchSubMsg ==
    /\ dpc = "data"
    /\ DataReadable
    /\ Head(wire).to = "topic"
    /\ Passes(Head(wire))
    /\ wire' = Tail(wire)
    /\ current' = Head(wire)
    /\ todo' = MatchWildcards(Head(wire).topic)
    /\ dpc' = "wildcards"
    /\ UNCHANGED <<heapVars, control, interest, published, revents, queue,
                   callbackVars, delivered>>

QueueWildcard ==
    /\ dpc = "wildcards"
    /\ \E a \in todo :
          /\ EnqueueMsg("wc", a, current)
          /\ todo' = todo \ {a}
    /\ UNCHANGED <<heapVars, control, interest, wire, published, dpc, revents,
                   current, callbackVars, delivered>>

\* ... then it takes mSubsLock and goes through the regular ones.
WildcardsDone ==
    /\ dpc = "wildcards"
    /\ todo = {}
    /\ todo' = Registered(current.topic)
    /\ dpc' = "subs"
    /\ UNCHANGED <<heapVars, control, interest, wire, published, revents,
                   current, queue, callbackVars, delivered>>

QueueUpdate ==
    /\ dpc = "subs"
    /\ \E a \in todo :
          /\ \/ heap[a].mIsNotMuted /\ EnqueueMsg("sub", a, current)
             \/ ~heap[a].mIsNotMuted /\ UNCHANGED queue
          /\ todo' = todo \ {a}
    /\ UNCHANGED <<heapVars, control, interest, wire, published, dpc, revents,
                   current, callbackVars, delivered>>

SubsDone ==
    /\ dpc = "subs"
    /\ todo = {}
    /\ current' = Nothing
    /\ dpc' = "data"
    /\ UNCHANGED <<heapVars, control, interest, wire, published, revents, todo,
                   queue, callbackVars, delivered>>

DataDrained ==
    /\ dpc = "data"
    /\ ~DataReadable
    /\ dpc' = "poll"
    /\ revents' = {}
    /\ UNCHANGED <<heapVars, control, interest, wire, published, current, todo,
                   queue, callbackVars, delivered>>

-----------------------------------------------------------------------------
\* The callback threads.

\* uQueue_dispatchInt hands over the next event, and the ...Callback function
\* looks its subscriber up, which may have gone in the meantime.
DispatchEvent(q) ==
    /\ cpc[q] = "idle"
    /\ queue[q] # <<>>
    /\ queue' = [queue EXCEPT ![q] = Tail(@)]
    /\ LET e == Head(queue[q])
       IN  \/ /\ Lookup(e.kind, e.id) = {}
              /\ UNCHANGED callbackVars
           \/ \E a \in Lookup(e.kind, e.id) :
                 /\ event' = [event EXCEPT ![q] = e]
                 /\ target' = [target EXCEPT ![q] = a]
                 /\ cpc' = [cpc EXCEPT ![q] = "found"]
    /\ UNCHANGED <<heapVars, control, interest, wire, published, dispatchVars, delivered>>

\* mamaSubscription_processMsg, processWildCardMsg or the inbox's onMsg, unless
\* the subscription is muted.
Deliver(q) ==
    /\ cpc[q] = "found"
    /\ LET s == heap[target[q]]
       IN  \/ /\ s.kind # "inbox" /\ ~s.mIsNotMuted
              /\ UNCHANGED delivered
           \/ /\ s.kind # "inbox" => s.mIsNotMuted
              /\ delivered' = Append(delivered, event[q])
    /\ cpc' = [cpc EXCEPT ![q] = "idle"]
    /\ event' = [event EXCEPT ![q] = Nothing]
    /\ target' = [target EXCEPT ![q] = NoAddress]
    /\ UNCHANGED <<heapVars, control, interest, wire, published, dispatchVars, queue>>

\* The lock that guards a registry is held by the dispatch thread.
Locked(kind) ==
    \/ kind = "wc" /\ dpc = "wildcards"
    \/ kind = "sub" /\ dpc = "subs"

\* Subscribers are destroyed on the callback thread of their queue. What
\* endpointPool_unregister, unregisterWildcard and unregisterInbox have in common:
Unregister(q, a) ==
    /\ cpc[q] = "idle"
    /\ heap[a].queue = q
    /\ registry' = [registry EXCEPT ![heap[a].kind] = @ \ {a}]
    /\ heap' = [heap EXCEPT ![a].stage = "unregistered"]
    /\ cpc' = [cpc EXCEPT ![q] = "destroy"]
    /\ target' = [target EXCEPT ![q] = a]
    /\ UNCHANGED <<uid, control, interest, wire, published, dispatchVars, queue,
                   event, delivered>>

\* zmqBridgeMamaSubscription_destroy: unregister under the lock of the registry ...
DestroySubscription(q, a) ==
    /\ heap[a].stage = "live"
    /\ heap[a].kind # "inbox"
    /\ ~Locked(heap[a].kind)
    /\ Unregister(q, a)

\* zmqBridgeMamaInbox_destroy: nobody holds mInboxesLock for more than one step ...
DestroyInbox(q, a) ==
    /\ heap[a].stage = "live"
    /\ heap[a].kind = "inbox"
    /\ Unregister(q, a)

\* ... then tell the application, unsubscribe through the dispatch thread, free.
Release(q) ==
    /\ cpc[q] = "destroy"
    /\ LET s == heap[target[q]]
       IN  \/ s.kind = "inbox" /\ UNCHANGED control
           \/ s.kind # "inbox" /\ SendCommand("U", s.key)
    /\ heap' = [heap EXCEPT ![target[q]] = Freed]
    /\ cpc' = [cpc EXCEPT ![q] = "idle"]
    /\ target' = [target EXCEPT ![q] = NoAddress]
    /\ UNCHANGED <<uid, registry, interest, wire, published, dispatchVars,
                   queue, event, delivered>>

-----------------------------------------------------------------------------
Application ==
    \E a \in Addresses :
        \/ \E q \in Queues :
              \/ \E t \in Topics : Create("sub", t, q, a)
              \/ \E w \in Wildcards : Create("wc", w, q, a)
              \/ CreateInbox(q, a)
        \/ SendSubscribe(a)
        \/ Mute(a)

DispatchThread ==
    \/ Poll \/ DispatchControlMsg \/ ControlDrained
    \/ Filtered \/ DispatchInboxMsg \/ DispatchSubMsg
    \/ QueueWildcard \/ WildcardsDone \/ QueueUpdate \/ SubsDone \/ DataDrained

CallbackStep(q) == DispatchEvent(q) \/ Deliver(q) \/ Release(q)

Next ==
    \/ Application
    \/ PublishTopic \/ PublishReply
    \/ DispatchThread
    \/ \E q \in Queues :
          \/ CallbackStep(q)
          \/ \E a \in Addresses : DestroySubscription(q, a) \/ DestroyInbox(q, a)

Spec == Init /\ [][Next]_vars

\* The dispatch thread and the callback threads run whenever they can.
FairSpec == Spec /\ WF_vars(DispatchThread) /\ \A q \in Queues : WF_vars(CallbackStep(q))

-----------------------------------------------------------------------------
Subscribers ==
    [stage : {"registered", "live", "unregistered"}, kind : {"sub", "wc"},
     key : Keys, queue : Queues, id : Nat, mIsNotMuted : BOOLEAN]

Inboxes ==
    [stage : {"live", "unregistered"}, kind : {"inbox"}, queue : Queues, id : Nat]

Events == [kind : Kinds, id : Nat, num : Nat]

Messages ==
    [to : {"topic"}, topic : Topics, num : Nat] \cup [to : {"inbox"}, id : Nat, num : Nat]

TypeOK ==
    /\ heap \in [Addresses -> Subscribers \cup Inboxes \cup {Freed}]
    /\ uid \in [Kinds -> Nat]
    /\ registry \in [Kinds -> SUBSET Addresses]
    /\ control \in Seq([command : {"S", "U"}, key : Keys])
    /\ interest \in [Keys -> Nat]
    /\ wire \in Seq(Messages)
    /\ published \in Nat
    /\ dpc \in {"poll", "control", "data", "wildcards", "subs"}
    /\ revents \subseteq {"control", "data"}
    /\ current \in Messages \cup {Nothing}
    /\ todo \subseteq Addresses
    /\ queue \in [Queues -> Seq(Events)]
    /\ cpc \in [Queues -> {"idle", "found", "destroy"}]
    /\ event \in [Queues -> Events \cup {Nothing}]
    /\ target \in [Queues -> Addresses \cup {NoAddress}]
    /\ delivered \in Seq(Events)

\* The subscriber at a is in its registry, and neither freed nor being destroyed.
Usable(a, kind) ==
    /\ heap[a].stage \in {"registered", "live"}
    /\ heap[a].kind = kind

\* No thread is left with a pointer to a subscriber that destroy has released:
\* the dispatch thread, which works through the subscribers of a message under
\* mWcsLock and mSubsLock; the callback thread, which has found its subscriber
\* without holding on to any lock, and which never takes a subscriber that
\* happens to reuse the memory of the addressee for the addressee itself.
NoUseAfterFree ==
    /\ \A k \in Kinds : \A a \in registry[k] : Usable(a, k)
    /\ dpc = "wildcards" => \A a \in todo : Usable(a, "wc")
    /\ dpc = "subs" => \A a \in todo : Usable(a, "sub")
    /\ \A q \in Queues : cpc[q] = "found" =>
          /\ Usable(target[q], event[q].kind)
          /\ heap[target[q]].id = event[q].id
          /\ heap[target[q]].queue = q

Pending(c, k, n) == Cardinality({i \in 1..n : control[i] = [command |-> c, key |-> k]})

\* The subscribers whose "S" has been sent and whose "U" has not.
Holding(k) ==
    {a \in Addresses : /\ heap[a].stage \in {"live", "unregistered"}
                       /\ heap[a].kind # "inbox"
                       /\ heap[a].key = k}

\* Commands reach the data socket later than the calls that send them, from many
\* threads; still its reference count for a key is, once the pending commands are
\* applied, the number of subscribers of that key, and no unsubscribe ever
\* overtakes the subscribe it undoes.
InterestMatchesSubscribers ==
    \A k \in Keys :
        /\ interest[k] + Pending("S", k, Len(control)) - Pending("U", k, Len(control))
              = Cardinality(Holding(k))
        /\ \A n \in 0..Len(control) : interest[k] + Pending("S", k, n) >= Pending("U", k, n)

\* A subscriber gets the messages meant for it in the order in which the data
\* socket received them, none of them twice.
DeliveredInOrder ==
    \A i, j \in 1..Len(delivered) :
        /\ i < j
        /\ delivered[i].kind = delivered[j].kind
        /\ delivered[i].id = delivered[j].id
        => delivered[i].num < delivered[j].num

\* The subscriber at a is in service and wants messages.
InService(a) ==
    /\ heap[a].stage = "live"
    /\ heap[a].kind # "inbox" => heap[a].mIsNotMuted

\* A message for the subscriber at a has reached the data socket, on which the
\* subscription has taken effect.
Wanted(a, num) ==
    /\ InService(a)
    /\ \E i \in DOMAIN wire :
          /\ wire[i].num = num
          /\ \/ /\ heap[a].kind = "inbox" /\ wire[i].to = "inbox"
                /\ wire[i].id = heap[a].id
             \/ /\ heap[a].kind # "inbox" /\ wire[i].to = "topic"
                /\ Pending("S", heap[a].key, Len(control)) = 0
                /\ \/ heap[a].kind = "sub" /\ wire[i].topic = heap[a].key
                   \/ /\ heap[a].kind = "wc"
                      /\ wire[i].topic \in Covers[heap[a].key] \cap Accepts[heap[a].key]

HasHeard(a, num) ==
    \E i \in 1..Len(delivered) :
        delivered[i] = [kind |-> heap[a].kind, id |-> heap[a].id, num |-> num]

\* Whatever other subscribers of the same topic do, a message that has reached
\* the data socket after the subscription took effect is eventually delivered
\* to the subscriber, unless the latter is muted or destroyed first.
SubscriberHears ==
    \A a \in Addresses, num \in 1..MaxMessages :
        Wanted(a, num) ~> ~InService(a) \/ HasHeard(a, num)
=============================================================================
