--------------------------- MODULE RequestReply ---------------------------
(***************************************************************************)
(* Messages, requests and replies (msg.c, publisher.c, inbox.c): a request *)
(* carries the reply handle of the inbox it is sent from; the receiver     *)
(* sends its reply with that handle as the subject, either at once from    *)
(* the request or later from a duplicate of the handle.                    *)
(*                                                                         *)
(* A message is serialized into subject, type, reply address and payload,  *)
(* and deserialized into the one bridge message that its queue keeps for   *)
(* all the messages dispatched from it.  The payload stands for itself: it *)
(* has a number, and a reply the number of the message it answers.         *)
(* Inboxes are named by their reply handles, which are never reused.       *)
(***************************************************************************)
EXTENDS Integers, Sequences

CONSTANTS Queues,      \* event queues, each with its callback thread
          Servers,     \* the queues with a subscription to the subject
          Inboxes,
          InboxQueue,  \* the queue of each inbox
          Subject,     \* the subject of requests and plain messages
          NoHandle,    \* the empty string
          MaxSent      \* bound: requests and plain messages sent

ASSUME RequestReplyAssumption ==
    /\ Servers \subseteq Queues
    /\ InboxQueue \in [Inboxes -> Queues]
    /\ Subject \notin Inboxes
    /\ NoHandle \notin Inboxes
    /\ MaxSent \in Nat

VARIABLES sent,      \* number of requests and plain messages sent so far
          requests,  \* history: the requests, with the inbox each was sent from
          wire,      \* serialized messages on their way to each queue
          cached,    \* the bridge message of each queue
          payload,   \* the payload it was given last
          cpc,       \* where each callback thread is
          saved,     \* duplicates of reply handles, with the number of the request
          answers,   \* history: the answers that each inbox was given
          discarded  \* history: answers that an inbox refused

requestVars == <<sent, requests, wire, cached, payload, cpc, saved, answers, discarded>>

Handles == Inboxes \cup {NoHandle}
MsgTypes == {"PUB_SUB", "INBOX_REQUEST", "INBOX_RESPONSE"}
BridgeMsgs == [mMsgType : MsgTypes, mReplyHandle : Handles]

\* zmqBridgeMamaMsgImpl_init
MsgInit == [mMsgType |-> "PUB_SUB", mReplyHandle |-> NoHandle]

RequestInit ==
    /\ sent = 0
    /\ requests = {}
    /\ wire = [q \in Queues |-> <<>>]
    /\ cached = [q \in Queues |-> MsgInit]
    /\ payload = [q \in Queues |-> 0]
    /\ cpc = [q \in Queues |-> "idle"]
    /\ saved = {}
    /\ answers = {}
    /\ discarded = {}

-----------------------------------------------------------------------------
\* Plausible errors in the definitions that follow.

DuplicateReplyHandleLost(q) ==
    /\ cpc[q] = "callback"
    /\ cpc' = [cpc EXCEPT ![q] = "idle"]
    /\ UNCHANGED <<sent, requests, wire, cached, payload, saved, answers, discarded>>

DeserializeKeepingHandle(msg, m) ==
    [mMsgType |-> m.type,
     mReplyHandle |-> IF msg.mReplyHandle = NoHandle /\ m.type = "INBOX_REQUEST"
                      THEN m.reply ELSE msg.mReplyHandle]

-----------------------------------------------------------------------------
\* zmqBridgeMamaMsgImpl_serialize: only a request carries its reply address.
Serialize(msg, subject, num) ==
    [subject |-> subject, type |-> msg.mMsgType, num |-> num,
     reply |-> IF msg.mMsgType = "INBOX_REQUEST" THEN msg.mReplyHandle ELSE NoHandle]

\* zmqBridgeMamaMsgImpl_deserialize, into a message that has been used before: a
\* plain message leaves the reply handle as it is.
Deserialize(msg, m) ==
    [mMsgType |-> m.type,
     mReplyHandle |-> CASE m.type = "INBOX_REQUEST" -> m.reply
                        [] m.type = "INBOX_RESPONSE" -> m.subject
                        [] OTHER -> msg.mReplyHandle]

IsFromInbox(msg) == msg.mMsgType = "INBOX_REQUEST" \/ msg.mReplyHandle # NoHandle

\* Whom the subscriptions and inboxes make libzmq and the dispatch thread give a
\* message to.
Receivers(subject) ==
    IF subject = Subject THEN Servers ELSE {InboxQueue[i] : i \in Inboxes \cap {subject}}

\* zmqBridgeMamaPublisherImpl_sendSubject
SendSubject(msg, subject, num) ==
    wire' = [q \in Queues |->
               IF q \in Receivers(subject)
               THEN Append(wire[q], Serialize(msg, subject, num))
               ELSE wire[q]]

-----------------------------------------------------------------------------
\* Applications send plain messages and requests.

Send ==
    /\ sent < MaxSent
    /\ sent' = sent + 1
    /\ SendSubject(MsgInit, Subject, sent + 1)
    /\ UNCHANGED <<requests, cached, payload, cpc, saved, answers, discarded>>

SendFromInbox(i) ==
    /\ sent < MaxSent
    /\ sent' = sent + 1
    /\ SendSubject([mMsgType |-> "INBOX_REQUEST", mReplyHandle |-> i], Subject, sent + 1)
    /\ requests' = requests \cup {[inbox |-> i, num |-> sent + 1]}
    /\ UNCHANGED <<cached, payload, cpc, saved, answers, discarded>>

-----------------------------------------------------------------------------
\* The callback thread of a queue.

\* subCallback: unpack the message and call the subscription.
SubCallback(q) ==
    /\ cpc[q] = "idle"
    /\ wire[q] # <<>>
    /\ Head(wire[q]).subject = Subject
    /\ wire' = [wire EXCEPT ![q] = Tail(@)]
    /\ cached' = [cached EXCEPT ![q] = Deserialize(@, Head(wire[q]))]
    /\ payload' = [payload EXCEPT ![q] = Head(wire[q]).num]
    /\ cpc' = [cpc EXCEPT ![q] = "callback"]
    /\ UNCHANGED <<sent, requests, saved, answers, discarded>>

\* inboxCallback and onMsg: an inbox refuses what does not bear its own handle.
InboxCallback(q) ==
    /\ cpc[q] = "idle"
    /\ wire[q] # <<>>
    /\ Head(wire[q]).subject \in Inboxes
    /\ wire' = [wire EXCEPT ![q] = Tail(@)]
    /\ cached' = [cached EXCEPT ![q] = Deserialize(@, Head(wire[q]))]
    /\ payload' = [payload EXCEPT ![q] = Head(wire[q]).num]
    /\ LET i == Head(wire[q]).subject
           answer == {[inbox |-> i, num |-> Head(wire[q]).num]}
       IN  \/ /\ cached'[q].mReplyHandle = i
              /\ answers' = answers \cup answer
              /\ UNCHANGED discarded
           \/ /\ cached'[q].mReplyHandle # i
              /\ discarded' = discarded \cup answer
              /\ UNCHANGED answers
    /\ UNCHANGED <<sent, requests, cpc, saved>>

\* sendReplyToInboxHandle
SendReply(handle, num) ==
    SendSubject([mMsgType |-> "INBOX_RESPONSE", mReplyHandle |-> handle], handle, num)

\* sendReplyToInbox, from the subscription's callback, which asks isFromInbox first.
SendReplyToInbox(q) ==
    /\ cpc[q] = "callback"
    /\ IsFromInbox(cached[q])
    /\ SendReply(cached[q].mReplyHandle, payload[q])
    /\ cpc' = [cpc EXCEPT ![q] = "idle"]
    /\ UNCHANGED <<sent, requests, cached, payload, saved, answers, discarded>>

\* duplicateReplyHandle, to reply after the callback has returned.
DuplicateReplyHandle(q) ==
    /\ cpc[q] = "callback"
    /\ IsFromInbox(cached[q])
    /\ saved' = saved \cup {[handle |-> cached[q].mReplyHandle, num |-> payload[q]]}
    /\ cpc' = [cpc EXCEPT ![q] = "idle"]
    /\ UNCHANGED <<sent, requests, wire, cached, payload, answers, discarded>>

SendReplyToInboxHandle ==
    /\ \E s \in saved :
          /\ SendReply(s.handle, s.num)
          /\ saved' = saved \ {s}
    /\ UNCHANGED <<sent, requests, cached, payload, cpc, answers, discarded>>

\* Not a request: nothing to reply to.
CallbackDone(q) ==
    /\ cpc[q] = "callback"
    /\ ~IsFromInbox(cached[q])
    /\ cpc' = [cpc EXCEPT ![q] = "idle"]
    /\ UNCHANGED <<sent, requests, wire, cached, payload, saved, answers, discarded>>

-----------------------------------------------------------------------------
CallbackStep(q) ==
    \/ SubCallback(q) \/ InboxCallback(q)
    \/ SendReplyToInbox(q) \/ DuplicateReplyHandle(q) \/ CallbackDone(q)

RequestNext ==
    \/ Send
    \/ \E i \in Inboxes : SendFromInbox(i)
    \/ \E q \in Queues : CallbackStep(q)
    \/ SendReplyToInboxHandle

RequestSpec == RequestInit /\ [][RequestNext]_requestVars

\* Callback threads run, and applications reply to what they are asked (as
\* examples/rep.cpp does), at once or later.
RequestFairSpec ==
    /\ RequestSpec
    /\ \A q \in Queues : WF_requestVars(CallbackStep(q))
    /\ WF_requestVars(SendReplyToInboxHandle)

-----------------------------------------------------------------------------

\* The answer to a request is given to the inbox that sent the request and to no
\* other, and that inbox does not refuse it: although the queue's one bridge
\* message is overwritten by whatever is dispatched next, a reply never takes the
\* reply handle of another message, neither when it is sent from the callback nor
\* when it is sent from a duplicated handle.
RepliesReachRequester ==
    /\ discarded = {}
    /\ \A a \in answers, r \in requests : a.num = r.num => a = r

\* Every request is eventually answered at its inbox, however the messages, the
\* requests and the replies of several parties are interleaved.
RequestIsAnswered ==
    \A i \in Inboxes, n \in 1..MaxSent :
        [inbox |-> i, num |-> n] \in requests ~> [inbox |-> i, num |-> n] \in answers
=============================================================================
