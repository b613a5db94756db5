# A TLA+ verification of OZ

OZ is an OpenMAMA middleware bridge over ZeroMQ, written in C (`src/src`). This directory
holds TLA+ models of its concurrent parts, of its naming of subjects and of the C++ classes
that come with it (`src/examples/ozimpl.cpp`), the TLC configurations that check them on small
instances, and TLAPS proofs for the parts where a general argument is feasible.

## The system

| Part | Source | What it does | Model |
|---|---|---|---|
| Event queue | `uqueue.c` | locked list with a counting semaphore, items from a free list that grows by chunks | `UQueue`, `EventFifo` |
| Queue bridge | `queue.c` | dispatch loops, stopping, watermarks, activation, enqueue callback, destruction | `BridgeQueue` |
| Subscriptions, wildcards, inboxes | `subscription.c`, `inbox.c`, `transport.c` | registration, interest at the SUB socket, lookup and delivery | `Subscription` |
| Discovery | `transport.c`, `nsd.c` | announcements through proxies, a full mesh of connections, beacons | `Naming` |
| Transport life | `transport.c` | creation and destruction with the dispatch, publishEndpoints and monitor threads | `Lifecycle` |
| Socket monitor | `transport.c` | thread that logs socket events | `Lifecycle` |
| Timers | `timer.c` | timers over OpenMAMA's timer heap, actions on queues | `Timer` |
| Messages, requests, replies | `msg.c`, `publisher.c`, `inbox.c` | reply handles, serialisation, replies at once or later | `RequestReply` |
| Subject keys, wildcard patterns | `subscription.c`, `publisher.c`, `transport.c`, `examples/ozimpl.cpp` | keys in a bounded buffer, prefixes and regexes of wildcards, hierarchical topics | `Topics` |
| Parameters, endpoints without naming | `params.c`, `transport.c` | properties with defaults and minima; bind or connect | `Params`, used by `Lifecycle` |
| C++ classes | `examples/ozimpl.cpp`, `ozimpl.h` | connections, sessions, requests, replies, shared publishers | `OzClient`, `Topics` |
| Bridge open and close | `bridge.c` | default queue and timer heap | not modelled |
| Stubs, benchmarks, example programs, scripts | `io.c`, `notimpl.c`, `queuebench.c`, `nail.c`, `hammer.c`, `examples/`, `scripts/` | no state of the bridge | not modelled |

The threads are: the application's, which create, mute, publish and destroy; one *dispatch
thread* per transport, which owns the SUB sockets and takes commands from an inproc
socket; one *callback thread* per event queue; a *publishEndpoints* thread per welcome
message; the timer heap's thread; and the monitor's thread. A data message goes from the
SUB socket to the dispatch thread, which finds the subscribers and puts an event per
subscriber on the event queues; a callback thread takes the event, looks the subscriber
up again by its identifier and delivers. Discovery messages go through a proxy (`nsd`)
to every transport, the sender included.

## Modules

Definitions have the names of the C functions and fields they stand for where TLA+ allows
it. Everything a thread does while holding a lock that all readers and writers of the data
take is one step; where the code leaves data unprotected the model has one step per access.
Strings, addresses and payloads are model values, except in `Topics`. Each module has a section
"plausible errors": variants of its definitions under which the checked properties fail.

**`UQueue`, `EventFifo`, `ThreadProofs`.** `UQueue` has the list, the free count, the
allocated items, the semaphore and the position of every reader in `uQueue_dispatchInt`.
A reader passes the semaphore in one step (`SemWait`) and removes the head in another
(`Remove`), which is where the code is delicate: `uQueueImpl_allocChunk` reads the
semaphore as the size of the queue. `EventFifo` is what users of the queue rely on: a
FIFO that refuses only when fewer than a chunk of slots is left. `UQueue` implements it
with `list`, `held`, `accepted` and `status` as the abstract variables.

**`BridgeQueue`, `BridgeQueueProofs`.** Threads in `dispatch` (`Loopers`), in `timedDispatch` or
`dispatchEvent` (`Pollers`; which thread does what is chosen in the initial state) and
threads that enqueue (`Callers`) around a FIFO that holds
`MaxSize` events. The real queue may refuse a little earlier, when the next chunk does
not fit (see `EventFifo`). The application sets watermarks before the queue is used, and
destroys the queue only when no thread is about to enter it: `uqueue.c` demands that
("Clients should make sure that all dispatchers are stopped"). `uQueue_destroy` frees what is
left on the queue; `Stranded` counts the copies of messages that nothing will close.

**`Subscription`, `SubscriptionProofs`.** Subscribers are heap objects whose addresses are reused and whose
identifiers are not. The dispatch thread drains the control socket and then the data
socket after each poll, and goes through the registered subscribers step by step, holding
`mWcsLock` or `mSubsLock`; callback threads look up, deliver and destroy. `endpointPool`
is taken to be linearizable, and queues are neither full nor inactive here (that is
`BridgeQueue`'s subject). What is delivered is kept as a sequence (`delivered`), so that a
message that comes twice or too late is seen. libzmq filters by prefix and counts subscriptions per key;
both are modelled as such and marked external.

**`Naming`, `NamingProofs`.** Every transport has its table of peers (by uuid) and the connections of its
data socket (by endpoint). A pipe from each sender through each proxy to each receiver is
ordered, drops at `HWM`, and loses what is in it when the proxy restarts. Transports
start, stop in the order of `stop` and `destroy`, or crash; `MaxUpheavals` bounds these and the
restarts of proxies together. A publishEndpoints thread sends (`PublishSend`) and reads
`mNamingConnected` afterwards (`PublishCheck`), with the dispatch thread at work in between; it
goes on while the dispatch thread does, ends when it is connected, or runs out of retries
(`PublishGiveUp`, recorded in `gaveUp`). A connection that is refused
is given up, as `ZMQ_RECONNECT_STOP` asks. With `PortReuse` the operating system may hand
out the port of an ended process again.

**`Lifecycle`, `Params`, `ThreadProofs`.** One transport, its threads, flags, semaphore
and sockets, from `init` to the `free` in `destroy`, or to an error of `create`: an
endpoint that is invalid or cannot be bound, or the naming service not reached in time.
What `mama.properties` says (`properties`) is chosen in the initial state; `Params` has the
operators of `params.c` that turn it into `mIsNaming`, `mSocketMonitor`,
`mNamingWaitForConnect`, `mNamingConnectRetries` and the endpoints of a transport without
naming, and `bindOrConnect`'s choice for each endpoint. `Welcomes` bounds the welcome
messages; `SleepOutlasts` says whether the sleep in `destroy` is long enough for
publishEndpoints threads to see that they should end.

**`Timer`, `CallbackProofs`.** Elements of the heap, events on the queue, and calls of `reset`
that are between the check of `mDestroying` and the heap's lock. The heap's thread runs
`timerCallback` with the heap locked.

**`RequestReply`, `CallbackProofs`.** A bridge message per queue, overwritten by each
message dispatched; requests from inboxes, replies from the message itself or from a duplicated handle.

**`Topics`, `TopicsProofs`.** A subscription is created, a publisher is created, and a message is dispatched:
`generateSubjectKey`, `buildSendSubject`, `ws2posix`, the prefix of `createWildCard`, the
test of `dispatchNormalMsg` for the prefix of reply handles (`_INBOX`), which takes a message away
from all subscribers, and the comparison in `dispatchSubMsg`, over texts that are sequences of tokens. A token is a
character or one of the regex pieces that the code writes. What names mean is defined
separately (`Joined`, `Covers`): parts joined by periods, patterns that cover a subject
level by level. `regexec` is modelled for those pieces and marked external.

**`OzClient`, `OzRequestProofs`, `OzClientProofs`.** A client with application threads and a
session, and a server with sessions that reply. Requests are sent, waited for, sent again and
destroyed, by the application (as in `req2.cpp`) or by `onReply` (as in `req.cpp`), or have no
sink. A publisher has a set of owners; the map `pubs_` of a connection refers to it weakly.
`getPublisher` searches the map (`FindPublisher`) and locks the weak pointer that it finds
(`LockPublisher`, `LockExpired`) in separate steps, and dropping the last owner and erasing the
topic are separate steps as well. An entry erased between the two (`entry`) leaves the thread
with a dangling iterator: it may lock what is there now, get null, or crash (`LockDangling`).
`send` does not test what it got (`SendNull`). A process that crashes does nothing more. A reply
may be lost, a timeout may race it, and `waitReply` may return an error of the semaphore instead
(`WaitError`). The reply to an inbox that is gone is dropped (`InboxCallback`), and `msgCB` does
nothing for a request without a sink (`MsgIgnored`). That an application sends a request again
(`Retry`) is a use that the class allows. With `Careful`, it does not destroy a request while its
callback runs.

`MCSubscription`, `MCNaming`, `MCRequestReply`, `MCLifecycle` and `MCTopics` add values of
constants and symmetry.

## Runs

All runs allow the system to stop (`CHECK_DEADLOCK FALSE`): every bound is reached and
every object is eventually destroyed; that threads do not wait in vain is stated by
liveness properties instead. Symmetry is used in safety runs only.

Runs in which every property holds:

| Run | Instance | Shows |
|---|---|---|
| `uqueue` | 2 readers, maximum 3, initial 1, chunks of 2, 6 events | semaphore and list agree, order, capacity, dispatch of all that is accepted, refinement of `EventFifo` |
| `bridge_queue` | 2 threads that dispatch either way, 1 producer, 3 events, 1 copy | low watermark reached exactly (loops only), destroy after dispatch, a stopped loop ends, copies lost only where a queue refuses them or is destroyed |
| `subscription` | 2 addresses, 2 queues; at most 2 subscribers, 2 messages and 3 of both | no use of freed subscribers, socket interest equals subscribers, messages in order and none twice, delivery |
| `naming_tables` | 2 transports, 1 proxy, beacons, 1 upheaval: a restart, a stop or a crash | table and connections agree; settled discovery without a restart and without a thread that gave up is complete |
| `timer` | 2 timers, 3 elements, 2 intervals, queue of 2 | no use after free, armed once, interval kept, destruction reported |
| `lifecycle` | 4 configurations with naming and 24 without, 2 welcomes, default of 3 and minimum of 2 retries | destroy joins the threads it knows of; create and destroy end; a welcome is answered for every positive number of retries |
| `request_reply` | 2 queues, 2 inboxes, 3 messages | replies reach the requester, requests are answered |
| `oz_client` | 1 application thread, 1 session, 2 replying threads, 2 requests, 1 retry | nothing deleted is used, unused publishers go away, what waitReply returns is true of this send, answered requests are deleted |
| `topics` | all patterns of 4 characters over `a / * .`, regexes of 3 pieces, names with roots and sources around a buffer of 7; all subjects of 4 characters | replies aside: plain subscribers hear their name, cut or not, and no other if it fits; prefixes of anchored regexes hide nothing; hierarchical patterns with a `*` that is not their first character (`Supported`) hear what they cover, and nothing else if they have no `.` but a trailing `*/.` (`Literal`) |

The bounds are the smallest at which the cases meet: two readers between semaphore and
lock with the queue one chunk below its maximum; two subscribers, of which the second shares the
topic of the first or takes over its address while an event for it is queued, and two messages, so
that there is an order to keep; a restart, a stop or a crash at any point of discovery (with a
restart and a departure in one behaviour the run has 5.6 million states; the properties
held there too); more timer events than the queue holds; two
welcome messages, so that two publishEndpoints threads overlap; retries at, below and above
their minimum, and negative; two requests and one retry, so that a late reply meets the
second send while a callback drops another owner of the publisher; patterns long enough
for two wildcards, or one and a trailing `/.`, and names that exceed the buffer by one part.
The real minimum of `connect_retries` is 10 and its default 100: what matters is that both
are above 1, for the counter is decremented before it is tested.

The runs in which the code departs from what a comment or a document says (findings in
`PROJECT.json`):

| Run | What happens |
|---|---|
| `lifecycle_overlap` | destroy joins only the publishEndpoints thread started last; an earlier one, started by an earlier welcome message, goes on with closed sockets and freed memory (`transport.c:212`) |
| `naming_beacons` | before the first beacon the timeout of `zmq_poll` is the time since the epoch (`transport.c:503`), and whether a beacon is due is tested only when the poll returns. A transport whose naming messages have all arrived within the first interval, and that receives nothing else, never sends a beacon: `doc/Naming-Service.md:72` has it "continually" publish one. (2 transports, 1 proxy, nobody leaves; under `FairSpec`) |
| `oz_sharing` | the publisher `_INBOX` has lost its last owner and is still in the map when another server thread replies: it gets null from `lock()` (`ozimpl.cpp:48`) and sends no reply (`ozimpl.cpp:330`). In a client it is `send` that gets null, when the callback of another request drops the last owner, and calls through it (`ozimpl.cpp:267`); or the iterator dangles. `examples/Readme.md:130` says that publishers "can be shared among all threads" |

### Where the assumptions are needed

The following variations of the runs above make TLC report the property violated.

| Property | Variation | What happens |
|---|---|---|
| `LowWatermarkReported` | without `Loopers = Threads` | two threads in `timedDispatch` or `dispatchEvent` take an event each between two checks, and the count steps over the mark, which is compared for equality (`queue.c:452`) |
| `SettledMesh` | `naming_tables` without beacons and upheavals, with 2 proxies and `HWM = 2` | `mNamingConnected` is set by an echo through either proxy and stops the announcements through the other |
| `SettledMesh` | without the condition on `gaveUp` | all announcements are sent before the connection to the proxy is up; then it takes a beacon to be known, which the transport may not send (`naming_beacons`) |
| `TableMatchesConnections` | `naming_tables` with 3 transports, `PortReuse` and no beacons | a disconnect message names an endpoint that has been given to a new process, whose connection is dropped (`transport.c:690`), against `doc/Reconnects-Heartbeats.md:42` |
| `NoUseAfterFree` of `Timer` | `Apps = {a1}` | a reset passes the check of `mDestroying`, waits for the heap's lock, and arms the timer again after `destroy` has disarmed it (`timer.c:289`, `timer.c:174`) |
| `NoUseAfterFree` of `OzClient` | `Careful = FALSE` | the application, woken by `wsem_post`, destroys the request while `msgCB` goes on to `onReply` (`ozimpl.cpp:297`) |
| `WelcomeIsAnnounced` | without the condition on `connect_retries` | 0 or less stays 0, nothing is announced, and a `create` that waits times out (`params.c:75`) |
| `HierarchyHearsWhatItCovers` | without `Supported`, or without `Literal` | see the patterns below |
| the properties of `Topics` | without the conditions on `IsReply` | a topic or pattern that begins with `_INBOX` is subscribed to and never heard (`transport.c:742`) |

### Other divergences

These are in the models as they are in the code, and no property is stated about them.

* `transport.c:770`: a message copied for a full or inactive queue (`queue.c:299`,
  `queue.c:319`), or left on a queue that is destroyed (`uqueue.c:126`), is never closed,
  against the comment "queue up message, callback will free". `OnlyRefusedCopiesAreLost`
  says that there are no other such cases.
* `ozimpl.cpp:420`: a hierarchical topic that begins with `*` and one that only ends in `/.`
  hear nothing: the prefix that `createWildCard` derives contains text of the regex
  (`[^_][^/]*`), or the topic twice, because `ws2posix` appends to a string that already
  holds it.
* `ozimpl.cpp:443`: the trailing `/.` of `a*a/.` becomes `.*` without the slash, so that the
  pattern hears `aba.` as well; a `.` elsewhere in a topic stands for any character.
* `subscription.c:113`: a regex without `^` is narrowed to its prefix, and one with other
  wildcards than `[^/]+` and a trailing `/.*` hears only subjects that contain the regex's
  own text. For the regex `.*` alone, `subscription.c:122` reads a byte before the text.
* `subscription.c:361`: a root and source that exceed the buffer make the count of remaining
  bytes wrap around; `Topics` takes them to fit.
* `ozimpl.cpp:103`: an unspecified topic with a `.` is taken for a regex.
* `examples/wc2.cpp`: its topic (`prefix/*` by default) is passed on without `wcType::WS`, so that it
  is taken for a POSIX regex, not for the hierarchical pattern that it looks like: `prefix/*` is
  "prefix" followed by slashes, and as a prefix for libzmq, the literal text `prefix/*`.
* `transport.c:742`: a message whose subject begins with `_INBOX` goes to the inboxes only; neither a
  plain subscriber to such a topic nor a wildcard that matches it hears it.
* `ozimpl.cpp:295`: a reply to a request without a sink does not post the semaphore, so that
  `waitReply` for it always times out.
* `ozimpl.cpp:54`: two threads that find no publisher create one each; the map refers to the
  second, and the first to be dropped takes the topic out of the map.
* `ozimpl.cpp:297`: `onReply` runs after `wsem_post`; a thread that waits for the reply may
  go on before `onReply` has stored it, as `req2.cpp` does.
* `params.c:229`: `incoming_url_1` is not read unless there is an `incoming_url_0`, against
  `doc/Configuration.md:47`.
* `transport.c:353`: when `create` fails after this line, the monitor's thread goes on, the
  sockets stay open and nothing is freed; after a timeout so does the dispatch thread.
* `queue.c:457`: a high watermark that was never set is 0, so the first dispatch reports it.
* `queue.c:188`: a `stopDispatch` before `dispatch` has set `mIsDispatching` is overwritten.
* `queue.c:302`: the enqueue callback and its closure are read and written separately and
  without a lock.
* `subscription.c:331`: a subscription is registered without `mSubsLock`.
* `transport.c:517`: a beacon found due before `stop` may follow the disconnect message.
* `transport.c:1533`: a second welcome clears `mNamingConnected`, and `create` may time out
  after it had been connected.
* `transport.c:1535`: `connect_retries = n` gives n - 1 attempts, against
  `doc/Configuration.md:31`.
* `transport.c:219`: `mPublishThread` is joined although it may never have been set.
* `msg.c:365`: a plain message leaves the reply handle of an earlier request in place, and
  `isFromInbox` (`msg.c:94`) then takes it for a request.

## Fairness

* `UQueue`, `BridgeQueue`, `Subscription`, `RequestReply`: weak fairness of the steps of
  threads that are dispatching. They block only in `wsem_wait` and `zmq_poll`, which
  return when there is something to take, and in mutexes that are held for bounded time.
  `RequestReply` also assumes that applications answer what they are asked.
* `Timer`: weak fairness of the heap's thread and of the queue's thread, and strong
  fairness where the queue's thread waits for the heap's lock, which the heap's thread
  takes again and again.
* `Naming`: threads run and connections come up. Reading from a proxy is strongly fair:
  messages that keep arriving are read although a pipe is emptied at times by a restart.
  The poll times out for every beacon but the first, because the timeout of the first is computed
  from zero: `BeaconDue` is fair only once a beacon has been sent. A poll that returns before the
  first interval is over sends none, whence no fairness follows from messages either. Used by
  `naming_beacons` only.
* `Lifecycle`: every thread runs, the application's in `create` and `destroy` included, and
  sleeps end. Nothing makes the application call
  `destroy`, and nothing makes a welcome message arrive.
* `OzClient`: threads in the middle of a call or callback go on, waits time out, and the
  server takes up requests. Nothing makes the application send, retry or destroy.
* `Topics` has safety properties only.

## Proofs

TLAPS checks the following for all values of the constants that satisfy the named
assumptions.

**`ThreadProofs`, event queue** (assumption: finitely many readers, positive chunk sizes). The
inductive invariant (`QueueInv`) is `QueueTypeOK`, `SemaphoreCountsList`, `FifoOrder`, `CapacityBound` and
`HeldInCallback` together. `SemaphoreCountsList` carries the argument: the semaphore plus
the readers past it is the length of the list, so `Remove` never finds the list empty, and
the growth check is wrong by at most the number of readers. From it follow `QueueTypeCorrect`,
`SemaphoreAccounts`, `FifoCorrect`, `CapacityCorrect` and, step by step, `QueueRefinement`.

**`NamingProofs`** (assumption: `~PortReuse`). `TableMatchesConnections` is not inductive
alone. It needs that endpoints of started transports differ (`EndpointsDistinct`), that a
transport that has not started is unknown (`DownIsUnknown`), and that a message under way
has a started sender, one that has said goodbye if it is a disconnect
(`MessagesFollowRun`). Theorems: `TypeCorrect`, `TablesMatch`. The assumption is needed
(see above). `SettledIsMesh` says `SettledMesh`, for any number of transports, with the further
assumption that there is one proxy; with two it is false (see above). A transport is *unheard*
while it is not in its own table. `MeshInv`, which holds until the proxy restarts, says of any two
running transports p and u that p knows u, or a message of u is on its way to p, or one of them
is unheard, or a message of p is on its way to u, who does not know p yet and will answer
(`Meets`); that who has p in its table has told p about itself or will (`Answered`); that a
transport hears itself only over a connection that is up (`LinksOK`); and that an unheard transport
has a thread that is yet to announce it, unless one gave up (`ThreadsOK`), for
`mNamingConnected`, which ends these threads, is set only by a transport that has heard itself. A
message dropped by a full pipe does no harm: such a pipe holds an announcement already.

**`CallbackProofs`, timers** (assumption: `Apps = {}`, only the queue's thread resets timers). The
invariant says what the heap holds at each stage of a timer (`HeapFollowsStage`), that the
event that frees a timer is its last on the queue (`QueueFollowsStage`), and that a waiting
reset knows the current interval (`RequestsAreCurrent`). Theorems: `FreedIsForgotten`,
`TimersAreArmedOnce`, `IntervalsAreKept`. The assumption is needed (see above).

**`BridgeQueueProofs`** (assumption: `None` is no thread). `DestroyIsSafe` and
`LowWatermarkIsReported`, for any number of threads and any size. Both rest on
`LockFollowsLoop`: a thread that calls `dispatch` holds `mDispatchLock` exactly while it is
in the body, so at most one is. The watermark also needs `MarksInOrder` and
`WatermarkPending`: after the high watermark has fired, the thread that is about to take an
event has just seen more events than the low watermark, and nobody else takes one before.
`TypeCorrect` and `CopiesAreClosed` rest on `CopiesOK`: copies are in the hands of threads only in
their callbacks, and those in hand, on the queue and closed are never more than were made. The
lemmas count how the copies on a queue change when one is appended or taken; `Stranded` then
grows only in the steps that `OnlyRefusedCopiesAreLost` allows.

**`ThreadProofs`, life of a transport** (no assumption). `KnownThreadsAreJoined`, for any configurations and
number of welcome messages. The invariant adds that from its join on the dispatch thread has
ended, so that `mPublishThread` no longer changes, and that without a socket monitor there
is no monitor's thread. `TypeCorrect` is proved likewise. `OneWelcomeIsSafe` assumes
`Welcomes <= 1`: the one publishEndpoints thread is then the one that destroy joins, and nothing
that destroy has freed is used. With two, TLC finds the violation of `lifecycle_overlap`: the
theorem says that there is no other cause.

**`CallbackProofs`, replies** (assumption: servers are queues, an inbox has one queue, and
neither the subject nor "no handle" is an inbox). `RepliesAreRouted`, for any queues, inboxes and
number of messages. The invariant follows a request's handle and number together: on the wire
(`WireTruthful`), in the one bridge message that the queue overwrites (`CallbackTruthful`), in
duplicated handles, and in the reply (`HistoryTruthful`). A plain message leaves
the handle of an earlier request in the bridge message, and `isFromInbox` is then true of it.
A reply to it goes to that inbox; it is never taken for the reply to another request, because
no request has a plain message's number.

**`SubscriptionProofs`** (no assumption).
`TypeCorrect` and `ReleasedIsForgotten`, for any addresses, queues and numbers of subscribers
and messages. A callback thread uses the subscriber that it has looked up without holding a
lock. `NoUseAfterFree` therefore needs to know that no two subscribers have one identifier and
none will have one that was given out (`IdsOK`), that an event is on the queue of the
subscriber that it names (`EventsOK`), and that the thread that destroys a subscriber is the
one of that queue (`ThreadsOK`): it does not look up and destroy at the same time. The
dispatch thread is protected by the locks it holds while it goes through the subscribers.
`DeliveriesAreOrdered` follows a subscriber's messages from the socket over the dispatch thread
and the queue to the callback (`OrderInv`): the events for one subscriber are on its queue in the
order of their numbers, behind what has been delivered to it and before what the dispatch thread
is about to enqueue. Deliveries are a sequence: what is appended to it has a greater number than
anything in it for the same subscriber (`NextDelivery`). `InterestIsCounted` is inductive together with `Inv` and the finiteness of the
subscribers of a key (`BalancedOK`), because the property speaks of every prefix of the commands
on their way: each create and destroy changes the subscribers of its key by one and appends one
command, and each command that is applied changes the socket's count by one.

**`OzRequestProofs`, `OzClientProofs`** (assumption: the kinds of threads and owners are distinct
and requests are finitely many). The first module has the lemmas about each step's effect on
requests, messages and semaphores, the second those about publishers and the theorems.
`TypeCorrect`, `WaitingIsTruthful` and `UnusedAreRemoved` hold for any number of application
threads, requests, server threads and resends, and also if the application is not careful;
`NothingFreedIsUsed` assumes `Careful`, which is needed (see above). What each thread has in hand
(`HandsOK`), that a request is in the hand of one application thread at most (`RequestsOK`) and
that a message of a request is in one place at most (`OncePerMessage`) together say that the
semaphore of a request counts replies (`CountsReplies`, `PostsOK`). `PublishersOK` says that an
ownerless publisher is in the hand of exactly the thread that dropped its last owner, whatever the
map refers to by then.

**`TopicsProofs`** (assumption: a root and a source fit the buffer; otherwise the count of remaining
bytes wraps around). `PlainIsHeard`, for names and buffers of any length: a plain subscriber hears
every publisher that has its name, unless it begins like a reply handle, and no others when the
names fit. A name that is cut begins so only if it does in full (`CutReply`). `SubjectKey` carries the
argument: what `generateSubjectKey` returns is the full name, cut where the buffer ends, on both
sides alike. It follows part by part (`AppendPartFollows`) because the position advances by the
whole part even when `snprintf` has cut it.

Only model-checked: all liveness properties (the prover has no rule for fairness and ENABLED), and
what `Topics` says about wildcards (`PrefixHidesNothing`, `HierarchyHearsWhatItCovers`): regexes and
patterns are matched recursively, token by token, and what the matching computes would have to be
shown by induction over the text, for which the prover has no rule.

## Not modelled

* Failures to allocate memory, to start a thread and to send on ZeroMQ sockets, with the
  early returns they cause in `stop` and in the handler of announcements: the sockets are
  PUB or inproc sockets, on which libzmq drops rather than fails.
* `bridge.c`: opening and closing is a sequence of calls on the default queue and the timer
  heap, which belong to OpenMAMA; what `destroyHeap` does to timers that are queued is not
  in this repository.
* `create_usingNative` and accessors; the setters of sizes in `uqueue.c`.
* The contents of messages, log output, intervals, addresses and log levels in `params.c`.
* In `ozimpl.cpp`: data races within a single operation of the map of publishers, and between two
  threads that both create the underlying `mamaPublisher` of a new publisher; timers, signals, the command line, `publish`, and the events of
  subscribers, which only pass calls on.
* The destruction of a transport under events that are still queued.
* libzmq, OpenMAMA's timer heap, `endpointPool`, `wtable`, `wList` and `regexec`: they are
  represented by what the code relies on.

## Plan

1. A composition of `Subscription` with `BridgeQueue`: full and inactive queues, and the
   destruction of a queue or a transport with events pending.
2. Discovery after a restart of the proxy: what beacons would have to guarantee, and the proof that
   the mesh then forms again.
