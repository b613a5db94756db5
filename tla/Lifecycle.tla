----------------------------- MODULE Lifecycle -----------------------------
(***************************************************************************)
(* The life of one transport (transport.c): create starts the socket       *)
(* monitor's thread and the dispatch thread and may wait for the naming    *)
(* service; every welcome message starts a publishEndpoints thread;        *)
(* destroy has to end them all before it closes the sockets and frees the  *)
(* memory that they share.                                                 *)
(*                                                                         *)
(* The w-th welcome message starts the w-th publishEndpoints thread.  A    *)
(* "C" that such a thread sends comes back through the proxy or is lost.   *)
(* Peers are left out: they are the subject of Naming.                     *)
(***************************************************************************)
EXTENDS Params, FiniteSets

CONSTANTS Configurations, \* what mama.properties may say of the transport
          Welcomes,       \* bound: welcome messages in a run
          SleepOutlasts   \* the sleep in destroy outlasts the publishEndpoints threads

ASSUME LifecycleAssumption ==
    /\ Welcomes \in Nat
    /\ SleepOutlasts \in BOOLEAN
    /\ \A p \in Configurations : p.connect_retries \in Int \cup {Unset}

VARIABLES properties,       \* the configuration
          app,              \* where the application's thread is in create or destroy
          tries,            \* retries left to start
          sockets,          \* sockets of the context that are open
          mIsReady,         \* semaphore
          mIsDispatching,
          exitSent,         \* the "X" is on the control socket
          dpc,              \* where the dispatch thread is
          revents,          \* sockets that were readable at the last zmq_poll
          welcomed,         \* welcome messages that have reached namingSub ...
          handled,          \* ... and that have been handled
          echo,             \* a "C" of our own has reached namingSub
          mNamingConnected,
          mPublishThread,   \* the publishEndpoints thread started last, 0 if none
          ppc,              \* where each publishEndpoints thread is
          left,             \* its retries left
          mpc,              \* where the monitor's thread is
          mIsMonitoring,
          monitorEvents,    \* events of the monitored sockets to be read
          monitorExit       \* the "X" is on the monitor's own socket

dispatchVars == <<mIsReady, mIsDispatching, exitSent, dpc, revents>>
namingVars == <<welcomed, handled, echo, mNamingConnected>>
publishVars == <<mPublishThread, ppc, left>>
monitorVars == <<mpc, mIsMonitoring, monitorEvents, monitorExit>>
vars ==
    <<properties, app, tries, sockets, dispatchVars, namingVars, publishVars, monitorVars>>

mIsNaming == IsNaming(properties)
mNamingWaitForConnect == NamingWaitForConnect(properties)
mSocketMonitor == SocketMonitor(properties)
mNamingConnectRetries == NamingConnectRetries(properties)

Publishers == 1..Welcomes

\* The sockets of the transport, and those that belong to the monitor.
TransportSockets ==
    {"control", "data"} \cup (IF mIsNaming THEN {"naming"} ELSE {})
MonitorSockets == {"monitor", "pairs"}

\* calloc, the interlocked variables initialized, and the parameters parsed.
Init ==
    /\ properties \in Configurations
    /\ app = "init"
    /\ tries = mNamingConnectRetries
    /\ sockets = {}
    /\ mIsReady = 0
    /\ mIsDispatching = FALSE
    /\ exitSent = FALSE
    /\ dpc = "none"
    /\ revents = {}
    /\ welcomed = 0
    /\ handled = 0
    /\ echo = FALSE
    /\ mNamingConnected = FALSE
    /\ mPublishThread = 0
    /\ ppc = [w \in Publishers |-> "none"]
    /\ left = [w \in Publishers |-> mNamingConnectRetries]
    /\ mpc = "none"
    /\ mIsMonitoring = FALSE
    /\ monitorEvents = FALSE
    /\ monitorExit = FALSE

-----------------------------------------------------------------------------
\* Plausible errors in the definitions that follow.

JoinPublisherNever ==
    /\ app = "joinPublisher"
    /\ app' = "close"
    /\ UNCHANGED <<properties, tries, sockets, dispatchVars, namingVars, publishVars,
                   monitorVars>>

SendMonitorExitNever ==
    /\ app = "monitorExit"
    /\ app' = "joinMonitor"
    /\ UNCHANGED <<properties, tries, sockets, dispatchVars, namingVars, publishVars,
                   monitorVars>>

PostTwice == mIsReady' = mIsReady + 2

WaitConnectedForever ==
    /\ app = "wait"
    /\ app' = IF ~mNamingConnected THEN "wait" ELSE "checkConnected"
    /\ UNCHANGED <<properties, tries, sockets, dispatchVars, namingVars, publishVars,
                   monitorVars>>

-----------------------------------------------------------------------------
\* The application's thread: create.

\* What init binds or connects once the sockets are open: with naming, the data
\* socket is bound to publish_address.
Attached == IF mIsNaming THEN {"bind", "connect"} ELSE Attachments(properties)

\* zmqBridgeMamaTransportImpl_init: the sockets, and the monitor's thread.  When an
\* endpoint cannot be bound, or is of an unknown type, create returns an error, and
\* what has been started by then goes on without a transport.
CreateSockets ==
    /\ app = "init"
    /\ \/ "invalid" \notin Attached /\ app' = "start"
       \/ Attached \cap {"invalid", "bind"} # {} /\ app' = "failed"
    /\ sockets' = TransportSockets \cup (IF mSocketMonitor THEN {"monitor"} ELSE {})
    /\ mIsMonitoring' = mSocketMonitor
    /\ mpc' = IF mSocketMonitor THEN "start" ELSE "none"
    /\ UNCHANGED <<properties, tries, dispatchVars, namingVars, publishVars,
                   monitorEvents, monitorExit>>

\* zmqBridgeMamaTransportImpl_start: the dispatch thread ...
StartDispatch ==
    /\ app = "start"
    /\ dpc' = "start"
    /\ app' = IF mIsNaming /\ mNamingWaitForConnect THEN "wait" ELSE "running"
    /\ UNCHANGED <<properties, tries, sockets, mIsReady, mIsDispatching, exitSent,
                   revents, namingVars, publishVars, monitorVars>>

\* ... then wait until our own naming message is back, or time is up.
WaitConnected ==
    /\ app = "wait"
    /\ tries' = tries - 1
    /\ app' = IF tries - 1 > 0 /\ ~mNamingConnected THEN "wait" ELSE "checkConnected"
    /\ UNCHANGED <<properties, sockets, dispatchVars, namingVars, publishVars,
                   monitorVars>>

\* mNamingConnected is read once more: MAMA_STATUS_TIMEOUT, or create is done.
CheckConnected ==
    /\ app = "checkConnected"
    /\ app' = IF mNamingConnected THEN "running" ELSE "timeout"
    /\ UNCHANGED <<properties, tries, sockets, dispatchVars, namingVars, publishVars,
                   monitorVars>>

-----------------------------------------------------------------------------
\* The application's thread: destroy.  First zmqBridgeMamaTransportImpl_stop.

\* wait until the dispatch thread is ready to be stopped ...
WaitReady ==
    /\ app = "stop"
    /\ mIsReady > 0
    /\ mIsReady' = mIsReady - 1
    /\ app' = "exit"
    /\ UNCHANGED <<properties, tries, sockets, mIsDispatching, exitSent, dpc, revents,
                   namingVars, publishVars, monitorVars>>

\* ... send "D" and "X" ...
SendExit ==
    /\ app = "exit"
    /\ exitSent' = TRUE
    /\ app' = "joinDispatch"
    /\ UNCHANGED <<properties, tries, sockets, mIsReady, mIsDispatching, dpc, revents,
                   namingVars, publishVars, monitorVars>>

\* ... and wait for its end.  If mNamingConnected is not set, publishEndpoints is
\* taken to be running, and given some time.
JoinDispatch ==
    /\ app = "joinDispatch"
    /\ dpc = "ended"
    /\ app' = IF mIsNaming /\ ~mNamingConnected THEN "sleep" ELSE "joinPublisher"
    /\ UNCHANGED <<properties, tries, sockets, dispatchVars, namingVars, publishVars,
                   monitorVars>>

Sleep ==
    /\ app = "sleep"
    /\ SleepOutlasts => \A w \in Publishers : ppc[w] \in {"none", "done"}
    /\ app' = "joinPublisher"
    /\ UNCHANGED <<properties, tries, sockets, dispatchVars, namingVars, publishVars,
                   monitorVars>>

\* wthread_join on mPublishThread: undefined if no such thread was ever started,
\* it may report an error or crash.
JoinPublisher ==
    /\ app = "joinPublisher"
    /\ \/ mPublishThread = 0 /\ app' \in {"close", "crashed"}
       \/ /\ mPublishThread # 0
          /\ ppc[mPublishThread] = "done"
          /\ app' = "close"
    /\ UNCHANGED <<properties, tries, sockets, dispatchVars, namingVars, publishVars,
                   monitorVars>>

\* Every socket closed tells its monitor so.
CloseSockets ==
    /\ app = "close"
    /\ sockets' = sockets \ TransportSockets
    /\ monitorEvents' = mSocketMonitor
    /\ app' = IF mSocketMonitor THEN "stopMonitor" ELSE "term"
    /\ UNCHANGED <<properties, tries, dispatchVars, namingVars, publishVars, mpc,
                   mIsMonitoring, monitorExit>>

\* zmqBridgeMamaTransportImpl_stopMonitor
StopMonitor ==
    /\ app = "stopMonitor"
    /\ mIsMonitoring' = FALSE
    /\ app' = "monitorExit"
    /\ UNCHANGED <<properties, tries, sockets, dispatchVars, namingVars, publishVars,
                   mpc, monitorEvents, monitorExit>>

SendMonitorExit ==
    /\ app = "monitorExit"
    /\ monitorExit' = TRUE
    /\ app' = "joinMonitor"
    /\ UNCHANGED <<properties, tries, sockets, dispatchVars, namingVars, publishVars,
                   mpc, mIsMonitoring, monitorEvents>>

JoinMonitor ==
    /\ app = "joinMonitor"
    /\ mpc = "ended"
    /\ sockets' = sockets \ {"monitor"}
    /\ app' = "term"
    /\ UNCHANGED <<properties, tries, dispatchVars, namingVars, publishVars, monitorVars>>

\* zmq_ctx_term returns when no socket of the context is open; free.
Terminate ==
    /\ app = "term"
    /\ sockets = {}
    /\ app' = "freed"
    /\ UNCHANGED <<properties, tries, sockets, dispatchVars, namingVars, publishVars,
                   monitorVars>>

\* The application calls destroy.
Destroy ==
    /\ app = "running"
    /\ app' = "stop"
    /\ UNCHANGED <<properties, tries, sockets, dispatchVars, namingVars, publishVars,
                   monitorVars>>

-----------------------------------------------------------------------------
\* The naming service, and libzmq.

Welcome ==
    /\ mIsNaming
    /\ "naming" \in sockets
    /\ welcomed < Welcomes
    /\ welcomed' = welcomed + 1
    /\ UNCHANGED <<properties, app, tries, sockets, dispatchVars, handled, echo,
                   mNamingConnected, publishVars, monitorVars>>

SocketEvent ==
    /\ mSocketMonitor
    /\ TransportSockets \subseteq sockets
    /\ ~monitorEvents
    /\ monitorEvents' = TRUE
    /\ UNCHANGED <<properties, app, tries, sockets, dispatchVars, namingVars,
                   publishVars, mpc, mIsMonitoring, monitorExit>>

-----------------------------------------------------------------------------
\* The dispatch thread.

DispatchStart ==
    /\ dpc = "start"
    /\ mIsDispatching' = TRUE
    /\ dpc' = "post"
    /\ UNCHANGED <<properties, app, tries, sockets, mIsReady, exitSent, revents,
                   namingVars, publishVars, monitorVars>>

Post == mIsReady' = mIsReady + 1

PostReady ==
    /\ dpc = "post"
    /\ Post
    /\ dpc' = "loop"
    /\ UNCHANGED <<properties, app, tries, sockets, mIsDispatching, exitSent, revents,
                   namingVars, publishVars, monitorVars>>

NamingReadable == mIsNaming /\ (handled < welcomed \/ echo)

\* The loop ends, or zmq_poll finds something to read.
Poll ==
    /\ dpc = "loop"
    /\ \/ /\ ~mIsDispatching
          /\ dpc' = "ended"
          /\ UNCHANGED revents
       \/ /\ mIsDispatching
          /\ exitSent \/ NamingReadable
          /\ revents' = (IF exitSent THEN {"control"} ELSE {})
                           \cup (IF NamingReadable THEN {"naming"} ELSE {})
          /\ dpc' = "control"
    /\ UNCHANGED <<properties, app, tries, sockets, mIsReady, mIsDispatching, exitSent,
                   namingVars, publishVars, monitorVars>>

\* The control socket is drained first: "X" ends the loop, but not this round of it.
DrainControl ==
    /\ dpc = "control"
    /\ \/ "control" \in revents /\ exitSent' = FALSE /\ mIsDispatching' = FALSE
       \/ "control" \notin revents /\ UNCHANGED <<exitSent, mIsDispatching>>
    /\ dpc' = IF "naming" \in revents THEN "naming" ELSE "loop"
    /\ UNCHANGED <<properties, app, tries, sockets, mIsReady, revents, namingVars,
                   publishVars, monitorVars>>

\* "W": start a publishEndpoints thread; mPublishThread forgets the one before.
DispatchWelcome ==
    /\ dpc = "naming"
    /\ handled < welcomed
    /\ handled' = handled + 1
    /\ ppc' = [ppc EXCEPT ![handled + 1] = "begin"]
    /\ mPublishThread' = handled + 1
    /\ UNCHANGED <<properties, app, tries, sockets, dispatchVars, welcomed, echo,
                   mNamingConnected, left, monitorVars>>

\* Our own "C" has come back.
DispatchEcho ==
    /\ dpc = "naming"
    /\ echo
    /\ echo' = FALSE
    /\ mNamingConnected' = TRUE
    /\ UNCHANGED <<properties, app, tries, sockets, dispatchVars, welcomed, handled,
                   publishVars, monitorVars>>

NamingDrained ==
    /\ dpc = "naming"
    /\ ~NamingReadable
    /\ dpc' = "loop"
    /\ UNCHANGED <<properties, app, tries, sockets, mIsReady, mIsDispatching, exitSent,
                   revents, namingVars, publishVars, monitorVars>>

-----------------------------------------------------------------------------
\* The publishEndpoints threads.

PublishBegin(w) ==
    /\ ppc[w] = "begin"
    /\ mNamingConnected' = FALSE
    /\ ppc' = [ppc EXCEPT ![w] = "loop"]
    /\ UNCHANGED <<properties, app, tries, sockets, dispatchVars, welcomed, handled,
                   echo, mPublishThread, left, monitorVars>>

PublishLoop(w) ==
    /\ ppc[w] = "loop"
    /\ left' = [left EXCEPT ![w] = @ - 1]
    /\ ppc' = [ppc EXCEPT ![w] =
                  IF left[w] - 1 > 0 /\ mIsDispatching THEN "send" ELSE "done"]
    /\ UNCHANGED <<properties, app, tries, sockets, dispatchVars, namingVars,
                   mPublishThread, monitorVars>>

PublishSend(w) ==
    /\ ppc[w] = "send"
    /\ echo' \in {echo, TRUE}
    /\ ppc' = [ppc EXCEPT ![w] = "check"]
    /\ UNCHANGED <<properties, app, tries, sockets, dispatchVars, welcomed, handled,
                   mNamingConnected, mPublishThread, left, monitorVars>>

\* Back in the loop after the sleep, unless our message has come back.
PublishCheck(w) ==
    /\ ppc[w] = "check"
    /\ ppc' = [ppc EXCEPT ![w] = IF mNamingConnected THEN "done" ELSE "loop"]
    /\ UNCHANGED <<properties, app, tries, sockets, dispatchVars, namingVars,
                   mPublishThread, left, monitorVars>>

-----------------------------------------------------------------------------
\* The monitor's thread.

MonitorStart ==
    /\ mpc = "start"
    /\ sockets' = sockets \cup {"pairs"}
    /\ mpc' = "loop"
    /\ UNCHANGED <<properties, app, tries, dispatchVars, namingVars, publishVars,
                   mIsMonitoring, monitorEvents, monitorExit>>

MonitorLoop ==
    /\ mpc = "loop"
    /\ mpc' = IF mIsMonitoring THEN "poll" ELSE "ended"
    /\ sockets' = IF mIsMonitoring THEN sockets ELSE sockets \ {"pairs"}
    /\ UNCHANGED <<properties, app, tries, dispatchVars, namingVars, publishVars,
                   mIsMonitoring, monitorEvents, monitorExit>>

\* monitorEvent_v2 reads an event and logs it.
MonitorEvent == monitorEvents' = FALSE

\* Events are read; the "X" never is.
MonitorPoll ==
    /\ mpc = "poll"
    /\ monitorEvents \/ monitorExit
    /\ MonitorEvent
    /\ mpc' = "loop"
    /\ UNCHANGED <<properties, app, tries, sockets, dispatchVars, namingVars,
                   publishVars, mIsMonitoring, monitorExit>>

-----------------------------------------------------------------------------
Create == CreateSockets \/ StartDispatch \/ WaitConnected \/ CheckConnected

DestroyStep ==
    \/ WaitReady \/ SendExit \/ JoinDispatch \/ Sleep \/ JoinPublisher
    \/ CloseSockets \/ StopMonitor \/ SendMonitorExit \/ JoinMonitor \/ Terminate

DispatchThread ==
    \/ DispatchStart \/ PostReady \/ Poll \/ DrainControl
    \/ DispatchWelcome \/ DispatchEcho \/ NamingDrained

PublishThread(w) == PublishBegin(w) \/ PublishLoop(w) \/ PublishSend(w) \/ PublishCheck(w)

MonitorThread == MonitorStart \/ MonitorLoop \/ MonitorPoll

Next ==
    \/ Create
    \/ Destroy
    \/ DestroyStep
    \/ Welcome
    \/ SocketEvent
    \/ DispatchThread
    \/ \E w \in Publishers : PublishThread(w)
    \/ MonitorThread

Spec == Init /\ [][Next]_vars

\* Every thread runs, and sleeps end.
FairSpec ==
    /\ Spec
    /\ WF_vars(Create)
    /\ WF_vars(DestroyStep)
    /\ WF_vars(DispatchThread)
    /\ \A w \in Publishers : WF_vars(PublishThread(w))
    /\ WF_vars(MonitorThread)

-----------------------------------------------------------------------------
TypeOK ==
    /\ properties \in Configurations
    /\ app \in {"init", "failed", "start", "wait", "checkConnected", "timeout", "running", "stop",
                "exit", "joinDispatch", "sleep", "joinPublisher", "crashed", "close",
                "stopMonitor", "monitorExit", "joinMonitor", "term", "freed"}
    /\ tries \in Int
    /\ sockets \subseteq TransportSockets \cup MonitorSockets
    /\ mIsReady \in {0, 1}
    /\ {mIsDispatching, exitSent} \subseteq BOOLEAN
    /\ dpc \in {"none", "start", "post", "loop", "control", "naming", "ended"}
    /\ revents \subseteq {"control", "naming"}
    /\ welcomed \in 0..Welcomes
    /\ handled \in 0..welcomed
    /\ {echo, mNamingConnected} \subseteq BOOLEAN
    /\ mPublishThread \in 0..Welcomes
    /\ ppc \in [Publishers -> {"none", "begin", "loop", "send", "check", "done"}]
    /\ left \in [Publishers -> Int]
    /\ mpc \in {"none", "start", "loop", "poll", "ended"}
    /\ {mIsMonitoring, monitorEvents, monitorExit} \subseteq BOOLEAN

Publishing == {w \in Publishers : ppc[w] \notin {"none", "done"}}

\* Destroy joins the threads before it closes and frees what they use: the dispatch
\* thread and the publishEndpoints thread started last before the sockets, the
\* monitor's thread before the memory.  (Earlier publishEndpoints threads are what
\* NoUseAfterDestroy is about.)
JoinsKnownThreads ==
    /\ app \in {"close", "stopMonitor", "monitorExit", "joinMonitor", "term", "freed"} =>
          dpc = "ended" /\ mPublishThread \notin Publishing
    /\ app \in {"term", "freed"} => mpc \in {"none", "ended"}

\* Once destroy has closed the sockets, neither the dispatch thread nor a
\* publishEndpoints thread ("make sure we don't delete the transport out from under
\* publishEndpoints", destroy) is left that would use them or the transport's
\* memory.
NoUseAfterDestroy ==
    app \in {"stopMonitor", "monitorExit", "joinMonitor", "term", "freed"} =>
        dpc = "ended" /\ Publishing = {}

\* A transport that is configured to announce itself (naming.connect_retries is
\* positive or left to its default) does so after every welcome message, unless it is
\* stopped first: publishEndpoints, whose loop counts down before it tests, makes at
\* least one attempt.
WelcomeIsAnnounced ==
    \A w \in Publishers :
        ( /\ ppc[w] = "begin"
          /\ Parameter(properties.connect_retries, DefaultRetries) > 0 )
        ~> ppc[w] = "send" \/ ~mIsDispatching

\* create comes to an end, with a transport or an error, for every configuration and
\* whether or not a proxy is there, although further publishEndpoints threads clear
\* the flag that it waits for.
CreateReturns == app = "init" ~> app \in {"running", "timeout", "failed"}

\* destroy, called at any moment after create, waits for three kinds of threads
\* and for zmq_ctx_term, none of them in vain.
DestroyCompletes == app = "stop" ~> app \in {"freed", "crashed"}
=============================================================================
