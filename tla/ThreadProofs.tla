---------------------------- MODULE ThreadProofs ----------------------------
(***************************************************************************)
(* Proofs about the two components whose threads wait for each other: the  *)
(* event queue (UQueue), for any number of readers and any sizes, and the  *)
(* life of a transport (Lifecycle), for any number of welcome messages and *)
(* any configurations.                                                     *)
(*                                                                         *)
(* Event queue: the semaphore account is what bounds the capacity and      *)
(* keeps Remove from finding an empty list.                                *)
(*                                                                         *)
(* Transport: destroy joins the threads that it knows before it closes and *)
(* frees what they use.  JoinsKnownThreads is about the stages after the   *)
(* joins; Inv adds that the dispatch thread has ended from its join on, so *)
(* that it can neither start another publishEndpoints thread nor overwrite *)
(* mPublishThread, and that without a socket monitor there is no monitor's *)
(* thread.  With one welcome message at most, the publishEndpoints thread  *)
(* that destroy joins is the only one, and nothing is used after destroy.  *)
(***************************************************************************)
EXTENDS Lifecycle, UQueue, FiniteSetTheorems, TLAPS

-----------------------------------------------------------------------------
(* The life of a transport.                                                *)

Closing == {"close", "stopMonitor", "monitorExit", "joinMonitor", "term", "freed"}

Inv ==
    /\ ppc \in [Publishers -> {"none", "begin", "loop", "send", "check", "done"}]
    /\ app \in Closing \cup {"sleep", "joinPublisher"} => dpc = "ended"
    /\ app \in Closing => mPublishThread \notin Publishing
    /\ ~mSocketMonitor => mpc = "none"
    /\ app \in {"term", "freed"} => mpc \in {"none", "ended"}

(* The invariant holds when create begins.                                 *)
LEMMA InitInv == Init => Inv
  BY DEF Init, Inv, Closing

(* No thread of the transport undoes a join: the dispatch thread, the      *)
(* publishEndpoints threads and the monitor's thread do not come back.     *)
LEMMA NextInv == Inv /\ [Next]_vars => Inv'
  <1> SUFFICES ASSUME Inv, [Next]_vars
               PROVE  Inv'
    OBVIOUS
  <1> USE DEF Inv, Closing, Publishing, mSocketMonitor, dispatchVars, namingVars,
              publishVars, monitorVars
  <1>1. CASE Create
    BY <1>1 DEF Create, CreateSockets, StartDispatch, WaitConnected, CheckConnected
  <1>2. CASE Destroy
    BY <1>2 DEF Destroy
  <1>3. CASE DestroyStep
    <2>1. CASE WaitReady \/ SendExit
      BY <2>1 DEF WaitReady, SendExit
    <2>2. CASE JoinDispatch \/ Sleep
      BY <2>2 DEF JoinDispatch, Sleep
    <2>3. CASE JoinPublisher
      BY <2>3 DEF JoinPublisher, Publishers
    <2>4. CASE CloseSockets
      BY <2>4 DEF CloseSockets
    <2>5. CASE StopMonitor \/ SendMonitorExit
      BY <2>5 DEF StopMonitor, SendMonitorExit
    <2>6. CASE JoinMonitor \/ Terminate
      BY <2>6 DEF JoinMonitor, Terminate
    <2>7. QED
      BY <1>3, <2>1, <2>2, <2>3, <2>4, <2>5, <2>6 DEF DestroyStep
  <1>4. CASE Welcome \/ SocketEvent
    BY <1>4 DEF Welcome, SocketEvent
  <1>5. CASE DispatchThread
    <2>1. CASE DispatchStart \/ PostReady \/ Poll \/ DrainControl
      BY <2>1 DEF DispatchStart, PostReady, Post, Poll, DrainControl
    <2>2. CASE DispatchWelcome
      BY Zenon, <2>2 DEF DispatchWelcome
    <2>3. CASE DispatchEcho \/ NamingDrained
      BY <2>3 DEF DispatchEcho, NamingDrained
    <2>4. QED
      BY <1>5, <2>1, <2>2, <2>3 DEF DispatchThread
  <1>6. ASSUME NEW w \in Publishers, PublishThread(w)
        PROVE  Inv'
    <2>1. /\ UNCHANGED <<properties, app, dpc, mPublishThread, mpc>>
          /\ ppc[w] # "done"
          /\ \E to \in {"loop", "send", "check", "done"} : ppc' = [ppc EXCEPT ![w] = to]
      BY Zenon, <1>6 DEF PublishThread, PublishBegin, PublishLoop, PublishSend, PublishCheck
    <2>2. ppc[w] # "none"
      BY Zenon, <1>6 DEF PublishThread, PublishBegin, PublishLoop, PublishSend, PublishCheck
    <2>3. Publishing' \subseteq Publishing
      BY <2>1, <2>2
    <2>4. QED
      BY <2>1, <2>3
  <1>7. CASE MonitorThread
    BY <1>7 DEF MonitorThread, MonitorStart, MonitorLoop, MonitorPoll, MonitorEvent
  <1>8. CASE UNCHANGED vars
    BY <1>8 DEF vars
  <1>9. QED
    BY <1>1, <1>2, <1>3, <1>4, <1>5, <1>6, <1>7, <1>8 DEF Next

(* destroy closes and frees nothing that the dispatch thread, the          *)
(* publishEndpoints thread started last or the monitor's thread still use. *)
THEOREM KnownThreadsAreJoined == Spec => []JoinsKnownThreads
  <1>1. Inv => JoinsKnownThreads
    BY DEF Inv, JoinsKnownThreads, Closing
  <1>2. QED
    BY InitInv, NextInv, <1>1, PTL DEF Spec

-----------------------------------------------------------------------------
(* Types.  The semaphore mIsReady is binary although nothing in its        *)
(* declaration says so: the dispatch thread posts it once, and nobody      *)
(* starts that thread a second time.                                       *)

ReadyOnce ==
    /\ app \in {"init", "start"} => dpc = "none"
    /\ dpc \in {"none", "start", "post"} => mIsReady = 0

TypeInv == TypeOK /\ ReadyOnce

(* The number of retries is one, whatever the configuration says.          *)
LEMMA RetriesAreInt ==
    ASSUME NEW p \in Configurations
    PROVE  NamingConnectRetries(p) \in Int
  <1>1. /\ DefaultRetries \in Int /\ MinRetries \in Int
        /\ p.connect_retries \in Int \cup {Unset}
    BY ParamsAssumption, LifecycleAssumption
  <1> DEFINE temp == Parameter(p.connect_retries, DefaultRetries)
  <1>2. temp \in Int
    BY <1>1 DEF Parameter
  <1> HIDE DEF temp
  <1>3. \E x \in {temp, MinRetries} : \A y \in {temp, MinRetries} : x >= y
    BY <1>1, <1>2
  <1>4. Max({temp, MinRetries}) \in {temp, MinRetries}
    BY <1>3 DEF Max
  <1>5. QED
    BY <1>1, <1>2, <1>4 DEF NamingConnectRetries, GetInt, temp

(* The types hold when create begins.                                      *)
LEMMA InitTypes == Init => TypeInv
  <1> SUFFICES ASSUME Init PROVE TypeInv
    OBVIOUS
  <1>1. mNamingConnectRetries \in Int
    BY RetriesAreInt DEF Init, mNamingConnectRetries
  <1>2. mIsDispatching \in BOOLEAN /\ exitSent \in BOOLEAN /\ echo \in BOOLEAN
        /\ mNamingConnected \in BOOLEAN /\ mIsMonitoring \in BOOLEAN
        /\ monitorEvents \in BOOLEAN /\ monitorExit \in BOOLEAN
    BY Zenon DEF Init
  <1>3. /\ tries \in Int /\ left \in [Publishers -> Int]
        /\ ppc \in [Publishers -> {"none", "begin", "loop", "send", "check", "done"}]
        /\ welcomed \in 0..Welcomes /\ handled \in 0..welcomed /\ mPublishThread \in 0..Welcomes
    BY <1>1, LifecycleAssumption DEF Init
  <1>4. QED
    BY <1>2, <1>3 DEF Init, TypeInv, TypeOK, ReadyOnce

(* create and destroy.                                                     *)
LEMMA AppTypes ==
    ASSUME TypeInv, Create \/ Destroy \/ DestroyStep
    PROVE  TypeInv'
  <1>1. CASE CreateSockets
    <2>1. mSocketMonitor \in BOOLEAN
      BY DEF SocketMonitor, TypeInv, ReadyOnce, TypeOK, dispatchVars, namingVars, publishVars,
         monitorVars, TransportSockets, MonitorSockets, mIsNaming, mSocketMonitor
    <2>2. sockets' \subseteq (TransportSockets \cup MonitorSockets)'
      BY <1>1 DEF CreateSockets, TypeInv, ReadyOnce, TypeOK, dispatchVars, namingVars,
         publishVars, monitorVars, TransportSockets, MonitorSockets, mIsNaming, mSocketMonitor
    <2>3. QED
      BY <1>1, <2>1, <2>2 DEF CreateSockets, TypeInv, ReadyOnce, TypeOK, dispatchVars, namingVars,
         publishVars, monitorVars, TransportSockets, MonitorSockets, mIsNaming, mSocketMonitor
  <1>2. CASE StartDispatch
    BY <1>2 DEF StartDispatch, TypeInv, ReadyOnce, TypeOK, dispatchVars, namingVars, publishVars,
       monitorVars, TransportSockets, MonitorSockets, mIsNaming, mSocketMonitor
  <1>3. CASE WaitConnected
    BY <1>3 DEF WaitConnected, TypeInv, ReadyOnce, TypeOK, dispatchVars, namingVars, publishVars,
       monitorVars, TransportSockets, MonitorSockets, mIsNaming, mSocketMonitor
  <1>4. CASE CheckConnected \/ Destroy \/ SendExit \/ JoinDispatch \/ Sleep
    <2>1. CASE CheckConnected
      BY <2>1 DEF CheckConnected, TypeInv, ReadyOnce, TypeOK, dispatchVars, namingVars,
         publishVars, monitorVars, TransportSockets, MonitorSockets, mIsNaming, mSocketMonitor
    <2>2. CASE Destroy
      BY <2>2 DEF Destroy, TypeInv, ReadyOnce, TypeOK, dispatchVars, namingVars, publishVars,
         monitorVars, TransportSockets, MonitorSockets, mIsNaming, mSocketMonitor
    <2>3. CASE SendExit
      BY <2>3 DEF SendExit, TypeInv, ReadyOnce, TypeOK, dispatchVars, namingVars, publishVars,
         monitorVars, TransportSockets, MonitorSockets, mIsNaming, mSocketMonitor
    <2>4. CASE JoinDispatch
      BY <2>4 DEF JoinDispatch, TypeInv, ReadyOnce, TypeOK, dispatchVars, namingVars, publishVars,
         monitorVars, TransportSockets, MonitorSockets, mIsNaming, mSocketMonitor
    <2>5. CASE Sleep
      BY <2>5 DEF Sleep, TypeInv, ReadyOnce, TypeOK, dispatchVars, namingVars, publishVars,
         monitorVars, TransportSockets, MonitorSockets, mIsNaming, mSocketMonitor
    <2>6. QED
      BY <1>4, <2>1, <2>2, <2>3, <2>4, <2>5
  <1>5. CASE WaitReady
    BY <1>5 DEF WaitReady, TypeInv, ReadyOnce, TypeOK, dispatchVars, namingVars, publishVars,
       monitorVars, TransportSockets, MonitorSockets, mIsNaming, mSocketMonitor
  <1>6. CASE JoinPublisher \/ StopMonitor \/ SendMonitorExit \/ Terminate
    <2>1. CASE JoinPublisher
      BY <2>1 DEF JoinPublisher, TypeInv, ReadyOnce, TypeOK, dispatchVars, namingVars,
         publishVars, monitorVars, TransportSockets, MonitorSockets, mIsNaming, mSocketMonitor
    <2>2. CASE StopMonitor
      BY Zenon, <2>2 DEF StopMonitor, TypeInv, ReadyOnce, TypeOK, dispatchVars, namingVars,
         publishVars, monitorVars, TransportSockets, MonitorSockets, mIsNaming, mSocketMonitor
    <2>3. CASE SendMonitorExit
      BY <2>3 DEF SendMonitorExit, TypeInv, ReadyOnce, TypeOK, dispatchVars, namingVars,
         publishVars, monitorVars, TransportSockets, MonitorSockets, mIsNaming, mSocketMonitor
    <2>4. CASE Terminate
      BY <2>4 DEF Terminate, TypeInv, ReadyOnce, TypeOK, dispatchVars, namingVars, publishVars,
         monitorVars, TransportSockets, MonitorSockets, mIsNaming, mSocketMonitor
    <2>5. QED
      BY <1>6, <2>1, <2>2, <2>3, <2>4
  <1>7. CASE CloseSockets
    <2>1. mSocketMonitor \in BOOLEAN
      BY DEF SocketMonitor, TypeInv, ReadyOnce, TypeOK, dispatchVars, namingVars, publishVars,
         monitorVars, TransportSockets, MonitorSockets, mIsNaming, mSocketMonitor
    <2>2. QED
      BY <1>7, <2>1 DEF CloseSockets, TypeInv, ReadyOnce, TypeOK, dispatchVars, namingVars,
         publishVars, monitorVars, TransportSockets, MonitorSockets, mIsNaming, mSocketMonitor
  <1>8. CASE JoinMonitor
    BY <1>8 DEF JoinMonitor, TypeInv, ReadyOnce, TypeOK, dispatchVars, namingVars, publishVars,
       monitorVars, TransportSockets, MonitorSockets, mIsNaming, mSocketMonitor
  <1>9. QED
    BY <1>1, <1>2, <1>3, <1>4, <1>5, <1>6, <1>7, <1>8 DEF Create, DestroyStep

(* The other threads, the naming service and libzmq.                       *)
LEMMA ThreadTypes ==
    ASSUME TypeInv,
           \/ Welcome \/ SocketEvent \/ DispatchThread \/ MonitorThread
           \/ \E w \in Publishers : PublishThread(w)
    PROVE  TypeInv'
  <1>0. TransportSockets' = TransportSockets
    <2>1. properties' = properties
      BY Zenon DEF Welcome, SocketEvent, DispatchThread, DispatchStart, PostReady, Poll,
         DrainControl, DispatchWelcome, DispatchEcho, NamingDrained, MonitorThread, MonitorStart,
         MonitorLoop, MonitorPoll, PublishThread, PublishBegin, PublishLoop, PublishSend,
         PublishCheck, TypeInv, ReadyOnce, TypeOK, dispatchVars, namingVars, publishVars,
         monitorVars, MonitorSockets
    <2>2. QED
      BY <2>1 DEF TransportSockets, mIsNaming, TypeInv, ReadyOnce, TypeOK, dispatchVars,
         namingVars, publishVars, monitorVars, MonitorSockets
  <1>1. CASE Welcome
    BY <1>0, <1>1, LifecycleAssumption DEF Welcome, TypeInv, ReadyOnce, TypeOK, dispatchVars,
       namingVars, publishVars, monitorVars, MonitorSockets
  <1>2. CASE SocketEvent
    BY <1>0, <1>2 DEF SocketEvent, TypeInv, ReadyOnce, TypeOK, dispatchVars, namingVars,
       publishVars, monitorVars, MonitorSockets
  <1>3. CASE DispatchStart \/ PostReady
    <2>1. CASE DispatchStart
      BY <1>0, <2>1 DEF DispatchStart, TypeInv, ReadyOnce, TypeOK, dispatchVars, namingVars,
         publishVars, monitorVars, MonitorSockets
    <2>2. CASE PostReady
      <3>1. mIsReady' = 1
        BY <1>0, <2>2 DEF PostReady, Post, TypeInv, ReadyOnce, TypeOK, dispatchVars, namingVars,
           publishVars, monitorVars, MonitorSockets
      <3>2. QED
        BY <1>0, <2>2, <3>1 DEF PostReady, TypeInv, ReadyOnce, TypeOK, dispatchVars, namingVars,
           publishVars, monitorVars, MonitorSockets
    <2>3. QED
      BY <1>3, <2>1, <2>2
  <1>4. CASE Poll
    <2>1. dpc' \in {"ended", "control"} /\ revents' \subseteq {"control", "naming"}
      BY Zenon, <1>0, <1>4 DEF Poll, TypeInv, ReadyOnce, TypeOK, dispatchVars, namingVars,
         publishVars, monitorVars, MonitorSockets
    <2>2. UNCHANGED <<properties, app, tries, sockets, mIsReady, mIsDispatching, exitSent,
                      namingVars, publishVars, monitorVars>>
      BY <1>0, <1>4 DEF Poll, TypeInv, ReadyOnce, TypeOK, dispatchVars, namingVars, publishVars,
         monitorVars, MonitorSockets
    <2>3. ReadyOnce'
      BY <1>4, <2>1, <2>2 DEF Poll, TypeInv, ReadyOnce, TypeOK, dispatchVars, namingVars,
         publishVars, monitorVars, MonitorSockets
    <2>4. TypeOK'
      BY <1>0, <2>1, <2>2 DEF TypeInv, ReadyOnce, TypeOK, dispatchVars, namingVars, publishVars,
         monitorVars, MonitorSockets
    <2>5. QED
      BY <2>3, <2>4 DEF TypeInv
  <1>5. CASE DrainControl
    <2>1. mIsDispatching' \in BOOLEAN /\ exitSent' \in BOOLEAN
      BY Zenon, <1>5 DEF DrainControl, TypeInv, ReadyOnce, TypeOK, dispatchVars, namingVars,
         publishVars, monitorVars, MonitorSockets
    <2>2. dpc' \in {"naming", "loop"}
      BY <1>5 DEF DrainControl, TypeInv, ReadyOnce, TypeOK, dispatchVars, namingVars, publishVars,
         monitorVars, MonitorSockets
    <2>3. UNCHANGED <<properties, app, tries, sockets, mIsReady, revents, namingVars,
                      publishVars, monitorVars>>
      BY <1>5 DEF DrainControl, TypeInv, ReadyOnce, TypeOK, dispatchVars, namingVars, publishVars,
         monitorVars, MonitorSockets
    <2>4. {mIsDispatching', exitSent'} \subseteq BOOLEAN
      BY <2>1 DEF TypeInv, ReadyOnce, TypeOK, dispatchVars, namingVars, publishVars, monitorVars,
         MonitorSockets
    <2>5. ReadyOnce'
      BY <1>5, <2>2, <2>3 DEF DrainControl, TypeInv, ReadyOnce, TypeOK, dispatchVars, namingVars,
         publishVars, monitorVars, MonitorSockets
    <2>6. TypeOK'
      BY <1>0, <2>2, <2>3, <2>4 DEF TypeInv, ReadyOnce, TypeOK, dispatchVars, namingVars,
         publishVars, monitorVars, MonitorSockets
    <2>7. QED
      BY <2>5, <2>6 DEF TypeInv
  <1>6. CASE DispatchWelcome
    BY <1>0, <1>6, LifecycleAssumption DEF DispatchWelcome, Publishers, TypeInv, ReadyOnce,
       TypeOK, dispatchVars, namingVars, publishVars, monitorVars, MonitorSockets
  <1>7. CASE DispatchEcho \/ NamingDrained
    <2>1. CASE DispatchEcho
      BY Zenon, <1>0, <2>1 DEF DispatchEcho, TypeInv, ReadyOnce, TypeOK, dispatchVars, namingVars,
         publishVars, monitorVars, MonitorSockets
    <2>2. CASE NamingDrained
      BY <1>0, <2>2 DEF NamingDrained, TypeInv, ReadyOnce, TypeOK, dispatchVars, namingVars,
         publishVars, monitorVars, MonitorSockets
    <2>3. QED
      BY <1>7, <2>1, <2>2
  <1>8. ASSUME NEW w \in Publishers, PublishThread(w)
        PROVE  TypeInv'
    <2>1. CASE PublishBegin(w)
      <3>1. {echo', mNamingConnected'} \subseteq BOOLEAN
        BY Zenon, <2>1 DEF PublishBegin, TypeInv, ReadyOnce, TypeOK, dispatchVars, namingVars,
           publishVars, monitorVars, MonitorSockets
      <3>2. ppc' \in [Publishers -> {"none", "begin", "loop", "send", "check", "done"}]
        BY <2>1 DEF PublishBegin, TypeInv, ReadyOnce, TypeOK, dispatchVars, namingVars,
           publishVars, monitorVars, MonitorSockets
      <3>3. ReadyOnce'
        BY <2>1 DEF PublishBegin, TypeInv, ReadyOnce, TypeOK, dispatchVars, namingVars,
           publishVars, monitorVars, MonitorSockets
      <3>4. TypeOK'
        BY <1>0, <2>1, <3>1, <3>2 DEF PublishBegin, TypeInv, ReadyOnce, TypeOK, dispatchVars,
           namingVars, publishVars, monitorVars, MonitorSockets
      <3>5. QED
        BY <3>3, <3>4 DEF TypeInv
    <2>2. CASE PublishLoop(w)
      BY <1>0, <2>2 DEF PublishLoop, TypeInv, ReadyOnce, TypeOK, dispatchVars, namingVars,
         publishVars, monitorVars, MonitorSockets
    <2>3. CASE PublishSend(w)
      <3>1. echo' \in BOOLEAN
        BY Zenon, <1>0, <2>3 DEF PublishSend, TypeInv, ReadyOnce, TypeOK, dispatchVars,
           namingVars, publishVars, monitorVars, MonitorSockets
      <3>2. QED
        BY <1>0, <2>3, <3>1 DEF PublishSend, TypeInv, ReadyOnce, TypeOK, dispatchVars, namingVars,
           publishVars, monitorVars, MonitorSockets
    <2>4. CASE PublishCheck(w)
      BY <1>0, <2>4 DEF PublishCheck, TypeInv, ReadyOnce, TypeOK, dispatchVars, namingVars,
         publishVars, monitorVars, MonitorSockets
    <2>5. QED
      BY <1>8, <2>1, <2>2, <2>3, <2>4 DEF PublishThread
  <1>9. CASE MonitorThread
    <2>1. CASE MonitorStart
      BY <1>0, <2>1 DEF MonitorStart, TypeInv, ReadyOnce, TypeOK, dispatchVars, namingVars,
         publishVars, monitorVars, MonitorSockets
    <2>2. CASE MonitorLoop
      BY <1>0, <2>2 DEF MonitorLoop, TypeInv, ReadyOnce, TypeOK, dispatchVars, namingVars,
         publishVars, monitorVars, MonitorSockets
    <2>3. CASE MonitorPoll
      <3>1. {mIsMonitoring', monitorEvents', monitorExit'} \subseteq BOOLEAN
        BY Zenon, <2>3 DEF MonitorPoll, MonitorEvent, TypeInv, ReadyOnce, TypeOK, dispatchVars,
           namingVars, publishVars, monitorVars, MonitorSockets
      <3>2. QED
        BY Zenon, <1>0, <2>3, <3>1 DEF MonitorPoll, TypeInv, ReadyOnce, TypeOK, dispatchVars,
           namingVars, publishVars, monitorVars, MonitorSockets
    <2>4. QED
      BY <1>9, <2>1, <2>2, <2>3 DEF MonitorThread
  <1>10. QED
    BY <1>1, <1>2, <1>3, <1>4, <1>5, <1>6, <1>7, <1>8, <1>9 DEF DispatchThread

(* Every step keeps the types.                                             *)
LEMMA NextTypes == TypeInv /\ [Next]_vars => TypeInv'
  <1>1. TypeInv /\ UNCHANGED vars => TypeInv'
    BY DEF TypeInv, TypeOK, ReadyOnce, vars, dispatchVars, namingVars, publishVars, monitorVars,
           TransportSockets, mIsNaming
  <1>2. QED
    BY <1>1, AppTypes, ThreadTypes DEF Next

(* The types of the transport's state, mIsReady's among them, and that     *)
(* only sockets the transport knows are ever open in its context.          *)
THEOREM TypeCorrect == Spec => []TypeOK
  <1>1. TypeInv => TypeOK
    BY DEF TypeInv
  <1>2. QED
    BY InitTypes, NextTypes, <1>1, PTL DEF Spec

-----------------------------------------------------------------------------
(* What NoUseAfterDestroy needs.  It fails when a second welcome message   *)
(* overlaps with the first; with no more than one, mPublishThread is the   *)
(* only publishEndpoints thread there is.                                  *)

KnowsItsPublisher ==
    /\ mPublishThread = handled
    /\ \A w \in Publishers : ppc[w] # "none" => w <= handled

(* mPublishThread is the thread of the last welcome message handled.       *)
LEMMA NextPublisher ==
    ASSUME TypeInv, KnowsItsPublisher, [Next]_vars
    PROVE  KnowsItsPublisher'
  <1>0. handled \in Nat /\ ppc \in [Publishers -> {"none", "begin", "loop", "send", "check", "done"}]
    BY LifecycleAssumption DEF TypeInv, TypeOK
  <1>1. CASE DispatchWelcome
    BY <1>0, <1>1 DEF KnowsItsPublisher, DispatchWelcome, Publishers
  <1>2. ASSUME NEW w \in Publishers, PublishThread(w)
        PROVE  KnowsItsPublisher'
    <2>1. UNCHANGED <<mPublishThread, handled>> /\ ppc[w] # "none"
      BY Zenon, <1>2 DEF PublishThread, PublishBegin, PublishLoop, PublishSend, PublishCheck,
         namingVars
    <2>2. \A v \in Publishers : ppc'[v] # "none" => ppc[v] # "none"
      BY Zenon, <1>0, <1>2 DEF PublishThread, PublishBegin, PublishLoop, PublishSend, PublishCheck
    <2>3. QED
      BY <2>1, <2>2 DEF KnowsItsPublisher
  <1>3. CASE UNCHANGED <<mPublishThread, handled, ppc>>
    BY <1>3 DEF KnowsItsPublisher
  <1>4. \/ DispatchWelcome \/ UNCHANGED <<mPublishThread, handled, ppc>>
        \/ \E w \in Publishers : PublishThread(w)
    BY Zenon DEF Next, Create, CreateSockets, StartDispatch, WaitConnected, CheckConnected,
       Destroy, DestroyStep, WaitReady, SendExit, JoinDispatch, Sleep, JoinPublisher,
       CloseSockets, StopMonitor, SendMonitorExit, JoinMonitor, Terminate, Welcome, SocketEvent,
       DispatchThread, DispatchStart, PostReady, Poll, DrainControl, DispatchEcho, NamingDrained,
       MonitorThread, MonitorStart, MonitorLoop, MonitorPoll, vars, namingVars, publishVars
  <1>5. QED
    BY <1>1, <1>2, <1>3, <1>4

(* A transport that is welcomed at most once leaves no thread behind that  *)
(* would use what destroy has freed, however long the sleep in destroy is. *)
THEOREM OneWelcomeIsSafe ==
    ASSUME Welcomes <= 1
    PROVE  Spec => []NoUseAfterDestroy
  <1>1. Init => KnowsItsPublisher
    BY DEF Init, KnowsItsPublisher
  <1>2. TypeInv /\ KnowsItsPublisher /\ [Next]_vars => KnowsItsPublisher'
    BY NextPublisher
  <1>3. Inv /\ TypeInv /\ KnowsItsPublisher => NoUseAfterDestroy
    <2> SUFFICES ASSUME Inv, TypeInv, KnowsItsPublisher
                 PROVE  NoUseAfterDestroy
      OBVIOUS
    <2>1. \A w \in Publishing : w = mPublishThread
      BY LifecycleAssumption DEF Publishing, Publishers, KnowsItsPublisher, TypeInv, TypeOK
    <2>2. QED
      BY <2>1 DEF NoUseAfterDestroy, Inv, Closing
  <1>4. QED
    BY InitInv, NextInv, InitTypes, NextTypes, <1>1, <1>2, <1>3, PTL DEF Spec

-----------------------------------------------------------------------------
(* The event queue.                                                        *)

\* A reader runs the callback of an event exactly while it is past the unlock
\* of uQueue_dispatchInt.
HeldInCallback == \A r \in Readers : held[r] = NoEvent <=> pc[r] # "callback"

\* The inductive invariant: the semaphore account is what bounds the capacity
\* and keeps Remove from finding an empty list.
QueueInv ==
    /\ QueueTypeOK
    /\ SemaphoreCountsList
    /\ FifoOrder
    /\ CapacityBound
    /\ HeldInCallback

\* The readers past the semaphore are finitely many, at most all of them.
LEMMA PastSemFinite ==
    ASSUME QueueTypeOK
    PROVE  /\ IsFiniteSet(PastSem)
           /\ Cardinality(PastSem) \in Nat
           /\ Cardinality(Readers) \in Nat
           /\ Cardinality(PastSem) <= Cardinality(Readers)
<1>1. IsFiniteSet(Readers)
    BY UQueueAssumption
<1>2. PastSem \subseteq Readers
    BY DEF PastSem
<1> QED
    BY <1>1, <1>2, FS_Subset, FS_CardinalityType

\* The queue as uQueue_create leaves it satisfies the invariant.
LEMMA QueueInitInv == QueueInit => QueueInv
<1> SUFFICES ASSUME QueueInit PROVE QueueInv
    OBVIOUS
<1> USE UQueueAssumption
<1>1. QueueTypeOK
    BY DEF QueueInit, QueueTypeOK, NoEvent
<1>2. PastSem = {}
    BY DEF QueueInit, PastSem
<1>3. Cardinality(PastSem) = 0
    BY <1>2, FS_EmptySet
<1>4. SemaphoreCountsList
    BY <1>3 DEF QueueInit, SemaphoreCountsList
<1>5. FifoOrder
    BY DEF QueueInit, FifoOrder, NoEvent
<1>6. CapacityBound
    BY <1>1, PastSemFinite DEF QueueInit, CapacityBound
<1>7. HeldInCallback
    BY DEF QueueInit, HeldInCallback, NoEvent
<1> QED
    BY <1>1, <1>4, <1>5, <1>6, <1>7 DEF QueueInv

\* What the list looks like after Append and after Tail.
LEMMA ListFacts ==
    ASSUME QueueTypeOK, FifoOrder
    PROVE  /\ Len(list) \in Nat
           /\ \A e : /\ Len(Append(list, e)) = Len(list) + 1
                     /\ \A i \in 1..Len(list) : Append(list, e)[i] = list[i]
                     /\ Append(list, e)[Len(list) + 1] = e
           /\ list # <<>> => /\ Len(list) > 0
                             /\ Len(Tail(list)) = Len(list) - 1
                             /\ \A i \in 1..(Len(list) - 1) : Tail(list)[i] = list[i + 1]
                             /\ Head(list) = accepted - Len(list) + 1
    BY DEF QueueTypeOK, FifoOrder

\* uQueue_enqueue, with an item of the free list or of a new chunk.
LEMMA EnqueueInv == QueueInv /\ EnqueueOK => QueueInv'
<1> SUFFICES ASSUME QueueInv, EnqueueOK PROVE QueueInv'
    OBVIOUS
<1> USE UQueueAssumption
<1>0. QueueTypeOK /\ SemaphoreCountsList /\ FifoOrder /\ CapacityBound /\ HeldInCallback
    BY DEF QueueInv
<1>1. QueueTypeOK'
    BY <1>0 DEF QueueTypeOK, EnqueueOK, LinkAtTail, SemPost, AllocChunkOK
<1>2. PastSem' = PastSem
    BY DEF EnqueueOK, PastSem
<1>3. Len(list') = Len(list) + 1
    BY <1>0, ListFacts DEF EnqueueOK, LinkAtTail
<1>4. SemaphoreCountsList'
    <2>1. /\ Cardinality(PastSem) \in Nat /\ Len(list) \in Nat
          /\ mSem \in Nat /\ mCurrSize \in Int
        BY <1>0, PastSemFinite, ListFacts DEF QueueTypeOK
    <2>2. Cardinality(PastSem)' = Cardinality(PastSem)
        BY <1>2
    <2>3. mSem' = mSem + 1 /\ mCurrSize' = mCurrSize + 1
        BY DEF EnqueueOK, SemPost
    <2> QED
        BY <1>0, <1>3, <2>1, <2>2, <2>3 DEF SemaphoreCountsList
<1>5. FifoOrder'
    <2>1. ASSUME NEW i \in 1..Len(list')
          PROVE  list'[i] = accepted' - Len(list') + i
        <3>1. /\ Len(list) \in Nat /\ accepted \in Nat
              /\ Len(list') = Len(list) + 1 /\ accepted' = accepted + 1
              /\ list' = Append(list, accepted + 1)
            BY <1>0, <1>3, ListFacts DEF EnqueueOK, LinkAtTail, QueueTypeOK
        <3>2. CASE i \in 1..Len(list)
            <4>1. list'[i] = list[i] /\ list[i] = accepted - Len(list) + i
                BY <1>0, <3>1, <3>2, ListFacts DEF FifoOrder
            <4> QED
                BY <4>1, <3>1, <3>2
        <3>3. CASE i = Len(list) + 1
            <4>1. list'[i] = accepted + 1
                BY <1>0, <3>1, <3>3, ListFacts
            <4> QED
                BY <4>1, <3>1, <3>3
        <3> QED
            BY <3>1, <3>2, <3>3
    <2>2. \A r \in Readers : held'[r] <= accepted' - Len(list')
        BY <1>0, <1>3, ListFacts DEF EnqueueOK, FifoOrder, QueueTypeOK
    <2> QED
        BY <1>0, <2>1, <2>2 DEF FifoOrder, EnqueueOK
<1>6. CapacityBound'
    <2> DEFINE past == Cardinality(PastSem)
               all  == Cardinality(Readers)
               n    == Len(list)
    <2>1. /\ past \in Nat /\ all \in Nat /\ past <= all /\ n \in Nat
          /\ free \in Nat /\ mSem \in Nat /\ allocated \in Nat
        BY <1>0, PastSemFinite, ListFacts DEF QueueTypeOK
    <2>2. mSem + past = n /\ allocated = free + n /\ allocated <= MaxSize + all
        BY <1>0 DEF SemaphoreCountsList, CapacityBound
    <2>3. \/ free > 0 /\ free' = free - 1 /\ allocated' = allocated
          \/ /\ free = 0 /\ mSem + ChunkSize <= MaxSize
             /\ allocated' = allocated + ChunkSize /\ free' = ChunkSize - 1
        BY DEF EnqueueOK, AllocChunkOK
    <2> HIDE DEF past, all, n
    <2>4. allocated' = free' + (n + 1) /\ allocated' <= MaxSize + all
        BY <2>1, <2>2, <2>3
    <2> QED
        BY <2>4, <1>3 DEF CapacityBound, n, all
<1>7. HeldInCallback'
    BY <1>0 DEF HeldInCallback, EnqueueOK
<1> QED
    BY <1>1, <1>4, <1>5, <1>6, <1>7 DEF QueueInv

\* A step that touches neither the list nor its items, and moves the readers
\* only between the parts of uQueue_dispatchInt before the semaphore.
LEMMA QuietInv ==
    ASSUME QueueInv, UNCHANGED <<lists, mSem, held, accepted>>, QueueTypeOK',
           PastSem' = PastSem,
           \A r \in Readers : pc[r] = "callback" <=> pc'[r] = "callback"
    PROVE  QueueInv'
<1> USE DEF lists
<1>1. SemaphoreCountsList' /\ FifoOrder' /\ CapacityBound'
    BY DEF QueueInv, SemaphoreCountsList, FifoOrder, CapacityBound
<1>2. HeldInCallback'
    BY DEF QueueInv, HeldInCallback
<1> QED
    BY <1>1, <1>2 DEF QueueInv

\* Past the semaphore, a reader stands for one event of the list.
LEMMA SemWaitInv == ASSUME NEW r \in Readers PROVE QueueInv /\ SemWait(r) => QueueInv'
<1> SUFFICES ASSUME QueueInv, SemWait(r) PROVE QueueInv'
    OBVIOUS
<1> USE UQueueAssumption DEF lists
<1>0. QueueTypeOK /\ SemaphoreCountsList /\ FifoOrder /\ CapacityBound /\ HeldInCallback
    BY DEF QueueInv
<1>1. QueueTypeOK'
    BY <1>0 DEF QueueTypeOK, SemWait
<1>2. PastSem' = PastSem \cup {r} /\ r \notin PastSem
    BY <1>0 DEF SemWait, PastSem, QueueTypeOK
<1>3. Cardinality(PastSem') = Cardinality(PastSem) + 1
    BY Zenon, <1>0, <1>2, PastSemFinite, FS_AddElement
<1>4. SemaphoreCountsList'
    <2>1. mSem' = mSem - 1 /\ list' = list /\ mCurrSize' = mCurrSize /\ mSem \in Nat
        BY <1>0 DEF SemWait, QueueTypeOK
    <2>2. Cardinality(PastSem) \in Nat /\ Len(list) \in Nat
        BY <1>0, PastSemFinite, ListFacts
    <2> QED
        BY <1>0, <1>3, <2>1, <2>2 DEF SemaphoreCountsList
<1>5. FifoOrder' /\ CapacityBound'
    BY <1>0 DEF SemWait, FifoOrder, CapacityBound
<1>6. HeldInCallback'
    BY <1>0 DEF HeldInCallback, SemWait, QueueTypeOK
<1> QED
    BY <1>1, <1>4, <1>5, <1>6 DEF QueueInv

\* Under mLock a reader takes the head of the list and returns its item.
LEMMA RemoveInv == ASSUME NEW r \in Readers PROVE QueueInv /\ Remove(r) => QueueInv'
<1> SUFFICES ASSUME QueueInv, Remove(r) PROVE QueueInv'
    OBVIOUS
<1> USE UQueueAssumption
<1>0. QueueTypeOK /\ SemaphoreCountsList /\ FifoOrder /\ CapacityBound /\ HeldInCallback
    BY DEF QueueInv
<1>1. /\ IsFiniteSet(PastSem) /\ Cardinality(PastSem) \in Nat
      /\ Len(list) \in Nat /\ r \in PastSem
    BY <1>0, PastSemFinite, ListFacts DEF Remove, PastSem
<1>2. Cardinality(PastSem) > 0
    BY <1>1, FS_EmptySet
\* The reader that got past the semaphore finds an event.
<1>3. list # <<>>
    BY <1>0, <1>1, <1>2 DEF SemaphoreCountsList, QueueTypeOK
<1>4. /\ Unlink
      /\ held' = [held EXCEPT ![r] = Head(list)]
      /\ pc' = [pc EXCEPT ![r] = "callback"]
      /\ UNCHANGED <<allocated, mSem, accepted, status>>
    BY <1>3 DEF Remove
<1>5. /\ Len(list) > 0
      /\ Len(list') = Len(list) - 1
      /\ Head(list) = accepted - Len(list) + 1
    BY <1>0, <1>3, <1>4, ListFacts DEF Unlink
<1>6. Head(list) \in 1..MaxEvents
    BY <1>0, <1>3 DEF QueueTypeOK
<1>7. QueueTypeOK'
    BY <1>0, <1>3, <1>4, <1>6 DEF QueueTypeOK, Unlink
<1>8. SemaphoreCountsList'
    <2>1. PastSem' = PastSem \ {r}
        BY <1>0, <1>4 DEF PastSem, QueueTypeOK
    <2>2. Cardinality(PastSem)' = Cardinality(PastSem) - 1
        BY Zenon, <1>1, <2>1, FS_RemoveElement
    <2>3. mSem' = mSem /\ mCurrSize' = mCurrSize - 1 /\ mSem \in Nat /\ mCurrSize \in Int
        BY <1>0, <1>4 DEF Unlink, QueueTypeOK
    <2> QED
        BY <1>0, <1>1, <1>5, <2>2, <2>3 DEF SemaphoreCountsList
<1>9. FifoOrder'
    <2>1. accepted' = accepted /\ accepted \in Nat /\ held \in [Readers -> Nat]
        BY <1>0, <1>4 DEF QueueTypeOK
    <2>2. ASSUME NEW i \in 1..Len(list') PROVE list'[i] = accepted' - Len(list') + i
        <3>1. list'[i] = list[i + 1] /\ i + 1 \in 1..Len(list)
            BY <1>0, <1>1, <1>3, <1>4, <1>5, ListFacts DEF Unlink
        <3>2. list[i + 1] = accepted - Len(list) + (i + 1)
            BY <1>0, <3>1 DEF FifoOrder
        <3> QED
            BY <1>1, <1>5, <2>1, <3>1, <3>2
    <2>3. ASSUME NEW t \in Readers PROVE held'[t] <= accepted' - Len(list')
        <3>1. CASE t = r
            BY <1>1, <1>4, <1>5, <2>1, <3>1
        <3>2. CASE t # r
            BY <1>0, <1>1, <1>4, <1>5, <2>1, <3>2 DEF FifoOrder
        <3> QED
            BY <3>1, <3>2
    <2>4. ASSUME NEW t \in Readers, NEW u \in Readers \ {t}, held'[t] = held'[u]
          PROVE  held'[t] = NoEvent
        <3>1. \A w \in Readers : held[w] # Head(list)
            BY <1>0, <1>1, <1>5, <2>1 DEF FifoOrder
        <3>2. t # r /\ u # r
            BY <1>4, <2>1, <2>4, <3>1
        <3> QED
            BY <1>0, <1>4, <2>1, <2>4, <3>2 DEF FifoOrder
    <2> QED
        BY <2>2, <2>3, <2>4 DEF FifoOrder
<1>10. CapacityBound'
    <2>1. /\ allocated' = allocated /\ allocated \in Nat
          /\ free' = free + 1 /\ free \in Nat
        BY <1>0, <1>4 DEF Unlink, QueueTypeOK
    <2>2. allocated = free + Len(list) /\ allocated <= MaxSize + Cardinality(Readers)
        BY <1>0 DEF CapacityBound
    <2>3. allocated' = free' + Len(list')
        BY SMTT(30), <1>1, <1>5, <2>1, <2>2
    <2> QED
        BY <2>1, <2>2, <2>3 DEF CapacityBound
<1>11. HeldInCallback'
    <2>1. held'[r] # NoEvent /\ pc'[r] = "callback"
        BY <1>0, <1>4, <1>6 DEF QueueTypeOK, NoEvent
    <2>2. \A t \in Readers \ {r} : held'[t] = held[t] /\ pc'[t] = pc[t]
        BY <1>0, <1>4 DEF QueueTypeOK
    <2> QED
        BY <1>0, <2>1, <2>2 DEF HeldInCallback
<1> QED
    BY <1>7, <1>8, <1>9, <1>10, <1>11 DEF QueueInv

\* A callback that returns leaves the lists alone.
LEMMA CallbackDoneInv ==
    ASSUME NEW r \in Readers PROVE QueueInv /\ CallbackDone(r) => QueueInv'
<1> SUFFICES ASSUME QueueInv, CallbackDone(r) PROVE QueueInv'
    OBVIOUS
<1> USE UQueueAssumption DEF lists
<1>0. QueueTypeOK /\ SemaphoreCountsList /\ FifoOrder /\ CapacityBound /\ HeldInCallback
    BY DEF QueueInv
<1>1. QueueTypeOK'
    BY <1>0 DEF QueueTypeOK, CallbackDone, NoEvent
<1>2. PastSem' = PastSem
    BY <1>0 DEF PastSem, CallbackDone, QueueTypeOK
<1>3. SemaphoreCountsList' /\ CapacityBound'
    BY <1>0, <1>2 DEF SemaphoreCountsList, CapacityBound, CallbackDone
<1>4. FifoOrder'
    <2>1. Len(list) \in Nat /\ accepted \in Nat /\ Len(list) <= accepted
        <3>1. Len(list) \in Nat /\ accepted \in Nat /\ held[r] \in Nat
            BY <1>0, ListFacts DEF QueueTypeOK
        <3>2. held[r] <= accepted - Len(list)
            BY <1>0 DEF FifoOrder
        <3> QED
            BY <3>1, <3>2
    <2> QED
        BY <1>0, <2>1 DEF FifoOrder, CallbackDone, NoEvent, QueueTypeOK
<1>5. HeldInCallback'
    BY <1>0 DEF HeldInCallback, CallbackDone, QueueTypeOK
<1> QED
    BY <1>1, <1>3, <1>4, <1>5 DEF QueueInv

\* Every step preserves the invariant.
LEMMA QueueStepInv == QueueInv /\ [QueueNext]_queueVars => QueueInv'
<1> SUFFICES ASSUME QueueInv, [QueueNext]_queueVars PROVE QueueInv'
    OBVIOUS
<1>0. QueueTypeOK
    BY DEF QueueInv
<1>1. CASE EnqueueOK
    BY <1>1, EnqueueInv
<1>2. CASE EnqueueFull
    <2>1. QueueTypeOK' /\ PastSem' = PastSem
        BY <1>0, <1>2 DEF EnqueueFull, QueueTypeOK, lists, PastSem
    <2> QED
        BY <1>2, <2>1, QuietInv DEF EnqueueFull
<1>3. ASSUME NEW r \in Readers, Dispatch(r) PROVE QueueInv'
    <2>1. QueueTypeOK'
        BY <1>0, <1>3 DEF Dispatch, QueueTypeOK, lists
    <2>2. PastSem' = PastSem /\ \A t \in Readers : pc[t] = "callback" <=> pc'[t] = "callback"
        BY <1>0, <1>3 DEF Dispatch, PastSem, QueueTypeOK
    <2> QED
        BY <1>3, <2>1, <2>2, QuietInv DEF Dispatch
<1>4. ASSUME NEW r \in Readers, SemTimeout(r) PROVE QueueInv'
    <2>1. QueueTypeOK'
        BY <1>0, <1>4 DEF SemTimeout, QueueTypeOK, lists
    <2>2. PastSem' = PastSem /\ \A t \in Readers : pc[t] = "callback" <=> pc'[t] = "callback"
        BY <1>0, <1>4 DEF SemTimeout, PastSem, QueueTypeOK
    <2> QED
        BY <1>4, <2>1, <2>2, QuietInv DEF SemTimeout
<1>5. ASSUME NEW r \in Readers, Step(r) PROVE QueueInv'
    BY <1>5, SemWaitInv, RemoveInv, CallbackDoneInv DEF Step
<1>6. CASE UNCHANGED queueVars
    <2>1. QueueTypeOK' /\ PastSem' = PastSem
        BY <1>0, <1>6 DEF queueVars, QueueTypeOK, PastSem
    <2> QED
        BY <1>6, <2>1, QuietInv DEF queueVars, lists
<1> QED
    BY <1>1, <1>2, <1>3, <1>4, <1>5, <1>6 DEF QueueNext

\* The invariants below hold in every reachable state of the queue, whatever the
\* number of readers and the configured sizes.
THEOREM QueueInvariance == QueueSpec => []QueueInv
<1> QED
    BY QueueInitInv, QueueStepInv, PTL DEF QueueSpec

\* The variables keep their types.
THEOREM QueueTypeCorrect == QueueSpec => []QueueTypeOK
<1>1. QueueInv => QueueTypeOK
    BY DEF QueueInv
<1> QED
    BY <1>1, QueueInvariance, PTL

\* The semaphore never promises a reader an event that is not on the list and
\* never leaves one unannounced.
THEOREM SemaphoreAccounts == QueueSpec => []SemaphoreCountsList
<1>1. QueueInv => SemaphoreCountsList
    BY DEF QueueInv
<1> QED
    BY <1>1, QueueInvariance, PTL

\* Events leave uqueue.c in the order in which they were accepted, each once.
THEOREM FifoCorrect == QueueSpec => []FifoOrder
<1>1. QueueInv => FifoOrder
    BY DEF QueueInv
<1> QED
    BY <1>1, QueueInvariance, PTL

\* The overshoot of mMaxSize is bounded by the number of readers.
THEOREM CapacityCorrect == QueueSpec => []CapacityBound
<1>1. QueueInv => CapacityBound
    BY DEF QueueInv
<1> QED
    BY <1>1, QueueInvariance, PTL

-----------------------------------------------------------------------------
\* Every step of the queue is a step of EventFifo or leaves it unchanged.
LEMMA QueueSimulation == QueueInv /\ QueueInv' /\ [QueueNext]_queueVars => [Fifo!FifoNext]_(Fifo!fvars)
<1> SUFFICES ASSUME QueueInv, QueueInv', [QueueNext]_queueVars
             PROVE  [Fifo!FifoNext]_(Fifo!fvars)
    OBVIOUS
<1> USE UQueueAssumption DEF Fifo!FifoNext, Fifo!fvars, lists
<1>0. QueueTypeOK /\ SemaphoreCountsList /\ FifoOrder /\ CapacityBound /\ HeldInCallback
    BY DEF QueueInv
<1>a. /\ Cardinality(PastSem) \in Nat /\ Cardinality(Readers) \in Nat
      /\ Len(list) \in Nat /\ mSem \in Nat /\ free' \in Nat
    BY SMTT(30), <1>0, PastSemFinite, ListFacts DEF QueueInv, QueueTypeOK
<1>1. CASE EnqueueOK
    <2>1. Len(list') = Len(list) + 1
        BY <1>0, <1>1, ListFacts DEF EnqueueOK, LinkAtTail
    <2>2. free' + Len(list') <= MaxSize + Cardinality(Readers)
        BY DEF QueueInv, CapacityBound
    <2>3. Len(list) < MaxSize + Cardinality(Readers)
        BY <1>a, <2>1, <2>2
    <2>4. Fifo!Put
        BY <1>1, <2>3 DEF Fifo!Put, EnqueueOK, LinkAtTail
    <2> QED
        BY <2>4
<1>2. CASE EnqueueFull
    <2>1. mSem + ChunkSize > MaxSize
        BY <1>a, <1>2 DEF EnqueueFull, AllocChunkOK
    <2>2. mSem <= Len(list)
        BY <1>0, <1>a DEF SemaphoreCountsList
    <2>3. Len(list) + ChunkSize > MaxSize
        BY <1>a, <2>1, <2>2
    <2>4. Fifo!Refuse
        BY <1>2, <2>3 DEF Fifo!Refuse, EnqueueFull
    <2> QED
        BY <2>4
<1>3. ASSUME NEW r \in Readers, Remove(r)
      PROVE  [Fifo!FifoNext]_(Fifo!fvars)
    <2>1. held[r] = NoEvent
        BY <1>0, <1>3 DEF HeldInCallback, Remove
    <2>2. CASE list = <<>>
        BY <1>3, <2>2 DEF Remove
    <2>3. CASE list # <<>>
        <3>1. Fifo!Take(r)
            BY <1>3, <2>1, <2>3 DEF Fifo!Take, Remove, Unlink
        <3> QED
            BY <3>1
    <2> QED
        BY <2>2, <2>3
<1>4. ASSUME NEW r \in Readers, CallbackDone(r)
      PROVE  [Fifo!FifoNext]_(Fifo!fvars)
    <2>1. Fifo!Finish(r)
        BY <1>4 DEF Fifo!Finish, CallbackDone
    <2> QED
        BY <2>1
<1>5. ASSUME NEW r \in Readers, Dispatch(r) \/ SemTimeout(r) \/ SemWait(r)
      PROVE  [Fifo!FifoNext]_(Fifo!fvars)
    BY <1>5 DEF Dispatch, SemTimeout, SemWait
<1>6. CASE UNCHANGED queueVars
    BY <1>6 DEF queueVars
<1> QED
    BY <1>1, <1>2, <1>3, <1>4, <1>5, <1>6 DEF QueueNext, Step

\* uqueue.c implements the abstract queue: what EventFifo promises holds of it.
THEOREM QueueRefinement == QueueSpec => ImplementsFifo
<1>1. QueueInit => Fifo!FifoInit
    BY DEF QueueInit, Fifo!FifoInit
<1> QED
    BY <1>1, QueueSimulation, QueueInvariance, PTL DEF QueueSpec, ImplementsFifo, Fifo!FifoSpec

=============================================================================
