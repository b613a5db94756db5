---------------------------- MODULE NamingProofs ----------------------------
(***************************************************************************)
(* Proof that the table of peers and the connections of a transport agree, *)
(* for any number of transports, proxies and restarts, with or without     *)
(* beacons, however naming messages are lost and delayed, as long as the   *)
(* operating system does not hand out the port of an ended process again.  *)
(*                                                                         *)
(* The last part is about transports that share one proxy: settled         *)
(* discovery is a mesh, because of any two running transports that do not  *)
(* know each other one is yet to announce itself, or has a message under   *)
(* way that makes them meet (MeshInv).                                     *)
(***************************************************************************)
EXTENDS Naming, TLAPS

\* Ports are not reused, and a transport that has not started has none.
EndpointsDistinct ==
    \A u \in Procs :
        /\ endpoint[u] = NoEndpoint <=> run[u] = "down"
        /\ \A v \in Procs : endpoint[u] = endpoint[v] /\ run[u] # "down" => u = v

\* A transport that has not started is in no table and connected to no proxy.
DownIsUnknown ==
    \A u \in Procs : run[u] = "down" =>
        /\ \A p \in Procs : u \notin mPeers[p]
        /\ heard[u] = {}
        /\ welcome[u] = {}
        /\ \A n \in Nsds : link[u][n] = "none"

\* Its sender has started when a message is under way, and has said goodbye when
\* the message is a "D".
Allowed(u, m) == run[u] # "down" /\ (m = "D" => run[u] \notin {"up", "stopping"})

Msgs(q) == {q[i] : i \in 1..Len(q)}

MessagesFollowRun ==
    \A n \in Nsds, u, s \in Procs : \A m \in Msgs(pipe[n][u][s]) : Allowed(u, m)

\* The inductive invariant.
Inv ==
    /\ TypeOK
    /\ EndpointsDistinct
    /\ DownIsUnknown
    /\ MessagesFollowRun
    /\ TableMatchesConnections

Queues == Seq({"C", "D"})
Pipes == [Nsds -> [Procs -> [Procs -> Queues]]]

\* What the operations on a queue do to the messages in it.
LEMMA QueueFacts ==
  /\ <<>> \in Queues /\ Msgs(<<>>) = {}
  /\ \A q \in Queues, m \in {"C", "D"} :
        Append(q, m) \in Queues /\ Msgs(Append(q, m)) \subseteq Msgs(q) \cup {m}
  /\ \A q \in Queues : q # <<>> =>
        Tail(q) \in Queues /\ Msgs(Tail(q)) \subseteq Msgs(q) /\ Head(q) \in Msgs(q)
<1>1. <<>> \in Queues /\ Msgs(<<>>) = {}
  BY DEF Queues, Msgs
<1>2. ASSUME NEW q \in Queues, NEW m \in {"C", "D"}
      PROVE  Append(q, m) \in Queues /\ Msgs(Append(q, m)) \subseteq Msgs(q) \cup {m}
  BY DEF Queues, Msgs
<1>3. ASSUME NEW q \in Queues, q # <<>>
      PROVE  Tail(q) \in Queues /\ Msgs(Tail(q)) \subseteq Msgs(q) /\ Head(q) \in Msgs(q)
  BY <1>3 DEF Queues, Msgs
<1> QED
  BY <1>1, <1>2, <1>3

\* Pipes to which a transport's message may have been added, through some proxies.
Added(pp, ww, p, type, up) ==
    /\ ww = [n \in Nsds |-> [u \in Procs |-> [s \in Procs |-> ww[n][u][s]]]]
    /\ \A n \in Nsds, u, s \in Procs :
          \/ ww[n][u][s] = pp[n][u][s]
          \/ u = p /\ n \in up /\ ww[n][u][s] = Append(pp[n][u][s], type)

\* Every message in such a pipe was there before, or is the one sent.
AtMost(pp, ww, p, type, up) ==
    \A n \in Nsds, u, s \in Procs : \A m \in Msgs(ww[n][u][s]) :
       m \in Msgs(pp[n][u][s]) \/ (u = p /\ n \in up /\ m = type)

\* So it is, if the message is added.
LEMMA AddedFacts ==
  ASSUME NEW pp \in Pipes, NEW ww, NEW p \in Procs, NEW type \in {"C", "D"}, NEW up,
         Added(pp, ww, p, type, up)
  PROVE  ww \in Pipes /\ AtMost(pp, ww, p, type, up)
<1>1. ASSUME NEW n \in Nsds, NEW u \in Procs, NEW s \in Procs
      PROVE  /\ ww[n][u][s] \in Queues
             /\ \A m \in Msgs(ww[n][u][s]) :
                   m \in Msgs(pp[n][u][s]) \/ (u = p /\ n \in up /\ m = type)
  <2> DEFINE q == pp[n][u][s]
             w == ww[n][u][s]
  <2>1. q \in Queues
    BY DEF Pipes
  <2>2. w = q \/ (u = p /\ n \in up /\ w = Append(q, type))
    BY Zenon DEF Added
  <2> HIDE DEF q, w
  <2>3. w \in Queues /\ \A m \in Msgs(w) : m \in Msgs(q) \/ (u = p /\ n \in up /\ m = type)
    <3>1. Append(q, type) \in Queues /\ Msgs(Append(q, type)) \subseteq Msgs(q) \cup {type}
      BY <2>1, QueueFacts
    <3> QED
      BY ONLY Zenon, <2>1, <2>2, <3>1
  <2> QED
    BY Zenon, <2>3 DEF q, w
<1>2. ww = [n \in Nsds |-> [u \in Procs |-> [s \in Procs |-> ww[n][u][s]]]]
  BY Zenon DEF Added
<1>3. [n \in Nsds |-> [u \in Procs |-> [s \in Procs |-> ww[n][u][s]]]] \in Pipes
  BY Zenon, <1>1 DEF Pipes
<1> QED
  BY Zenon, <1>1, <1>2, <1>3 DEF AtMost

\* The proxies that namingPub of p is connected to.
Reached(p) == {n \in Nsds : link[p][n] = "up"}

\* Taking the next message of a pipe.
Taken(pp, ww, s, u, n) == pp[n][u][s] # <<>> /\ ww = [pp EXCEPT ![n][u][s] = Tail(@)]

\* What is left in the pipes was there before.
LEMMA TakenFacts ==
  ASSUME NEW pp \in Pipes, NEW ww, NEW s \in Procs, NEW u \in Procs, NEW n \in Nsds,
         Taken(pp, ww, s, u, n)
  PROVE  /\ ww \in Pipes
         /\ Head(pp[n][u][s]) \in Msgs(pp[n][u][s])
         /\ \A m \in Nsds, v, t \in Procs : Msgs(ww[m][v][t]) \subseteq Msgs(pp[m][v][t])
<1> DEFINE q == pp[n][u][s]
<1>1. q \in Queues /\ q # <<>> /\ ww = [pp EXCEPT ![n][u][s] = Tail(q)]
  BY DEF Pipes, Taken
<1> HIDE DEF q
<1>3. ww \in Pipes
  BY <1>1, QueueFacts DEF Pipes
<1>4. ASSUME NEW m \in Nsds, NEW v \in Procs, NEW t \in Procs
      PROVE  Msgs(ww[m][v][t]) \subseteq Msgs(pp[m][v][t])
  <2>1. CASE m = n /\ v = u /\ t = s
    <3>1. ww[m][v][t] = Tail(q) /\ pp[m][v][t] = q
      BY Zenon, <1>1, <2>1 DEF Pipes, q
    <3> QED
      BY Zenon, <1>1, QueueFacts, <3>1
  <2>2. CASE ~(m = n /\ v = u /\ t = s)
    BY <1>1, <2>2 DEF Pipes
  <2> QED
    BY Zenon, <2>1, <2>2
<1> QED
  BY Zenon, <1>1, QueueFacts, <1>3, <1>4 DEF q

\* Every initial state satisfies the invariant.
LEMMA InitInv == Init => Inv
<1> SUFFICES ASSUME Init PROVE Inv
  OBVIOUS
<1>1. TypeOK
  <2>1. pipe \in [Nsds -> [Procs -> [Procs -> Seq({"C", "D"})]]]
    BY QueueFacts DEF Init, Queues
  <2>2. /\ starting \in [Procs -> Nat] /\ announcing \in [Procs -> Nat]
        /\ checking \in [Procs -> Nat] /\ restarts \in Nat
    BY DEF Init
  <2> QED
    BY Zenon, <2>1, <2>2, NamingAssumption DEF Init, TypeOK
<1>2. EndpointsDistinct /\ DownIsUnknown /\ TableMatchesConnections
  BY DEF Init, EndpointsDistinct, DownIsUnknown, TableMatchesConnections
<1>3. MessagesFollowRun
  BY QueueFacts DEF Init, MessagesFollowRun
<1> QED
  BY <1>1, <1>2, <1>3 DEF Inv

\* Sending "C" from a transport that has started, or "D" from one that says
\* goodbye in the same step, keeps the messages under way in order.
LEMMA SendKeeps ==
  ASSUME Inv, NEW p \in Procs, NEW type \in {"C", "D"}, SendEndpointsMsg(p, type),
         \A u \in Procs : run[u] # "down" =>
            /\ run'[u] # "down"
            /\ run'[u] \in {"up", "stopping"} => run[u] \in {"up", "stopping"},
         type = "D" => run'[p] \notin {"up", "stopping"}
  PROVE  pipe' \in Pipes /\ MessagesFollowRun'
<1> DEFINE pp == pipe
           ww == pipe'
           up == Reached(p)
<1>2. Added(pp, ww, p, type, up)
  <2>1. pipe' = Sent(pipe, p, type)
    BY DEF SendEndpointsMsg
  <2> QED
    BY Zenon, <2>1 DEF Sent, Added, Reached
<1>3. ww \in Pipes /\ AtMost(pp, ww, p, type, up)
  <2>3. pp \in Pipes /\ Added(pp, ww, p, type, up)
    BY Zenon, <1>2 DEF Inv, TypeOK, Pipes, Queues
  <2> HIDE DEF ww, pp, up
  <2> QED
    BY Zenon, <2>3, AddedFacts
<1>4. ASSUME NEW n \in Nsds, NEW u \in Procs, NEW s \in Procs, NEW m \in Msgs(ww[n][u][s])
      PROVE  run'[u] # "down" /\ (m = "D" => run'[u] \notin {"up", "stopping"})
  <2>1. CASE m \in Msgs(pipe[n][u][s])
    BY Zenon, <2>1 DEF Inv, MessagesFollowRun, Allowed
  <2>2. CASE u = p /\ n \in Reached(p) /\ m = type
    BY <2>2 DEF Inv, DownIsUnknown, Reached
  <2> QED
    BY Zenon, <1>3, <2>1, <2>2 DEF AtMost
<1> QED
  BY Zenon, <1>3, <1>4 DEF MessagesFollowRun, Allowed

\* Messages that are taken or lost, and transports that move on, keep the rest in order.
LEMMA MessagesKept ==
  ASSUME MessagesFollowRun,
         \A n \in Nsds, u, s \in Procs : Msgs(pipe[n][u][s])' \subseteq Msgs(pipe[n][u][s]),
         \A u \in Procs : run[u] # "down" =>
            /\ run'[u] # "down"
            /\ run'[u] \in {"up", "stopping"} => run[u] \in {"up", "stopping"}
  PROVE  MessagesFollowRun'
BY DEF MessagesFollowRun, Allowed

\* Endpoints stay as they are, and nobody starts.
LEMMA EndpointsKept ==
  ASSUME EndpointsDistinct, endpoint' = endpoint,
         \A u \in Procs : run'[u] = "down" <=> run[u] = "down"
  PROVE  EndpointsDistinct'
BY DEF EndpointsDistinct

\* Tables and connections to proxies stay as they are or get smaller.
LEMMA UnknownKept ==
  ASSUME DownIsUnknown,
         \A u \in Procs : /\ run'[u] = "down" => run[u] = "down"
                          /\ mPeers'[u] \subseteq mPeers[u]
                          /\ heard'[u] \subseteq heard[u] /\ welcome'[u] \subseteq welcome[u]
                          /\ \A n \in Nsds : link'[u][n] \in {link[u][n], "none"}
  PROVE  DownIsUnknown'
<1>1. ASSUME NEW u \in Procs, run'[u] = "down"
      PROVE  /\ \A p \in Procs : u \notin mPeers'[p]
             /\ heard'[u] = {} /\ welcome'[u] = {}
             /\ \A n \in Nsds : link'[u][n] = "none"
  BY <1>1 DEF DownIsUnknown
<1> QED
  BY DEF DownIsUnknown

\* Tables and connections stay as they are, and nobody starts.
LEMMA TablesKept ==
  ASSUME TypeOK, TableMatchesConnections, UNCHANGED <<endpoint, mPeers, conn>>,
         \A u \in Procs : run'[u] = "up" => run[u] = "up"
  PROVE  TableMatchesConnections'
  BY DEF TableMatchesConnections, TypeOK

\* The rows of the tables, one by one.
LEMMA TableRows ==
  ASSUME run' = run, endpoint' = endpoint,
         \A q \in Procs :
            /\ \A v \in mPeers'[q] : run[v] = "up" => endpoint[v] \in conn'[q]
            /\ conn'[q] \subseteq {endpoint[v] : v \in mPeers'[q]}
  PROVE  TableMatchesConnections'
BY DEF TableMatchesConnections

\* A step that touches neither transports, tables nor connections.
LEMMA OthersKept ==
  ASSUME TypeOK, EndpointsDistinct, DownIsUnknown, TableMatchesConnections,
         UNCHANGED <<run, endpoint, mPeers, conn, heard, welcome, link>>
  PROVE  EndpointsDistinct' /\ DownIsUnknown' /\ TableMatchesConnections'
  BY EndpointsKept, UnknownKept, TablesKept

\* Connections of the naming sockets come up.
LEMMA LinkInv ==
  ASSUME Inv, NEW p \in Procs, NEW n \in Nsds,
         SubscribeNaming(p, n) \/ DispatchWelcome(p, n) \/ Established(p, n)
  PROVE  Inv'
<1> USE DEF Inv
<1>2. TypeOK' /\ DownIsUnknown'
  <2>1. CASE SubscribeNaming(p, n)
    <3>1. TypeOK'
      BY <2>1 DEF SubscribeNaming, TypeOK, tableVars, threadVars, publishVars
    <3> QED
      BY <3>1, <2>1 DEF SubscribeNaming, tableVars, threadVars, publishVars, DownIsUnknown,
         Dispatching
  <2>2. CASE DispatchWelcome(p, n)
    <3>1. TypeOK'
      BY <2>2 DEF DispatchWelcome, TypeOK, tableVars
    <3> QED
      BY <3>1, <2>2 DEF DispatchWelcome, tableVars, DownIsUnknown
  <2>3. CASE Established(p, n)
    BY <2>3 DEF Established, TypeOK, tableVars, threadVars, publishVars, DownIsUnknown
  <2> QED
    BY <2>1, <2>2, <2>3
<1> QED
  BY Zenon, <1>2, EndpointsKept, MessagesKept, TablesKept DEF SubscribeNaming, DispatchWelcome,
     Established, tableVars, threadVars, publishVars

\* Threads start, look whether they are done, give up or find that a beacon is due.
LEMMA ThreadInv ==
  ASSUME Inv, NEW p \in Procs,
         PublishBegin(p) \/ PublishCheck(p) \/ PublishGiveUp(p) \/ BeaconDue(p)
  PROVE  Inv'
<1> USE DEF Inv
<1>1. UNCHANGED <<run, endpoint, mPeers, conn, heard, welcome, link, pipe>>
  BY Zenon DEF PublishBegin, PublishCheck, PublishGiveUp, BeaconDue, tableVars, netVars
<1>2. TypeOK'
  <2>1. CASE PublishBegin(p)
    BY <2>1 DEF PublishBegin, TypeOK, netVars
  <2>2. CASE PublishGiveUp(p)
    BY <2>2 DEF PublishGiveUp, TypeOK, tableVars, netVars
  <2>3. CASE BeaconDue(p)
    BY Zenon, <2>3 DEF BeaconDue, TypeOK, tableVars, netVars, publishVars
  <2>4. CASE PublishCheck(p)
    <3>1. checking' \in [Procs -> Nat] /\ announcing' \in [Procs -> Nat]
      BY <2>4 DEF PublishCheck, TypeOK
    <3> QED
      BY Zenon, <2>4, <3>1 DEF PublishCheck, TypeOK, tableVars, netVars
  <2> QED
    BY <2>1, <2>2, <2>3, <2>4
<1> QED
  BY <1>2, <1>1, OthersKept, MessagesKept

\* A publishEndpoints thread or a beacon sends "C".
LEMMA AnnounceInv ==
  ASSUME Inv, NEW p \in Procs, PublishSend(p) \/ BeaconSend(p)
  PROVE  Inv'
<1> USE DEF Inv
<1>1. UNCHANGED <<run, endpoint, tableVars, starting, gaveUp, beaconing, heard, welcome, link,
                  restarts>>
  BY DEF PublishSend, BeaconSend, publishVars
<1>4. /\ announcing' \in [Procs -> Nat] /\ checking' \in [Procs -> Nat]
      /\ beacon' \in [Procs -> {"none", "due", "sent"}]
  <2>1. CASE PublishSend(p)
    BY <2>1 DEF PublishSend, TypeOK
  <2>2. CASE BeaconSend(p)
    BY Zenon, <2>2 DEF BeaconSend, TypeOK, publishVars
  <2> QED
    BY <2>1, <2>2
<1> QED
  BY Zenon, <1>1, SendKeeps, <1>4, OthersKept DEF PublishSend, BeaconSend, TypeOK, Pipes, Queues,
     tableVars

\* create and init: nobody knows the transport, its port is a new one.
LEMMA StartInv ==
  ASSUME ~PortReuse, Inv, NEW p \in Procs, NEW e \in Endpoints, Start(p, e)
  PROVE  Inv'
<1> USE DEF Inv
<1>1. /\ run[p] = "down" /\ run' = [run EXCEPT ![p] = "up"]
      /\ endpoint' = [endpoint EXCEPT ![p] = e] /\ \A u \in Procs : endpoint[u] # e
      /\ UNCHANGED <<tableVars, threadVars, netVars, restarts>>
  BY DEF Start
<1>3. EndpointsDistinct'
  BY Zenon, <1>1 DEF EndpointsDistinct, TypeOK
<1>4. DownIsUnknown'
  BY <1>1 DEF DownIsUnknown, tableVars, netVars
<1>5. MessagesFollowRun'
  <2>1. pipe' = pipe /\ \A u \in Procs : \A m : Allowed(u, m) => run'[u] = run[u]
    BY <1>1 DEF netVars, Allowed
  <2> QED
    BY <2>1 DEF MessagesFollowRun, Allowed
<1>6. TableMatchesConnections'
  BY <1>1 DEF DownIsUnknown, TableMatchesConnections, tableVars
<1> QED
  BY Zenon, <1>1, <1>3, <1>4, <1>5, <1>6 DEF TypeOK, tableVars, threadVars, publishVars, netVars

\* stop before and after its farewell.
LEMMA StopInv ==
  ASSUME Inv, NEW p \in Procs, StopBeacons(p) \/ EndDispatch(p)
  PROVE  Inv'
<1> USE DEF Inv
<1>1. /\ UNCHANGED <<endpoint, tableVars, netVars>>
      /\ \/ run[p] = "up" /\ run' = [run EXCEPT ![p] = "stopping"]
         \/ run[p] = "farewell" /\ run' = [run EXCEPT ![p] = "ended"]
  BY DEF StopBeacons, EndDispatch
<1>2. TypeOK'
  <2>1. CASE StopBeacons(p)
    BY Zenon, <2>1 DEF StopBeacons, TypeOK, tableVars, netVars, publishVars
  <2>2. CASE EndDispatch(p)
    BY Zenon, <2>2 DEF EndDispatch, TypeOK, tableVars, netVars, threadVars, publishVars
  <2> QED
    BY <2>1, <2>2
<1>3. \A u \in Procs : /\ run'[u] = "down" <=> run[u] = "down"
                       /\ run'[u] \in {"up", "stopping"} => run[u] \in {"up", "stopping"}
                       /\ run'[u] = "up" => run[u] = "up"
  BY Zenon, <1>1 DEF TypeOK
<1> QED
  BY Zenon, <1>2, <1>1, <1>3, MessagesKept, EndpointsKept, UnknownKept, TablesKept DEF netVars,
     tableVars

\* stop sends "D".
LEMMA FarewellInv ==
  ASSUME Inv, NEW p \in Procs, SendDisconnect(p)
  PROVE  Inv'
<1> USE DEF Inv
<1> QED
  BY Zenon, SendKeeps, EndpointsKept, UnknownKept, TablesKept DEF TypeOK, Pipes, Queues,
     tableVars, threadVars, publishVars, SendDisconnect

\* A process ends: its tables are empty, what others know of it may be stale.
LEMMA GoneInv ==
  ASSUME Inv, NEW p \in Procs, run[p] # "down", Gone(p)
  PROVE  Inv'
<1> USE DEF Inv
<1>1. /\ run' = [run EXCEPT ![p] = "exited"]
      /\ mPeers' = [mPeers EXCEPT ![p] = {}] /\ conn' = [conn EXCEPT ![p] = {}]
      /\ heard' = [heard EXCEPT ![p] = {}] /\ welcome' = [welcome EXCEPT ![p] = {}]
      /\ link' = [link EXCEPT ![p] = [n \in Nsds |-> "none"]]
      /\ pipe' = [n \in Nsds |-> [u \in Procs |-> [pipe[n][u] EXCEPT ![p] = <<>>]]]
      /\ UNCHANGED endpoint
  BY Zenon DEF Gone
<1>2. pipe' \in Pipes /\ \A n \in Nsds, u, s \in Procs :
                            pipe'[n][u][s] = IF s = p THEN <<>> ELSE pipe[n][u][s]
  <2>1. pipe \in [Nsds -> [Procs -> [Procs -> Queues]]] /\ <<>> \in Queues
    BY DEF TypeOK, Queues
  <2>4. ASSUME NEW n \in Nsds, NEW u \in Procs, NEW s \in Procs
        PROVE  pipe'[n][u][s] = IF s = p THEN <<>> ELSE pipe[n][u][s]
    <3>1. pipe[n][u] \in [Procs -> Queues] /\ pipe'[n][u] = [pipe[n][u] EXCEPT ![p] = <<>>]
      BY Zenon, <1>1, <2>1
    <3> QED
      BY ONLY <3>1, s \in Procs
  <2> QED
    BY Zenon, <1>1, <2>1 DEF Pipes
<1>4. \A u \in Procs : /\ run'[u] = "down" <=> run[u] = "down"
                       /\ run'[u] \in {"up", "stopping"} => run[u] \in {"up", "stopping"}
                       /\ run'[u] = "up" => run[u] = "up"
  BY <1>1
<1>5. MessagesFollowRun'
  BY <1>2, QueueFacts, <1>4, MessagesKept
<1>6. EndpointsDistinct'
  BY <1>1, EndpointsKept
<1>7. DownIsUnknown'
  BY <1>1, UnknownKept
<1>8. TableMatchesConnections'
  <2>1. ASSUME NEW q \in Procs
        PROVE  /\ \A u \in mPeers'[q] : run'[u] = "up" => endpoint'[u] \in conn'[q]
               /\ conn'[q] \subseteq {endpoint'[u] : u \in mPeers'[q]}
    <3>1. CASE q = p
      BY Zenon, <1>1, <3>1 DEF TypeOK
    <3>2. CASE q # p
      <4>1. mPeers'[q] = mPeers[q] /\ conn'[q] = conn[q] /\ endpoint' = endpoint
            /\ mPeers[q] \subseteq Procs
        BY Zenon, <1>1, <3>2 DEF TypeOK
      <4> QED
        BY <1>4, <4>1 DEF TableMatchesConnections
    <3> QED
      BY <3>1, <3>2
  <2> QED
    BY <2>1 DEF TableMatchesConnections
<1> QED
  BY Zenon, <1>2, <1>5, <1>6, <1>7, <1>8 DEF Gone, TypeOK, Pipes, Queues

\* A refused endpoint belongs to no running transport.
LEMMA RefusedInv ==
  ASSUME Inv, NEW p \in Procs, NEW e \in Endpoints, ConnectionRefused(p, e)
  PROVE  Inv'
<1> USE DEF Inv
<1>5. TableMatchesConnections'
  <2>1. ASSUME NEW q \in Procs
        PROVE  /\ \A u \in mPeers[q] : run[u] = "up" => endpoint[u] \in conn'[q]
               /\ conn'[q] \subseteq {endpoint[u] : u \in mPeers[q]}
    BY Zenon DEF TypeOK, TableMatchesConnections, ConnectionRefused, Bound, Open, Dispatching
  <2> QED
    BY Zenon, <2>1, TableRows DEF ConnectionRefused
<1> QED
  BY Zenon, EndpointsKept, UnknownKept, MessagesKept, <1>5 DEF ConnectionRefused, TypeOK,
     threadVars, publishVars, netVars

\* A proxy restarts.
LEMMA NsdRestartInv ==
  ASSUME Inv, NEW n \in Nsds, NsdRestart(n)
  PROVE  Inv'
<1> USE DEF Inv
<1>1. /\ UNCHANGED <<run, endpoint, mPeers, conn>>
      /\ heard' = [p \in Procs |-> heard[p] \ {n}]
      /\ welcome' = [p \in Procs |-> welcome[p] \ {n}]
      /\ link' = [p \in Procs |-> [link[p] EXCEPT ![n] = "none"]]
      /\ pipe' = [pipe EXCEPT ![n] = [u \in Procs |-> [s \in Procs |-> <<>>]]]
  BY DEF NsdRestart, tableVars
<1>3. TypeOK'
  BY <1>1 DEF NsdRestart, TypeOK, Pipes, tableVars, threadVars, publishVars, Queues
<1> QED
  BY <1>3, QueueFacts, <1>1, MessagesKept, EndpointsKept, TablesKept, UnknownKept

\* "C" from a known peer: only the message goes.
LEMMA KnownPeerInv ==
  ASSUME Inv, NEW s \in Procs, NEW u \in Procs, NEW n \in Nsds,
         DispatchConnect(s, u, n), u \in mPeers[s]
  PROVE  Inv'
<1> USE DEF Inv
<1> DEFINE pp == pipe
           ww == pipe'
<1>3. /\ ww \in Pipes
      /\ \A m \in Nsds, v, t \in Procs : Msgs(ww[m][v][t]) \subseteq Msgs(pp[m][v][t])
  <2>1. pp \in Pipes /\ Taken(pp, ww, s, u, n)
    BY Zenon DEF Popped, Taken, TypeOK, Pipes, Queues, DispatchConnect, Received
  <2> HIDE DEF pp, ww
  <2> QED
    BY Zenon, <2>1, TakenFacts
<1> QED
  BY Zenon, <1>3, MessagesKept, OthersKept DEF TypeOK, Pipes, Queues, threadVars, publishVars,
     DispatchConnect, Received

\* "C" from a new peer: it has started, so its endpoint is one to connect to.
LEMMA NewPeerInv ==
  ASSUME Inv, NEW s \in Procs, NEW u \in Procs, NEW n \in Nsds,
         DispatchConnect(s, u, n), u \notin mPeers[s]
  PROVE  Inv'
<1> USE DEF Inv
<1>1. /\ UNCHANGED <<run, endpoint, threadVars, heard, welcome, link, restarts>>
      /\ pipe' = Sent(Popped(s, u, n), s, "C") /\ pipe[n][u][s] # <<>> /\ Dispatching(s)
      /\ conn' = [conn EXCEPT ![s] = @ \cup {endpoint[u]}]
      /\ mPeers' = [mPeers EXCEPT ![s] = @ \cup {u}]
      /\ mNamingConnected' = [mNamingConnected EXCEPT ![s] = @ \/ u = s]
  BY Zenon DEF DispatchConnect, Received, ConnectPeer, Ready
<1> DEFINE qq == pipe
           pp == Popped(s, u, n)
           ww == pipe'
           up == Reached(s)
<1>3. /\ pp \in Pipes
      /\ Head(qq[n][u][s]) \in Msgs(qq[n][u][s])
      /\ \A m \in Nsds, v, t \in Procs : Msgs(pp[m][v][t]) \subseteq Msgs(qq[m][v][t])
  <2>1. qq \in Pipes /\ Taken(qq, pp, s, u, n)
    BY Zenon, <1>1 DEF Popped, Taken, TypeOK, Pipes, Queues
  <2> HIDE DEF qq, pp
  <2> QED
    BY Zenon, <2>1, TakenFacts
<1>4. Added(pp, ww, s, "C", up)
  <2>1. ww = Sent(pp, s, "C")
    BY Zenon, <1>1
  <2> HIDE DEF pp
  <2> QED
    BY Zenon, <2>1 DEF Sent, Added, Reached
<1>5. ww \in Pipes /\ AtMost(pp, ww, s, "C", up)
  <2>1. pp \in Pipes
    BY Zenon, <1>3
  <2> HIDE DEF qq, pp, ww, up
  <2> QED
    BY Zenon, <2>1, <1>4, AddedFacts
<1>6. run[u] # "down" /\ run[s] # "down"
  <2>3. \A m \in Msgs(qq[n][u][s]) : Allowed(u, m)
    BY DEF MessagesFollowRun
  <2> HIDE DEF qq, pp
  <2> QED
    BY Zenon, <1>1, <1>3, <2>3 DEF Allowed, Dispatching
<1>7. MessagesFollowRun'
  <2>1. ASSUME NEW m \in Nsds, NEW v \in Procs, NEW t \in Procs, NEW x \in Msgs(ww[m][v][t])
        PROVE  Allowed(v, x)
    <3>1. x \in Msgs(qq[m][v][t]) \/ (v = s /\ x = "C")
      <4> HIDE DEF qq, pp, ww, up
      <4> QED
        BY Zenon, <1>3, <1>5 DEF AtMost
    <3> QED
      BY Zenon, <1>6, <3>1 DEF MessagesFollowRun, Allowed
  <2> QED
    BY Zenon, <1>1, <2>1 DEF MessagesFollowRun, Allowed
<1>8. endpoint[u] \in Endpoints
  BY <1>6 DEF TypeOK, EndpointsDistinct
<1>9. TypeOK'
  <2>1. /\ conn' \in [Procs -> SUBSET Endpoints] /\ mPeers' \in [Procs -> SUBSET Procs]
        /\ mNamingConnected' \in [Procs -> BOOLEAN]
    BY <1>1, <1>8 DEF TypeOK
  <2> QED
    BY Zenon, <1>1, <1>5, <2>1 DEF TypeOK, Pipes, Queues, threadVars, publishVars
<1>12. TableMatchesConnections'
  <2>1. ASSUME NEW q \in Procs
        PROVE  /\ \A v \in mPeers'[q] : run[v] = "up" => endpoint[v] \in conn'[q]
               /\ conn'[q] \subseteq {endpoint[v] : v \in mPeers'[q]}
    <3>1. CASE q = s
      <4>1. mPeers'[q] = mPeers[q] \cup {u} /\ conn'[q] = conn[q] \cup {endpoint[u]}
        BY Zenon, <1>1, <3>1 DEF TypeOK
      <4> QED
        BY <4>1 DEF TableMatchesConnections
    <3>2. CASE q # s
      BY Zenon, <1>1, <3>2 DEF TypeOK, TableMatchesConnections
    <3> QED
      BY <3>1, <3>2
  <2>2. run' = run /\ endpoint' = endpoint
    BY Zenon, <1>1
  <2> QED
    BY Zenon, <2>1, <2>2, TableRows
<1> QED
  BY <1>7, <1>9, <1>1, EndpointsKept, <1>6, <1>12 DEF DownIsUnknown

\* "D": its sender is not running, so nobody else has its endpoint.
LEMMA DisconnectInv ==
  ASSUME Inv, NEW s \in Procs, NEW u \in Procs, NEW n \in Nsds, DispatchDisconnect(s, u, n)
  PROVE  Inv'
<1> USE DEF Inv
<1>1. /\ UNCHANGED <<run, endpoint, mNamingConnected, threadVars, heard, welcome, link, restarts>>
      /\ pipe' = Popped(s, u, n) /\ pipe[n][u][s] # <<>> /\ Head(pipe[n][u][s]) = "D"
      /\ mPeers' = [mPeers EXCEPT ![s] = @ \ {u}]
      /\ conn' = [conn EXCEPT ![s] = @ \ {endpoint[u]}]
  BY Zenon DEF DispatchDisconnect, Received
<1> DEFINE pp == pipe
           ww == pipe'
<1>3. /\ ww \in Pipes
      /\ Head(pp[n][u][s]) \in Msgs(pp[n][u][s])
      /\ \A m \in Nsds, v, t \in Procs : Msgs(ww[m][v][t]) \subseteq Msgs(pp[m][v][t])
  <2>1. pp \in Pipes /\ Taken(pp, ww, s, u, n)
    BY Zenon, <1>1 DEF Popped, Taken, TypeOK, Pipes, Queues
  <2> HIDE DEF pp, ww
  <2> QED
    BY Zenon, <2>1, TakenFacts
<1>8. DownIsUnknown'
  BY <1>1, UnknownKept
<1>9. TableMatchesConnections'
  <2>1. ASSUME NEW q \in Procs
        PROVE  /\ \A v \in mPeers'[q] : run[v] = "up" => endpoint[v] \in conn'[q]
               /\ conn'[q] \subseteq {endpoint[v] : v \in mPeers'[q]}
    <3>1. CASE q = s
      <4>1. /\ mPeers'[q] = mPeers[q] \ {u} /\ conn'[q] = conn[q] \ {endpoint[u]}
            /\ mPeers[q] \subseteq Procs
        BY Zenon, <1>1, <3>1 DEF TypeOK
      <4> QED
        BY <4>1 DEF TableMatchesConnections, EndpointsDistinct
    <3>2. CASE q # s
      BY Zenon, <1>1, <3>2 DEF TypeOK, TableMatchesConnections
    <3> QED
      BY <3>1, <3>2
  <2>2. run' = run /\ endpoint' = endpoint
    BY Zenon, <1>1
  <2> QED
    BY <2>1, <2>2, TableRows
<1> QED
  BY Zenon, <1>1, <1>3, MessagesKept, EndpointsKept, <1>8, <1>9 DEF TypeOK, Pipes, Queues,
     threadVars, publishVars

\* Every step of a system whose ports are not reused preserves the invariant.
LEMMA StepInv ==
  ASSUME ~PortReuse
  PROVE  Inv /\ [Next]_vars => Inv'
<1> SUFFICES ASSUME Inv, [Next]_vars PROVE Inv'
  OBVIOUS
<1>1. CASE UNCHANGED vars
  BY Zenon, <1>1, OthersKept, MessagesKept DEF vars, tableVars, netVars, threadVars, publishVars,
     Inv, TypeOK
<1>2. ASSUME NEW p \in Procs, NEW e \in Endpoints, Start(p, e) \/ ConnectionRefused(p, e)
      PROVE  Inv'
  BY <1>2, StartInv, RefusedInv
<1>3. ASSUME NEW p \in Procs, Progress(p)
      PROVE  Inv'
  BY Zenon, ThreadInv, AnnounceInv, LinkInv, KnownPeerInv, NewPeerInv, DisconnectInv, <1>3
     DEF Progress
<1>4. ASSUME NEW p \in Procs,
             \/ PublishSend(p) \/ PublishCheck(p) \/ PublishGiveUp(p) \/ BeaconDue(p)
             \/ StopBeacons(p) \/ SendDisconnect(p) \/ EndDispatch(p)
      PROVE  Inv'
  BY <1>4, AnnounceInv, ThreadInv, StopInv, FarewellInv
<1>5. ASSUME NEW p \in Procs, Exit(p) \/ Crash(p)
      PROVE  Inv'
  BY <1>5, GoneInv DEF Exit, Crash, Open, Dispatching
<1>6. ASSUME NEW n \in Nsds, NsdRestart(n)
      PROVE  Inv'
  BY <1>6, NsdRestartInv
<1> QED
  BY <1>1, <1>2, <1>3, <1>4, <1>5, <1>6 DEF Next

\* The invariant holds throughout.
THEOREM Invariance == ASSUME ~PortReuse PROVE Spec => []Inv
<1>1. Inv /\ [Next]_vars => Inv'
  BY StepInv
<1> QED
  BY <1>1, InitInv, PTL DEF Spec

\* Every state of discovery is well formed: only endpoints and uuids of transports that
\* have started get into a table, and no thread counter of a transport drops below zero.
THEOREM TypeCorrect == ASSUME ~PortReuse PROVE Spec => []TypeOK
<1>1. Inv => TypeOK
  BY DEF Inv
<1> QED
  BY <1>1, Invariance, PTL

\* The table of peers and the connections of dataSub agree (dispatchNamingMsg): a
\* running peer whose messages are ignored as duplicates is connected, and no
\* connection outlives its table entry, provided ports are not reused.
THEOREM TablesMatch == ASSUME ~PortReuse PROVE Spec => []TableMatchesConnections
<1>1. Inv => TableMatchesConnections
  BY DEF Inv
<1> QED
  BY <1>1, Invariance, PTL

-----------------------------------------------------------------------------
\* That a settled system is a mesh, for transports that share one proxy n.

\* The transport has not got its own announcement back, and so not proved that the
\* others can hear it; from the moment it does, it is in its own table.
Unheard(u) == u \notin mPeers[u]

\* It is yet to be welcomed, or some thread of it is yet to announce it.
Busy(u) ==
    \/ heard[u] # Nsds \/ welcome[u] # {}
    \/ starting[u] > 0 \/ announcing[u] > 0 \/ checking[u] > 0

\* A message of u is on its way to p.
Toward(n, u, p) == pipe[n][u][p] # <<>>

\* What a transport has sent or set going, it owes to its connections with the proxy.
LinksOK(n) ==
    \A u \in Procs :
        /\ welcome[u] \subseteq heard[u]
        /\ link[u][n] # "none" => n \in heard[u]
        /\ run[u] = "up" /\ (~Unheard(u) \/ Toward(n, u, u)) => link[u][n] = "up"
        /\ \A p \in Procs :
              run[u] = "up" /\ (u \in mPeers[p] \/ Toward(n, u, p)) => n \in heard[u]

\* Threads go on until the transport has heard itself, unless they give up.
ThreadsOK ==
    \A u \in Procs :
        /\ mNamingConnected[u] => run[u] # "down" /\ (run[u] = "up" => ~Unheard(u))
        /\ run[u] = "up" /\ Unheard(u) /\ ~gaveUp => Busy(u)

\* Who has p in its table has told p about itself, or will.
Answered(n, p, u) ==
    run[p] = "up" /\ run[u] = "up" /\ p \in mPeers[u] =>
        u \in mPeers[p] \/ Toward(n, u, p) \/ Unheard(u)

\* p knows u, or a message is under way, or to come, that makes them meet.
Meets(n, p, u) ==
    run[p] = "up" /\ run[u] = "up" =>
        \/ u \in mPeers[p] \/ Toward(n, u, p) \/ Unheard(u) \/ Unheard(p)
        \/ Toward(n, p, u) /\ p \notin mPeers[u]

PairsOK(n) == \A p, u \in Procs : Answered(n, p, u) /\ Meets(n, p, u)

\* The inductive invariant of discovery, until the proxy restarts.
MeshInv(n) == restarts = 0 => LinksOK(n) /\ PairsOK(n) /\ ThreadsOK

\* Sending to a pipe leaves it nonempty: it has room, or it is full of messages.
LEMMA PipeFacts ==
  ASSUME NEW q \in Queues, NEW type \in {"C", "D"}
  PROVE  Append(q, type) # <<>> /\ (Len(q) < HWM \/ q # <<>>)
  BY NamingAssumption DEF Queues

\* From u to s, a message of p is under way where none was.
Spread(pp, ww, p, n, u, s) ==
    /\ pp[n][u][s] # <<>> => ww[n][u][s] # <<>>
    /\ ww[n][u][s] # <<>> => pp[n][u][s] # <<>> \/ (u = p /\ link[p][n] = "up")
    /\ u = p /\ link[p][n] = "up" /\ n \in heard[s] => ww[n][u][s] # <<>>

\* A message of p gets under way to every transport that listens to a proxy p reaches.
LEMMA SentFacts ==
  ASSUME NEW pp \in Pipes, NEW p \in Procs, NEW type \in {"C", "D"},
         NEW n \in Nsds, NEW u \in Procs, NEW s \in Procs, NEW ww, ww = Sent(pp, p, type)
  PROVE  Spread(pp, ww, p, n, u, s)
<1> DEFINE q == pp[n][u][s]
           w == ww[n][u][s]
           c == u = p /\ link[p][n] = "up" /\ n \in heard[s]
<1>1. q \in Queues
  BY DEF Pipes
<1>2. w = IF c /\ Len(q) < HWM THEN Append(q, type) ELSE q
  BY Zenon DEF Sent
<1> HIDE DEF q, w, c
<1>4. Append(q, type) # <<>> /\ (Len(q) < HWM \/ q # <<>>)
  BY <1>1, PipeFacts
<1>5. (q # <<>> => w # <<>>) /\ (w # <<>> => q # <<>> \/ c) /\ (c => w # <<>>)
  BY ONLY <1>2, <1>4
<1> QED
  BY Zenon, <1>5 DEF q, w, c, Spread

\* Popping a pipe leaves the others alone.
LEMMA PoppedFacts ==
  ASSUME Inv, NEW s \in Procs, NEW u \in Procs, NEW n \in Nsds, pipe[n][u][s] # <<>>
  PROVE  /\ Popped(s, u, n) \in Pipes
         /\ \A v, t \in Procs : v # u \/ t # s => Popped(s, u, n)[n][v][t] = pipe[n][v][t]
<1>2. Popped(s, u, n) \in Pipes
  <2> DEFINE pp == pipe
             ww == Popped(s, u, n)
  <2>1. pp \in Pipes /\ Taken(pp, ww, s, u, n)
    BY Zenon DEF Popped, Taken, Inv, TypeOK, Pipes, Queues
  <2> HIDE DEF pp, ww
  <2> QED
    BY Zenon, <2>1, TakenFacts DEF ww
<1> QED
  BY Zenon, <1>2 DEF Popped, Pipes

\* The first message of a pipe tells how far its sender has got.
LEMMA SenderFacts ==
  ASSUME Inv, NEW s \in Procs, NEW u \in Procs, NEW n \in Nsds, pipe[n][u][s] # <<>>
  PROVE  run[u] # "down" /\ (Head(pipe[n][u][s]) = "D" => run[u] # "up")
<1> DEFINE q == pipe[n][u][s]
<1>1. q \in Queues
  BY DEF Inv, TypeOK, Queues
<1>3. Head(q) \in Msgs(q)
  <2>1. q # <<>>
    OBVIOUS
  <2> HIDE DEF q
  <2> QED
    BY <1>1, <2>1, QueueFacts
<1> QED
  BY Zenon, <1>3 DEF Allowed, Inv, MessagesFollowRun

\* Tables and pipes stay, and who starts is known to nobody: every pair still meets.
LEMMA CalmPairs ==
  ASSUME NEW n, PairsOK(n), mPeers' = mPeers, pipe' = pipe,
         \A u \in Procs : run'[u] = "up" => run[u] = "up" \/ \A q \in Procs : u \notin mPeers[q]
  PROVE  PairsOK(n)'
<1>1. ASSUME NEW p \in Procs, NEW u \in Procs, run'[p] = "up", run'[u] = "up"
      PROVE  /\ p \in mPeers[u] => u \in mPeers[p] \/ Toward(n, u, p) \/ Unheard(u)
             /\ \/ u \in mPeers[p] \/ Toward(n, u, p) \/ Unheard(u) \/ Unheard(p)
                \/ Toward(n, p, u) /\ p \notin mPeers[u]
  BY Zenon, <1>1 DEF Unheard, PairsOK, Answered, Meets
<1> QED
  BY Zenon, <1>1 DEF PairsOK, Answered, Meets, Toward, Unheard

\* create and init.
LEMMA StartMesh ==
  ASSUME NEW n \in Nsds, Inv, LinksOK(n), PairsOK(n), ThreadsOK,
         NEW p \in Procs, NEW e \in Endpoints, Start(p, e)
  PROVE  LinksOK(n)' /\ PairsOK(n)' /\ ThreadsOK'
<1>1. /\ UNCHANGED <<mPeers, mNamingConnected, starting, announcing, checking, gaveUp, heard,
                     welcome, link, pipe>>
      /\ run[p] = "down" /\ \A u \in Procs : u # p => run'[u] = run[u]
  BY DEF Start, tableVars, threadVars, publishVars, netVars
<1>2. /\ \A u \in Procs : (Unheard(u)' <=> Unheard(u)) /\ (Busy(u)' <=> Busy(u))
      /\ \A u, q \in Procs : Toward(n, u, q)' <=> Toward(n, u, q)
  BY <1>1 DEF Unheard, Busy, Toward
<1>3. /\ Unheard(p) /\ Busy(p) /\ ~mNamingConnected[p]
      /\ \A q \in Procs : p \notin mPeers[q] /\ ~Toward(n, p, q)
  <2>1. heard[p] = {} /\ \A q \in Procs : p \notin mPeers[q]
    BY Zenon, <1>1 DEF Inv, DownIsUnknown
  <2>2. \A q \in Procs : ~Toward(n, p, q)
    BY Zenon, <1>1, SenderFacts DEF Toward
  <2> QED
    BY Zenon, <1>1, <2>1, <2>2 DEF ThreadsOK, Unheard, Busy
<1>4. LinksOK(n)'
  BY Zenon, <1>1, <1>2, <1>3 DEF LinksOK
<1>5. ThreadsOK'
  BY Zenon, <1>1, <1>2, <1>3 DEF ThreadsOK
<1> QED
  BY Zenon, <1>1, <1>3, <1>4, <1>5, CalmPairs

\* Connections of the naming sockets come up.
LEMMA LinkMesh ==
  ASSUME NEW n \in Nsds, Inv, LinksOK(n), PairsOK(n), ThreadsOK, NEW p \in Procs,
         SubscribeNaming(p, n) \/ DispatchWelcome(p, n) \/ Established(p, n)
  PROVE  LinksOK(n)' /\ PairsOK(n)' /\ ThreadsOK'
<1>1. UNCHANGED <<run, mPeers, mNamingConnected, announcing, checking, gaveUp, pipe>>
  BY Zenon DEF SubscribeNaming, DispatchWelcome, Established, tableVars, threadVars, publishVars
<1>3. \A u \in Procs : Busy(u) => Busy(u)'
  <2>1. CASE SubscribeNaming(p, n)
    BY Zenon, <1>1, <2>1 DEF SubscribeNaming, Busy, threadVars, publishVars, Inv, TypeOK
  <2>2. CASE DispatchWelcome(p, n)
    BY <1>1, <2>2 DEF DispatchWelcome, Busy, Inv, TypeOK
  <2>3. CASE Established(p, n)
    BY Zenon, <2>3 DEF Established, Busy, threadVars, publishVars
  <2> QED
    BY <2>1, <2>2, <2>3
<1>4. LinksOK(n)'
  <2>1. \A u \in Procs : /\ heard[u] \subseteq heard'[u] /\ welcome'[u] \subseteq heard'[u]
                         /\ link[u][n] = "up" => link'[u][n] = "up"
                         /\ link'[u][n] # "none" => n \in heard'[u]
    <3>1. CASE SubscribeNaming(p, n)
      BY Zenon, <3>1 DEF SubscribeNaming, LinksOK, Inv, TypeOK
    <3>2. CASE DispatchWelcome(p, n)
      BY <3>2 DEF DispatchWelcome, LinksOK
    <3>3. CASE Established(p, n)
      BY Zenon, <3>3 DEF Established, LinksOK, Inv, TypeOK
    <3> QED
      BY Zenon, <3>1, <3>2, <3>3
  <2> QED
    BY Zenon, <1>1, <2>1 DEF LinksOK, Toward, Unheard
<1>5. ThreadsOK'
  BY Zenon, <1>1, <1>3 DEF ThreadsOK, Unheard
<1> QED
  BY <1>4, <1>5, <1>1, CalmPairs

\* A publishEndpoints thread begins, ends its loop or goes on with it, a beacon is due,
\* stop ends beacons or the dispatch thread, a connection of dataSub is refused.
LEMMA QuietMesh ==
  ASSUME NEW n \in Nsds, Inv, LinksOK(n), PairsOK(n), ThreadsOK, NEW p \in Procs,
         \/ PublishBegin(p) \/ PublishCheck(p) \/ PublishGiveUp(p)
         \/ BeaconDue(p) \/ StopBeacons(p) \/ EndDispatch(p)
         \/ \E e \in Endpoints : ConnectionRefused(p, e)
         \/ UNCHANGED vars
  PROVE  LinksOK(n)' /\ PairsOK(n)' /\ ThreadsOK'
<1>1. UNCHANGED <<mPeers, heard, welcome, link, pipe>>
  BY Zenon DEF PublishBegin, PublishCheck, PublishGiveUp, BeaconDue, StopBeacons, EndDispatch,
     ConnectionRefused, vars, tableVars, netVars
<1>3. \A u \in Procs : (run'[u] = "up" => run[u] = "up") /\ (run[u] # "down" => run'[u] # "down")
  BY Zenon DEF PublishBegin, PublishCheck, PublishGiveUp, BeaconDue, StopBeacons, EndDispatch,
     ConnectionRefused, vars, Inv, TypeOK
<1>4. ASSUME NEW u \in Procs
      PROVE  /\ mNamingConnected'[u] => mNamingConnected[u]
             /\ run[u] = "up" /\ Unheard(u) /\ ~gaveUp' => ~gaveUp /\ (Busy(u) => Busy(u)')
  <2>1. CASE PublishBegin(p)
    <3>1. /\ UNCHANGED <<checking, gaveUp, heard, welcome>>
          /\ mNamingConnected' = [mNamingConnected EXCEPT ![p] = FALSE]
      BY Zenon, <1>1, <2>1 DEF PublishBegin
    <3>2. /\ u # p => starting'[u] = starting[u] /\ announcing'[u] = announcing[u]
          /\ u = p /\ run[u] = "up" => announcing'[u] > 0
      BY <2>1 DEF PublishBegin, Dispatching, Inv, TypeOK
    <3> QED
      BY Zenon, <3>1, <3>2 DEF Busy, Inv, TypeOK
  <2>2. CASE PublishCheck(p)
    <3>1. UNCHANGED <<starting, gaveUp, heard, welcome, mNamingConnected>>
      BY Zenon, <1>1, <2>2 DEF PublishCheck, tableVars
    <3>2. /\ u # p => checking'[u] = checking[u] /\ announcing'[u] = announcing[u]
          /\ u = p /\ run[u] = "up" /\ ~mNamingConnected[u] => announcing'[u] > 0
      BY <2>2 DEF PublishCheck, Dispatching, Inv, TypeOK
    <3> QED
      BY Zenon, <3>1, <3>2 DEF Busy, ThreadsOK
  <2>3. CASE PublishGiveUp(p)
    BY Zenon, <2>3 DEF PublishGiveUp, tableVars
  <2>4. CASE ~PublishBegin(p) /\ ~PublishCheck(p) /\ ~PublishGiveUp(p)
    <3>1. UNCHANGED <<starting, announcing, checking, gaveUp, mNamingConnected>>
      BY Zenon, <2>4 DEF BeaconDue, StopBeacons, EndDispatch, ConnectionRefused, vars,
         tableVars, threadVars, publishVars
    <3> QED
      BY Zenon, <1>1, <3>1 DEF Busy
  <2> QED
    BY <2>1, <2>2, <2>3, <2>4
<1>5. LinksOK(n)'
  BY Zenon, <1>1, <1>3 DEF LinksOK, Toward, Unheard
<1>6. ThreadsOK'
  BY Zenon, <1>1, <1>3, <1>4 DEF ThreadsOK, Unheard
<1> QED
  BY Zenon, <1>1, <1>3, <1>5, <1>6, CalmPairs

\* A process ends: it and what was on its way to it are gone, and no others are affected.
LEMMA GoneMesh ==
  ASSUME NEW n \in Nsds, Inv, LinksOK(n), PairsOK(n), ThreadsOK, NEW p \in Procs, Gone(p)
  PROVE  LinksOK(n)' /\ PairsOK(n)' /\ ThreadsOK'
<1>1. /\ run'[p] = "exited" /\ mPeers'[p] = {} /\ ~mNamingConnected'[p]
      /\ heard'[p] = {} /\ welcome'[p] = {} /\ link'[p][n] = "none" /\ gaveUp' = gaveUp
  BY Zenon DEF Gone, Inv, TypeOK
<1>2. \A u \in Procs \ {p} :
         /\ run'[u] = run[u] /\ mPeers'[u] = mPeers[u]
         /\ mNamingConnected'[u] = mNamingConnected[u] /\ link'[u] = link[u]
         /\ heard'[u] = heard[u] /\ welcome'[u] = welcome[u]
         /\ starting'[u] = starting[u] /\ announcing'[u] = announcing[u]
         /\ checking'[u] = checking[u]
  BY DEF Gone
<1>3. \A u, s \in Procs : pipe'[n][u][s] = IF s = p THEN <<>> ELSE pipe[n][u][s]
  <2>1. ASSUME NEW u \in Procs, NEW s \in Procs
        PROVE  pipe'[n][u][s] = IF s = p THEN <<>> ELSE pipe[n][u][s]
    <3>1. pipe[n][u] \in [Procs -> Queues] /\ pipe'[n][u] = [pipe[n][u] EXCEPT ![p] = <<>>]
      BY Zenon DEF Gone, Inv, TypeOK, Queues
    <3> QED
      BY ONLY <3>1, s \in Procs
  <2> QED
    BY <2>1
<1>4. /\ \A u \in Procs : ~Toward(n, u, p)'
      /\ \A u \in Procs, s \in Procs \ {p} : Toward(n, u, s)' <=> Toward(n, u, s)
      /\ \A u \in Procs \ {p} : (Unheard(u)' <=> Unheard(u)) /\ (Busy(u)' <=> Busy(u))
  <2>1. \A u \in Procs : ~Toward(n, u, p)'
    BY Zenon, <1>3 DEF Toward
  <2>2. \A u \in Procs, s \in Procs \ {p} : Toward(n, u, s)' <=> Toward(n, u, s)
    BY Zenon, <1>3 DEF Toward
  <2>3. \A u \in Procs \ {p} : (Unheard(u)' <=> Unheard(u)) /\ (Busy(u)' <=> Busy(u))
    BY Zenon, <1>2 DEF Unheard, Busy
  <2> QED
    BY Zenon, <2>1, <2>2, <2>3
<1>6. PairsOK(n)'
  <2>1. ASSUME NEW u \in Procs, NEW s \in Procs, run'[u] = "up", run'[s] = "up"
        PROVE  Answered(n, u, s)' /\ Meets(n, u, s)'
    <3>1. u \in Procs \ {p} /\ s \in Procs \ {p}
      BY <1>1, <2>1
    <3>2. Answered(n, u, s) /\ Meets(n, u, s)
      BY Zenon DEF PairsOK
    <3> QED
      BY ZenonT(30), <1>2, <1>4, <2>1, <3>1, <3>2 DEF Answered, Meets
  <2> QED
    BY Zenon, <2>1 DEF PairsOK, Answered, Meets
<1>7. ASSUME NEW u \in Procs \ {p}
      PROVE  /\ welcome'[u] \subseteq heard'[u]
             /\ link'[u][n] # "none" => n \in heard'[u]
             /\ run'[u] = "up" /\ (~Unheard(u)' \/ Toward(n, u, u)') => link'[u][n] = "up"
             /\ mNamingConnected'[u] => run'[u] # "down" /\ (run'[u] = "up" => ~Unheard(u)')
             /\ run'[u] = "up" /\ Unheard(u)' /\ ~gaveUp => Busy(u)'
  BY Zenon, <1>2, <1>4 DEF LinksOK, ThreadsOK
<1>8. ASSUME NEW u \in Procs \ {p}, NEW s \in Procs,
             run'[u] = "up" /\ (u \in mPeers'[s] \/ Toward(n, u, s)')
      PROVE  n \in heard'[u]
  BY Zenon, <1>1, <1>2, <1>4, <1>8 DEF LinksOK
<1>9. LinksOK(n)'
  BY Zenon, <1>1, <1>4, <1>7, <1>8 DEF LinksOK
<1>10. ThreadsOK'
  <2>1. ASSUME NEW u \in Procs
        PROVE  /\ mNamingConnected'[u] => run'[u] # "down" /\ (run'[u] = "up" => ~Unheard(u)')
               /\ run'[u] = "up" /\ Unheard(u)' /\ ~gaveUp => Busy(u)'
    BY Zenon, <1>1, <1>7
  <2> QED
    BY Zenon, <1>1, <2>1 DEF ThreadsOK
<1> QED
  BY <1>6, <1>9, <1>10

\* publishEndpoints or a beacon announces the transport, or stop says goodbye: that
\* only adds to what is under way.
LEMMA SendMesh ==
  ASSUME NEW n \in Nsds, Inv, LinksOK(n), PairsOK(n), ThreadsOK, NEW p \in Procs,
         PublishSend(p) \/ BeaconSend(p) \/ SendDisconnect(p)
  PROVE  LinksOK(n)' /\ PairsOK(n)' /\ ThreadsOK'
<1>1. UNCHANGED <<mPeers, mNamingConnected, starting, gaveUp, heard, welcome, link>>
  BY Zenon DEF PublishSend, BeaconSend, SendDisconnect, tableVars, threadVars, publishVars
<1>2. \A u \in Procs : (run'[u] = "up" => run[u] = "up") /\ (run[u] # "down" => run'[u] # "down")
  BY Zenon DEF PublishSend, BeaconSend, SendDisconnect, Inv, TypeOK
<1>3. \A u, s \in Procs :
         /\ Toward(n, u, s) => Toward(n, u, s)'
         /\ Toward(n, u, s)' => Toward(n, u, s) \/ (u = p /\ link[p][n] = "up")
  <2>1. pipe \in Pipes
    BY DEF Inv, TypeOK, Pipes, Queues
  <2>2. pipe' = Sent(pipe, p, "C") \/ pipe' = Sent(pipe, p, "D")
    BY Zenon DEF PublishSend, BeaconSend, SendDisconnect, SendEndpointsMsg
  <2>3. ASSUME NEW u \in Procs, NEW s \in Procs
        PROVE  Spread(pipe, pipe', p, n, u, s)
    <3>1. "C" \in {"C", "D"} /\ "D" \in {"C", "D"}
      BY Zenon
    <3> QED
      BY Zenon, <2>1, <2>2, <3>1, SentFacts
  <2> QED
    BY Zenon, <2>3 DEF Toward, Spread
<1>4. \A u \in Procs : Busy(u) => Busy(u)'
  <2>1. CASE PublishSend(p)
    <3>1. \A u \in Procs :
             /\ u # p => announcing'[u] = announcing[u] /\ checking'[u] = checking[u]
             /\ u = p => checking'[u] > 0
      BY <2>1 DEF PublishSend, Inv, TypeOK
    <3> QED
      BY Zenon, <1>1, <3>1 DEF Busy
  <2>2. CASE BeaconSend(p) \/ SendDisconnect(p)
    BY Zenon, <1>1, <2>2 DEF Busy, BeaconSend, SendDisconnect, threadVars, publishVars
  <2> QED
    BY <2>1, <2>2
<1>5. \A u \in Procs : Unheard(u)' <=> Unheard(u)
  BY Zenon, <1>1 DEF Unheard
<1>6. LinksOK(n)'
  BY Zenon, <1>1, <1>2, <1>3, <1>5 DEF LinksOK
<1>7. ThreadsOK'
  BY Zenon, <1>1, <1>2, <1>4, <1>5 DEF ThreadsOK
<1>8. PairsOK(n)'
  BY Zenon, <1>1, <1>2, <1>3, <1>5 DEF PairsOK, Answered, Meets
<1> QED
  BY <1>6, <1>7, <1>8

\* "D": its sender is not running, so it is no matter of the pairs.
LEMMA DisconnectMesh ==
  ASSUME NEW n \in Nsds, Inv, LinksOK(n), PairsOK(n), ThreadsOK, NEW s \in Procs,
         NEW u \in Procs, DispatchDisconnect(s, u, n)
  PROVE  LinksOK(n)' /\ PairsOK(n)' /\ ThreadsOK'
<1>1. /\ UNCHANGED <<run, mNamingConnected, starting, announcing, checking, gaveUp, heard,
                     welcome, link>>
      /\ pipe' = Popped(s, u, n) /\ pipe[n][u][s] # <<>> /\ Head(pipe[n][u][s]) = "D"
      /\ mPeers' = [mPeers EXCEPT ![s] = @ \ {u}]
  BY Zenon DEF DispatchDisconnect, Received, threadVars, publishVars
<1>2. run[u] # "up"
  BY Zenon, <1>1, SenderFacts
<1>3. /\ \A v, t \in Procs : Toward(n, v, t)' => Toward(n, v, t)
      /\ \A v, t \in Procs : v # u => (Toward(n, v, t)' <=> Toward(n, v, t))
  <2>1. \A v, t \in Procs : v # u \/ t # s => pipe'[n][v][t] = pipe[n][v][t]
    BY <1>1, PoppedFacts
  <2>2. pipe[n][u][s] # <<>>
    BY Zenon, <1>1
  <2>3. ASSUME NEW v \in Procs, NEW t \in Procs, v # u \/ t # s
        PROVE  Toward(n, v, t)' <=> Toward(n, v, t)
    BY Zenon, <2>1, <2>3 DEF Toward
  <2>4. Toward(n, u, s)
    BY Zenon, <2>2 DEF Toward
  <2> QED
    BY ZenonT(30), <2>3, <2>4
<1>4. /\ \A v \in Procs : Busy(v)' <=> Busy(v)
      /\ \A q \in Procs : mPeers'[q] \subseteq mPeers[q]
      /\ \A v, q \in Procs : v # u => (v \in mPeers'[q] <=> v \in mPeers[q])
  BY Zenon, <1>1 DEF Busy, Inv, TypeOK
<1>5. \A v \in Procs : v # u => (Unheard(v)' <=> Unheard(v))
  BY Zenon, <1>4 DEF Unheard
<1>6. LinksOK(n)'
  BY Zenon, <1>1, <1>2, <1>3, <1>4, <1>5 DEF LinksOK
<1>7. ThreadsOK'
  BY Zenon, <1>1, <1>2, <1>4, <1>5 DEF ThreadsOK
<1>8. PairsOK(n)'
  BY Zenon, <1>1, <1>2, <1>3, <1>4, <1>5 DEF PairsOK, Answered, Meets
<1> QED
  BY <1>6, <1>7, <1>8

\* "C" from a known peer: the message has done its work already.
LEMMA KnownPeerMesh ==
  ASSUME NEW n \in Nsds, Inv, LinksOK(n), PairsOK(n), ThreadsOK, NEW s \in Procs,
         NEW u \in Procs, DispatchConnect(s, u, n), u \in mPeers[s]
  PROVE  LinksOK(n)' /\ PairsOK(n)' /\ ThreadsOK'
<1>1. /\ UNCHANGED <<run, mPeers, starting, announcing, checking, gaveUp, heard, welcome, link>>
      /\ pipe' = Popped(s, u, n) /\ pipe[n][u][s] # <<>> /\ run[s] # "down"
      /\ mNamingConnected' = [mNamingConnected EXCEPT ![s] = @ \/ u = s]
  BY Zenon DEF DispatchConnect, Received, Ready, Dispatching, threadVars, publishVars
<1>2. /\ \A v, t \in Procs : Toward(n, v, t)' => Toward(n, v, t)
      /\ \A v, t \in Procs : v # u \/ t # s => (Toward(n, v, t)' <=> Toward(n, v, t))
      /\ Toward(n, u, s)
  <2>1. \A v, t \in Procs : v # u \/ t # s => pipe'[n][v][t] = pipe[n][v][t]
    BY <1>1, PoppedFacts
  <2> QED
    BY Zenon, <1>1, <2>1 DEF Toward
<1>3. /\ \A v \in Procs : (Unheard(v)' <=> Unheard(v)) /\ (Busy(v)' <=> Busy(v))
      /\ \A v \in Procs : mNamingConnected'[v] => mNamingConnected[v] \/ (v = s /\ ~Unheard(v))
  BY Zenon, <1>1 DEF Unheard, Busy, Inv, TypeOK
<1>4. LinksOK(n)'
  BY Zenon, <1>1, <1>2, <1>3 DEF LinksOK
<1>5. ThreadsOK'
  BY Zenon, <1>1, <1>3 DEF ThreadsOK
<1>6. PairsOK(n)'
  BY Zenon, <1>2, <1>1, <1>3 DEF PairsOK, Answered, Meets
<1> QED
  BY <1>4, <1>5, <1>6

\* "C" from a new peer, which may be itself: s knows it from now on, and re-publishes.
LEMMA NewPeerMesh ==
  ASSUME NEW n \in Nsds, Inv, LinksOK(n), PairsOK(n), ThreadsOK, NEW s \in Procs,
         NEW u \in Procs, DispatchConnect(s, u, n), u \notin mPeers[s]
  PROVE  LinksOK(n)' /\ PairsOK(n)' /\ ThreadsOK'
<1>1. /\ UNCHANGED <<run, starting, announcing, checking, gaveUp, heard, welcome, link>>
      /\ pipe' = Sent(Popped(s, u, n), s, "C") /\ pipe[n][u][s] # <<>> /\ run[s] # "down"
      /\ mPeers' = [mPeers EXCEPT ![s] = @ \cup {u}]
      /\ mNamingConnected' = [mNamingConnected EXCEPT ![s] = @ \/ u = s]
  BY Zenon DEF DispatchConnect, Received, Ready, Dispatching, ConnectPeer, threadVars, publishVars
<1>2. /\ Toward(n, u, s)
      /\ \A v, t \in Procs : (v # u \/ t # s) /\ Toward(n, v, t) => Toward(n, v, t)'
      /\ \A v, t \in Procs : Toward(n, v, t)' => Toward(n, v, t) \/ (v = s /\ link[s][n] = "up")
      /\ \A t \in Procs : link[s][n] = "up" /\ n \in heard[t] => Toward(n, s, t)'
  <2> DEFINE pp == Popped(s, u, n)
  <2>1. pp \in Pipes /\ \A v, t \in Procs : v # u \/ t # s => pp[n][v][t] = pipe[n][v][t]
    BY <1>1, PoppedFacts
  <2>2. pipe' = Sent(pp, s, "C")
    BY <1>1
  <2> HIDE DEF pp
  <2>3. ASSUME NEW v \in Procs, NEW t \in Procs
        PROVE  Spread(pp, pipe', s, n, v, t)
    <3>1. "C" \in {"C", "D"}
      OBVIOUS
    <3> QED
      BY Zenon, <2>1, <2>2, <3>1, SentFacts
  <2>4. /\ Toward(n, u, s)
        /\ \A v, t \in Procs : Toward(n, v, t) <=> pipe[n][v][t] # <<>>
        /\ \A v, t \in Procs : Toward(n, v, t)' <=> pipe'[n][v][t] # <<>>
    BY Zenon, <1>1 DEF Toward
  <2>5. ASSUME NEW v \in Procs, NEW t \in Procs
        PROVE  /\ (v # u \/ t # s) /\ Toward(n, v, t) => Toward(n, v, t)'
               /\ Toward(n, v, t)' => Toward(n, v, t) \/ (v = s /\ link[s][n] = "up")
               /\ v = s /\ link[s][n] = "up" /\ n \in heard[t] => Toward(n, v, t)'
    <3>1. CASE v = u /\ t = s
      BY Zenon, <2>3, <2>4, <3>1 DEF Spread
    <3>2. CASE v # u \/ t # s
      <4>1. pp[n][v][t] = pipe[n][v][t]
        BY Zenon, <2>1, <3>2
      <4> QED
        BY <2>3, <2>4, <4>1 DEF Spread
    <3> QED
      BY <3>1, <3>2
  <2> QED
    BY Zenon, <2>4, <2>5
<1>3. /\ \A v, q \in Procs : v \in mPeers'[q] <=> v \in mPeers[q] \/ (q = s /\ v = u)
      /\ \A v \in Procs : Unheard(v)' <=> Unheard(v) /\ ~(v = s /\ u = s)
      /\ \A v \in Procs : Busy(v)' <=> Busy(v)
      /\ \A v \in Procs : mNamingConnected'[v] => mNamingConnected[v] \/ (v = s /\ u = s)
  <2>1. \A v, q \in Procs : v \in mPeers'[q] <=> v \in mPeers[q] \/ (q = s /\ v = u)
    BY ZenonT(30), <1>1 DEF Inv, TypeOK
  <2>2. \A v \in Procs : Busy(v)' <=> Busy(v)
    BY Zenon, <1>1 DEF Busy
  <2>3. \A v \in Procs : mNamingConnected'[v] => mNamingConnected[v] \/ (v = s /\ u = s)
    BY Zenon, <1>1 DEF Inv, TypeOK
  <2>4. \A v \in Procs : Unheard(v)' <=> Unheard(v) /\ ~(v = s /\ u = s)
    BY Zenon, <2>1 DEF Unheard
  <2> QED
    BY <2>1, <2>2, <2>3, <2>4
<1>4. LinksOK(n)'
  <2>1. ASSUME NEW v \in Procs
        PROVE  /\ welcome'[v] \subseteq heard'[v]
               /\ link'[v][n] # "none" => n \in heard'[v]
    BY Zenon, <1>1 DEF LinksOK
  <2>2. ASSUME NEW v \in Procs, run'[v] = "up", ~Unheard(v)' \/ Toward(n, v, v)'
        PROVE  link'[v][n] = "up"
    <3>1. ~Unheard(v) \/ Toward(n, v, v) \/ link[v][n] = "up"
      BY Zenon, <1>2, <1>3, <2>2
    <3> QED
      BY Zenon, <1>1, <2>2, <3>1 DEF LinksOK
  <2>3. ASSUME NEW v \in Procs, NEW t \in Procs,
               run'[v] = "up", v \in mPeers'[t] \/ Toward(n, v, t)'
        PROVE  n \in heard'[v]
    <3>1. v \in mPeers[t] \/ Toward(n, v, t) \/ (v = u /\ Toward(n, v, s)) \/ link[v][n] = "up"
      BY Zenon, <1>2, <1>3, <2>3
    <3>2. "up" # "none"
      OBVIOUS
    <3> QED
      BY Zenon, <1>1, <2>3, <3>1, <3>2 DEF LinksOK
  <2> QED
    BY Zenon, <2>1, <2>2, <2>3 DEF LinksOK
<1>5. ThreadsOK'
  BY <1>1, <1>3 DEF ThreadsOK
<1>6. PairsOK(n)'
  <2>1. ASSUME NEW p \in Procs, NEW v \in Procs, run[p] = "up", run[v] = "up"
        PROVE  /\ p \in mPeers'[v] => v \in mPeers'[p] \/ Toward(n, v, p)' \/ Unheard(v)'
               /\ \/ v \in mPeers'[p] \/ Toward(n, v, p)' \/ Unheard(v)' \/ Unheard(p)'
                  \/ Toward(n, p, v)' /\ p \notin mPeers'[v]
    <3>1. /\ p \in mPeers'[v] <=> p \in mPeers[v] \/ (v = s /\ p = u)
          /\ v \in mPeers'[p] <=> v \in mPeers[p] \/ (p = s /\ v = u)
          /\ Unheard(p)' <=> Unheard(p) /\ ~(p = s /\ u = s)
          /\ Unheard(v)' <=> Unheard(v) /\ ~(v = s /\ u = s)
      BY Zenon, <1>3
    <3>2. /\ (v # u \/ p # s) /\ Toward(n, v, p) => Toward(n, v, p)'
          /\ (p # u \/ v # s) /\ Toward(n, p, v) => Toward(n, p, v)'
          /\ v = s /\ link[v][n] = "up" /\ n \in heard[p] => Toward(n, v, p)'
      BY Zenon, <1>2
    <3>3. /\ p \in mPeers[v] => v \in mPeers[p] \/ Toward(n, v, p) \/ Unheard(v)
          /\ \/ v \in mPeers[p] \/ Toward(n, v, p) \/ Unheard(v) \/ Unheard(p)
             \/ Toward(n, p, v) /\ p \notin mPeers[v]
      BY Zenon, <2>1 DEF PairsOK, Answered, Meets
    <3>4. /\ ~Unheard(v) \/ Toward(n, v, v) => link[v][n] = "up"
          /\ p \in mPeers[v] \/ Toward(n, p, v) => n \in heard[p]
          /\ n \notin heard[p] => Unheard(p)
      BY Zenon, <2>1 DEF LinksOK, Unheard
    <3>5. u = v /\ v = s => Toward(n, v, v)
      BY Zenon, <1>2
    <3>6. u = p /\ v = s => Toward(n, p, v)
      BY Zenon, <1>2
    <3>7. CASE v = s
      BY <3>1, <3>2, <3>3, <3>4, <3>5, <3>6, <3>7
    <3>8. CASE v # s
      <4>1. u = p /\ p = s /\ n \in heard[v] => Toward(n, p, v)'
        <5>1. u = p /\ p = s => link[p][n] = "up"
          BY Zenon, <1>2, <2>1 DEF LinksOK
        <5> QED
          BY Zenon, <1>2, <5>1
      <4>2. n \notin heard[v] => Unheard(v)
        BY Zenon, <2>1 DEF LinksOK, Unheard
      <4> QED
        BY <3>1, <3>2, <3>3, <3>8, <4>1, <4>2
    <3> QED
      BY <3>7, <3>8
  <2> QED
    BY ZenonT(30), <1>1, <2>1 DEF PairsOK, Answered, Meets
<1> QED
  BY <1>4, <1>5, <1>6

\* Every step of transports that share one proxy preserves the invariant of discovery.
LEMMA StepMesh ==
  ASSUME NEW n, Nsds = {n}
  PROVE  Inv /\ MeshInv(n) /\ [Next]_vars => MeshInv(n)'
<1> SUFFICES ASSUME Inv, MeshInv(n), [Next]_vars, restarts' = 0
             PROVE  LinksOK(n)' /\ PairsOK(n)' /\ ThreadsOK'
  BY DEF MeshInv
<1> DEFINE Goal == LinksOK(n)' /\ PairsOK(n)' /\ ThreadsOK'
<1>1. n \in Nsds /\ \A m \in Nsds : m = n
  OBVIOUS
<1>2. restarts = 0 /\ ~(\E m \in Nsds : NsdRestart(m))
  <2>2. ~(\E m \in Nsds : NsdRestart(m))
    BY DEF NsdRestart, Inv, TypeOK
  <2>3. CASE UNCHANGED vars
    BY <2>3, <2>2 DEF vars
  <2>4. ASSUME NEW p \in Procs, NEW e \in Endpoints, Start(p, e) \/ ConnectionRefused(p, e)
        PROVE  restarts' = restarts
    BY Zenon, <2>4 DEF Start, ConnectionRefused
  <2>5. ASSUME NEW p \in Procs, Progress(p)
        PROVE  restarts' = restarts
    BY Zenon, <2>5 DEF Progress, PublishBegin, BeaconSend, SubscribeNaming, DispatchWelcome,
                Established, DispatchConnect, DispatchDisconnect
  <2>6. ASSUME NEW p \in Procs,
               \/ PublishSend(p) \/ PublishCheck(p) \/ PublishGiveUp(p) \/ BeaconDue(p)
               \/ StopBeacons(p) \/ SendDisconnect(p) \/ EndDispatch(p) \/ Exit(p) \/ Crash(p)
        PROVE  restarts' = restarts
    BY Zenon, <2>6 DEF PublishSend, PublishCheck, PublishGiveUp, BeaconDue, StopBeacons,
                SendDisconnect, EndDispatch, Exit, Crash, Gone
  <2> QED
    BY <2>2, <2>3, <2>4, <2>5, <2>6 DEF Next
<1>3. LinksOK(n) /\ PairsOK(n) /\ ThreadsOK
  BY <1>2 DEF MeshInv
<1>4. ASSUME UNCHANGED vars
      PROVE  Goal
  <2>1. CASE Procs = {}
    BY <2>1 DEF LinksOK, PairsOK, ThreadsOK
  <2>2. CASE Procs # {}
    BY Zenon, <1>1, <1>3, <1>4, <2>2, QuietMesh
  <2> QED
    BY <2>1, <2>2
<1>5. ASSUME NEW p \in Procs, NEW e \in Endpoints, Start(p, e) \/ ConnectionRefused(p, e)
      PROVE  Goal
  BY Zenon, <1>1, <1>3, <1>5, StartMesh, QuietMesh
<1>6. ASSUME NEW p \in Procs, Progress(p)
      PROVE  Goal
  BY Zenon, <1>1, <1>3, QuietMesh, SendMesh, LinkMesh, KnownPeerMesh, NewPeerMesh, DisconnectMesh,
     <1>6 DEF Progress
<1>7. ASSUME NEW p \in Procs,
             \/ PublishSend(p) \/ PublishCheck(p) \/ PublishGiveUp(p) \/ BeaconDue(p)
             \/ StopBeacons(p) \/ SendDisconnect(p) \/ EndDispatch(p)
      PROVE  Goal
  BY Zenon, <1>1, <1>3, <1>7, QuietMesh, SendMesh
<1>8. ASSUME NEW p \in Procs, Exit(p) \/ Crash(p)
      PROVE  Goal
  BY Zenon, <1>1, <1>3, <1>8, GoneMesh DEF Exit, Crash
<1> HIDE DEF Goal
<1> QED
  BY <1>2, <1>4, <1>5, <1>6, <1>7, <1>8 DEF Goal, Next

\* Re-publishing for new peers completes the mesh (dispatchNamingMsg, publishEndpoints):
\* any number of transports that share one proxy, may stop or crash, and do not run out
\* of retries, are all connected to each other once discovery has settled, beacons or no
\* beacons, whatever a full pipe drops, provided ports are not reused.
THEOREM SettledIsMesh ==
  ASSUME ~PortReuse, NEW n, Nsds = {n}
  PROVE  Spec => []SettledMesh
<1>1. Init => MeshInv(n)
  <2>1. Init => LinksOK(n) /\ PairsOK(n)
    BY DEF Init, LinksOK, PairsOK, Answered, Meets, Toward, Unheard
  <2>2. Init => ThreadsOK
    BY Zenon DEF Init, ThreadsOK
  <2> QED
    BY <2>1, <2>2 DEF MeshInv
<1>2. Inv /\ MeshInv(n) /\ [Next]_vars => MeshInv(n)'
  BY StepMesh
<1>3. Inv /\ MeshInv(n) => SettledMesh
  <2> SUFFICES ASSUME Inv, MeshInv(n), restarts = 0, ~gaveUp, Settled,
                      NEW p \in Procs, NEW u \in Procs, run[p] = "up", run[u] = "up"
               PROVE  endpoint[u] \in conn[p]
    BY DEF SettledMesh
  <2>1. ~Busy(u) /\ ~Busy(p) /\ ~Toward(n, u, p) /\ ~Toward(n, p, u)
    BY DEF Settled, Busy, Toward, Inv, TypeOK
  <2>2. Meets(n, p, u) /\ ~Unheard(u) /\ ~Unheard(p)
    BY Zenon, <2>1 DEF MeshInv, PairsOK, ThreadsOK
  <2>3. u \in mPeers[p]
    BY <2>1, <2>2 DEF Meets
  <2> QED
    BY <2>3 DEF Inv, TableMatchesConnections
<1> QED
  BY <1>1, <1>2, <1>3, Invariance, PTL DEF Spec
=============================================================================
