------------------------------- MODULE Naming -------------------------------
(***************************************************************************)
(* Peer discovery: transports in naming mode (transport.c) and the proxies *)
(* (nsd.c) that forward their naming messages.                             *)
(*                                                                         *)
(* A process of this model is one transport object with its own uuid.  Its *)
(* dispatch thread handles naming messages and sends beacons, one          *)
(* publishEndpoints thread per welcome message announces it, and the       *)
(* application's thread stops it.  Its dataSub socket connects to the      *)
(* dataPub endpoints of its peers: endpoints are ephemeral ports, which    *)
(* the operating system may hand out again once the owner has gone.        *)
(*                                                                         *)
(* A naming message travels from the namingPub socket of its sender        *)
(* through a proxy to the namingSub socket of every transport, its sender  *)
(* included: pipe[n][u][s] holds what u sent through n to s, in order.     *)
(* Types "C" and "c" (a beacon) are handled alike and are both "C" here.   *)
(***************************************************************************)
EXTENDS Integers, Sequences, FiniteSets

CONSTANTS Procs,        \* transports
          Nsds,         \* proxies
          Endpoints,    \* addresses that dataPub sockets may be bound to
          PortReuse,    \* whether the port of a process that ended is handed out again
          Beacons,      \* beacon_interval > 0
          HWM,          \* messages a pipe holds; a PUB socket drops the rest
          MaxUpheavals  \* bound: transports that stop or crash, and restarts of proxies

\* The endpoint of a transport that has not started.
NoEndpoint == {}

ASSUME NamingAssumption ==
    /\ NoEndpoint \notin Endpoints
    /\ PortReuse \in BOOLEAN
    /\ Beacons \in BOOLEAN
    /\ HWM \in Nat \ {0}
    /\ MaxUpheavals \in Nat

VARIABLES run,        \* life of a transport
          endpoint,   \* mPubEndpoint
          mPeers,     \* uuids a transport has in its table
          conn,       \* endpoints that dataSub is connected to (libzmq)
          mNamingConnected,
          starting,   \* publishEndpoints threads that were created
          announcing, \* publishEndpoints threads that are about to send
          checking,   \* and those that have sent and are to read mNamingConnected
          beaconing,  \* mBeaconInterval > 0
          beacon,     \* "due": the dispatch thread is about to send one; "sent": lastBeacon
                      \* is set, without which zmq_poll has no timeout to speak of
          heard,      \* proxies that namingSub is connected to
          welcome,    \* proxies whose "W" has not yet been read
          link,       \* proxies that namingPub is connecting or connected to
          pipe,       \* naming messages on their way
          restarts,   \* history: restarts of proxies
          gaveUp      \* history: some publishEndpoints thread ran out of retries

netVars == <<heard, welcome, link, pipe>>
publishVars == <<starting, announcing, checking, gaveUp>>
threadVars == <<publishVars, beaconing, beacon>>
tableVars == <<mPeers, conn, mNamingConnected>>
vars == <<run, endpoint, tableVars, threadVars, netVars, restarts>>

Init ==
    /\ run = [p \in Procs |-> "down"]
    /\ endpoint = [p \in Procs |-> NoEndpoint]
    /\ mPeers = [p \in Procs |-> {}]
    /\ conn = [p \in Procs |-> {}]
    /\ mNamingConnected = [p \in Procs |-> FALSE]
    /\ starting = [p \in Procs |-> 0]
    /\ announcing = [p \in Procs |-> 0]
    /\ checking = [p \in Procs |-> 0]
    /\ beaconing = [p \in Procs |-> Beacons]
    /\ beacon = [p \in Procs |-> "none"]
    /\ heard = [p \in Procs |-> {}]
    /\ welcome = [p \in Procs |-> {}]
    /\ link = [p \in Procs |-> [n \in Nsds |-> "none"]]
    /\ pipe = [n \in Nsds |-> [u \in Procs |-> [s \in Procs |-> <<>>]]]
    /\ restarts = 0
    /\ gaveUp = FALSE

\* The dispatch thread runs until it has read the "X" that stop sends.
Dispatching(p) == run[p] \in {"up", "stopping", "farewell"}
\* Its sockets are open until destroy closes them.
Open(p) == Dispatching(p) \/ run[p] = "ended"
Bound(e) == \E p \in Procs : Open(p) /\ endpoint[p] = e
Leaving == {p \in Procs : run[p] \notin {"down", "up"}}

-----------------------------------------------------------------------------
\* Plausible errors in the definitions that follow.

StartUnbound(p, e) ==
    /\ run[p] = "down"
    /\ ~Bound(e)
    /\ PortReuse \/ \A u \in Procs : endpoint[u] # e
    /\ run' = [run EXCEPT ![p] = "up"]
    /\ UNCHANGED <<endpoint, tableVars, threadVars, netVars, restarts>>

ConnectPeerSilently(s, u, n) ==
    /\ conn' = [conn EXCEPT ![s] = @ \cup {endpoint[u]}]
    /\ pipe' = [pipe EXCEPT ![n][u][s] = Tail(@)]
    /\ mPeers' = [mPeers EXCEPT ![s] = @ \cup {u}]

DispatchDisconnectTableOnly(s, u, n) ==
    /\ Dispatching(s) /\ beacon[s] # "due"
    /\ n \notin welcome[s]
    /\ pipe[n][u][s] # <<>>
    /\ Head(pipe[n][u][s]) = "D"
    /\ pipe' = [pipe EXCEPT ![n][u][s] = Tail(@)]
    /\ mPeers' = [mPeers EXCEPT ![s] = @ \ {u}]
    /\ UNCHANGED <<run, endpoint, conn, mNamingConnected, threadVars, heard,
                   welcome, link, restarts>>

-----------------------------------------------------------------------------
\* sendEndpointsMsg: each proxy that is reached forwards the message to every
\* transport that listens to it; the rest is lost, as with any PUB socket.
Sent(pp, p, type) ==
    [n \in Nsds |-> [u \in Procs |-> [s \in Procs |->
        IF u = p /\ link[p][n] = "up" /\ n \in heard[s] /\ Len(pp[n][u][s]) < HWM
        THEN Append(pp[n][u][s], type)
        ELSE pp[n][u][s]]]]

SendEndpointsMsg(p, type) == pipe' = Sent(pipe, p, type)

-----------------------------------------------------------------------------
\* create and init: bind dataPub to some free port, connect namingSub.
Start(p, e) ==
    /\ run[p] = "down"
    /\ ~Bound(e)
    /\ PortReuse \/ \A u \in Procs : endpoint[u] # e
    /\ run' = [run EXCEPT ![p] = "up"]
    /\ endpoint' = [endpoint EXCEPT ![p] = e]
    /\ UNCHANGED <<tableVars, threadVars, netVars, restarts>>

\* The proxy sees the subscription of a namingSub socket and welcomes it.
SubscribeNaming(p, n) ==
    /\ Dispatching(p)
    /\ n \notin heard[p]
    /\ heard' = [heard EXCEPT ![p] = @ \cup {n}]
    /\ welcome' = [welcome EXCEPT ![p] = @ \cup {n}]
    /\ UNCHANGED <<run, endpoint, tableVars, threadVars, link, pipe, restarts>>

\* The dispatch thread can take the next naming message.
Ready(p) == Dispatching(p) /\ beacon[p] # "due"

\* "W": connect namingPub to the proxy and start a publishEndpoints thread.
DispatchWelcome(p, n) ==
    /\ Ready(p)
    /\ n \in welcome[p]
    /\ welcome' = [welcome EXCEPT ![p] = @ \ {n}]
    /\ link' = [link EXCEPT ![p][n] = IF @ = "up" THEN "up" ELSE "connecting"]
    /\ starting' = [starting EXCEPT ![p] = @ + 1]
    /\ UNCHANGED <<run, endpoint, tableVars, announcing, checking, gaveUp, beaconing,
                   beacon, heard, pipe, restarts>>

\* libzmq completes the connection of namingPub in the background.
Established(p, n) ==
    /\ link[p][n] = "connecting"
    /\ link' = [link EXCEPT ![p][n] = "up"]
    /\ UNCHANGED <<run, endpoint, tableVars, threadVars, heard, welcome, pipe, restarts>>

-----------------------------------------------------------------------------
\* A publishEndpoints thread resets mNamingConnected, then announces the transport
\* until it has seen its own message or the dispatch thread has ended.  The test of
\* mIsDispatching is part of the step before it, the one after usleep included.
PublishBegin(p) ==
    /\ starting[p] > 0
    /\ starting' = [starting EXCEPT ![p] = @ - 1]
    /\ announcing' = [announcing EXCEPT ![p] = IF Dispatching(p) THEN @ + 1 ELSE @]
    /\ mNamingConnected' = [mNamingConnected EXCEPT ![p] = FALSE]
    /\ UNCHANGED <<run, endpoint, mPeers, conn, checking, gaveUp, beaconing, beacon,
                   netVars, restarts>>

PublishSend(p) ==
    /\ announcing[p] > 0
    /\ SendEndpointsMsg(p, "C")
    /\ announcing' = [announcing EXCEPT ![p] = @ - 1]
    /\ checking' = [checking EXCEPT ![p] = @ + 1]
    /\ UNCHANGED <<run, endpoint, tableVars, starting, gaveUp, beaconing, beacon, heard,
                   welcome, link, restarts>>

PublishCheck(p) ==
    /\ checking[p] > 0
    /\ checking' = [checking EXCEPT ![p] = @ - 1]
    /\ \/ /\ mNamingConnected[p] \/ ~Dispatching(p)
          /\ UNCHANGED announcing
       \/ /\ ~mNamingConnected[p] /\ Dispatching(p)
          /\ announcing' = [announcing EXCEPT ![p] = @ + 1]
    /\ UNCHANGED <<run, endpoint, tableVars, starting, gaveUp, beaconing, beacon, netVars,
                   restarts>>

\* It is out of retries (params.c sees to it that it has at least one).
PublishGiveUp(p) ==
    /\ checking[p] > 0
    /\ ~mNamingConnected[p]
    /\ checking' = [checking EXCEPT ![p] = @ - 1]
    /\ gaveUp' = TRUE
    /\ UNCHANGED <<run, endpoint, tableVars, starting, announcing, beaconing, beacon,
                   netVars, restarts>>

-----------------------------------------------------------------------------
\* dispatchNamingMsg, on what s gets from u through n.

Received(s, u, n, type) ==
    /\ Ready(s)
    /\ n \notin welcome[s]
    /\ pipe[n][u][s] # <<>>
    /\ Head(pipe[n][u][s]) = type

Popped(s, u, n) == [pipe EXCEPT ![n][u][s] = Tail(@)]

\* A peer never seen before: connect to it and announce ourselves.
ConnectPeer(s, u, n) ==
    /\ conn' = [conn EXCEPT ![s] = @ \cup {endpoint[u]}]
    /\ pipe' = Sent(Popped(s, u, n), s, "C")
    /\ mPeers' = [mPeers EXCEPT ![s] = @ \cup {u}]

DispatchConnect(s, u, n) ==
    /\ Received(s, u, n, "C")
    /\ \/ u \notin mPeers[s] /\ ConnectPeer(s, u, n)
       \/ /\ u \in mPeers[s]
          /\ pipe' = Popped(s, u, n)
          /\ UNCHANGED <<mPeers, conn>>
    /\ mNamingConnected' = [mNamingConnected EXCEPT ![s] = @ \/ u = s]
    /\ UNCHANGED <<run, endpoint, threadVars, heard, welcome, link, restarts>>

DispatchDisconnect(s, u, n) ==
    /\ Received(s, u, n, "D")
    /\ pipe' = Popped(s, u, n)
    /\ mPeers' = [mPeers EXCEPT ![s] = @ \ {u}]
    /\ conn' = [conn EXCEPT ![s] = @ \ {endpoint[u]}]
    /\ UNCHANGED <<run, endpoint, mNamingConnected, threadVars, heard, welcome,
                   link, restarts>>

-----------------------------------------------------------------------------
\* zmq_poll returns and the dispatch thread reads mBeaconInterval once ...
BeaconDue(p) ==
    /\ Ready(p)
    /\ beaconing[p]
    /\ beacon' = [beacon EXCEPT ![p] = "due"]
    /\ UNCHANGED <<run, endpoint, tableVars, publishVars, beaconing,
                   netVars, restarts>>

\* ... and publishes the endpoint.
BeaconSend(p) ==
    /\ Dispatching(p)
    /\ beacon[p] = "due"
    /\ SendEndpointsMsg(p, "C")
    /\ beacon' = [beacon EXCEPT ![p] = "sent"]
    /\ UNCHANGED <<run, endpoint, tableVars, publishVars, beaconing,
                   heard, welcome, link, restarts>>

-----------------------------------------------------------------------------
\* stop: no more beacons, say goodbye, end the dispatch thread.
StopBeacons(p) ==
    /\ run[p] = "up"
    /\ Cardinality(Leaving) + restarts < MaxUpheavals
    /\ run' = [run EXCEPT ![p] = "stopping"]
    /\ beaconing' = [beaconing EXCEPT ![p] = FALSE]
    /\ UNCHANGED <<endpoint, tableVars, publishVars, beacon, netVars, restarts>>

SendDisconnect(p) ==
    /\ run[p] = "stopping"
    /\ run' = [run EXCEPT ![p] = "farewell"]
    /\ SendEndpointsMsg(p, "D")
    /\ UNCHANGED <<endpoint, tableVars, threadVars, heard, welcome, link, restarts>>

\* What a process leaves behind when it ends: its port is free again, nothing
\* reaches it any more, what it has sent may still be under way.
Gone(p) ==
    /\ run' = [run EXCEPT ![p] = "exited"]
    /\ mPeers' = [mPeers EXCEPT ![p] = {}]
    /\ conn' = [conn EXCEPT ![p] = {}]
    /\ mNamingConnected' = [mNamingConnected EXCEPT ![p] = FALSE]
    /\ starting' = [starting EXCEPT ![p] = 0]
    /\ announcing' = [announcing EXCEPT ![p] = 0]
    /\ checking' = [checking EXCEPT ![p] = 0]
    /\ beaconing' = [beaconing EXCEPT ![p] = FALSE]
    /\ beacon' = [beacon EXCEPT ![p] = "none"]
    /\ heard' = [heard EXCEPT ![p] = {}]
    /\ welcome' = [welcome EXCEPT ![p] = {}]
    /\ link' = [link EXCEPT ![p] = [n \in Nsds |-> "none"]]
    /\ pipe' = [n \in Nsds |-> [u \in Procs |-> [pipe[n][u] EXCEPT ![p] = <<>>]]]
    /\ UNCHANGED <<endpoint, gaveUp, restarts>>

\* The dispatch thread reads "X" and ends.
EndDispatch(p) ==
    /\ run[p] = "farewell"
    /\ Ready(p)
    /\ run' = [run EXCEPT ![p] = "ended"]
    /\ UNCHANGED <<endpoint, tableVars, threadVars, netVars, restarts>>

\* destroy waits for publishEndpoints and closes the sockets.
Exit(p) ==
    /\ run[p] = "ended"
    /\ starting[p] = 0 /\ announcing[p] = 0 /\ checking[p] = 0
    /\ Gone(p)

Crash(p) ==
    /\ Open(p)
    /\ Cardinality(Leaving \cup {p}) + restarts <= MaxUpheavals
    /\ Gone(p)

\* libzmq finds no listener behind an endpoint and, with ZMQ_RECONNECT_STOP, forgets it.
ConnectionRefused(p, e) ==
    /\ e \in conn[p]
    /\ ~Bound(e)
    /\ conn' = [conn EXCEPT ![p] = @ \ {e}]
    /\ UNCHANGED <<run, endpoint, mPeers, mNamingConnected, threadVars, netVars, restarts>>

\* A proxy restarts: every connection through it starts afresh.
NsdRestart(n) ==
    /\ Cardinality(Leaving) + restarts < MaxUpheavals
    /\ restarts' = restarts + 1
    /\ heard' = [p \in Procs |-> heard[p] \ {n}]
    /\ welcome' = [p \in Procs |-> welcome[p] \ {n}]
    /\ link' = [p \in Procs |-> [link[p] EXCEPT ![n] = "none"]]
    /\ pipe' = [pipe EXCEPT ![n] = [u \in Procs |-> [s \in Procs |-> <<>>]]]
    /\ UNCHANGED <<run, endpoint, tableVars, threadVars>>

-----------------------------------------------------------------------------
\* What a transport and libzmq do of their own accord.
Progress(p) ==
    \/ PublishBegin(p)
    \/ BeaconSend(p)
    \/ \E n \in Nsds :
          \/ SubscribeNaming(p, n)
          \/ DispatchWelcome(p, n)
          \/ Established(p, n)
          \/ \E u \in Procs : DispatchConnect(p, u, n) \/ DispatchDisconnect(p, u, n)

Next ==
    \/ \E p \in Procs :
          \/ \E e \in Endpoints : Start(p, e) \/ ConnectionRefused(p, e)
          \/ Progress(p)
          \/ PublishSend(p) \/ PublishCheck(p) \/ PublishGiveUp(p)
          \/ BeaconDue(p)
          \/ StopBeacons(p) \/ SendDisconnect(p) \/ EndDispatch(p) \/ Exit(p) \/ Crash(p)
    \/ \E n \in Nsds : NsdRestart(n)

Spec == Init /\ [][Next]_vars

\* Threads run, connections come up, messages arrive; a transport never has to
\* be started or stopped, and a proxy never has to restart.  Once a beacon has been
\* sent, the poll of the dispatch thread times out for the next one; before that
\* its timeout is the time of day, since lastBeacon is 0.
FairSpec ==
    /\ Spec
    /\ \A p \in Procs :
          /\ WF_vars(PublishBegin(p))
          /\ WF_vars(PublishSend(p))
          /\ WF_vars(PublishCheck(p))
          /\ WF_vars(beacon[p] = "sent" /\ BeaconDue(p))
          /\ WF_vars(BeaconSend(p))
          /\ \A n \in Nsds :
                /\ WF_vars(SubscribeNaming(p, n))
                /\ SF_vars(DispatchWelcome(p, n))
                /\ WF_vars(Established(p, n))
                /\ \A u \in Procs :
                      SF_vars(DispatchConnect(p, u, n) \/ DispatchDisconnect(p, u, n))

-----------------------------------------------------------------------------
TypeOK ==
    /\ run \in [Procs -> {"down", "up", "stopping", "farewell", "ended", "exited"}]
    /\ endpoint \in [Procs -> Endpoints \cup {NoEndpoint}]
    /\ mPeers \in [Procs -> SUBSET Procs]
    /\ conn \in [Procs -> SUBSET Endpoints]
    /\ mNamingConnected \in [Procs -> BOOLEAN]
    /\ starting \in [Procs -> Nat]
    /\ announcing \in [Procs -> Nat]
    /\ checking \in [Procs -> Nat]
    /\ beaconing \in [Procs -> BOOLEAN]
    /\ beacon \in [Procs -> {"none", "due", "sent"}]
    /\ heard \in [Procs -> SUBSET Nsds]
    /\ welcome \in [Procs -> SUBSET Nsds]
    /\ link \in [Procs -> [Nsds -> {"none", "connecting", "up"}]]
    /\ pipe \in [Nsds -> [Procs -> [Procs -> Seq({"C", "D"})]]]
    /\ restarts \in Nat
    /\ gaveUp \in BOOLEAN

\* The table of peers, by uuid, and the connections of dataSub, by endpoint, agree:
\* a peer that is in the table and running is connected (it has to be, since the
\* messages of a known uuid are ignored from then on), and every connection
\* belongs to some peer of the table.
TableMatchesConnections ==
    \A p \in Procs :
        /\ \A u \in mPeers[p] : run[u] = "up" => endpoint[u] \in conn[p]
        /\ conn[p] \subseteq {endpoint[u] : u \in mPeers[p]}

\* "Each node continually publishes its discovery message (i.e., "beaconing") at a
\* regular interval" (Naming-Service.md): a running transport that has a beacon
\* interval eventually sends a beacon.
Beaconing ==
    \A p \in Procs :
        run[p] = "up" /\ beaconing[p] ~> beacon[p] = "sent" \/ run[p] # "up"

\* Every running transport listens to every proxy and reaches it, its
\* publishEndpoints threads have ended, and no naming message is under way.
Settled ==
    \A p \in Procs : run[p] = "up" =>
        /\ heard[p] = Nsds
        /\ welcome[p] = {}
        /\ starting[p] = 0
        /\ announcing[p] = 0
        /\ checking[p] = 0
        /\ \A n \in Nsds :
              /\ link[p][n] = "up"
              /\ \A u \in Procs : pipe[n][u][p] = <<>>

\* "a 'fully-connected' (mesh) network where every node is connected to every other
\* node"; re-publishing for a peer never seen before "ensures that 'late joiners' get
\* all discovery messages" (Naming-Service.md): once discovery has settled, the
\* running transports are all connected to each other, beacons or no beacons, and
\* whoever else has left or crashed meanwhile.  After the restart of a proxy, or when
\* a publishEndpoints thread has given up, it may take a beacon to complete the mesh.
SettledMesh ==
    restarts = 0 /\ ~gaveUp /\ Settled =>
        \A p, u \in Procs : run[p] = "up" /\ run[u] = "up" => endpoint[u] \in conn[p]
=============================================================================
