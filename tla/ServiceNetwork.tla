--------------------------- MODULE ServiceNetwork ---------------------------
(***************************************************************************)
(* Connections to the services of a node, from the first packet to the     *)
(* relay (svc/network.go, svc/proxy.go, svc/receiver.go).  The node, the   *)
(* provider, fills its registry while streams already arrive.  A client    *)
(* node, or the provider itself, listens on the address and port of the    *)
(* first packet; for each connection the client's RemoteServiceProxy sends *)
(* the service's identifier on a new stream and reads a status; the        *)
(* provider's streamHandler answers and relays.  Pipe models the relay.    *)
(***************************************************************************)
EXTENDS Naturals, FiniteSets

CONSTANTS
    Services,    \* names of the provider's services
    ServiceId,   \* ServiceId[v]: MkServiceID of the name
    Ids,         \* service identifiers that clients may ask for
    Acl,         \* Acl[v]: EnableWhitelist, Whitelist and Blacklist
    Provider,    \* the node that provides the services
    Clients,     \* nodes in the configuration of the provider
    Strangers,   \* nodes that are not
    Ports, Conns,
    Foreign,     \* an address of the service network that is of no node the
                 \* configuration lists
    None

Addrs == Ids \cup {Foreign}     \* the provider's addresses, by their identifier
Nodes == {Provider} \cup Clients \cup Strangers

ASSUME ServiceAssumption ==
    /\ ServiceId \in [Services -> Ids]
    /\ Acl \in [Services -> [on : BOOLEAN, white : SUBSET Clients, black : SUBSET Clients]]
    /\ Provider \notin Clients \cup Strangers /\ Clients \cap Strangers = {}
    /\ Foreign \notin Ids /\ None \notin Services \cup Nodes \cup Addrs

VARIABLES
    todo,       \* services Run has still to register
    half,       \* the service Register is in the middle of
    listeners,  \* ServiceNetwork.listeners, by the service the proxy is for
    services,   \* ServiceNetwork.services, by the service the entry is of
    addrs,      \* activeAddrs of each node
    ports,      \* activePorts of each node
    bound,      \* what its netstack listens on
    process,    \* "running", or how one of the nodes ended
    node,       \* the node a connection was made on
    want,       \* its address
    port,       \* its port
    near,       \* the Handle function at that node
    far,        \* the stream handler at the provider
    proxy,      \* the proxy the handler at the provider found
    status,     \* the status byte on the stream
    early       \* connections looked up before the registry was complete

registry == <<todo, half, listeners, services>>
net == <<addrs, ports, bound>>
place == <<node, want, port>>
conn == <<place, near, far, proxy, status>>
vars == <<registry, net, process, conn, early>>

NearSteps == {"none", "nil", "open", "ask", "status", "dial", "relay", "closed"}
FarSteps == {"none", "start", "lookup", "check", "dial", "relay", "closed"}

TypeOK ==
    /\ todo \subseteq Services /\ half \in Services \cup {None}
    /\ listeners \in [Ids -> Services \cup {None}]
    /\ services \in [Ids -> Services \cup {None}]
    /\ addrs \in [Nodes -> SUBSET Addrs]
    /\ ports \in [Nodes -> SUBSET (Addrs \X Ports)]
    /\ \A n \in Nodes : ports[n] \subseteq addrs[n] \X Ports
    /\ bound \in [Nodes -> SUBSET (Addrs \X Ports)]
    /\ process \in {"running", "panicListen", "panicHandle", "mapRace"}
    /\ node \in [Conns -> Nodes \cup {None}] /\ want \in [Conns -> Addrs \cup {None}]
    /\ port \in [Conns -> Ports \cup {None}]
    /\ near \in [Conns -> NearSteps] /\ far \in [Conns -> FarSteps]
    /\ proxy \in [Conns -> Services \cup {None}]
    /\ status \in [Conns -> {"none", "OK", "NOT_SUPPORTED", "NOT_AUTHORIZED"}]
    /\ early \subseteq Conns

Init ==
    /\ todo = Services /\ half = None
    /\ listeners = [i \in Ids |-> None] /\ services = [i \in Ids |-> None]
    /\ addrs = [n \in Nodes |-> {}] /\ ports = [n \in Nodes |-> {}] /\ bound = [n \in Nodes |-> {}]
    /\ process = "running"
    /\ node = [c \in Conns |-> None] /\ want = [c \in Conns |-> None]
    /\ port = [c \in Conns |-> None]
    /\ near = [c \in Conns |-> "none"] /\ far = [c \in Conns |-> "none"]
    /\ proxy = [c \in Conns |-> None] /\ status = [c \in Conns |-> "none"]
    /\ early = {}

Running == process = "running"
Registered == todo = {} /\ half = None
Near(c, step) == near' = [near EXCEPT ![c] = step]
Far(c, step) == far' = [far EXCEPT ![c] = step]

-----------------------------------------------------------------------------
(* Register, in the loop of Run over the services.  Go visits a map in any  *)
(* order.                                                                   *)

RegisterListener(v) ==
    /\ Running /\ v \in todo /\ half = None
    /\ todo' = todo \ {v} /\ half' = v
    /\ listeners' = [listeners EXCEPT ![ServiceId[v]] = v]
    /\ UNCHANGED <<services, net, process, conn, early>>

RegisterService ==
    /\ Running /\ half # None
    /\ half' = None
    /\ services' = [services EXCEPT ![ServiceId[half]] = half]
    /\ UNCHANGED <<todo, listeners, net, process, conn, early>>

\* The handler reads a map that Register writes: the Go runtime may notice, and
\* ends the process.
MapRace ==
    /\ Running /\ ~Registered /\ \E c \in Conns : far[c] \in {"lookup", "check"}
    /\ process' = "mapRace"
    /\ UNCHANGED <<registry, net, conn, early>>

-----------------------------------------------------------------------------
(* EnsureListener and ServeFunc, on the node where the connection is made.  *)

\* Defect used to test the properties: the ports of an address are made anew for
\* every port that is added.
ListenAnew(n, i, p) ==
    IF i \in addrs[n] /\ <<i, p>> \in ports[n]
      THEN UNCHANGED <<net, process>>
      ELSE /\ addrs' = [addrs EXCEPT ![n] = @ \cup {i}]
           /\ ports' = [ports EXCEPT ![n] = {e \in @ : e[1] # i} \cup {<<i, p>>}]
           /\ bound' = [bound EXCEPT ![n] = @ \cup {<<i, p>>}]
           /\ process' = IF <<i, p>> \in bound[n] THEN "panicListen" ELSE process

\* Defect used to test the properties: the address is not recorded.
ListenUnrecorded(n, i, p) ==
    IF i \in addrs[n] /\ <<i, p>> \in ports[n]
      THEN UNCHANGED <<net, process>>
      ELSE /\ ports' = [ports EXCEPT ![n] = {e \in @ : e[1] # i} \cup {<<i, p>>}]
           /\ bound' = [bound EXCEPT ![n] = @ \cup {<<i, p>>}]
           /\ process' = IF <<i, p>> \in bound[n] THEN "panicListen" ELSE process
           /\ UNCHANGED addrs

\* Nothing to do for a port that is active.  The map of ports is made with the
\* address; to listen on what is bound already panics.
Listen(n, i, p) ==
    IF i \in addrs[n] /\ <<i, p>> \in ports[n]
      THEN UNCHANGED <<net, process>>
      ELSE /\ addrs' = [addrs EXCEPT ![n] = @ \cup {i}]
           /\ ports' = [ports EXCEPT ![n] = (IF i \in addrs[n] THEN @ ELSE {e \in @ : e[1] # i})
                                            \cup {<<i, p>>}]
           /\ bound' = [bound EXCEPT ![n] = @ \cup {<<i, p>>}]
           /\ process' = IF <<i, p>> \in bound[n] THEN "panicListen" ELSE process

\* The first packet of a connection.  On the provider itself the service has to
\* be registered; its packet loop starts after Run registered them all.  For an
\* address of no known node it listens all the same, with a zero Proxy.
EnsureListener(c, n, i, p) ==
    /\ Running /\ near[c] = "none"
    /\ n = Provider => Registered /\ (i \in Ids => listeners[i] # None)
    /\ Listen(n, i, p)
    /\ node' = [node EXCEPT ![c] = n]
    /\ want' = [want EXCEPT ![c] = i]
    /\ port' = [port EXCEPT ![c] = p]
    /\ proxy' = IF n = Provider /\ i \in Ids THEN [proxy EXCEPT ![c] = listeners[i]] ELSE proxy
    /\ Near(c, IF i = Foreign THEN "nil" ELSE IF n = Provider THEN "dial" ELSE "open")
    /\ UNCHANGED <<registry, far, status, early>>

\* Any later packet of the connection asks for the listener again.
LaterPacket(c) ==
    /\ Running /\ near[c] # "none"
    /\ Listen(node[c], want[c], port[c])
    /\ UNCHANGED <<registry, conn, early>>

-----------------------------------------------------------------------------
(* RemoteServiceProxy, at the client. *)

\* The connection is accepted, and the Handle function of a zero Proxy is nil.
HandleNil(c) ==
    /\ Running /\ near[c] = "nil"
    /\ process' = "panicHandle"
    /\ UNCHANGED <<registry, net, conn, early>>

\* NewStream; the provider's streamHandler is called.
OpenStream(c) ==
    /\ Running /\ near[c] = "open"
    /\ Near(c, "ask") /\ Far(c, "start")
    /\ UNCHANGED <<registry, net, process, place, proxy, status, early>>

WriteId(c) ==
    /\ Running /\ near[c] = "ask"
    /\ Near(c, "status")
    /\ UNCHANGED <<registry, net, process, place, far, proxy, status, early>>

ReadStatus(c) ==
    /\ Running /\ near[c] = "status" /\ status[c] # "none"
    /\ Near(c, IF status[c] = "OK" THEN "relay" ELSE "closed")
    /\ UNCHANGED <<registry, net, process, place, far, proxy, status, early>>

\* The stream cannot be opened; it broke or was closed, and a status on it may
\* be lost; or the application ends the relay.
NearEnds(c) ==
    /\ Running /\ near[c] \in {"open", "ask", "status", "relay"}
    /\ near[c] \in {"ask", "status"} => far[c] = "closed"
    /\ Near(c, "closed")
    /\ UNCHANGED <<registry, net, process, place, far, proxy, status, early>>

-----------------------------------------------------------------------------
(* streamHandler, at the provider. *)

\* Defect used to test the properties: a peer outside the configuration is
\* ignored, its stream neither answered nor reset.
AcceptIgnores(c) ==
    /\ Running /\ far[c] = "start"
    /\ node[c] \in Clients /\ near[c] = "status" /\ Far(c, "lookup")
    /\ UNCHANGED <<registry, net, process, place, near, proxy, status, early>>

\* A peer outside the configuration is reset; for others the identifier is read.
Accept(c) ==
    /\ Running /\ far[c] = "start"
    /\ IF node[c] \in Clients THEN near[c] = "status" /\ Far(c, "lookup") ELSE Far(c, "closed")
    /\ UNCHANGED <<registry, net, process, place, near, proxy, status, early>>

Lookup(c) ==
    /\ Running /\ far[c] = "lookup"
    /\ proxy' = [proxy EXCEPT ![c] = listeners[want[c]]]
    /\ IF listeners[want[c]] = None
         THEN Far(c, "closed") /\ status' = [status EXCEPT ![c] = "NOT_SUPPORTED"]
         ELSE Far(c, "check") /\ UNCHANGED status
    /\ early' = IF Registered THEN early ELSE early \cup {c}
    /\ UNCHANGED <<registry, net, process, place, near>>

\* Defect used to test the properties: the switch of the whitelist is inverted.
BlockedWhenOff(v, q) == q \in Acl[v].black \/ (~Acl[v].on /\ q \notin Acl[v].white)

Blocked(v, q) == q \in Acl[v].black \/ (Acl[v].on /\ q \notin Acl[v].white)

\* The zero Service of a missing entry blocks nobody.
isRemoteBlocked(c) == services[want[c]] # None /\ Blocked(services[want[c]], node[c])

Check(c) ==
    /\ Running /\ far[c] = "check"
    /\ IF isRemoteBlocked(c)
         THEN Far(c, "closed") /\ status' = [status EXCEPT ![c] = "NOT_AUTHORIZED"]
         ELSE Far(c, "dial") /\ status' = [status EXCEPT ![c] = "OK"]
    /\ UNCHANGED <<registry, net, process, place, near, proxy, early>>

\* TCPServiceProxy, for a stream or for a connection on the provider itself.
DialFar(c) ==
    /\ Running /\ far[c] = "dial"
    /\ Far(c, "relay") \/ Far(c, "closed")
    /\ UNCHANGED <<registry, net, process, place, near, proxy, status, early>>

DialNear(c) ==
    /\ Running /\ near[c] = "dial"
    /\ Near(c, "relay") \/ Near(c, "closed")
    /\ UNCHANGED <<registry, net, process, place, far, proxy, status, early>>

\* The stream breaks, or a relay ends.
FarEnds(c) ==
    /\ Running /\ far[c] \in {"start", "lookup", "check", "dial", "relay"}
    /\ Far(c, "closed")
    /\ UNCHANGED <<registry, net, process, place, near, proxy, status, early>>

Handle(c) ==
    \/ HandleNil(c)
    \/ OpenStream(c) \/ WriteId(c) \/ ReadStatus(c) \/ NearEnds(c) \/ DialNear(c)
streamHandler(c) == Accept(c) \/ Lookup(c) \/ Check(c) \/ DialFar(c)

Next ==
    \/ \E v \in Services : RegisterListener(v)
    \/ RegisterService \/ MapRace
    \/ \E c \in Conns :
         \/ \E n \in Nodes, i \in Addrs, p \in Ports : EnsureListener(c, n, i, p)
         \/ LaterPacket(c) \/ Handle(c) \/ streamHandler(c) \/ FarEnds(c)

Spec == Init /\ [][Next]_vars

\* The goroutines run; streams need not break.
FairSpec == Spec /\ \A c \in Conns : WF_vars(Handle(c)) /\ WF_vars(streamHandler(c))

-----------------------------------------------------------------------------
(* Properties. *)

\* EnsureListener is asked for every packet, and listens once for each address
\* and port, whatever the order in which connections use them: the panic after
\* ListenTCP is never reached.
ListenOnce == process # "panicListen"

\* From end to end: a stream is relayed, at either end, only to a service that
\* has the identifier in the client's address and whose own lists let that
\* client in, also when services share an identifier and replace each other in
\* the registry.  Streams looked up while Run fills it are left out.
RelayPermitted ==
    \A c \in Conns \ early :
        far[c] \in {"dial", "relay"} \/ (near[c] = "relay" /\ node[c] # Provider) =>
            /\ proxy[c] # None /\ ServiceId[proxy[c]] = want[c]
            /\ node[c] \in Clients \ Acl[proxy[c]].black
            /\ Acl[proxy[c]].on => node[c] \in Acl[proxy[c]].white

\* A connection a client accepted is relayed or closed: neither side waits for
\* ever for a byte of the other.
ConnectionsSettle ==
    \A c \in Conns : near[c] = "open" ~> (near[c] \in {"relay", "closed"} \/ ~Running)
=============================================================================
