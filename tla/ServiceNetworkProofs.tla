------------------------ MODULE ServiceNetworkProofs ------------------------
(***************************************************************************)
(* Proofs about ServiceNetwork, for any services, nodes, ports and         *)
(* connections: no port is listened on twice, and only a service that      *)
(* admits the client is relayed to it.                                     *)
(***************************************************************************)
EXTENDS ServiceNetwork, TLAPS

\* A connection with a first packet has a place; one that the provider's handler
\* serves was made before, and by a node of the configuration once it was looked up.
Placed ==
    \A c \in Conns :
        /\ near[c] # "none" => node[c] \in Nodes /\ want[c] \in Addrs /\ port[c] \in Ports
        /\ near[c] \notin {"none", "nil"} => want[c] \in Ids
        /\ far[c] # "none" => near[c] \notin {"none", "nil", "open"}
        /\ far[c] \in {"lookup", "check", "dial", "relay"} => node[c] \in Clients
        /\ near[c] = "dial" => node[c] = Provider

\* What is bound is what is active, and belongs to an active address.
Listening ==
    \A n \in Nodes : bound[n] = ports[n] /\ \A e \in ports[n] : e[1] \in addrs[n]

\* An entry of the registry is of a service with that identifier, and the two
\* maps have the same entries but for the service that is being registered.
Registry ==
    /\ \A i \in Ids : listeners[i] # None => ServiceId[listeners[i]] = i
    /\ \A i \in Ids : listeners[i] # services[i] => half # None /\ ServiceId[half] = i
    /\ half # None => listeners[ServiceId[half]] = half

Permitted(c) ==
    /\ proxy[c] # None /\ ServiceId[proxy[c]] = want[c]
    /\ node[c] \in Clients \ Acl[proxy[c]].black
    /\ Acl[proxy[c]].on => node[c] \in Acl[proxy[c]].white

\* How far the decision about a stream has come.
Decided ==
    \A c \in Conns :
        /\ far[c] \in {"none", "start", "lookup", "check"} => status[c] = "none"
        /\ near[c] = "relay" /\ node[c] # Provider => status[c] = "OK"
        /\ c \notin early /\ far[c] = "check" =>
               Registered /\ proxy[c] # None /\ proxy[c] = listeners[want[c]]
        /\ c \notin early /\ (far[c] \in {"dial", "relay"} \/ status[c] = "OK") => Permitted(c)

IInv == TypeOK /\ Placed /\ Listening /\ Registry /\ Decided /\ ListenOnce

-----------------------------------------------------------------------------
(* Listeners. *)

\* Listen keeps the types and the agreement of its maps, and does not panic.
LEMMA ListenStep ==
    ASSUME TypeOK, Listening, ListenOnce, NEW n \in Nodes, NEW i \in Addrs, NEW p \in Ports,
           Listen(n, i, p)
    PROVE  /\ Listening' /\ process' = process
           /\ addrs' \in [Nodes -> SUBSET Addrs]
           /\ ports' \in [Nodes -> SUBSET (Addrs \X Ports)]
           /\ \A m \in Nodes : ports'[m] \subseteq addrs'[m] \X Ports
           /\ bound' \in [Nodes -> SUBSET (Addrs \X Ports)]
<1>0. /\ addrs \in [Nodes -> SUBSET Addrs]
      /\ ports \in [Nodes -> SUBSET (Addrs \X Ports)]
      /\ \A m \in Nodes : ports[m] \subseteq addrs[m] \X Ports
      /\ bound \in [Nodes -> SUBSET (Addrs \X Ports)]
  BY DEF TypeOK
<1>1. CASE i \in addrs[n] /\ <<i, p>> \in ports[n]
  BY <1>0, <1>1 DEF Listen, Listening, net
<1>2. CASE ~(i \in addrs[n] /\ <<i, p>> \in ports[n])
  <2>1. {e \in ports[n] : e[1] # i} = ports[n] \/ i \in addrs[n]
    BY DEF Listening
  <2>2. /\ addrs' = [addrs EXCEPT ![n] = @ \cup {i}]
        /\ ports' = [ports EXCEPT ![n] = @ \cup {<<i, p>>}]
        /\ bound' = [bound EXCEPT ![n] = @ \cup {<<i, p>>}]
        /\ process' = IF <<i, p>> \in bound[n] THEN "panicListen" ELSE process
    BY <1>0, <1>2, <2>1 DEF Listen
  <2>3. <<i, p>> \notin bound[n]
    <3>1. SUFFICES ASSUME <<i, p>> \in ports[n] PROVE FALSE
      BY DEF Listening
    <3>2. <<i, p>>[1] \in addrs[n]
      BY <3>1 DEF Listening
    <3> QED BY <1>2, <3>1, <3>2
  <2>4. Listening'
    <3> SUFFICES ASSUME NEW m \in Nodes
                 PROVE  bound'[m] = ports'[m] /\ \A e \in ports'[m] : e[1] \in addrs'[m]
      BY DEF Listening
    <3>1. bound[m] = ports[m] /\ \A e \in ports[m] : e[1] \in addrs[m]
      BY DEF Listening
    <3>2. CASE m # n
      BY <1>0, <2>2, <3>1, <3>2
    <3>3. CASE m = n
      <4>1. ports'[m] = ports[m] \cup {<<i, p>>} /\ addrs'[m] = addrs[m] \cup {i}
            /\ bound'[m] = bound[m] \cup {<<i, p>>}
        BY <1>0, <2>2, <3>3
      <4> QED BY <3>1, <4>1
    <3> QED BY <3>2, <3>3
  <2>5. ASSUME NEW m \in Nodes PROVE ports'[m] \subseteq addrs'[m] \X Ports
    <3>1. CASE m # n
      BY <1>0, <2>2, <3>1
    <3>2. CASE m = n
      <4>1. ports'[m] = ports[m] \cup {<<i, p>>} /\ addrs'[m] = addrs[m] \cup {i}
        BY <1>0, <2>2, <3>2
      <4> QED BY <1>0, <4>1
    <3> QED BY <3>1, <3>2
  <2> QED BY <1>0, <2>2, <2>3, <2>4, <2>5
<1> QED BY <1>1, <1>2

-----------------------------------------------------------------------------
(* The conjuncts of the invariant. *)

\* A registration, at either of its steps, keeps what does not speak of it.
LEMMA RegisterStep ==
    ASSUME IInv, RegisterService \/ \E v \in Services : RegisterListener(v)
    PROVE  IInv'
<1> USE ServiceAssumption DEF IInv
<1>0. /\ todo \subseteq Services /\ half \in Services \cup {None}
      /\ listeners \in [Ids -> Services \cup {None}] /\ services \in [Ids -> Services \cup {None}]
  BY DEF TypeOK
<1>1. UNCHANGED <<net, process, conn, early>> /\ ~Registered
  BY DEF RegisterService, RegisterListener, Registered
<1>2. Placed' /\ Listening' /\ ListenOnce'
  BY <1>1 DEF Placed, Listening, ListenOnce, net, conn, place
<1>3. TypeOK' /\ Registry'
  <2>1. CASE RegisterService
    BY <1>0, <1>1, <2>1 DEF RegisterService, TypeOK, Registry, net, conn, place
  <2>2. ASSUME NEW v \in Services, RegisterListener(v) PROVE TypeOK' /\ Registry'
    BY <1>0, <1>1, <2>2 DEF RegisterListener, TypeOK, Registry, net, conn, place
  <2> QED BY <2>1, <2>2
<1>4. Decided'
  BY <1>1 DEF Decided, Permitted, conn, place
<1> QED BY <1>2, <1>3, <1>4

\* So does the first packet of a connection, and any later one.
LEMMA PacketStep ==
    ASSUME IInv, NEW c \in Conns,
           \/ LaterPacket(c)
           \/ \E n \in Nodes, i \in Addrs, p \in Ports : EnsureListener(c, n, i, p)
    PROVE  IInv'
<1> USE ServiceAssumption DEF IInv
<1>1. CASE LaterPacket(c)
  <2>1. /\ Listening' /\ process' = process /\ UNCHANGED <<registry, conn, early>>
        /\ addrs' \in [Nodes -> SUBSET Addrs]
        /\ ports' \in [Nodes -> SUBSET (Addrs \X Ports)]
        /\ \A m \in Nodes : ports'[m] \subseteq addrs'[m] \X Ports
        /\ bound' \in [Nodes -> SUBSET (Addrs \X Ports)]
    BY <1>1, ListenStep DEF LaterPacket, Placed
  <2> QED
    BY <2>1, ZenonT(30)
       DEF TypeOK, Placed, Registry, Decided, Permitted, Registered, ListenOnce,
       registry, conn, place
<1>2. ASSUME NEW n \in Nodes, NEW i \in Addrs, NEW p \in Ports, EnsureListener(c, n, i, p)
      PROVE  IInv'
  <2>0. /\ near[c] = "none" /\ far[c] = "none" /\ status[c] = "none"
        /\ node \in [Conns -> Nodes \cup {None}] /\ want \in [Conns -> Addrs \cup {None}]
        /\ port \in [Conns -> Ports \cup {None}] /\ near \in [Conns -> NearSteps]
        /\ proxy \in [Conns -> Services \cup {None}]
        /\ listeners \in [Ids -> Services \cup {None}]
    BY <1>2, ZenonT(30) DEF EnsureListener, Placed, Decided, TypeOK
  <2>1. /\ Listening' /\ process' = process
        /\ addrs' \in [Nodes -> SUBSET Addrs]
        /\ ports' \in [Nodes -> SUBSET (Addrs \X Ports)]
        /\ \A m \in Nodes : ports'[m] \subseteq addrs'[m] \X Ports
        /\ bound' \in [Nodes -> SUBSET (Addrs \X Ports)]
    BY <1>2, ListenStep, SMTT(30) DEF EnsureListener
  <2>2. /\ UNCHANGED <<todo, half, listeners, services, far, status, early>>
        /\ node' = [node EXCEPT ![c] = n] /\ want' = [want EXCEPT ![c] = i]
        /\ port' = [port EXCEPT ![c] = p]
        /\ near' = [near EXCEPT ![c] = IF i = Foreign THEN "nil"
                                        ELSE IF n = Provider THEN "dial" ELSE "open"]
        /\ proxy' = IF n = Provider /\ i \in Ids
                      THEN [proxy EXCEPT ![c] = listeners[i]] ELSE proxy
    BY <1>2, ZenonT(30) DEF EnsureListener, Near, registry
  <2>3. TypeOK' /\ ListenOnce'
    BY <2>0, <2>1, <2>2, ZenonT(30) DEF TypeOK, ListenOnce, NearSteps
  <2>4. Placed' /\ Registry'
    <3>1. ASSUME NEW d \in Conns, d # c
          PROVE  /\ node'[d] = node[d] /\ want'[d] = want[d] /\ port'[d] = port[d]
                 /\ near'[d] = near[d] /\ far'[d] = far[d]
      BY <2>0, <2>2, <3>1
    <3>2. /\ node'[c] = n /\ want'[c] = i /\ port'[c] = p /\ far'[c] = "none"
          /\ near'[c] = IF i = Foreign THEN "nil" ELSE IF n = Provider THEN "dial" ELSE "open"
      BY <2>0, <2>2
    <3>3. Placed'
      BY <3>1, <3>2 DEF Placed, Addrs
    <3> QED BY <2>2, <3>3 DEF Registry
  <2>5. Decided'
    BY <2>0, <2>2 DEF Decided, Permitted, Registered
  <2> QED BY <2>1, <2>3, <2>4, <2>5
<1> QED BY <1>1, <1>2

\* The client's Handle function, where there is one, moves its connection only.
LEMMA HandleStep ==
    ASSUME IInv, NEW c \in Conns, Handle(c), ~HandleNil(c)
    PROVE  IInv'
<1> USE ServiceAssumption DEF IInv
<1>0. near \in [Conns -> NearSteps] /\ far \in [Conns -> FarSteps]
  BY DEF TypeOK
<1>1. UNCHANGED <<registry, net, process, place, proxy, status, early>>
  BY DEF Handle, OpenStream, WriteId, ReadStatus, NearEnds, DialNear
<1>2. Listening' /\ Registry' /\ ListenOnce'
  BY <1>1 DEF Listening, Registry, ListenOnce, registry, net
<1>3. /\ near[c] \notin {"none", "nil"}
      /\ \E step \in NearSteps \ {"none", "nil", "open", "dial"} : near' = [near EXCEPT ![c] = step]
      /\ far' = far \/ (near[c] = "open" /\ far' = [far EXCEPT ![c] = "start"])
      /\ near'[c] = "relay" =>
           \/ near[c] = "dial"
           \/ near[c] = "status" /\ status[c] = "OK"
           \/ near[c] = "relay"
  BY <1>0 DEF Handle, OpenStream, WriteId, ReadStatus, NearEnds, DialNear, Near, Far, NearSteps
<1>4. TypeOK'
  <2>1. near' \in [Conns -> NearSteps] /\ far' \in [Conns -> FarSteps]
    BY <1>0, <1>3 DEF FarSteps
  <2> QED BY <1>1, <2>1 DEF TypeOK, registry, net, place
<1>5. Placed'
  BY <1>0, <1>1, <1>3, SMTT(30) DEF Placed, place, NearSteps
<1>6. Decided'
  <2>1. status[c] = "none" \/ near[c] # "open"
    BY DEF Placed, Decided
  <2>2. near[c] = "dial" => node[c] = Provider
    BY DEF Placed
  <2>3. ASSUME NEW d \in Conns
        PROVE  /\ near'[d] = "relay" /\ node[d] # Provider => status[d] = "OK"
               /\ far'[d] \in {"none", "start", "lookup", "check"} => status[d] = "none"
               /\ far'[d] \in {"check", "dial", "relay"} => far[d] = far'[d]
    BY <1>0, <1>3, <2>1, <2>2 DEF Decided
  <2> QED BY <1>0, <1>1, <2>3 DEF Decided, Permitted, Registered, registry, place
<1> QED BY <1>2, <1>4, <1>5, <1>6

\* The provider's handler moves one stream, by the registry and the lists.
LEMMA StreamStep ==
    ASSUME IInv, NEW c \in Conns, streamHandler(c) \/ FarEnds(c)
    PROVE  IInv'
<1> USE ServiceAssumption DEF IInv
<1>0. /\ far \in [Conns -> FarSteps] /\ proxy \in [Conns -> Services \cup {None}]
      /\ listeners \in [Ids -> Services \cup {None}] /\ want \in [Conns -> Addrs \cup {None}]
      /\ status \in [Conns -> {"none", "OK", "NOT_SUPPORTED", "NOT_AUTHORIZED"}]
  BY DEF TypeOK
<1>1. UNCHANGED <<registry, net, process, place, near>>
  BY ZenonT(30) DEF streamHandler, Accept, Lookup, Check, DialFar, FarEnds
<1>2. Listening' /\ Registry' /\ ListenOnce'
  BY <1>1 DEF Listening, Registry, ListenOnce, registry, net
<1>3. far[c] # "none" /\ near[c] # "none" /\ want[c] \in Ids
  BY DEF streamHandler, Accept, Lookup, Check, DialFar, FarEnds, Placed
<1>4. /\ \E step \in FarSteps \ {"none"} : far' = [far EXCEPT ![c] = step]
      /\ far'[c] \in {"lookup", "check", "dial", "relay"} =>
           node[c] \in Clients \/ far[c] \in {"lookup", "check", "dial", "relay"}
  BY <1>0 DEF streamHandler, Accept, Lookup, Check, DialFar, FarEnds, Far, FarSteps
<1>5. Placed'
  BY <1>0, <1>1, <1>3, <1>4, ZenonT(30) DEF Placed, place
<1>6. /\ proxy' \in [Conns -> Services \cup {None}] /\ early' \subseteq Conns
      /\ status' \in [Conns -> {"none", "OK", "NOT_SUPPORTED", "NOT_AUTHORIZED"}]
  BY <1>0, <1>3, SMTT(30) DEF streamHandler, Accept, Lookup, Check, DialFar, FarEnds, TypeOK
<1>7. TypeOK'
  <2>1. far' \in [Conns -> FarSteps]
    BY <1>0, <1>4
  <2> QED BY <1>1, <1>6, <2>1 DEF TypeOK, registry, net, place
<1>8. ASSUME NEW d \in Conns, d # c
      PROVE  far'[d] = far[d] /\ proxy'[d] = proxy[d] /\ status'[d] = status[d]
             /\ (d \in early' <=> d \in early)
  BY <1>0, <1>8, SMTT(30) DEF streamHandler, Accept, Lookup, Check, DialFar, FarEnds, Far
<1>9. /\ far'[c] \in {"none", "start", "lookup", "check"} => status'[c] = "none"
      /\ near[c] = "relay" /\ node[c] # Provider => status'[c] = "OK"
      /\ c \notin early' /\ far'[c] = "check" =>
             Registered /\ proxy'[c] # None /\ proxy'[c] = listeners[want[c]]
      /\ c \notin early' /\ (far'[c] \in {"dial", "relay"} \/ status'[c] = "OK") => Permitted(c)'
  <2>0. UNCHANGED <<node, want>>
    BY <1>1, SMTT(30) DEF place
  <2>1. CASE Accept(c) \/ DialFar(c) \/ FarEnds(c)
    BY <1>0, <2>0, <2>1, SMTT(30) DEF Accept, DialFar, FarEnds, Far, Decided, Permitted
  <2>2. CASE Lookup(c)
    BY <1>0, <2>0, <2>2, SMTT(30) DEF Lookup, Far, Decided, Permitted
  <2>3. CASE Check(c)
    <3>1. c \notin early => Registered /\ proxy[c] # None /\ proxy[c] = services[want[c]]
                            /\ ServiceId[proxy[c]] = want[c]
      BY <1>3, <2>3, SMTT(30) DEF Check, Decided, Registry, Registered
    <3>2. node[c] \in Clients /\ status[c] = "none"
      BY <2>3, ZenonT(30) DEF Check, Placed, Decided
    <3> QED BY <1>0, <2>0, <2>3, <3>1, <3>2, SMTT(30)
      DEF Check, Far, isRemoteBlocked, Blocked, Permitted, Decided
  <2> QED BY <2>1, <2>2, <2>3, ZenonT(30) DEF streamHandler
<1>10. Decided'
  <2>1. UNCHANGED <<todo, half, listeners, node, want, near>>
    BY <1>1 DEF registry, place
  <2>2. ASSUME NEW d \in Conns, d # c PROVE Permitted(d)' <=> Permitted(d)
    BY <1>8, <2>1, <2>2 DEF Permitted
  <2> QED BY <1>8, <1>9, <2>1, <2>2, ZenonT(30) DEF Decided, Registered
<1> QED BY <1>2, <1>5, <1>7, <1>10

-----------------------------------------------------------------------------
(* The invariant, and what follows from it. *)

\* It holds before the first service is registered.
LEMMA InitInv == Init => IInv
BY ServiceAssumption DEF Init, IInv, TypeOK, Placed, Listening, Registry, Decided, ListenOnce,
   NearSteps, FarSteps

\* Every step of the nodes keeps it.
LEMMA NextInv == IInv /\ [Next]_vars => IInv'
<1> SUFFICES ASSUME IInv, [Next]_vars PROVE IInv'
  BY SMTT(30)
<1>1. CASE MapRace
  BY <1>1, ZenonT(30)
     DEF MapRace, IInv, TypeOK, Placed, Listening, Registry, Decided, Permitted,
     Registered,
     ListenOnce, registry, net, conn, place
<1>2. CASE UNCHANGED vars
  BY <1>2, ZenonT(30)
     DEF vars, IInv, TypeOK, Placed, Listening, Registry, Decided, Permitted, Registered,
     ListenOnce, registry, net, conn, place
<1>3. CASE \E c \in Conns : HandleNil(c)
  <2>1. UNCHANGED <<registry, net, conn, early>> /\ process' = "panicHandle"
    BY <1>3 DEF HandleNil
  <2> QED BY <2>1, ZenonT(30)
    DEF IInv, TypeOK, Placed, Listening, Registry, Decided, Permitted, Registered,
        ListenOnce, registry, net, conn, place
<1> QED BY <1>1, <1>2, <1>3, RegisterStep, PacketStep, HandleStep, StreamStep DEF Next

\* It is an invariant.
LEMMA Invariance == Spec => []IInv
BY InitInv, NextInv, PTL DEF Spec

\* The registry, the listeners and the connections keep their types.
THEOREM TypeCorrect == Spec => []TypeOK
<1>1. IInv => TypeOK
  BY DEF IInv
<1> QED BY <1>1, Invariance, PTL

\* However many connections to however many services there are, EnsureListener
\* never listens a second time: its panic is not reached.
THEOREM NeverListensTwice == Spec => []ListenOnce
<1>1. IInv => ListenOnce
  BY DEF IInv
<1> QED BY <1>1, Invariance, PTL

\* Whatever services share an identifier, whatever their lists, a stream that was
\* looked up in the complete registry is relayed only to a service that has the
\* identifier asked for and admits the client.
THEOREM OnlyPermittedRelayed == Spec => []RelayPermitted
<1>1. IInv => RelayPermitted
  BY ZenonT(30) DEF IInv, RelayPermitted, Decided, Permitted
<1> QED BY <1>1, Invariance, PTL
=============================================================================
