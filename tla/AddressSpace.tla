---------------------------- MODULE AddressSpace ----------------------------
(***************************************************************************)
(* The addresses of the virtual network.  They are not exchanged: every    *)
(* node computes them from peer IDs and service names (config/idhash.go),  *)
(* in the lookup tables it fills while it reads its configuration          *)
(* (config/config.go), in the answers of its DNS server (dns/server.go),   *)
(* in the routes it gives to the kernel (node/node.go), and takes them     *)
(* apart again for every packet it reads from the TUN device (node/node.go *)
(* and svc/network.go).                                                    *)
(*                                                                         *)
(* A byte is a number below 256, a peer ID, a name and an address are      *)
(* sequences of bytes.                                                     *)
(***************************************************************************)
EXTENDS Naturals, Sequences, Functions, LookupTables

CONSTANTS
    OwnID,         \* the peer ID of this node
    PeerIDs,       \* peer IDs the configuration may list
    ServiceNames,  \* names of services
    Networks       \* networks that peers may be given routes to, of more than
                   \* one address, by the size of an address and its first bytes

Byte == 0..255

ASSUME AddressAssumption ==
    /\ {OwnID} \cup PeerIDs \cup ServiceNames \subseteq Seq(Byte)
    /\ \A n \in Networks : n.size \in {4, 16} /\ n.prefix \in Seq(Byte) /\ Len(n.prefix) < n.size

VARIABLES
    listed,     \* Config.Peers, as far as it is read
    byNetID,    \* PeerLookup.ByNetID
    byRoute,    \* PeerLookup.ByRoute: the built-in addresses in it,
    byNetwork,  \* and the networks
    registered, \* the services that Run has registered
    listeners   \* ServiceNetwork.listeners, by the names of the services

addressVars == <<listed, byNetID, byRoute, byNetwork, registered, listeners>>

-----------------------------------------------------------------------------
(* config/idhash.go.  Indices count from 1 here and from 0 there. *)

\* What the bit of weight w of the exclusive or of a and b is worth.
XorBit(a, b, w) == w * ((a \div w + b \div w) % 2)

\* The exclusive or of two bytes.
XorByte(a, b) ==
    XorBit(a, b, 1) + XorBit(a, b, 2) + XorBit(a, b, 4) + XorBit(a, b, 8)
        + XorBit(a, b, 16) + XorBit(a, b, 32) + XorBit(a, b, 64) + XorBit(a, b, 128)

\* Each byte of s is combined with r[i % Len(r)] by exclusive or.
XorInto(r, s) ==
    LET acc[i \in 0..Len(s)] ==
          IF i = 0 THEN r
          ELSE [acc[i - 1] EXCEPT ![((i - 1) % Len(r)) + 1] = XorByte(@, s[i])]
    IN  acc[Len(s)]

MkNetID(p) == XorInto(<<222, 173, 190, 239>>, p)

\* b * byte(i) keeps the low byte: the first byte counts for nothing.
MkServiceID(name) ==
    XorInto(<<255, 254>>, [i \in DOMAIN name |-> (name[i] * (i - 1)) % 256])

mkBuiltinAddr4(p) == <<100, 64>> \o XorInto(<<1, 2>>, p)

BuiltinPrefix == <<253, 0, 104, 121, 112, 114, 115, 112, 97, 99, 101, 0>>
ServicePrefix == <<253, 0, 104, 121, 112, 114, 115, 112, 115, 118>>

\* What the loop over the ID mixes into the last four bytes is then overwritten.
mkBuiltinAddr6(p) == BuiltinPrefix \o MkNetID(p)

\* Defect used to test the properties: the service comes before the node.
MkServiceAddr6Swapped(p, name) == ServicePrefix \o MkServiceID(name) \o MkNetID(p)

MkServiceAddr6(p, name) == ServicePrefix \o MkNetID(p) \o MkServiceID(name)

-----------------------------------------------------------------------------
(* config.Read and Register. *)

AddressInit ==
    /\ listed = << >> /\ byNetID = NoEntries /\ byRoute = NoEntries /\ byNetwork = NoEntries
    /\ registered = {} /\ listeners = NoEntries

\* Defect used to test the properties: the entry of Peers stays a zero Peer.
EnterPeerZero(p, routes) ==
    /\ listed' = Append(listed, << >>)
    /\ byNetwork' = [n \in DOMAIN byNetwork \cup routes |-> IF n \in routes THEN p ELSE byNetwork[n]]
    /\ byRoute' = Put(Put(byRoute, mkBuiltinAddr4(p), p), mkBuiltinAddr6(p), p)
    /\ byNetID' = Put(byNetID, SubSeq(mkBuiltinAddr6(p), 13, 16), p)
    /\ UNCHANGED <<registered, listeners>>

\* One round of the loop over the peers, for a peer with these routes.  Insert and
\* the map assignment replace what an earlier peer left for the same key.
EnterPeer(p, routes) ==
    /\ listed' = Append(listed, p)
    /\ byNetwork' = [n \in DOMAIN byNetwork \cup routes |-> IF n \in routes THEN p ELSE byNetwork[n]]
    /\ byRoute' = Put(Put(byRoute, mkBuiltinAddr4(p), p), mkBuiltinAddr6(p), p)
    /\ byNetID' = Put(byNetID, SubSeq(mkBuiltinAddr6(p), 13, 16), p)
    /\ UNCHANGED <<registered, listeners>>

\* The loop of Run over the services, a map with one entry for each name.
Register(name) ==
    /\ name \notin registered
    /\ registered' = registered \cup {name}
    /\ listeners' = Put(listeners, MkServiceID(name), name)
    /\ UNCHANGED <<listed, byNetID, byRoute, byNetwork>>

AddressNext ==
    \/ \E p \in PeerIDs, routes \in SUBSET Networks : EnterPeer(p, routes)
    \/ \E name \in ServiceNames : Register(name)

AddressSpec == AddressInit /\ [][AddressNext]_addressVars

-----------------------------------------------------------------------------
(* What happens to a packet from the TUN device, by its destination. *)

Nowhere == [way |-> "dropped"]
ToPeer(p) == [way |-> "peer", peer |-> p]
ToService(p, id) == [way |-> "service", peer |-> p, id |-> id]
ToListener(name) == [way |-> "listener", name |-> name]
ToNilHandle == [way |-> "nil"]
Panics == [way |-> "panic"]

\* EnsureListener: a service of this node, or of the peer with that identifier.
\* For the identifier of nobody it listens too, with a zero Proxy.
EnsureListener(addr) ==
    LET netId == SubSeq(addr, 11, 14)
        svcId == SubSeq(addr, 15, 16)
    IN  IF netId = SubSeq(mkBuiltinAddr6(OwnID), 13, 16)
          THEN IF svcId \in DOMAIN listeners THEN ToListener(listeners[svcId]) ELSE Nowhere
        ELSE IF netId \in DOMAIN byNetID THEN ToService(byNetID[netId], svcId)
        ELSE ToNilHandle

Contains(n, addr) == Len(addr) = n.size /\ SubSeq(addr, 1, Len(n.prefix)) = n.prefix

\* The report about two networks that contain the address panics.
FindRouteForIP(addr) ==
    LET wide == {n \in DOMAIN byNetwork : Contains(n, addr)}
    IN  IF wide = {} THEN IF addr \in DOMAIN byRoute THEN ToPeer(byRoute[addr]) ELSE Nowhere
        ELSE IF addr \notin DOMAIN byRoute /\ \E n \in wide : wide = {n}
          THEN ToPeer(byNetwork[CHOOSE n \in wide : TRUE])
        ELSE Panics

\* The packet loop: its own addresses first, then the service network, then the
\* routes of the peers.
Dispatch(addr) ==
    IF addr \in {mkBuiltinAddr4(OwnID), mkBuiltinAddr6(OwnID)} THEN Nowhere
    ELSE IF Len(addr) = 16 /\ SubSeq(addr, 1, 10) = ServicePrefix THEN EnsureListener(addr)
    ELSE FindRouteForIP(addr)

\* The routes of the service network that Run gives to the kernel, as prefixes.
svcNetIds == {MkNetID(p) : p \in Range(listed) \cup {OwnID}}
ServiceRoutes == {ServicePrefix \o netId : netId \in svcNetIds}

-----------------------------------------------------------------------------
(* Properties. *)

\* The addresses of p are those of no other node in this network, which the
\* documentation lists as a known issue, and are in no network a peer is given a
\* route to.
NoConflict(p) ==
    /\ \A q \in (Range(listed) \cup {OwnID}) \ {p} :
          MkNetID(p) # MkNetID(q) /\ mkBuiltinAddr4(p) # mkBuiltinAddr4(q)
    /\ \A n \in DOMAIN byNetwork :
          ~Contains(n, mkBuiltinAddr4(p)) /\ ~Contains(n, mkBuiltinAddr6(p))

\* The registered services with the identifier of that name: names may share one.
Twins(name) == {other \in registered : MkServiceID(other) = MkServiceID(name)}

\* The tables have keys of the lengths the lookups cut out of an address, and lead
\* to peers of the configuration and to services.
TypeOK ==
    /\ listed \in Seq(PeerIDs)
    /\ \A netId \in DOMAIN byNetID : Len(netId) = 4 /\ Range(netId) \subseteq Byte
    /\ \A addr \in DOMAIN byRoute : Len(addr) \in {4, 16} /\ Range(addr) \subseteq Byte
    /\ DOMAIN byNetwork \subseteq Networks
    /\ Range(byNetID) \cup Range(byRoute) \cup Range(byNetwork) \subseteq Range(listed)
    /\ \A id \in DOMAIN listeners : Len(id) = 2 /\ Range(id) \subseteq Byte
    /\ Range(listeners) \subseteq registered /\ registered \subseteq ServiceNames

\* What one part of the code puts into an address another takes out.  A packet to
\* a built-in address of another peer goes to that peer, and one to an address
\* of the service network asks that peer for the identifier in it, unless the
\* peer's addresses conflict.  Conflicts or not, whatever the kernel routes to the
\* service network has somebody to handle it.  A service registered here is
\* reached by its address, unless another has the same identifier: then one of
\* them is.  Addresses that conflict move as a whole: the table of routes and the
\* table of identifiers name the same peer.
AddressesResolve ==
    /\ \A p \in Range(listed) \ {OwnID} : NoConflict(p) =>
        /\ Dispatch(mkBuiltinAddr4(p)) = ToPeer(p)
        /\ Dispatch(mkBuiltinAddr6(p)) = ToPeer(p)
        /\ \A name \in ServiceNames :
             Dispatch(MkServiceAddr6(p, name)) = ToService(p, MkServiceID(name))
    /\ \A p \in Range(listed) \cup {OwnID}, name \in ServiceNames :
        LET addr == MkServiceAddr6(p, name)
        IN  SubSeq(addr, 1, 14) \in ServiceRoutes /\ Dispatch(addr) # ToNilHandle
    /\ \A name \in registered :
        \E other \in Twins(name) : Dispatch(MkServiceAddr6(OwnID, name)) = ToListener(other)
    /\ \A p \in Range(listed) : byRoute[mkBuiltinAddr6(p)] = byNetID[MkNetID(p)]
=============================================================================
