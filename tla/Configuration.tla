---------------------------- MODULE Configuration ----------------------------
(***************************************************************************)
(* From a name to a peer: config.Read enters each peer by its name and by  *)
(* its addresses (config/config.go, Naming and AddressSpace), Run          *)
(* registers the services (node/node.go), the DNS server turns the answer  *)
(* for a name into addresses (dns/server.go), and the packet loop takes    *)
(* these apart.                                                            *)
(***************************************************************************)
EXTENDS Naming, AddressSpace

CONSTANTS
    Key,      \* Key[id]: the bytes of a peer ID
    Text,     \* Text[x]: the bytes of a label
    Routes    \* Routes[id]: the networks a peer is given routes to

ASSUME ConfigurationAssumption ==
    /\ Key \in [IDs \cup {Self} -> PeerIDs \cup {OwnID}] /\ IsInjective(Key)
    /\ Key[Self] = OwnID /\ \A id \in IDs : Key[id] \in PeerIDs
    /\ Text \in [Labels -> ServiceNames]
    /\ Routes \in [IDs -> SUBSET Networks]

vars == <<namingVars, addressVars>>

Init == NamingInit /\ AddressInit

\* A round of the loop over the peers fills all tables.
Enter ==
    /\ ReadPeer
    /\ LET id == input[Len(peers) + 1].id IN EnterPeer(Key[id], Routes[id])

\* The rest of Read.
ReadOn ==
    /\ NextLoop \/ Malformed \/ \E l \in Lists, r \in Ref : ReadRef(l, r)
    /\ UNCHANGED addressVars

\* Run starts with a configuration that was read.
Run ==
    /\ step = "done"
    /\ \E x \in Labels : Register(Text[x])
    /\ UNCHANGED namingVars

Next == Enter \/ ReadOn \/ Run

Spec == Init /\ [][Next]_vars

-----------------------------------------------------------------------------
(* The address records of an answer. *)

\* Defect used to test the properties: the records of a service are those of its
\* node.
RecordsOfNode(answer) == {mkBuiltinAddr6(Key[answer.id])}

\* A service has no IPv4 address.
Records(answer) ==
    IF answer.for = "service" THEN {MkServiceAddr6(Key[answer.id], Text[answer.name])}
    ELSE {mkBuiltinAddr4(Key[answer.id]), mkBuiltinAddr6(Key[answer.id])}

-----------------------------------------------------------------------------
(* Properties. *)

\* The documentation: the DNS name of a service is a subdomain of the name of its
\* node.  A name that one peer has leads there: the addresses in the answer for
\* it, in any case, are dispatched to that peer, and those in the answer for a
\* service of it ask that peer for the service; and the services of this node are
\* found below the name of the host.
NamesLead ==
    step = "done" =>
        /\ \A i \in Named : LET key == Key[peers[i].id] IN
            OwnName(i) /\ key # OwnID /\ NoConflict(key) =>
              \A x \in Labels \ (IDs \cup {Self}) : Lower[x] = Lower[Head(peers[i].name)] =>
                /\ \A a \in Records(MagicDns(<<x>>)) : Dispatch(a) = ToPeer(key)
                /\ \A service \in Labels : \A a \in Records(MagicDns(<<service, x>>)) :
                     Dispatch(a) = ToService(key, MkServiceID(Text[service]))
        /\ \A service \in Labels : Text[service] \in registered =>
              \A a \in Records(MagicDns(<<service, Hostname>>)) :
                \E other \in Twins(Text[service]) : Dispatch(a) = ToListener(other)
=============================================================================
