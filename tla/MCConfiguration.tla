--------------------------- MODULE MCConfiguration ---------------------------
(* Instances of Configuration for TLC, with peer IDs shorter than real ones. *)
EXTENDS Configuration, Bitwise

CONSTANTS k1, k2, k3, me, x1, x2

\* The sum over the bits is the exclusive or.
ASSUME \A a, b \in Byte : XorByte(a, b) = a ^^ b

\* The first two have all addresses in common, the third has the IPv4 address of
\* the first and its own IPv6 address.
KeyOf ==
    [id \in {k1, k2, k3, me} |->
        CASE id = k1 -> <<18, 1, 8, 32, 7>>
          [] id = k2 -> <<7, 1, 8, 32, 18>>
          [] id = k3 -> <<8, 1, 18, 32, 7>>
          [] id = me -> <<18, 1, 200, 32, 7>>]
Keys == {KeyOf[id] : id \in {k1, k2, k3, me}}
MyKey == KeyOf[me]

\* Two labels differ in case only, two have one service identifier; the last is
\* the name of the host.
SomeLabels == {"web", "weB", "deb"}
LowerOf == [x \in SomeLabels |-> IF x = "weB" THEN "web" ELSE x]
SomeNames == {<<"web">>, <<"weB">>, <<"deb", "web">>, <<"deb">>}
TextOf ==
    [x \in SomeLabels |->
        CASE x = "web" -> <<119, 101, 98>>
          [] x = "weB" -> <<119, 101, 66>>
          [] x = "deb" -> <<100, 101, 98>>]
Texts == {TextOf[x] : x \in SomeLabels}

\* One prefix starts two IDs, one the first of them.
MatchesOf == [x \in {x1, x2} |-> IF x = x1 THEN {k1, k2} ELSE {k1}]

\* The network of all built-in IPv4 addresses, through the third peer.
All4 == [size |-> 4, prefix |-> <<100, 64>>]
SomeNetworks == {All4}
RoutesOf == [id \in {k1, k2, k3, me} |-> IF id = k3 THEN {All4} ELSE {}]

\* At most one list has a reference, by a name that peers may share, by no name,
\* by a prefix, or empty.
InitOneRef ==
    /\ Init
    /\ \E l \in Lists : given[l] = {}
    /\ \A l \in Lists : \A r \in given[l] : r.by = "name" => r.name \in {<<"web">>, NoName}
SpecOneRef == InitOneRef /\ [][Next]_vars
=============================================================================
