---------------------------- MODULE MCDiscovery ----------------------------
(* Instance of Discovery for TLC: two peers that know each other, and q2 also
   a stranger.  Routes through the tunnel may come to cover an IPv4 and an
   IPv6 address of q1; q2 has a private and a public address. *)
EXTENDS Discovery

CONSTANTS q1, q2, other, lan4, lan6, private, public

TwoPeers == <<q1, q2>>
Own == [p \in PeerIDs |-> IF p = q1 THEN {lan4, lan6} ELSE {private, public}]
Others == [p \in PeerIDs |-> IF p = q1 THEN {q2} ELSE {q1, other}]
=============================================================================
