--------------------------- MODULE MCPeerRouting ---------------------------
(* Instances of PeerRouting for TLC: two configured peers; the target is the
   second of them. *)
EXTENDS PeerRouting

CONSTANTS q1, q2

TwoPeers == <<q1, q2>>
=============================================================================
