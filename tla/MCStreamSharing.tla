-------------------------- MODULE MCStreamSharing --------------------------
(* Instances of StreamSharing for TLC: all packets go to peer q1; other peers
   of the configuration only open streams. *)
EXTENDS StreamSharing

CONSTANT q1

AllToOnePeer == [p \in Packets |-> q1]
=============================================================================
