------------------------------- MODULE MCPipe -------------------------------
(* Instances of Pipe for TLC: a client and a service. *)
EXTENDS Pipe

Sides == {"client", "service"}
Nobody == {}
OnlyClient == {"client"}
TwoEach == [e \in Sides |-> 2]
ThreeEach == [e \in Sides |-> 3]
=============================================================================
