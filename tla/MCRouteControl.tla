--------------------------- MODULE MCRouteControl ---------------------------
(* Instances of RouteControl for TLC: a configured network, a free one that
   overlaps it, and one of the service network. *)
EXTENDS RouteControl, TLC

CONSTANTS own, extra, service, a1, a2, a3, q1, q2

Nets == {own, extra, service}
Covered == [n \in Nets |-> CASE n = own -> {a1}
                             [] n = extra -> {a1, a2}
                             [] n = service -> {a3}]
OneRoute == [n \in Nets |-> IF n = own THEN q1 ELSE NoPeer]
Symmetry == Permutations(Clients)
=============================================================================
