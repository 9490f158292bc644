---------------------------- MODULE PacketPlane ----------------------------
(***************************************************************************)
(* What the packet plane of a node promises for the packets it takes from  *)
(* the TUN device, whatever its goroutines do: a packet counts as sent     *)
(* only when some stream carried all of it, it is carried again only when  *)
(* the streams that carried it before are lost, and it is dropped only     *)
(* when no open stream carries it.  StreamSharing implements this.         *)
(***************************************************************************)
CONSTANTS Packets, Streams

VARIABLES
    fate,     \* of a packet: "idle", "taken", "sent" or "lost"
    state,    \* of a stream: "unopened", "open", "gone" or "closed"
    carried   \* carried[s]: the packets written whole to stream s

vars == <<fate, state, carried>>

Init ==
    /\ fate = [p \in Packets |-> "idle"]
    /\ state = [s \in Streams |-> "unopened"]
    /\ carried = [s \in Streams |-> {}]

Take(p) ==
    /\ fate[p] = "idle"
    /\ fate' = [fate EXCEPT ![p] = "taken"]
    /\ UNCHANGED <<state, carried>>

Opens(s) ==
    /\ state[s] = "unopened"
    /\ state' = [state EXCEPT ![s] = "open"]
    /\ UNCHANGED <<fate, carried>>

Leaves(s) ==
    /\ state[s] \in {"open", "gone"}
    /\ \E to \in {"gone", "closed"} : state' = [state EXCEPT ![s] = to]
    /\ UNCHANGED <<fate, carried>>

Free(p, s) == \A t \in Streams \ {s} : p \in carried[t] => state[t] # "open"

Carry(p, s) ==
    /\ fate[p] = "taken" /\ Free(p, s)
    /\ state[s] \in {"open", "gone"} /\ p \notin carried[s]
    /\ carried' = [carried EXCEPT ![s] = @ \cup {p}]
    /\ \E to \in {"taken", "sent"} : fate' = [fate EXCEPT ![p] = to]
    /\ UNCHANGED state

Finish(p) ==
    /\ fate[p] = "taken" /\ \E s \in Streams : p \in carried[s]
    /\ fate' = [fate EXCEPT ![p] = "sent"]
    /\ UNCHANGED <<state, carried>>

\* The stream the packet was tried on last may be closed with it.
Drop(p) ==
    /\ fate[p] = "taken"
    /\ fate' = [fate EXCEPT ![p] = "lost"]
    /\ \/ UNCHANGED state
       \/ \E s \in Streams : state[s] # "unopened" /\ state' = [state EXCEPT ![s] = "closed"]
    /\ \A s \in Streams : p \in carried[s] => state'[s] # "open"
    /\ UNCHANGED carried

Next ==
    \/ \E p \in Packets : Take(p) \/ Finish(p) \/ Drop(p) \/ \E s \in Streams : Carry(p, s)
    \/ \E s \in Streams : Opens(s) \/ Leaves(s)

Spec == Init /\ [][Next]_vars
=============================================================================
