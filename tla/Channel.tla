------------------------------ MODULE Channel ------------------------------
(***************************************************************************)
(* What one direction of a stream promises to the code at its two ends:    *)
(* messages come out as they were put in, in order, each once, and a clean *)
(* end comes after all of them.  A channel may break at any time; what was *)
(* in flight then may still arrive, and what is sent later may be lost.    *)
(*                                                                         *)
(* Framing shows that the packets of a libp2p stream travel this way, and  *)
(* Pipe that each direction of a relayed connection does.                  *)
(***************************************************************************)
EXTENDS Naturals, Sequences

CONSTANT Messages

VARIABLES
    sent,   \* the messages put in
    got,    \* the messages that came out
    link    \* "up", "ended" (the sender closed it) or "broken"

vars == <<sent, got, link>>

Init == sent = << >> /\ got = << >> /\ link = "up"

Send(m) ==
    /\ link # "ended"
    /\ sent' = Append(sent, m)
    /\ UNCHANGED <<got, link>>

Deliver ==
    /\ Len(got) < Len(sent)
    /\ got' = Append(got, sent[Len(got) + 1])
    /\ UNCHANGED <<sent, link>>

End ==
    /\ link = "up" /\ got = sent
    /\ link' = "ended"
    /\ UNCHANGED <<sent, got>>

Break ==
    /\ link # "broken"
    /\ link' = "broken"
    /\ UNCHANGED <<sent, got>>

Next == (\E m \in Messages : Send(m)) \/ Deliver \/ End \/ Break

Spec == Init /\ [][Next]_vars
=============================================================================
