----------------------------- MODULE MCNetstack -----------------------------
(* Instance of Netstack for TLC: a node with both families, a service that
   sends as well, and names of up to five characters, longer than MaxName and
   than two labels of MaxLabel. *)
EXTENDS Netstack, SequencesExt

Services == {"service"}
BothFamilies == {"A", "AAAA"}
ShortNames ==
    BoundedSeq({"letter", "digit", "hyphen", "dot"}, 5) \cup {<<"letter", "other">>}
=============================================================================
