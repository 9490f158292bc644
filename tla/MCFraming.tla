----------------------------- MODULE MCFraming -----------------------------
(* Instance of Framing for TLC: four byte values, so that a packet of five
   bytes has two nonzero length bytes, and a buffer of six bytes. *)
EXTENDS Framing

SmallBodies == {<<1>>, <<0, 3>>, <<2, 0, 1, 3, 1>>}
=============================================================================
