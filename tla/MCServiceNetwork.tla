-------------------------- MODULE MCServiceNetwork --------------------------
(* Instance of ServiceNetwork for TLC: both services share identifier i1, and
   nobody has i2. *)
EXTENDS ServiceNetwork

CONSTANTS v1, v2, i1, q1, q2

IdOf == [v \in {v1, v2} |-> i1]
\* v1 admits q1, v2 blocks q1.
Lists == [v \in {v1, v2} |->
            IF v = v1 THEN [on |-> TRUE, white |-> {q1}, black |-> {}]
                      ELSE [on |-> FALSE, white |-> {}, black |-> {q1}]]
=============================================================================
