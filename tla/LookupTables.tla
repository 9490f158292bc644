---------------------------- MODULE LookupTables ----------------------------
(* Go maps as functions, for the lookup tables of a configuration. *)

NoEntries == [k \in {} |-> k]
Put(f, k, v) == [a \in DOMAIN f \cup {k} |-> IF a = k THEN v ELSE f[a]]
=============================================================================
