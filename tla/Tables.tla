------------------------------- MODULE Tables -------------------------------
(* Partial functions as tables and dictionaries: a row per key.              *)

Empty == [key \in {} |-> key]

Put(f, key, value) ==
    [k \in DOMAIN f \cup {key} |-> IF k = key THEN value ELSE f[k]]

Drop(f, S) == [k \in DOMAIN f \ S |-> f[k]]
=============================================================================
