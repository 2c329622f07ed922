---------------------------- MODULE MC_StoreLoad -----------------------------
(* Registries of up to three rows for two names and two object keys: rows   *)
(* that repeat a name or a key, with and without a default, with a blank    *)
(* index (which parses as 0), an out-of-range priority, or a garbled cell.  *)
EXTENDS StoreLoad

CONSTANTS a, b, v1, v2

MCName  == {a, b}
MCValue == {v1, v2}

R(n, i, w, p, d) ==
    [name |-> n, type |-> "analogValue", index |-> i, writable |-> w, priority |-> p, default |-> d]

MCRows ==
    {R(a, i, w, p, d) : i \in {Blank, 1}, w \in BOOLEAN, p \in {Blank, 1}, d \in {NoValue, v1}}
    \cup {R(a, 1, TRUE, 1, v2)}
    \cup {R(b, i, TRUE, 2, v2) : i \in {0, 1}}
    \cup {R(a, Garbled, TRUE, 1, v1), R(b, 1, TRUE, Garbled, v2)}
=============================================================================
