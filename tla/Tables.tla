------------------------------- MODULE Tables -------------------------------
(* A table is a function from the keys of its rows to the rows.            *)

With(table, key, row) ==
    [k \in DOMAIN table \cup {key} |-> IF k = key THEN row ELSE table[k]]

Without(table, keys) == [k \in DOMAIN table \ keys |-> table[k]]

\* The rows of table, and those of more whose keys it does not have.
Joined(table, more) ==
    [k \in DOMAIN table \cup DOMAIN more |-> IF k \in DOMAIN table THEN table[k] ELSE more[k]]

=============================================================================
