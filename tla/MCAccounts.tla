----------------------------- MODULE MCAccounts -----------------------------
(* Instances of Accounts for TLC.                                             *)
EXTENDS Accounts, TLC

CONSTANTS u1, u2, r1, r2

\* Requests of every kind; an update names one column, or none of these.
Named(q) == {c \in {"role", "active"} : q[c] # Unset} \cup (IF q.password THEN {"password"} ELSE {})
OneColumn == {q \in Request : q.op = "update" => Cardinality(Named(q)) <= 1}

\* Accounts, tokens and slots are given in no particular order.
Symmetry == Permutations(Users) \cup Permutations(Tokens) \cup Permutations(Slots)
=============================================================================
