--------------------------- MODULE MCLoginLimiter ---------------------------
(* Instances of LoginLimiter for TLC.                                         *)
EXTENDS LoginLimiter, TLC

CONSTANTS r1, r2, a1, a2

\* No updates of accounts.
Unchanging == {q \in Request : q.op # "update"}

Symmetry == Permutations(Slots) \cup Permutations(Addresses)
=============================================================================
