----------------------------- MODULE MCFloorTx -----------------------------
(* Instances of FloorTx for TLC: one order, works and machines of one or two  *)
(* types, a few slots.                                                       *)
EXTENDS FloorTx, TLC

CONSTANTS m1, m2, w1, w2, o1, A, B, s1, s2

MCOrderOf == [w \in Works |-> o1]
MCRequiredType == [w \in Works |-> A]

\* Machines, works and slots are alike among themselves.
Symmetry == Permutations({m1, m2} \cap Machines) \cup Permutations({w1, w2} \cap Works)
            \cup Permutations(Slots)
=============================================================================
