----------------------------- MODULE MCQuotesTx -----------------------------
(* Instances of QuotesTx for TLC.                                             *)
EXTENDS QuotesTx, TLC

CONSTANTS q1, o1, o2, s1, s2

Symmetry == Permutations({o1, o2} \cap OrderIds)
            \cup Permutations(Slots)
=============================================================================
