----------------------------- MODULE MCMetrics ------------------------------
(* An instance of Floor with its readers, OrderView and Metrics, for TLC: an  *)
(* order of two works, one that was quoted and one without a price, and two   *)
(* machines alike.                                                            *)
EXTENDS Metrics, TLC

CONSTANTS m1, m2, w1, w2, o1, A

MCOrderOf == [w \in Works |-> o1]
MCRequiredType == [w \in Works |-> A]
MCPrice == (w1 :> 5) @@ (w2 :> NoPrice)

\* The machines are alike; the works differ in their price.
Symmetry == Permutations(Machines)
=============================================================================
