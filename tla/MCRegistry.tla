----------------------------- MODULE MCRegistry -----------------------------
(* An instance of Registry: two locations, a type, a machine that refers to   *)
(* them, with the flag that deactivates it, and the machine's rate.           *)
EXTENDS Registry, TLC

CONSTANTS l1, l2

MCIds ==
  [locaciones |-> {l1, l2}, tipos_maquina |-> {"t1"}, maquinas |-> {"m1"},
   tarifas_maquina |-> {"m1"}]

MCNamed ==
  [locaciones |-> {}, tipos_maquina |-> {},
   maquinas |-> {"locacion_id", "fecha_compra", "activa"},
   tarifas_maquina |-> {}]

Symmetry == Permutations(Slots) \cup Permutations({l1, l2})
=============================================================================
