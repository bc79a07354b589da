----------------------------- MODULE Allocation -----------------------------
(***************************************************************************)
(* What production promises the people on the floor: a machine makes one   *)
(* work at a time and a work is made on one machine at a time; a machine   *)
(* that was taken is let go only because its own work ended; and what was  *)
(* completed is never made again.                                          *)
(***************************************************************************)
CONSTANTS Machines, Works, NoWork

VARIABLES
  making,  \* making[m]: the work machine m makes, or NoWork
  done     \* works completed

AllocationInit ==
  /\ making = [m \in Machines |-> NoWork]
  /\ done = {}

Take(m, w) ==
  /\ making[m] = NoWork
  /\ w \notin done
  /\ \A n \in Machines : making[n] # w
  /\ making' = [making EXCEPT ![m] = w]
  /\ UNCHANGED done

Fail(m) ==
  /\ making[m] # NoWork
  /\ making' = [making EXCEPT ![m] = NoWork]
  /\ UNCHANGED done

Complete(m) ==
  /\ making[m] # NoWork
  /\ making' = [making EXCEPT ![m] = NoWork]
  /\ done' = done \cup {making[m]}

AllocationNext ==
  \E m \in Machines :
    \/ \E w \in Works : Take(m, w)
    \/ Fail(m)
    \/ Complete(m)

AllocationSpec == AllocationInit /\ [][AllocationNext]_<<making, done>>
=============================================================================
