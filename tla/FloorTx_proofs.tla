--------------------------- MODULE FloorTx_proofs ---------------------------
(***************************************************************************)
(* The transactions of FloorTx, statement by statement and with any number *)
(* of requests at the same time, do what Floor says: what a transaction    *)
(* has read under its locks is what it commits on.                         *)
(***************************************************************************)
EXTENDS FloorTx, Floor_proofs

-----------------------------------------------------------------------------
(***************************************************************************)
(* The invariant.                                                          *)
(***************************************************************************)
Lock(r, table, key, mode) == [slot |-> r, row |-> Row(table, key), mode |-> mode]
Holds(r, table, key, mode) == Lock(r, table, key, mode) \in locks

Statements ==
  {"idle", "stamp", "readAttempt", "lockWork", "lockMachine", "readPeriod", "lockPeriod",
   "insert", "foreignKey", "readOrder", "lockOrder", "commit"}

Reading == [attempt : SUBSET Attempt, period : SUBSET Period, row : SUBSET MachineRow,
            orderStatus : OrderStatuses]

TxTypes ==
  /\ pc \in [Slots -> Statements]
  /\ req \in [Slots -> Request \cup {NoRequest}]
  /\ stamp \in [Slots -> Times \cup {Earliest}]
  /\ read \in [Slots -> Reading]
  /\ \A r \in Slots : pc[r] # "idle" => req[r] \in Request
  /\ \A g \in locks : g.slot \in Slots

\* No two transactions hold locks of a row that exclude each other.
LocksExclude ==
  \A g, h \in locks : g.slot # h.slot /\ g.row = h.row => Compatible(g.mode, h.mode)

\* How far a transaction has come.
LockedWork    == {"lockMachine", "readPeriod", "lockPeriod", "insert", "foreignKey", "readOrder",
                  "lockOrder", "commit"}
LockedMachine == {"readPeriod", "lockPeriod", "insert", "readOrder", "lockOrder", "commit"}
FoundPeriod   == {"lockPeriod", "insert", "foreignKey", "readOrder", "lockOrder", "commit"}
LockedPeriod  == FoundPeriod \ {"lockPeriod"}
SharedMachine == {"readOrder", "lockOrder", "commit"}
FoundOrder    == {"lockOrder", "commit"}

Serves(r, op) == pc[r] # "idle" /\ req[r].op = op

\* What a start knows at each statement: the work under its lock, the machine
\* under its lock, the open period it has read, and what it asked of that period.
StartKnows(r) ==
  LET w == req[r].work
      m == work[w].machine IN
  /\ pc[r] \in {"stamp", "lockWork"} \cup (LockedWork \ {"foreignKey"})
  /\ pc[r] # "stamp" => stamp[r] \in Times
  /\ pc[r] \in LockedWork => Holds(r, "work", w, "update") /\ StartGate(req[r])
  /\ pc[r] \in LockedMachine => Holds(r, "machine", m, "update") /\ Suits(w, m)
  /\ pc[r] \in FoundPeriod => read[r].period = OpenPeriods(m)
  /\ pc[r] = "lockPeriod" => read[r].period # {}
  /\ pc[r] \in LockedPeriod => \A h \in read[r].period : StartTakes(h, stamp[r])

\* A finish does not lock the machine until it has locked and closed the period.
FinishKnows(r) ==
  LET w == req[r].work IN
  /\ pc[r] \in {"stamp", "readAttempt", "lockWork"} \cup (LockedWork \ {"lockMachine"})
  /\ pc[r] # "stamp" => stamp[r] \in Times
  /\ pc[r] \in {"lockWork"} \cup LockedWork =>
       \E a \in read[r].attempt : read[r].attempt = {a} /\ a.work = w /\ a.end = Open
  /\ pc[r] \in LockedWork =>
       /\ Holds(r, "work", w, "update") /\ FinishGate(req[r])
       /\ read[r].attempt = OpenAttempts(w)
       /\ \A a \in read[r].attempt : a.start < stamp[r]
  /\ pc[r] \in FoundPeriod => read[r].period = OpenPeriods(MachineOf(r)) /\ read[r].period # {}
  /\ pc[r] \in LockedPeriod => \A h \in read[r].period : FinishTakes(h, w, stamp[r])
  /\ pc[r] \in SharedMachine => Holds(r, "machine", MachineOf(r), "share")
  /\ pc[r] \in FoundOrder => read[r].orderStatus \in OrderStatusesAfter(w, req[r].result)

AssignKnows(r) ==
  /\ pc[r] \in {"lockWork", "foreignKey", "commit"}
  /\ pc[r] \in LockedWork =>
       Holds(r, "work", req[r].work, "write") /\ work[req[r].work].status = "PENDIENTE"

ChangeKnows(r) ==
  LET m == req[r].machine IN
  /\ pc[r] \in {"stamp", "lockMachine", "readPeriod", "lockPeriod", "insert", "commit"}
  /\ pc[r] # "stamp" => stamp[r] \in Times
  /\ pc[r] \in LockedMachine => Holds(r, "machine", m, "update")
  /\ pc[r] \in FoundPeriod => read[r].period = OpenPeriods(m)
  /\ pc[r] = "lockPeriod" => read[r].period # {}
  /\ pc[r] \in LockedPeriod => \A h \in read[r].period : ChangeTakes(h, req[r].state, stamp[r])

PatchKnows(r) ==
  /\ pc[r] \in {"lockMachine", "commit"}
  /\ \E row \in MachineRow : read[r].row = {row}
  /\ pc[r] = "commit" => Holds(r, "machine", req[r].machine, "write")

Knows(r) ==
  /\ Serves(r, "start")  => StartKnows(r)
  /\ Serves(r, "finish") => FinishKnows(r)
  /\ Serves(r, "assign") => AssignKnows(r)
  /\ Serves(r, "change") => ChangeKnows(r)
  /\ Serves(r, "patch")  => PatchKnows(r)

TxInv ==
  /\ FloorInv
  /\ TxTypes
  /\ LocksExclude
  /\ \A r \in Slots : Knows(r)

-----------------------------------------------------------------------------
\* Where each lock comes from.
LockOrigin(g) ==
  LET r == g.slot IN
  \/ /\ req[r].op \in {"start", "finish", "assign"} /\ pc[r] \in LockedWork
     /\ g.row = Row("work", req[r].work)
  \/ /\ req[r].op \in {"start", "change"} /\ pc[r] \in LockedMachine
     /\ g.row = Row("machine", MachineOf(r)) /\ g.mode = "update"
  \/ /\ req[r].op = "patch" /\ pc[r] = "commit"
     /\ g.row = Row("machine", MachineOf(r)) /\ g.mode = "write"
  \/ /\ req[r].op \in {"finish", "assign"} /\ pc[r] \in SharedMachine
     /\ g.row = Row("machine", MachineOf(r)) /\ g.mode = "share"
  \/ /\ req[r].op \in {"start", "finish", "change"} /\ pc[r] \in LockedPeriod
     /\ \E h \in read[r].period : g.row = Row("period", h)
  \/ /\ req[r].op \in {"start", "finish", "change"} /\ pc[r] \in LockedPeriod \ {"insert"}
     /\ g.row = Row("openIndex", MachineOf(r))
  \/ g.row.table = "order" /\ pc[r] = "commit"

LocksOrigin == \A g \in locks : pc[g.slot] # "idle" /\ LockOrigin(g)

-----------------------------------------------------------------------------
(***************************************************************************)
(* Requests and locks.                                                     *)
(***************************************************************************)

\* The fields a request of each kind has.
LEMMA Fields ==
  ASSUME TxTypes, NEW r \in Slots
  PROVE  /\ Serves(r, "start")  => req[r].work \in Works
         /\ Serves(r, "finish") => req[r].work \in Works /\ req[r].result \in Results
         /\ Serves(r, "assign") => req[r].work \in Works /\ req[r].machine \in Machines
         /\ Serves(r, "change") => req[r].machine \in Machines /\ req[r].state \in States
         /\ Serves(r, "patch")  => req[r].machine \in Machines
         /\ pc[r] # "idle" => req[r].op \in {"start", "finish", "assign", "change", "patch"}
  BY DEF TxTypes, Request, Serves

\* A lock is granted when nobody else holds the row in a mode against it.
LEMMA GrantExcludes ==
  ASSUME TxTypes, LocksExclude, NEW r \in Slots, pc[r] \in Locking, Blockers(r) = {},
         locks' = locks \cup {[slot |-> r, row |-> Wanted(r).row, mode |-> Wanted(r).mode]}
  PROVE  LocksExclude'
<1> DEFINE row == Wanted(r).row
           mode == Wanted(r).mode
           new == [slot |-> r, row |-> row, mode |-> mode]
<1>1. \A g \in locks : g.slot # r /\ g.row = row => Compatible(g.mode, mode)
  BY DEF Blockers, HeldByOthers, TxTypes
<1>2. locks' = locks \cup {new}
  OBVIOUS
<1> HIDE DEF row, mode
<1>3. \A m, n : Compatible(m, n) => Compatible(n, m)
  BY DEF Compatible
<1>4. QED
  BY <1>1, <1>2, <1>3 DEF LocksExclude

\* Two slots that hold locks of a row against each other are one.
LEMMA HoldersDiffer ==
  ASSUME LocksExclude, NEW r, NEW s, NEW table, NEW key, NEW m, NEW n,
         Holds(r, table, key, m), Holds(s, table, key, n), ~Compatible(m, n)
  PROVE  r = s
<1> DEFINE g == Lock(r, table, key, m)
           h == Lock(s, table, key, n)
<1>1. g \in locks /\ h \in locks
  BY DEF Holds
<1>2. /\ g.slot = r /\ g.row = Row(table, key) /\ g.mode = m
      /\ h.slot = s /\ h.row = Row(table, key) /\ h.mode = n
  BY DEF Lock
<1> HIDE DEF g, h
<1>3. QED
  BY <1>1, <1>2 DEF LocksExclude

LEMMA Modes ==
  /\ ~Compatible("update", "update") /\ ~Compatible("update", "write")
  /\ ~Compatible("write", "update") /\ ~Compatible("write", "write")
  /\ ~Compatible("update", "share") /\ ~Compatible("share", "update")
  BY DEF Compatible

-----------------------------------------------------------------------------
(***************************************************************************)
(* What a request knows lasts while the rows it has locked stay as they    *)
(* are.                                                                    *)
(***************************************************************************)
AttemptsStay(w) == {a \in attempts' : a.work = w /\ a.end = Open} = OpenAttempts(w)
PeriodsStay(m)  == {h \in history' : h.machine = m /\ h.end = Open} = OpenPeriods(m)

Stays(r) ==
  /\ pc'[r] = pc[r] /\ req'[r] = req[r] /\ stamp'[r] = stamp[r] /\ read'[r] = read[r]
  /\ \A g \in locks : g.slot = r => g \in locks'
  /\ pc[r] \in LockedWork /\ req[r].op \in {"start", "finish", "assign"} =>
       /\ work'[req[r].work] = work[req[r].work]
       /\ AttemptsStay(req[r].work)
  /\ pc[r] \in LockedMachine /\ req[r].op = "start" =>
       machine'[work[req[r].work].machine] = machine[work[req[r].work].machine]
  /\ pc[r] \in FoundPeriod /\ req[r].op \in {"start", "finish", "change"} =>
       PeriodsStay(MachineOf(r))
  /\ \A v \in Works : work[v].status = "COMPLETADO" => work'[v].status = "COMPLETADO"

LEMMA HoldsStay ==
  ASSUME NEW r, \A g \in locks : g.slot = r => g \in locks',
         NEW table, NEW key, NEW mode, Holds(r, table, key, mode)
  PROVE  Lock(r, table, key, mode) \in locks'
  BY DEF Holds, Lock

LEMMA StartStays ==
  ASSUME TxTypes, NEW r \in Slots, Stays(r), Serves(r, "start"), StartKnows(r)
  PROVE  StartKnows(r)'
<1> DEFINE w == req[r].work
           m == work[w].machine
<1>1. /\ pc'[r] = pc[r] /\ req'[r] = req[r] /\ stamp'[r] = stamp[r] /\ read'[r] = read[r]
      /\ req'[r].work = w /\ req[r].op = "start" /\ req'[r].op = "start"
  BY DEF Stays, Serves
<1>2. CASE pc[r] \notin LockedWork
  BY <1>1, <1>2 DEF StartKnows, LockedWork, LockedMachine, FoundPeriod, LockedPeriod
<1>3. CASE pc[r] \in LockedWork
  <2>1. work'[w] = work[w]
    BY <1>1, <1>3 DEF Stays
  <2>2. MachineOf(r) = m
    BY <1>1 DEF MachineOf
  <2>3. pc[r] \in FoundPeriod => OpenPeriods(m)' = OpenPeriods(m)
    BY <1>1, <2>1, <2>2 DEF Stays, PeriodsStay, OpenPeriods
  <2>4. Holds(r, "work", w, "update")' /\ StartGate(req[r])'
    BY <1>1, <1>3, <2>1, HoldsStay DEF Stays, StartKnows, Holds, StartGate
  <2>5. pc[r] \in LockedMachine => Holds(r, "machine", m, "update")' /\ Suits(w, m)'
    BY <1>1, <1>3, <2>1, HoldsStay DEF Stays, StartKnows, Holds, Suits
  <2>6. QED
    BY <1>1, <2>1, <2>3, <2>4, <2>5 DEF StartKnows, StartTakes, StartGate, Holds, Suits
<1>4. QED
  BY <1>2, <1>3

LEMMA FinishStays ==
  ASSUME TxTypes, NEW r \in Slots, Stays(r), Serves(r, "finish"), FinishKnows(r)
  PROVE  FinishKnows(r)'
<1> DEFINE w == req[r].work
           m == MachineOf(r)
<1>1. /\ pc'[r] = pc[r] /\ req'[r] = req[r] /\ stamp'[r] = stamp[r] /\ read'[r] = read[r]
      /\ req'[r].work = w /\ req[r].op = "finish" /\ req'[r].op = "finish"
  BY DEF Stays, Serves
<1>2. MachineOf(r)' = m
  BY <1>1 DEF MachineOf
<1>3. CASE pc[r] \notin LockedWork
  BY <1>1, <1>3 DEF FinishKnows, LockedWork, FoundPeriod, LockedPeriod, SharedMachine, FoundOrder
<1>4. CASE pc[r] \in LockedWork
  <2>1. work'[w] = work[w] /\ OpenAttempts(w)' = OpenAttempts(w)
    BY <1>1, <1>4 DEF Stays, AttemptsStay, OpenAttempts
  <2>2. pc[r] \in FoundPeriod => OpenPeriods(m)' = OpenPeriods(m)
    BY <1>1, <1>2 DEF Stays, PeriodsStay, OpenPeriods
  <2>3. Holds(r, "work", w, "update")' /\ FinishGate(req[r])'
    BY <1>1, <1>4, <2>1, HoldsStay DEF Stays, FinishKnows, Holds, FinishGate
  <2>4. pc[r] \in SharedMachine => Holds(r, "machine", m, "share")'
    BY <1>1, <1>2, HoldsStay DEF Stays, FinishKnows, Holds
  <2>5. OrderStatusesAfter(w, req[r].result) \subseteq OrderStatusesAfter(w, req[r].result)'
    BY <1>1 DEF OrderStatusesAfter, Stays
  <2> HIDE DEF m
  <2>6. /\ pc'[r] \in {"lockWork"} \cup LockedWork =>
             \E a \in read'[r].attempt : read'[r].attempt = {a} /\ a.work = w /\ a.end = Open
        /\ read'[r].attempt = OpenAttempts(w)'
        /\ \A a \in read'[r].attempt : a.start < stamp'[r]
    BY <1>1, <1>4, <2>1 DEF FinishKnows
  <2>7. pc'[r] \in FoundPeriod => read'[r].period = OpenPeriods(m)' /\ read'[r].period # {}
    BY <1>1, <2>2 DEF FinishKnows, m
  <2>8. pc'[r] \in LockedPeriod => \A h \in read'[r].period : FinishTakes(h, w, stamp'[r])
    BY <1>1 DEF FinishKnows
  <2>9. pc'[r] \in FoundOrder => read'[r].orderStatus \in OrderStatusesAfter(w, req[r].result)'
    BY <1>1, <2>5 DEF FinishKnows
  <2>10. QED
    BY <1>1, <1>4, <2>3, <2>4, <2>6, <2>7, <2>8, <2>9 DEF FinishKnows, m, FinishTakes
<1>5. QED
  BY <1>3, <1>4

LEMMA AssignStays ==
  ASSUME TxTypes, NEW r \in Slots, Stays(r), Serves(r, "assign"), AssignKnows(r)
  PROVE  AssignKnows(r)'
  BY HoldsStay DEF Stays, Serves, AssignKnows, Holds

LEMMA ChangeStays ==
  ASSUME TxTypes, NEW r \in Slots, Stays(r), Serves(r, "change"), ChangeKnows(r)
  PROVE  ChangeKnows(r)'
<1>1. /\ pc'[r] = pc[r] /\ req'[r] = req[r] /\ stamp'[r] = stamp[r] /\ read'[r] = read[r]
      /\ req[r].op = "change"
  BY DEF Stays, Serves
<1>2. pc[r] \in FoundPeriod => OpenPeriods(req[r].machine)' = OpenPeriods(req[r].machine)
  BY <1>1 DEF Stays, PeriodsStay, OpenPeriods, MachineOf
<1>3. pc[r] \in LockedMachine => Holds(r, "machine", req[r].machine, "update")'
  BY <1>1, HoldsStay DEF Stays, ChangeKnows, Holds
<1>4. QED
  BY <1>1, <1>2, <1>3 DEF ChangeKnows, ChangeTakes

LEMMA PatchStays ==
  ASSUME TxTypes, NEW r \in Slots, Stays(r), Serves(r, "patch"), PatchKnows(r)
  PROVE  PatchKnows(r)'
  BY HoldsStay DEF Stays, Serves, PatchKnows, Holds

LEMMA KnowledgeStays ==
  ASSUME TxTypes, NEW r \in Slots, Stays(r), Knows(r)
  PROVE  Knows(r)'
<1>1. \A op : Serves(r, op)' = Serves(r, op)
  BY DEF Stays, Serves
<1>2. QED
  BY <1>1, StartStays, FinishStays, AssignStays, ChangeStays, PatchStays DEF Knows

-----------------------------------------------------------------------------
(***************************************************************************)
(* Steps that leave the tables alone.                                      *)
(***************************************************************************)

\* Only slot r moves, with its locks kept, one more granted, or all given back.
Moves(r) ==
  /\ \A s \in Slots \ {r} : /\ pc'[s] = pc[s] /\ req'[s] = req[s]
                            /\ stamp'[s] = stamp[s] /\ read'[s] = read[s]
  /\ \A g \in locks : g.slot # r => g \in locks'

LEMMA TablesStay ==
  ASSUME NEW r, Moves(r), UNCHANGED vars, NEW s \in Slots \ {r}
  PROVE  Stays(s)
<1>1. UNCHANGED <<machine, work, order, attempts, history>>
  BY DEF vars
<1>2. \A w, m : AttemptsStay(w) /\ PeriodsStay(m)
  BY <1>1 DEF AttemptsStay, PeriodsStay, OpenAttempts, OpenPeriods
<1>3. QED
  BY <1>1, <1>2 DEF Moves, Stays

LEMMA FloorStays == FloorInv /\ UNCHANGED vars => FloorInv'
  BY NextKeeps, FloorAssumption

LEMMA MoveKeeps ==
  ASSUME TxInv, NEW r \in Slots, Moves(r), UNCHANGED vars,
         TxTypes', LocksExclude', Knows(r)'
  PROVE  TxInv'
<1>1. \A s \in Slots : Knows(s)'
  BY TablesStay, KnowledgeStays DEF TxInv
<1>2. QED
  BY <1>1, FloorStays DEF TxInv

\* The end of a request, with or without a commit.
LEMMA EndMoves ==
  ASSUME TxTypes, LocksExclude, NEW r \in Slots, End(r)
  PROVE  Moves(r) /\ TxTypes' /\ LocksExclude' /\ Knows(r)' /\ pc'[r] = "idle"
<1>1. pc'[r] = "idle" /\ Moves(r)
  BY DEF TxTypes, End, Moves
<1>2. Nothing \in Reading
  BY DEF Nothing, Reading, OrderStatuses
<1>3. TxTypes'
  BY <1>2 DEF TxTypes, End, Statements
<1>4. LocksExclude'
  BY DEF LocksExclude, End
<1>5. Knows(r)'
  BY <1>1 DEF Knows, Serves
<1>6. QED
  BY <1>1, <1>3, <1>4, <1>5

LEMMA RollbackKeeps ==
  ASSUME TxInv, NEW r \in Slots, Rollback(r)
  PROVE  TxInv'
  BY EndMoves, MoveKeeps DEF Rollback, TxInv

\* A statement that asks for no lock and writes to the variables of its slot.
LEMMA ReadMoves ==
  ASSUME TxTypes, LocksExclude, NEW r \in Slots, UNCHANGED <<req, locks>>,
         NEW next \in Statements \ {"idle"}, pc' = [pc EXCEPT ![r] = next],
         pc[r] # "idle",
         \/ stamp' = stamp
         \/ \E t \in Times : stamp' = [stamp EXCEPT ![r] = t],
         \/ read' = read
         \/ \E found \in Reading : read' = [read EXCEPT ![r] = found]
  PROVE  Moves(r) /\ TxTypes' /\ LocksExclude' /\ pc'[r] = next /\ req'[r] = req[r]
<1>1. Moves(r) /\ pc'[r] = next
  BY DEF TxTypes, Moves
<1>2. TxTypes'
  BY DEF TxTypes
<1>3. LocksExclude'
  BY DEF LocksExclude
<1>4. QED
  BY <1>1, <1>2, <1>3

\* A statement whose lock is granted.
LEMMA GrantMoves ==
  ASSUME TxTypes, LocksExclude, NEW r \in Slots, pc[r] \in Locking, Blockers(r) = {},
         locks' = locks \cup {[slot |-> r, row |-> Wanted(r).row, mode |-> Wanted(r).mode]},
         NEW next \in Statements \ {"idle"}, pc' = [pc EXCEPT ![r] = next],
         UNCHANGED <<req, stamp, read>>
  PROVE  /\ Moves(r) /\ TxTypes' /\ LocksExclude' /\ pc'[r] = next
         /\ \A g \in locks : g \in locks'
         /\ [slot |-> r, row |-> Wanted(r).row, mode |-> Wanted(r).mode] \in locks'
<1> DEFINE row == Wanted(r).row
           mode == Wanted(r).mode
<1>1. pc[r] # "idle"
  BY DEF Locking
<1>2. LocksExclude'
  BY GrantExcludes
<1> HIDE DEF row, mode
<1>3. TxTypes'
  BY <1>1 DEF TxTypes, row, mode
<1>4. Moves(r) /\ pc'[r] = next
  BY DEF TxTypes, Moves
<1>5. QED
  BY <1>2, <1>3, <1>4

-----------------------------------------------------------------------------
(***************************************************************************)
(* Each statement.                                                         *)
(***************************************************************************)
LEMMA OverlayType ==
  ASSUME TypeOK, NEW q \in Request, q.op = "patch"
  PROVE  q.machine \in Machines /\ Overlay(machine[q.machine], q) \in MachineRow
<1>1. CASE q \in [op : {"patch"}, machine : Machines, active : BOOLEAN]
  <2>1. "active" \in DOMAIN q /\ q.active \in BOOLEAN /\ q.machine \in Machines
    BY <1>1
  <2>2. QED
    BY <2>1 DEF Overlay, TypeOK, MachineRow
<1>2. CASE q \in [op : {"patch"}, machine : Machines, type : Types]
  <2>1. "active" \notin DOMAIN q /\ q.type \in Types /\ q.machine \in Machines
    BY <1>2
  <2>2. QED
    BY <2>1 DEF Overlay, TypeOK, MachineRow
<1>3. QED
  BY <1>1, <1>2 DEF Request

LEMMA BeginKeeps ==
  ASSUME TxInv, NEW r \in Slots, NEW q \in Request, Begin(r, q)
  PROVE  TxInv'
<1> USE DEF TxInv
<1>1. /\ pc[r] = "idle" /\ UNCHANGED <<vars, clock, locks>>
      /\ req' = [req EXCEPT ![r] = q] /\ req'[r] = q
  BY DEF Begin, TxTypes
<1>2. /\ stamp' \in [Slots -> Times \cup {Earliest}]
      /\ \A s \in Slots \ {r} : stamp'[s] = stamp[s]
      /\ q.op = "change" /\ q.at # Now => stamp'[r] = q.at /\ q.at \in Times
  <2>1. CASE q.op = "change" /\ q.at # Now
    <3>1. q.at \in Times
      BY <2>1, FloorTxAssumption DEF Request
    <3>2. QED
      BY <2>1, <3>1 DEF Begin, TxTypes
  <2>2. CASE ~(q.op = "change" /\ q.at # Now)
    BY <2>2 DEF Begin, TxTypes
  <2>3. QED
    BY <2>1, <2>2
<1>3. /\ read' \in [Slots -> Reading]
      /\ \A s \in Slots \ {r} : read'[s] = read[s]
      /\ q.op = "patch" => \E row \in MachineRow : read'[r].row = {row}
  <2>1. CASE q.op = "patch"
    <3>1. Overlay(machine[q.machine], q) \in MachineRow
      BY <2>1, OverlayType DEF FloorInv
    <3>2. read' = [read EXCEPT ![r].row = {Overlay(machine[q.machine], q)}]
      BY <2>1 DEF Begin
    <3>3. QED
      BY <3>1, <3>2 DEF TxTypes, Reading
  <2>2. CASE q.op # "patch"
    BY <2>2 DEF Begin, TxTypes
  <2>3. QED
    BY <2>1, <2>2
<1> DEFINE next == IF q.op = "assign" THEN "lockWork"
                   ELSE IF q.op = "patch" \/ (q.op = "change" /\ q.at # Now) THEN "lockMachine"
                   ELSE "stamp"
<1>4. pc' = [pc EXCEPT ![r] = next] /\ next \in Statements
  BY DEF Begin, Goto, Statements
<1>5. Moves(r) /\ TxTypes' /\ pc'[r] = next
  BY <1>1, <1>2, <1>3, <1>4 DEF Moves, TxTypes
<1>6. LocksExclude'
  BY <1>1 DEF LocksExclude
<1>7. q.op \in {"start", "finish", "assign", "change", "patch"}
  BY DEF Request
<1>8. Knows(r)'
  <2> USE DEF Knows, Serves, LockedWork, LockedMachine, FoundPeriod, LockedPeriod, SharedMachine, FoundOrder
  <2>1. CASE q.op \in {"start", "finish"}
    BY <2>1, <1>1, <1>5 DEF StartKnows, FinishKnows
  <2>2. CASE q.op = "assign"
    BY <2>2, <1>1, <1>5 DEF AssignKnows
  <2>3. CASE q.op = "change"
    BY <2>3, <1>1, <1>2, <1>5 DEF ChangeKnows
  <2>4. CASE q.op = "patch"
    BY <2>4, <1>1, <1>3, <1>5 DEF PatchKnows
  <2>5. QED
    BY <1>7, <2>1, <2>2, <2>3, <2>4
<1>9. QED
  BY <1>1, <1>5, <1>6, <1>8, MoveKeeps

LEMMA StampKeeps ==
  ASSUME TxInv, NEW r \in Slots, Stamp(r)
  PROVE  TxInv'
<1> USE DEF TxInv
<1>1. /\ pc[r] = "stamp" /\ UNCHANGED <<vars, req, read, locks>>
  BY DEF Stamp
<1>2. PICK t \in Times : stamp' = [stamp EXCEPT ![r] = t]
  BY DEF Stamp
<1>3. stamp'[r] \in Times
  BY <1>2 DEF TxTypes
<1>4. req[r].op \in {"start", "finish", "change"}
  <2>1. req[r].op \notin {"assign", "patch"}
    BY <1>1 DEF Knows, Serves, AssignKnows, PatchKnows
  <2>2. QED
    BY <2>1, <1>1, Fields
<1> DEFINE next == CASE req[r].op = "start"  -> "lockWork"
                     [] req[r].op = "finish" -> "readAttempt"
                     [] req[r].op = "change" -> "lockMachine"
<1>5. pc' = [pc EXCEPT ![r] = next]
  BY DEF Stamp, Goto
<1>6. next \in Statements \ {"idle"}
  BY <1>4 DEF Statements
<1>7. Moves(r) /\ TxTypes' /\ LocksExclude' /\ pc'[r] = next /\ req'[r] = req[r]
  <2> HIDE DEF next
  <2>1. QED
    BY <1>1, <1>2, <1>5, <1>6, ReadMoves
<1>8. Knows(r)'
  <2> USE DEF Knows, Serves, LockedWork, LockedMachine, FoundPeriod, LockedPeriod, SharedMachine, FoundOrder
  <2>1. CASE req[r].op = "start"
    BY <2>1, <1>3, <1>7 DEF StartKnows
  <2>2. CASE req[r].op = "finish"
    BY <2>2, <1>3, <1>7 DEF FinishKnows
  <2>3. CASE req[r].op = "change"
    BY <2>3, <1>3, <1>7 DEF ChangeKnows
  <2>4. QED
    BY <1>4, <2>1, <2>2, <2>3
<1>9. QED
  BY <1>1, <1>7, <1>8, MoveKeeps

LEMMA ReadAttemptKeeps ==
  ASSUME TxInv, NEW r \in Slots, ReadAttempt(r)
  PROVE  TxInv'
<1> USE DEF TxInv
<1> DEFINE w == req[r].work
           found == OpenAttempts(w)
<1>1. CASE found = {}
  BY <1>1, RollbackKeeps DEF ReadAttempt
<1>2. CASE found # {}
  <2>1. /\ pc[r] = "readAttempt" /\ UNCHANGED <<vars, req, stamp, locks>>
        /\ read' = [read EXCEPT ![r].attempt = found]
        /\ pc' = [pc EXCEPT ![r] = "lockWork"]
    BY <1>2 DEF ReadAttempt, Goto
  <2>2. Serves(r, "finish") /\ FinishKnows(r)
    <3>1. req[r].op \notin {"start", "assign", "change", "patch"}
      BY <2>1 DEF Knows, Serves, StartKnows, AssignKnows, ChangeKnows, PatchKnows, LockedWork
    <3>2. QED
      BY <2>1, <3>1, Fields DEF Serves, Knows
  <2>3. \E a \in found : found = {a} /\ a \in Attempt /\ a.work = w /\ a.end = Open
    <3>1. PICK a \in found : TRUE
      BY <1>2
    <3>2. a \in attempts /\ a.work = w /\ a.end = Open
      BY DEF OpenAttempts
    <3>3. found = {a} /\ a \in Attempt
      BY <3>2 DEF FloorInv, TypeOK, RunningWork
    <3>4. QED
      BY <3>2, <3>3
  <2>4. [read[r] EXCEPT !.attempt = found] \in Reading
    BY <2>3 DEF TxTypes, Reading
  <2>5. read' = [read EXCEPT ![r] = [read[r] EXCEPT !.attempt = found]]
    BY <2>1 DEF TxTypes
  <2>6. Moves(r) /\ TxTypes' /\ LocksExclude' /\ pc'[r] = "lockWork" /\ req'[r] = req[r]
    <3>1. "lockWork" \in Statements \ {"idle"}
      BY DEF Statements
    <3> HIDE DEF found
    <3>2. QED
      BY <2>1, <2>4, <2>5, <3>1, ReadMoves
  <2>7. read'[r].attempt = found
    BY <2>5, <2>4 DEF TxTypes, Reading
  <2>8. FinishKnows(r)'
    <3> HIDE DEF found
    <3>1. QED
      BY <2>1, <2>2, <2>3, <2>6, <2>7 DEF FinishKnows, LockedWork, FoundPeriod, LockedPeriod, SharedMachine, FoundOrder
  <2>9. Knows(r)'
    BY <2>2, <2>6, <2>8 DEF Knows, Serves
  <2>10. QED
    BY <2>1, <2>6, <2>9, MoveKeeps
<1>3. QED
  BY <1>1, <1>2

\* The requests that come to a statement.
LEMMA OpsAt ==
  ASSUME TxInv, NEW r \in Slots, pc[r] # "idle"
  PROVE  /\ req[r].op \in {"start", "finish", "assign", "change", "patch"}
         /\ \A op : Serves(r, op) <=> req[r].op = op
         /\ pc[r] = "lockWork" => req[r].op \in {"start", "finish", "assign"}
         /\ pc[r] = "lockMachine" => req[r].op \in {"start", "change", "patch"}
         /\ pc[r] \in {"readPeriod", "lockPeriod", "insert"} => req[r].op \in {"start", "finish", "change"}
         /\ pc[r] = "foreignKey" => req[r].op \in {"finish", "assign"}
         /\ pc[r] \in {"readOrder", "lockOrder"} => req[r].op \in {"start", "finish"}
<1>1. \A op : Serves(r, op) <=> req[r].op = op
  BY DEF Serves
<1>2. req[r].op \in {"start", "finish", "assign", "change", "patch"}
  BY Fields DEF TxInv
<1>3. CASE req[r].op = "start"
  BY <1>1, <1>3 DEF TxInv, Knows, StartKnows, LockedWork
<1>4. CASE req[r].op = "finish"
  BY <1>1, <1>4 DEF TxInv, Knows, FinishKnows, LockedWork
<1>5. CASE req[r].op = "assign"
  BY <1>1, <1>5 DEF TxInv, Knows, AssignKnows
<1>6. CASE req[r].op = "change"
  BY <1>1, <1>6 DEF TxInv, Knows, ChangeKnows
<1>7. CASE req[r].op = "patch"
  BY <1>1, <1>7 DEF TxInv, Knows, PatchKnows
<1>8. QED
  BY <1>1, <1>2, <1>3, <1>4, <1>5, <1>6, <1>7

LEMMA LockWorkKeeps ==
  ASSUME TxInv, NEW r \in Slots, LockWork(r)
  PROVE  TxInv'
<1> USE DEF TxInv
<1> DEFINE w == req[r].work
           accepts == CASE req[r].op = "start"  -> StartAccepts(r)
                        [] req[r].op = "finish" -> FinishAccepts(r)
                        [] req[r].op = "assign" -> AssignAccepts(r)
           next == CASE req[r].op = "start"  -> "lockMachine"
                     [] req[r].op = "finish" -> "readPeriod"
                     [] req[r].op = "assign" -> IF work[w].machine = req[r].machine THEN "commit"
                                                ELSE "foreignKey"
<1>1. pc[r] = "lockWork" /\ req[r].op \in {"start", "finish", "assign"}
  BY DEF LockWork
<1>2. Acquire(r, accepts, next)
  BY <1>1 DEF LockWork
<1>3. CASE ~accepts
  BY <1>2, <1>3, RollbackKeeps DEF Acquire
<1>4. CASE accepts
  <2>1. /\ Blockers(r) = {} /\ pc' = [pc EXCEPT ![r] = next]
        /\ locks' = locks \cup {[slot |-> r, row |-> Wanted(r).row, mode |-> Wanted(r).mode]}
        /\ UNCHANGED <<vars, req, stamp, read>>
    BY <1>2, <1>4 DEF Acquire, Goto
  <2>2. next \in Statements \ {"idle"} /\ pc[r] \in Locking
    BY <1>1 DEF Statements, Locking
  <2>3. /\ Moves(r) /\ TxTypes' /\ LocksExclude' /\ pc'[r] = next
        /\ [slot |-> r, row |-> Wanted(r).row, mode |-> Wanted(r).mode] \in locks'
    <3> HIDE DEF next
    <3>1. QED
      BY <2>1, <2>2, GrantMoves
  <2>4. Holds(r, "work", w, IF req[r].op = "assign" THEN "write" ELSE "update")'
    BY <1>1, <2>1, <2>3 DEF Wanted, Holds, Lock
  <2>5. UNCHANGED <<machine, work, order, attempts, history>>
    BY <2>1 DEF vars
  <2> USE DEF Serves, LockedWork, LockedMachine, FoundPeriod, LockedPeriod, SharedMachine, FoundOrder
  <2>6. CASE req[r].op = "start"
    <3>1. StartKnows(r)'
      BY <1>1, <1>4, <2>1, <2>3, <2>4, <2>5, <2>6
         DEF Knows, StartKnows, StartAccepts, StartGate
    <3>2. QED
      BY <2>1, <2>3, <2>6, <3>1, MoveKeeps DEF Knows
  <2>7. CASE req[r].op = "finish"
    <3>1. FinishKnows(r)
      BY <1>1, <2>7 DEF Knows
    <3>2. w \in Works
      BY <1>1, <2>7, Fields
    <3>3. read[r].attempt \subseteq attempts /\ work[w].status = "EN_PROCESO"
          /\ \A a \in read[r].attempt : a.start < stamp[r]
      BY <1>4, <2>7 DEF FinishAccepts
    <3>4. read[r].attempt = OpenAttempts(w)
      BY <1>1, <3>1, <3>3 DEF FinishKnows, FloorInv, RunningWork
    <3>5. read'[r].attempt = OpenAttempts(w)' /\ req'[r].work = w
      BY <2>1, <2>5, <3>4 DEF OpenAttempts
    <3>6. FinishKnows(r)'
      BY <1>1, <2>1, <2>3, <2>4, <2>5, <2>7, <3>1, <3>3, <3>5 DEF FinishKnows, FinishGate
    <3>7. QED
      BY <2>1, <2>3, <2>7, <3>6, MoveKeeps DEF Knows
  <2>8. CASE req[r].op = "assign"
    <3>1. AssignKnows(r)'
      BY <1>1, <1>4, <2>1, <2>3, <2>4, <2>5, <2>8 DEF AssignKnows, AssignAccepts
    <3>2. QED
      BY <2>1, <2>3, <2>8, <3>1, MoveKeeps DEF Knows
  <2>9. QED
    BY <1>1, <2>6, <2>7, <2>8
<1>5. QED
  BY <1>3, <1>4

LEMMA LockMachineKeeps ==
  ASSUME TxInv, NEW r \in Slots, LockMachine(r)
  PROVE  TxInv'
<1> USE DEF TxInv
<1> DEFINE accepts == req[r].op = "start" => Suits(req[r].work, MachineOf(r))
           next == IF req[r].op = "patch" THEN "commit" ELSE "readPeriod"
<1>1. pc[r] = "lockMachine" /\ Acquire(r, accepts, next)
  BY DEF LockMachine
<1>2. req[r].op \in {"start", "change", "patch"}
  BY <1>1, OpsAt
<1>3. CASE ~accepts
  BY <1>1, <1>3, RollbackKeeps DEF Acquire
<1>4. CASE accepts
  <2>1. /\ Blockers(r) = {} /\ pc' = [pc EXCEPT ![r] = next]
        /\ locks' = locks \cup {[slot |-> r, row |-> Wanted(r).row, mode |-> Wanted(r).mode]}
        /\ UNCHANGED <<vars, req, stamp, read>>
    BY <1>1, <1>4 DEF Acquire, Goto
  <2>2. next \in Statements \ {"idle"} /\ pc[r] \in Locking
    BY <1>1 DEF Statements, Locking
  <2>3. /\ Moves(r) /\ TxTypes' /\ LocksExclude' /\ pc'[r] = next
        /\ \A g \in locks : g \in locks'
        /\ [slot |-> r, row |-> Wanted(r).row, mode |-> Wanted(r).mode] \in locks'
    <3> HIDE DEF next
    <3>1. QED
      BY <2>1, <2>2, GrantMoves
  <2>4. Lock(r, "machine", MachineOf(r), IF req[r].op = "patch" THEN "write" ELSE "update") \in locks'
    BY <1>1, <1>2, <2>3 DEF Wanted, Lock
  <2>5. UNCHANGED <<machine, work, order, attempts, history>>
    BY <2>1 DEF vars
  <2> USE DEF Serves, LockedWork, LockedMachine, FoundPeriod, LockedPeriod
  <2>6. CASE req[r].op = "start"
    <3> DEFINE w == req[r].work
               m == work[w].machine
    <3>1. StartKnows(r) /\ MachineOf(r) = m
      BY <1>1, <2>6 DEF Knows, MachineOf
    <3>2. /\ Lock(r, "work", w, "update") \in locks' /\ StartGate(req[r])
          /\ Lock(r, "machine", m, "update") \in locks' /\ Suits(w, m)
          /\ stamp[r] \in Times
      BY <1>1, <1>4, <2>3, <2>4, <2>6, <3>1 DEF StartKnows, Holds
    <3>3. StartKnows(r)'
      BY <2>1, <2>3, <2>5, <2>6, <3>2 DEF StartKnows, StartGate, Suits, Holds
    <3>4. QED
      BY <2>1, <2>3, <2>6, <3>3, MoveKeeps DEF Knows
  <2>7. CASE req[r].op = "change"
    <3>1. ChangeKnows(r)'
      BY <1>1, <2>1, <2>3, <2>4, <2>5, <2>7 DEF Knows, ChangeKnows, MachineOf, Holds
    <3>2. QED
      BY <2>1, <2>3, <2>7, <3>1, MoveKeeps DEF Knows
  <2>8. CASE req[r].op = "patch"
    <3>1. PatchKnows(r)'
      BY <1>1, <2>1, <2>3, <2>4, <2>5, <2>8 DEF Knows, PatchKnows, MachineOf, Holds
    <3>2. QED
      BY <2>1, <2>3, <2>8, <3>1, MoveKeeps DEF Knows
  <2>9. QED
    BY <1>2, <2>6, <2>7, <2>8
<1>5. QED
  BY <1>3, <1>4

LEMMA ReadPeriodKeeps ==
  ASSUME TxInv, NEW r \in Slots, ReadPeriod(r)
  PROVE  TxInv'
<1> USE DEF TxInv
<1> DEFINE m == MachineOf(r)
           found == OpenPeriods(m)
           next == IF found = {} THEN "insert" ELSE "lockPeriod"
<1>1. pc[r] = "readPeriod"
  BY DEF ReadPeriod
<1>2. req[r].op \in {"start", "finish", "change"}
  BY <1>1, OpsAt
<1>3. CASE found = {} /\ req[r].op = "finish"
  BY <1>3, RollbackKeeps DEF ReadPeriod
<1>4. CASE ~(found = {} /\ req[r].op = "finish")
  <2>1. /\ read' = [read EXCEPT ![r].period = found] /\ pc' = [pc EXCEPT ![r] = next]
        /\ UNCHANGED <<vars, req, stamp, locks>>
    BY <1>4 DEF ReadPeriod, Goto
  <2>2. read[r] \in Reading /\ found \subseteq Period
    BY DEF TxTypes, FloorInv, TypeOK, OpenPeriods
  <2>3. read' = [read EXCEPT ![r] = [read[r] EXCEPT !.period = found]]
    BY <2>1 DEF TxTypes
  <2>4. [read[r] EXCEPT !.period = found] \in Reading
    BY <2>2 DEF Reading
  <2>5. Moves(r) /\ TxTypes' /\ LocksExclude' /\ pc'[r] = next /\ req'[r] = req[r]
    <3>1. next \in Statements \ {"idle"}
      BY DEF Statements
    <3> HIDE DEF found, next
    <3>2. QED
      BY <1>1, <2>1, <2>3, <2>4, <3>1, ReadMoves
  <2>6. read'[r].period = found /\ read'[r].attempt = read[r].attempt
    BY <2>2, <2>3 DEF TxTypes, Reading
  <2>7. UNCHANGED <<machine, work, order, attempts, history>>
    BY <2>1 DEF vars
  <2>8. MachineOf(r)' = m
    BY <1>2, <2>1, <2>6, <2>7 DEF MachineOf
  <2>9. found = OpenPeriods(m)'
    BY <2>7, <2>8 DEF OpenPeriods
  <2> USE DEF Serves, LockedWork, LockedMachine, FoundPeriod, LockedPeriod, SharedMachine, FoundOrder
  <2> HIDE DEF found
  <2>10. pc'[r] \in {"insert", "lockPeriod"} /\ (pc'[r] = "insert" <=> found = {})
    BY <2>5
  <2>11. CASE req[r].op = "start"
    <3> DEFINE k == work[req[r].work].machine
    <3>1. StartKnows(r)
      BY <1>1, <2>11 DEF Knows
    <3>2. found = OpenPeriods(k)'
      BY <2>1, <2>7, <2>9, <2>11 DEF MachineOf, OpenPeriods
    <3> HIDE DEF m, next
    <3>3. StartKnows(r)'
      BY <1>1, <2>1, <2>5, <2>6, <2>7, <2>10, <2>11, <3>1, <3>2
         DEF StartKnows, StartGate, Suits, Holds
    <3>4. QED
      BY <2>1, <2>5, <2>11, <3>3, MoveKeeps DEF Knows
  <2>12. CASE req[r].op = "finish"
    <3>1. FinishKnows(r) /\ pc'[r] = "lockPeriod"
      BY <1>1, <1>4, <2>5, <2>12 DEF Knows, found
    <3>2. OpenAttempts(req[r].work)' = OpenAttempts(req[r].work)
      BY <2>1, <2>7 DEF OpenAttempts
    <3> HIDE DEF next
    <3>3. FinishKnows(r)'
      BY <1>1, <1>4, <2>1, <2>5, <2>6, <2>7, <2>8, <2>9, <2>12, <3>1, <3>2
         DEF FinishKnows, FinishGate, Holds, found
    <3>4. QED
      BY <2>1, <2>5, <2>12, <3>3, MoveKeeps DEF Knows
  <2>13. CASE req[r].op = "change"
    <3> DEFINE k == req[r].machine
    <3>1. ChangeKnows(r)
      BY <1>1, <2>13 DEF Knows
    <3>2. found = OpenPeriods(k)'
      BY <2>1, <2>7, <2>9, <2>13 DEF MachineOf, OpenPeriods
    <3> HIDE DEF m, next
    <3>3. ChangeKnows(r)'
      BY <1>1, <2>1, <2>5, <2>6, <2>7, <2>10, <2>13, <3>1, <3>2 DEF ChangeKnows, Holds
    <3>4. QED
      BY <2>1, <2>5, <2>13, <3>3, MoveKeeps DEF Knows
  <2>14. QED
    BY <1>2, <2>11, <2>12, <2>13
<1>5. QED
  BY <1>3, <1>4

\* What a request that replaces a period has read is what there is.
LEMMA PeriodIsCurrent ==
  ASSUME TxInv, NEW r \in Slots, Replacing(r)
  PROVE  /\ read[r].period = OpenPeriods(MachineOf(r))
         /\ req[r].op = "finish" => read[r].attempt = OpenAttempts(req[r].work)
<1>1. pc[r] \in FoundPeriod /\ pc[r] \in LockedWork /\ pc[r] # "idle"
  BY DEF Replacing, FoundPeriod, LockedWork
<1>2. CASE req[r].op = "start"
  BY <1>1, <1>2 DEF TxInv, Knows, Serves, StartKnows, MachineOf
<1>3. CASE req[r].op = "finish"
  BY <1>1, <1>3 DEF TxInv, Knows, Serves, FinishKnows
<1>4. CASE req[r].op = "change"
  BY <1>1, <1>4 DEF TxInv, Knows, Serves, ChangeKnows, MachineOf
<1>5. QED
  BY <1>2, <1>3, <1>4 DEF Replacing

LEMMA LockPeriodKeeps ==
  ASSUME TxInv, NEW r \in Slots, LockPeriod(r)
  PROVE  TxInv'
<1> USE DEF TxInv
<1> DEFINE accepts == \A h \in read[r].period : Takes(r, h)
<1>1. pc[r] = "lockPeriod"
  BY DEF LockPeriod
<1>2. req[r].op \in {"start", "finish", "change"}
  BY <1>1, OpsAt
<1>3. read[r].period \subseteq history
  BY <1>1, <1>2, PeriodIsCurrent DEF Replacing, OpenPeriods
<1>4. Acquire(r, accepts, "insert")
  BY <1>3 DEF LockPeriod
<1>5. CASE ~accepts
  BY <1>4, <1>5, RollbackKeeps DEF Acquire
<1>6. CASE accepts
  <2>1. /\ Blockers(r) = {} /\ pc' = [pc EXCEPT ![r] = "insert"]
        /\ locks' = locks \cup {[slot |-> r, row |-> Wanted(r).row, mode |-> Wanted(r).mode]}
        /\ UNCHANGED <<vars, req, stamp, read>>
    BY <1>4, <1>6 DEF Acquire, Goto
  <2>2. "insert" \in Statements \ {"idle"} /\ pc[r] \in Locking
    BY <1>1 DEF Statements, Locking
  <2>3. /\ Moves(r) /\ TxTypes' /\ LocksExclude' /\ pc'[r] = "insert"
        /\ \A g \in locks : g \in locks'
    BY <2>1, <2>2, GrantMoves
  <2>4. UNCHANGED <<machine, work, order, attempts, history>>
    BY <2>1 DEF vars
  <2> USE DEF Serves, LockedWork, LockedMachine, FoundPeriod, LockedPeriod, SharedMachine, FoundOrder
  <2>5. CASE req[r].op = "start"
    <3>1. StartKnows(r) /\ \A h \in read[r].period : StartTakes(h, stamp[r])
      BY <1>1, <1>6, <2>5 DEF Knows, Takes
    <3>2. StartKnows(r)'
      BY <1>1, <2>1, <2>3, <2>4, <2>5, <3>1
         DEF StartKnows, StartGate, Suits, StartTakes, Holds, OpenPeriods
    <3>3. QED
      BY <2>1, <2>3, <2>5, <3>2, MoveKeeps DEF Knows
  <2>6. CASE req[r].op = "finish"
    <3>1. FinishKnows(r) /\ \A h \in read[r].period : FinishTakes(h, req[r].work, stamp[r])
      BY <1>1, <1>6, <2>6 DEF Knows, Takes
    <3>2. /\ OpenAttempts(req[r].work)' = OpenAttempts(req[r].work)
          /\ MachineOf(r)' = MachineOf(r)
      BY <2>1, <2>4 DEF OpenAttempts, MachineOf
    <3>3. OpenPeriods(MachineOf(r))' = OpenPeriods(MachineOf(r))
      BY <2>4, <3>2 DEF OpenPeriods
    <3>4. FinishKnows(r)'
      BY <1>1, <2>1, <2>3, <2>4, <2>6, <3>1, <3>2, <3>3 DEF FinishKnows, FinishGate, FinishTakes, Holds
    <3>5. QED
      BY <2>1, <2>3, <2>6, <3>4, MoveKeeps DEF Knows
  <2>7. CASE req[r].op = "change"
    <3>1. ChangeKnows(r) /\ \A h \in read[r].period : ChangeTakes(h, req[r].state, stamp[r])
      BY <1>1, <1>6, <2>7 DEF Knows, Takes
    <3>2. ChangeKnows(r)'
      BY <1>1, <2>1, <2>3, <2>4, <2>7, <3>1 DEF ChangeKnows, ChangeTakes, Holds, OpenPeriods
    <3>3. QED
      BY <2>1, <2>3, <2>7, <3>2, MoveKeeps DEF Knows
  <2>8. QED
    BY <1>2, <2>5, <2>6, <2>7
<1>7. QED
  BY <1>5, <1>6

\* From the period on, what a request knows does not depend on the statement,
\* but for the lock of a finish on the machine and the status of the order.
LEMMA KnowsOn ==
  ASSUME TxInv, NEW r \in Slots, UNCHANGED <<vars, req, stamp, read>>,
         \A g \in locks : g \in locks',
         pc[r] \in LockedPeriod, pc'[r] \in LockedPeriod,
         req[r].op = "start" => pc'[r] # "foreignKey",
         req[r].op = "assign" => pc'[r] = "commit",
         req[r].op = "change" => pc'[r] \in {"insert", "commit"},
         req[r].op = "patch" => pc'[r] = pc[r],
         req[r].op = "finish" /\ pc'[r] \in SharedMachine =>
           Lock(r, "machine", MachineOf(r), "share") \in locks',
         req[r].op = "finish" /\ pc'[r] \in FoundOrder =>
           read[r].orderStatus \in OrderStatusesAfter(req[r].work, req[r].result)
  PROVE  Knows(r)'
<1> USE DEF LockedWork, LockedMachine, FoundPeriod, LockedPeriod, SharedMachine, FoundOrder, Serves
<1>1. UNCHANGED <<machine, work, order, attempts, history>> /\ pc[r] # "idle"
  BY DEF vars
<1>2. CASE req[r].op = "start"
  <2>1. StartKnows(r)
    BY <1>1, <1>2 DEF TxInv, Knows
  <2>2. StartKnows(r)'
    BY <1>1, <1>2, <2>1 DEF StartKnows, StartGate, Suits, StartTakes, Holds, OpenPeriods
  <2>3. QED
    BY <1>2, <2>2 DEF Knows
<1>3. CASE req[r].op = "finish"
  <2>1. FinishKnows(r)
    BY <1>1, <1>3 DEF TxInv, Knows
  <2>2. /\ OpenAttempts(req[r].work)' = OpenAttempts(req[r].work)
        /\ MachineOf(r)' = MachineOf(r)
        /\ OrderStatusesAfter(req[r].work, req[r].result)' = OrderStatusesAfter(req[r].work, req[r].result)
    BY <1>1 DEF OpenAttempts, MachineOf, OrderStatusesAfter
  <2>3. OpenPeriods(MachineOf(r))' = OpenPeriods(MachineOf(r))
    BY <1>1, <2>2 DEF OpenPeriods
  <2>4. FinishKnows(r)'
    BY <1>1, <1>3, <2>1, <2>2, <2>3 DEF FinishKnows, FinishGate, FinishTakes, Holds
  <2>5. QED
    BY <1>3, <2>4 DEF Knows
<1>4. CASE req[r].op = "assign"
  BY <1>1, <1>4 DEF TxInv, Knows, AssignKnows, Holds
<1>5. CASE req[r].op = "change"
  <2>1. ChangeKnows(r)
    BY <1>1, <1>5 DEF TxInv, Knows
  <2>2. ChangeKnows(r)'
    BY <1>1, <1>5, <2>1 DEF ChangeKnows, ChangeTakes, Holds, OpenPeriods
  <2>3. QED
    BY <1>5, <2>2 DEF Knows
<1>6. CASE req[r].op = "patch"
  BY <1>1, <1>6 DEF TxInv, Knows, PatchKnows, Holds
<1>7. QED
  BY <1>1, <1>2, <1>3, <1>4, <1>5, <1>6, OpsAt

LEMMA InsertPeriodKeeps ==
  ASSUME TxInv, NEW r \in Slots, InsertPeriod(r)
  PROVE  TxInv'
<1> USE DEF TxInv
<1> DEFINE next == CASE req[r].op = "start"  -> "readOrder"
                     [] req[r].op = "finish" -> "foreignKey"
                     [] req[r].op = "change" -> "commit"
<1>1. pc[r] = "insert" /\ Acquire(r, ~Duplicate(r), next)
  BY DEF InsertPeriod
<1>2. req[r].op \in {"start", "finish", "change"}
  BY <1>1, OpsAt
<1>3. CASE Duplicate(r)
  BY <1>1, <1>3, RollbackKeeps DEF Acquire
<1>4. CASE ~Duplicate(r)
  <2>1. /\ Blockers(r) = {} /\ pc' = [pc EXCEPT ![r] = next]
        /\ locks' = locks \cup {[slot |-> r, row |-> Wanted(r).row, mode |-> Wanted(r).mode]}
        /\ UNCHANGED <<vars, req, stamp, read>>
    BY <1>1, <1>4 DEF Acquire, Goto
  <2>2. next \in Statements \ {"idle"} /\ pc[r] \in Locking
    BY <1>1, <1>2 DEF Statements, Locking
  <2>3. Moves(r) /\ TxTypes' /\ LocksExclude' /\ pc'[r] = next /\ \A g \in locks : g \in locks'
    <3> HIDE DEF next
    <3>1. QED
      BY <2>1, <2>2, GrantMoves
  <2>4. Knows(r)'
    BY <1>1, <1>2, <2>1, <2>3, KnowsOn DEF LockedPeriod, FoundPeriod, SharedMachine, FoundOrder
  <2>5. QED
    BY <2>1, <2>3, <2>4, MoveKeeps
<1>5. QED
  BY <1>3, <1>4

LEMMA CheckForeignKeyKeeps ==
  ASSUME TxInv, NEW r \in Slots, CheckForeignKey(r)
  PROVE  TxInv'
<1> USE DEF TxInv
<1> DEFINE next == IF req[r].op = "finish" THEN "readOrder" ELSE "commit"
<1>1. pc[r] = "foreignKey" /\ Acquire(r, TRUE, next)
  BY DEF CheckForeignKey
<1>2. req[r].op \in {"finish", "assign"}
  BY <1>1, OpsAt
<1>3. /\ Blockers(r) = {} /\ pc' = [pc EXCEPT ![r] = next]
      /\ locks' = locks \cup {[slot |-> r, row |-> Wanted(r).row, mode |-> Wanted(r).mode]}
      /\ UNCHANGED <<vars, req, stamp, read>>
  BY <1>1 DEF Acquire, Goto
<1>4. next \in Statements \ {"idle"} /\ pc[r] \in Locking
  BY <1>1 DEF Statements, Locking
<1>5. /\ Moves(r) /\ TxTypes' /\ LocksExclude' /\ pc'[r] = next
      /\ \A g \in locks : g \in locks'
      /\ [slot |-> r, row |-> Wanted(r).row, mode |-> Wanted(r).mode] \in locks'
  <2> HIDE DEF next
  <2>1. QED
    BY <1>3, <1>4, GrantMoves
<1>6. Lock(r, "machine", MachineOf(r), "share") \in locks'
  BY <1>1, <1>5 DEF Wanted, Lock
<1>7. Knows(r)'
  BY <1>1, <1>2, <1>3, <1>5, <1>6, KnowsOn DEF LockedPeriod, FoundPeriod, SharedMachine, FoundOrder
<1>8. QED
  BY <1>3, <1>5, <1>7, MoveKeeps

\* What the snapshot of UPDATE pedidos shows is one of what Floor allows.
LEMMA ReadOrderKeeps ==
  ASSUME TxInv, NEW r \in Slots, ReadOrder(r)
  PROVE  TxInv'
<1> USE DEF TxInv
<1> DEFINE seen == OrderStatusSeen(r)
<1>1. /\ pc[r] = "readOrder" /\ pc' = [pc EXCEPT ![r] = "lockOrder"]
      /\ read' = [read EXCEPT ![r].orderStatus = seen]
      /\ UNCHANGED <<vars, req, stamp, locks>>
  BY DEF ReadOrder, Goto
<1>2. req[r].op \in {"start", "finish"}
  BY <1>1, OpsAt
<1>3. seen \in OrderStatuses
  BY DEF OrderStatusSeen, OrderStatuses
<1>4. req[r].op = "finish" => seen \in OrderStatusesAfter(req[r].work, req[r].result)
  BY DEF OrderStatusSeen, OrderStatusesAfter
<1> HIDE DEF seen
<1>5. read' = [read EXCEPT ![r] = [read[r] EXCEPT !.orderStatus = seen]]
  BY <1>1 DEF TxTypes
<1>6. read[r] \in Reading /\ [read[r] EXCEPT !.orderStatus = seen] \in Reading
  BY <1>3 DEF TxTypes, Reading
<1>7. Moves(r) /\ TxTypes' /\ LocksExclude' /\ pc'[r] = "lockOrder" /\ req'[r] = req[r]
  <2>1. "lockOrder" \in Statements \ {"idle"}
    BY DEF Statements
  <2>2. QED
    BY <1>1, <1>5, <1>6, <2>1, ReadMoves
<1>8. /\ read'[r].attempt = read[r].attempt /\ read'[r].period = read[r].period
      /\ read'[r].orderStatus = seen
  BY <1>5, <1>6 DEF TxTypes, Reading
<1>9. UNCHANGED <<machine, work, order, attempts, history>>
  BY <1>1 DEF vars
<1> USE DEF LockedWork, LockedMachine, FoundPeriod, LockedPeriod, SharedMachine, FoundOrder, Serves
<1>10. CASE req[r].op = "start"
  <2>1. StartKnows(r)
    BY <1>1, <1>10 DEF Knows
  <2>2. StartKnows(r)'
    BY <1>1, <1>7, <1>8, <1>9, <1>10, <2>1 DEF StartKnows, StartGate, Suits, StartTakes, Holds, OpenPeriods
  <2>3. QED
    BY <1>1, <1>7, <1>10, <2>2, MoveKeeps DEF Knows
<1>11. CASE req[r].op = "finish"
  <2>1. FinishKnows(r)
    BY <1>1, <1>11 DEF Knows
  <2>2. /\ OpenAttempts(req[r].work)' = OpenAttempts(req[r].work)
        /\ MachineOf(r)' = MachineOf(r)
        /\ OrderStatusesAfter(req[r].work, req[r].result)' = OrderStatusesAfter(req[r].work, req[r].result)
    BY <1>1, <1>8, <1>9, <1>11 DEF OpenAttempts, MachineOf, OrderStatusesAfter
  <2>3. OpenPeriods(MachineOf(r))' = OpenPeriods(MachineOf(r))
    BY <1>9, <2>2 DEF OpenPeriods
  <2>4. FinishKnows(r)'
    BY <1>1, <1>4, <1>7, <1>8, <1>9, <1>11, <2>1, <2>2, <2>3 DEF FinishKnows, FinishGate, FinishTakes, Holds
  <2>5. QED
    BY <1>1, <1>7, <1>11, <2>4, MoveKeeps DEF Knows
<1>12. QED
  BY <1>2, <1>10, <1>11

LEMMA LockOrderKeeps ==
  ASSUME TxInv, NEW r \in Slots, LockOrder(r)
  PROVE  TxInv'
<1> USE DEF TxInv
<1>1. pc[r] = "lockOrder" /\ Acquire(r, TRUE, "commit")
  BY DEF LockOrder
<1>2. req[r].op \in {"start", "finish"}
  BY <1>1, OpsAt
<1>3. /\ Blockers(r) = {} /\ pc' = [pc EXCEPT ![r] = "commit"]
      /\ locks' = locks \cup {[slot |-> r, row |-> Wanted(r).row, mode |-> Wanted(r).mode]}
      /\ UNCHANGED <<vars, req, stamp, read>>
  BY <1>1 DEF Acquire, Goto
<1>4. Moves(r) /\ TxTypes' /\ LocksExclude' /\ pc'[r] = "commit" /\ \A g \in locks : g \in locks'
  <2>1. "commit" \in Statements \ {"idle"} /\ pc[r] \in Locking
    BY <1>1 DEF Statements, Locking
  <2>2. QED
    BY <1>3, <2>1, GrantMoves
<1>5. req[r].op = "finish" =>
        /\ Lock(r, "machine", MachineOf(r), "share") \in locks'
        /\ read[r].orderStatus \in OrderStatusesAfter(req[r].work, req[r].result)
  BY <1>1, <1>4 DEF Knows, Serves, FinishKnows, Holds, SharedMachine, FoundOrder
<1>6. Knows(r)'
  BY <1>1, <1>2, <1>3, <1>4, <1>5, KnowsOn DEF LockedPeriod, FoundPeriod
<1>7. QED
  BY <1>3, <1>4, <1>6, MoveKeeps

-----------------------------------------------------------------------------
(***************************************************************************)
(* A commit is the operation of Floor it stands for.                       *)
(***************************************************************************)

\* The machine of a start that has accepted its work.
LEMMA StartMachine ==
  ASSUME TxInv, NEW r \in Slots, Serves(r, "start"), pc[r] \in LockedWork
  PROVE  /\ work[req[r].work].machine \in Machines
         /\ MachineOf(r) = work[req[r].work].machine
         /\ work[req[r].work].status = "PENDIENTE"
<1>1. req[r].work \in Works /\ StartGate(req[r]) /\ req[r].op = "start"
  BY Fields DEF TxInv, Knows, StartKnows, Serves
<1>2. work[req[r].work] \in WorkRow
  BY <1>1 DEF TxInv, FloorInv, TypeOK
<1>3. QED
  BY <1>1, <1>2 DEF WorkRow, StartGate, MachineOf

\* The attempt of a finish that has accepted it, and its work and machine.
LEMMA FinishMachine ==
  ASSUME TxInv, NEW r \in Slots, Serves(r, "finish"), pc[r] \in LockedWork
  PROVE  \E a \in attempts :
           /\ read[r].attempt = {a} /\ OpenAttempts(req[r].work) = {a}
           /\ a.work = req[r].work /\ a.end = Open /\ a.start < stamp[r]
           /\ a.machine = MachineOf(r) /\ a.machine \in Machines
           /\ work[req[r].work].machine = MachineOf(r)
           /\ work[req[r].work].status = "EN_PROCESO"
           /\ NewPeriod(a.machine, "TRABAJANDO", a.work, a.start) \in OpenPeriods(a.machine)
<1>1. FinishKnows(r) /\ req[r].op = "finish"
  BY DEF TxInv, Knows, Serves
<1>2. PICK a \in read[r].attempt : read[r].attempt = {a} /\ a.work = req[r].work /\ a.end = Open
  BY <1>1 DEF FinishKnows
<1>3. read[r].attempt = OpenAttempts(req[r].work) /\ a.start < stamp[r] /\ FinishGate(req[r])
  BY <1>1 DEF FinishKnows
<1>4. a \in attempts /\ a \in Attempt
  BY <1>3 DEF OpenAttempts, TxInv, FloorInv, TypeOK
<1>5. MachineOf(r) = a.machine /\ a.machine \in Machines
  BY <1>1, <1>2, <1>4 DEF MachineOf, Attempt
<1>6. /\ work[a.work].machine = a.machine
      /\ NewPeriod(a.machine, "TRABAJANDO", a.work, a.start) \in history
  BY <1>2, <1>4 DEF TxInv, FloorInv, RunningWork
<1>7. NewPeriod(a.machine, "TRABAJANDO", a.work, a.start) \in OpenPeriods(a.machine)
  BY <1>6 DEF OpenPeriods, NewPeriod
<1>8. QED
  BY <1>2, <1>3, <1>4, <1>5, <1>6, <1>7 DEF FinishGate

LEMMA StartCommits ==
  ASSUME TxInv, NEW r \in Slots, pc[r] = "commit", req[r].op = "start", CommitStart(r)
  PROVE  StartWork(req[r].work, stamp[r]) /\ req[r].work \in Works /\ stamp[r] \in Times
<1>1. Serves(r, "start") /\ pc[r] \in LockedWork
  BY DEF Serves, LockedWork
<1>2. StartKnows(r) /\ req[r].work \in Works
  BY <1>1, Fields DEF TxInv, Knows
<1>3. /\ stamp[r] \in Times /\ StartGate(req[r])
      /\ Suits(req[r].work, work[req[r].work].machine)
      /\ read[r].period = OpenPeriods(work[req[r].work].machine)
      /\ \A h \in read[r].period : StartTakes(h, stamp[r])
  BY <1>2 DEF StartKnows, LockedWork, LockedMachine, FoundPeriod, LockedPeriod
<1>4. QED
  BY <1>2, <1>3 DEF CommitStart, StartWork, StartGate, StartTakes, FreeBefore

LEMMA FinishCommits ==
  ASSUME TxInv, NEW r \in Slots, pc[r] = "commit", req[r].op = "finish", CommitFinish(r)
  PROVE  /\ FinishWork(req[r].work, req[r].result, stamp[r])
         /\ req[r].work \in Works /\ req[r].result \in Results /\ stamp[r] \in Times
<1>1. Serves(r, "finish") /\ pc[r] \in LockedWork
  BY DEF Serves, LockedWork
<1>2. FinishKnows(r) /\ req[r].work \in Works /\ req[r].result \in Results
  BY <1>1, Fields DEF TxInv, Knows
<1> DEFINE w == req[r].work
<1>3. PICK a \in attempts :
           /\ read[r].attempt = {a} /\ OpenAttempts(w) = {a} /\ a.work = w /\ a.end = Open
           /\ a.start < stamp[r] /\ a.machine = MachineOf(r) /\ work[w].status = "EN_PROCESO"
  BY <1>1, FinishMachine
<1>4. /\ stamp[r] \in Times
      /\ read[r].period = OpenPeriods(a.machine) /\ read[r].period # {}
      /\ \A h \in read[r].period : FinishTakes(h, w, stamp[r])
      /\ read[r].orderStatus \in OrderStatusesAfter(w, req[r].result)
  BY <1>2, <1>3 DEF FinishKnows, FoundPeriod, LockedPeriod, FoundOrder
<1>5. \E h \in OpenPeriods(a.machine) : h.work = w /\ h.state = "TRABAJANDO"
  BY <1>4 DEF FinishTakes
<1>6. EndAttempt(a, OpenPeriods(a.machine), req[r].result, stamp[r], read[r].orderStatus)
  BY <1>3, <1>4 DEF CommitFinish
<1>7. QED
  BY <1>2, <1>3, <1>4, <1>5, <1>6 DEF FinishWork

LEMMA ChangeCommits ==
  ASSUME TxInv, NEW r \in Slots, pc[r] = "commit", req[r].op = "change", CommitChange(r)
  PROVE  /\ ChangeState(req[r].machine, req[r].state, stamp[r])
         /\ req[r].machine \in Machines /\ req[r].state \in States /\ stamp[r] \in Times
<1>1. Serves(r, "change")
  BY DEF Serves
<1>2. ChangeKnows(r) /\ req[r].machine \in Machines /\ req[r].state \in States
  BY <1>1, Fields DEF TxInv, Knows
<1>3. /\ stamp[r] \in Times
      /\ read[r].period = OpenPeriods(req[r].machine)
      /\ \A h \in read[r].period : ChangeTakes(h, req[r].state, stamp[r])
  BY <1>2 DEF ChangeKnows, FoundPeriod, LockedPeriod
<1>4. QED
  BY <1>2, <1>3 DEF CommitChange, ChangeState, ChangeTakes

LEMMA AssignCommits ==
  ASSUME TxInv, NEW r \in Slots, pc[r] = "commit", req[r].op = "assign", CommitAssign(r)
  PROVE  AssignMachine(req[r].work, req[r].machine) /\ req[r].work \in Works /\ req[r].machine \in Machines
<1>1. Serves(r, "assign")
  BY DEF Serves
<1>2. AssignKnows(r) /\ req[r].work \in Works /\ req[r].machine \in Machines
  BY <1>1, Fields DEF TxInv, Knows
<1>3. QED
  BY <1>2 DEF AssignKnows, LockedWork, CommitAssign, AssignMachine

LEMMA PatchCommits ==
  ASSUME TxInv, NEW r \in Slots, pc[r] = "commit", req[r].op = "patch", CommitPatch(r)
  PROVE  /\ req[r].machine \in Machines
         /\ \E row \in MachineRow : UpdateMachine(req[r].machine, row)
<1>1. Serves(r, "patch")
  BY DEF Serves
<1>2. PatchKnows(r) /\ req[r].machine \in Machines
  BY <1>1, Fields DEF TxInv, Knows
<1>3. QED
  BY <1>2 DEF PatchKnows, CommitPatch, UpdateMachine

\* A commit is a step of Floor.
LEMMA CommitIsOfFloor ==
  ASSUME TxInv, NEW r \in Slots, Commit(r)
  PROVE  Next
  BY StartCommits, FinishCommits, ChangeCommits, AssignCommits, PatchCommits DEF Commit, Next

-----------------------------------------------------------------------------
(***************************************************************************)
(* Two transactions in progress work on different rows.                    *)
(***************************************************************************)
Replaces(r) == \E op \in {"start", "finish", "change"} : Serves(r, op)

\* Two that have locked their work have locked different works.
LEMMA WorksApart ==
  ASSUME TxInv, NEW r \in Slots, NEW s \in Slots, r # s,
         pc[r] \in LockedWork, pc[s] \in LockedWork,
         req[r].op \in {"start", "finish", "assign"}, req[s].op \in {"start", "finish", "assign"}
  PROVE  req[r].work # req[s].work
<1>1. ASSUME NEW q \in Slots, pc[q] \in LockedWork, req[q].op \in {"start", "finish", "assign"}
      PROVE  \E mode \in {"update", "write"} : Holds(q, "work", req[q].work, mode)
  <2>1. pc[q] # "idle"
    BY <1>1 DEF LockedWork
  <2>2. QED
    BY <1>1, <2>1 DEF TxInv, Knows, Serves, StartKnows, FinishKnows, AssignKnows
<1>2. PICK m \in {"update", "write"} : Holds(r, "work", req[r].work, m)
  BY <1>1
<1>3. PICK n \in {"update", "write"} : Holds(s, "work", req[s].work, n)
  BY <1>1
<1>4. ~Compatible(m, n)
  BY Modes
<1>5. QED
  BY <1>2, <1>3, <1>4, HoldersDiffer DEF TxInv

\* What a request that has locked its machine holds of it.
LEMMA MachineLock ==
  ASSUME TxInv, NEW r \in Slots, pc[r] \in LockedMachine
  PROVE  /\ Serves(r, "start") \/ Serves(r, "change") => Holds(r, "machine", MachineOf(r), "update")
         /\ Serves(r, "finish") /\ pc[r] \in SharedMachine => Holds(r, "machine", MachineOf(r), "share")
         /\ Serves(r, "patch") => Holds(r, "machine", MachineOf(r), "write")
  BY DEF TxInv, Knows, Serves, StartKnows, ChangeKnows, FinishKnows, PatchKnows, MachineOf, LockedMachine

\* The open period of the machine of a finish is that of its work.
LEMMA FinishPeriod ==
  ASSUME TxInv, NEW r \in Slots, Serves(r, "finish"), pc[r] \in LockedWork
  PROVE  \E h \in OpenPeriods(MachineOf(r)) : h.work = req[r].work /\ h.work \in Works /\ h.state = "TRABAJANDO"
<1>1. PICK a \in attempts :
        /\ a.work = req[r].work /\ a.machine = MachineOf(r)
        /\ NewPeriod(a.machine, "TRABAJANDO", a.work, a.start) \in OpenPeriods(a.machine)
  BY FinishMachine
<1>2. req[r].work \in Works
  BY Fields DEF TxInv
<1>3. QED
  BY <1>1, <1>2 DEF NewPeriod

\* The open period of the machine of a start or a change is no work's.
LEMMA FreePeriod ==
  ASSUME TxInv, NEW r \in Slots, Serves(r, "start") \/ Serves(r, "change"), pc[r] \in LockedPeriod
  PROVE  \A h \in OpenPeriods(MachineOf(r)) : h.state # "TRABAJANDO" \/ h.work = NoWork
<1>1. CASE Serves(r, "start")
  BY <1>1 DEF TxInv, Knows, Serves, StartKnows, StartTakes, LockedPeriod, MachineOf
<1>2. CASE Serves(r, "change")
  BY <1>2 DEF TxInv, Knows, Serves, ChangeKnows, ChangeTakes, LockedPeriod, MachineOf
<1>3. QED
  BY <1>1, <1>2

\* One that commits and one that has read its period have different machines,
\* although a finish reads and closes its period before it locks the machine.
LEMMA MachinesApart ==
  ASSUME TxInv, NEW r \in Slots, NEW s \in Slots, r # s,
         pc[r] \in FoundPeriod, Replaces(r), pc[s] = "commit", Replaces(s)
  PROVE  MachineOf(r) # MachineOf(s)
<1> SUFFICES ASSUME MachineOf(r) = MachineOf(s)
             PROVE  FALSE
  OBVIOUS
<1>1. /\ pc[s] \in LockedMachine /\ pc[s] \in LockedPeriod /\ pc[s] \in LockedWork
      /\ pc[s] \in SharedMachine /\ pc[r] \in LockedWork
  BY DEF LockedMachine, LockedPeriod, FoundPeriod, LockedWork, SharedMachine
<1>2. LocksExclude
  BY DEF TxInv
<1>3. CASE Serves(r, "start") \/ Serves(r, "change")
  <2>1. pc[r] \in LockedMachine
    BY <1>3 DEF FoundPeriod, LockedMachine, TxInv, Knows, Serves, StartKnows, ChangeKnows, LockedWork
  <2>2. Holds(r, "machine", MachineOf(r), "update")
    BY <1>3, <2>1, MachineLock
  <2>3. \E m \in {"update", "share"} : Holds(s, "machine", MachineOf(s), m)
    BY <1>1, MachineLock DEF Replaces
  <2>4. QED
    BY <1>2, <2>2, <2>3, HoldersDiffer, Modes
<1>4. CASE Serves(r, "finish") /\ (Serves(s, "start") \/ Serves(s, "change"))
  <2>1. PICK h \in OpenPeriods(MachineOf(r)) : h.work \in Works /\ h.state = "TRABAJANDO"
    BY <1>1, <1>4, FinishPeriod
  <2>2. QED
    BY <1>1, <1>4, <2>1, FreePeriod, FloorAssumption
<1>5. CASE Serves(r, "finish") /\ Serves(s, "finish")
  <2>1. PICK h \in OpenPeriods(MachineOf(r)) : h.work = req[r].work
    BY <1>1, <1>5, FinishPeriod
  <2>2. PICK p \in OpenPeriods(MachineOf(r)) : p.work = req[s].work
    BY <1>1, <1>5, FinishPeriod
  <2>3. h \in history /\ h.machine = MachineOf(r)
    BY DEF OpenPeriods
  <2>4. h = p
    BY <2>3 DEF TxInv, FloorInv, OneOpenPeriod
  <2>5. QED
    BY <1>1, <1>5, <2>1, <2>2, <2>4, WorksApart DEF Serves
<1>6. QED
  BY <1>3, <1>4, <1>5 DEF Replaces

\* A commit that replaces a period leaves those of the other machines.
LEMMA OtherPeriodsStay ==
  ASSUME FloorInv, NEW m, NEW k, k # m, NEW t, NEW s, NEW w,
         ReplacePeriod(OpenPeriods(m), t, NewPeriod(m, s, w, t))
  PROVE  PeriodsStay(k)
<1>1. \A h \in OpenPeriods(m) : h \in Period /\ h.machine = m
  BY DEF OpenPeriods, FloorInv, TypeOK
<1>2. \A h \in OpenPeriods(m) : [h EXCEPT !.end = t].machine = m
  BY <1>1 DEF Period
<1>3. NewPeriod(m, s, w, t).machine = m
  BY DEF NewPeriod
<1> DEFINE new == NewPeriod(m, s, w, t)
<1> HIDE DEF new
<1>4. history' = (history \ OpenPeriods(m)) \cup {[h EXCEPT !.end = t] : h \in OpenPeriods(m)} \cup {new}
  BY DEF ReplacePeriod, new
<1>5. \A h : h.machine = k => (h \in history' <=> h \in history)
  BY <1>1, <1>2, <1>3, <1>4 DEF new
<1>6. QED
  BY <1>5 DEF PeriodsStay, OpenPeriods

\* Effects of each commit on the rows another request may have read.
LEMMA StartTouches ==
  ASSUME TxInv, NEW s \in Slots, pc[s] = "commit", req[s].op = "start", CommitStart(s)
  PROVE  /\ UNCHANGED machine /\ work[req[s].work].status = "PENDIENTE"
         /\ \A w \in Works : w # req[s].work => work'[w] = work[w] /\ AttemptsStay(w)
         /\ \A m : m # MachineOf(s) => PeriodsStay(m)
<1> DEFINE w == req[s].work
<1>1. Serves(s, "start") /\ pc[s] \in LockedWork /\ pc[s] \in FoundPeriod
  BY DEF Serves, LockedWork, FoundPeriod
<1>2. MachineOf(s) = work[w].machine /\ work[w].status = "PENDIENTE" /\ w \in Works
  BY <1>1, StartMachine, Fields DEF TxInv
<1>3. read[s].period = OpenPeriods(MachineOf(s))
  BY <1>1, PeriodIsCurrent DEF Replacing
<1>4. BeginAttempt(w, OpenPeriods(MachineOf(s)), stamp[s])
  BY <1>3 DEF CommitStart
<1>5. /\ UNCHANGED machine /\ work' = [work EXCEPT ![w].status = "EN_PROCESO"]
      /\ \E a : a.work = w /\ attempts' = attempts \cup {a}
      /\ ReplacePeriod(OpenPeriods(MachineOf(s)), stamp[s],
                       NewPeriod(MachineOf(s), "TRABAJANDO", w, stamp[s]))
  BY <1>2, <1>4 DEF BeginAttempt
<1>6. \A v \in Works : v # w => work'[v] = work[v]
  BY <1>2, <1>5 DEF TxInv, FloorInv, TypeOK
<1>7. \A v \in Works : v # w => AttemptsStay(v)
  BY <1>5 DEF AttemptsStay, OpenAttempts
<1>8. \A m : m # MachineOf(s) => PeriodsStay(m)
  BY <1>5, OtherPeriodsStay DEF TxInv
<1>9. QED
  BY <1>2, <1>5, <1>6, <1>7, <1>8

LEMMA FinishTouches ==
  ASSUME TxInv, NEW s \in Slots, pc[s] = "commit", req[s].op = "finish", CommitFinish(s)
  PROVE  /\ UNCHANGED machine /\ work[req[s].work].status = "EN_PROCESO"
         /\ \A w \in Works : w # req[s].work => work'[w] = work[w] /\ AttemptsStay(w)
         /\ \A m : m # MachineOf(s) => PeriodsStay(m)
<1> DEFINE w == req[s].work
<1>1. Serves(s, "finish") /\ pc[s] \in LockedWork /\ pc[s] \in FoundPeriod
  BY DEF Serves, LockedWork, FoundPeriod
<1>2. PICK a \in attempts : /\ read[s].attempt = {a} /\ a.work = w /\ a.machine = MachineOf(s)
                            /\ work[w].status = "EN_PROCESO"
  BY <1>1, FinishMachine
<1>3. read[s].period = OpenPeriods(MachineOf(s)) /\ w \in Works /\ a \in Attempt
  BY <1>1, PeriodIsCurrent, Fields DEF Replacing, TxInv, FloorInv, TypeOK
<1>4. EndAttempt(a, OpenPeriods(MachineOf(s)), req[s].result, stamp[s], read[s].orderStatus)
  BY <1>2, <1>3 DEF CommitFinish
<1>5. /\ UNCHANGED machine
      /\ work' = [work EXCEPT ![w].status = StatusAfter(req[s].result)]
      /\ attempts' = (attempts \ {a}) \cup {[a EXCEPT !.end = stamp[s], !.result = req[s].result]}
      /\ ReplacePeriod(OpenPeriods(MachineOf(s)), stamp[s],
                       NewPeriod(MachineOf(s), "DISPONIBLE", NoWork, stamp[s]))
  BY <1>2, <1>4 DEF EndAttempt
<1>6. \A v \in Works : v # w => work'[v] = work[v]
  BY <1>3, <1>5 DEF TxInv, FloorInv, TypeOK
<1>7. \A v \in Works : v # w => AttemptsStay(v)
  <2>1. [a EXCEPT !.end = stamp[s], !.result = req[s].result].work = w
    BY <1>2, <1>3 DEF Attempt
  <2> DEFINE b == [a EXCEPT !.end = stamp[s], !.result = req[s].result]
  <2> HIDE DEF b
  <2>2. attempts' = (attempts \ {a}) \cup {b} /\ b.work = w
    BY <1>5, <2>1 DEF b
  <2>3. QED
    BY <1>2, <2>2 DEF AttemptsStay, OpenAttempts
<1>8. \A m : m # MachineOf(s) => PeriodsStay(m)
  BY <1>5, OtherPeriodsStay DEF TxInv
<1>9. QED
  BY <1>2, <1>5, <1>6, <1>7, <1>8

LEMMA ChangeTouches ==
  ASSUME TxInv, NEW s \in Slots, pc[s] = "commit", req[s].op = "change", CommitChange(s)
  PROVE  /\ UNCHANGED <<machine, work, attempts>>
         /\ \A m : m # MachineOf(s) => PeriodsStay(m)
<1>1. Serves(s, "change") /\ pc[s] \in FoundPeriod /\ MachineOf(s) = req[s].machine
  BY DEF Serves, FoundPeriod, MachineOf
<1>2. read[s].period = OpenPeriods(MachineOf(s))
  BY <1>1, PeriodIsCurrent DEF Replacing
<1>3. ReplacePeriod(OpenPeriods(MachineOf(s)), stamp[s],
                    NewPeriod(MachineOf(s), req[s].state, NoWork, stamp[s]))
  BY <1>1, <1>2 DEF CommitChange
<1>4. QED
  BY <1>3, OtherPeriodsStay DEF TxInv, CommitChange

\* Nothing another request knows is changed by a commit.
LEMMA OthersStay ==
  ASSUME TxInv, NEW s \in Slots, Commit(s), NEW r \in Slots \ {s}
  PROVE  Stays(r)
<1> USE DEF TxInv
<1>1. pc[s] = "commit" /\ End(s) /\ Moves(s)
  BY EndMoves DEF Commit
<1>2. /\ pc'[r] = pc[r] /\ req'[r] = req[r] /\ stamp'[r] = stamp[r] /\ read'[r] = read[r]
      /\ \A g \in locks : g.slot = r => g \in locks'
  BY <1>1 DEF Moves
<1> DEFINE works    == {"start", "finish", "assign"}
           replaces == {"start", "finish", "change"}
<1>3. pc[r] \in LockedWork \cup LockedMachine \cup FoundPeriod => pc[r] # "idle"
  BY DEF LockedWork, LockedMachine, FoundPeriod
<1>4. ASSUME req[s].op \in works, pc[r] \in LockedWork, req[r].op \in works
      PROVE  req[r].work # req[s].work
  BY <1>1, <1>4, WorksApart DEF LockedWork
<1>5. ASSUME req[s].op \in replaces, pc[r] \in FoundPeriod, req[r].op \in replaces
      PROVE  MachineOf(r) # MachineOf(s)
  <2>1. Replaces(r) /\ Replaces(s)
    BY <1>1, <1>3, <1>5 DEF Replaces, Serves
  <2>2. QED
    BY <1>1, <1>5, <2>1, MachinesApart
<1>6. pc[r] # "idle" /\ req[r].op \in works => req[r].work \in Works
  BY Fields DEF Serves
<1>7. CASE req[s].op = "start"
  <2>1. CommitStart(s)
    BY <1>7 DEF Commit
  <2>2. /\ UNCHANGED machine /\ work[req[s].work].status = "PENDIENTE"
        /\ \A w \in Works : w # req[s].work => work'[w] = work[w] /\ AttemptsStay(w)
        /\ \A m : m # MachineOf(s) => PeriodsStay(m)
    BY <1>1, <1>7, <2>1, StartTouches
  <2>3. QED
    BY <1>2, <1>3, <1>4, <1>5, <1>6, <1>7, <2>2 DEF Stays
<1>8. CASE req[s].op = "finish"
  <2>1. CommitFinish(s)
    BY <1>8 DEF Commit
  <2>2. /\ UNCHANGED machine /\ work[req[s].work].status = "EN_PROCESO"
        /\ \A w \in Works : w # req[s].work => work'[w] = work[w] /\ AttemptsStay(w)
        /\ \A m : m # MachineOf(s) => PeriodsStay(m)
    BY <1>1, <1>8, <2>1, FinishTouches
  <2>3. QED
    BY <1>2, <1>3, <1>4, <1>5, <1>6, <1>8, <2>2 DEF Stays
<1>9. CASE req[s].op = "change"
  <2>1. CommitChange(s)
    BY <1>9 DEF Commit
  <2>2. /\ UNCHANGED <<machine, work, attempts>>
        /\ \A m : m # MachineOf(s) => PeriodsStay(m)
    BY <1>1, <1>9, <2>1, ChangeTouches
  <2>3. \A w : AttemptsStay(w)
    BY <2>2 DEF AttemptsStay, OpenAttempts
  <2>4. QED
    BY <1>2, <1>5, <1>9, <2>2, <2>3 DEF Stays
<1>10. CASE req[s].op = "assign"
  <2>1. /\ UNCHANGED <<machine, order, attempts, history>>
        /\ work' = [work EXCEPT ![req[s].work].machine = req[s].machine]
    BY <1>10 DEF Commit, CommitAssign
  <2>2. \A w, m : AttemptsStay(w) /\ PeriodsStay(m)
    BY <2>1 DEF AttemptsStay, OpenAttempts, PeriodsStay, OpenPeriods
  <2>3. work \in [Works -> WorkRow]
    BY DEF FloorInv, TypeOK
  <2>4. \A v \in Works : v # req[s].work => work'[v] = work[v]
    BY <2>1, <2>3
  <2>5. \A v \in Works : work'[v].status = work[v].status
    BY <2>1, <2>3 DEF WorkRow
  <2>6. QED
    BY <1>2, <1>3, <1>4, <1>6, <1>10, <2>1, <2>2, <2>4, <2>5 DEF Stays
<1>11. CASE req[s].op = "patch"
  <2>1. /\ UNCHANGED <<work, order, attempts, history>>
        /\ \E row : machine' = [machine EXCEPT ![req[s].machine] = row]
    BY <1>11 DEF Commit, CommitPatch
  <2>2. \A w, m : AttemptsStay(w) /\ PeriodsStay(m)
    BY <2>1 DEF AttemptsStay, OpenAttempts, PeriodsStay, OpenPeriods
  <2>3. Holds(s, "machine", req[s].machine, "write")
    BY <1>1, <1>11, MachineLock DEF Serves, MachineOf, LockedMachine
  <2>4. ASSUME pc[r] \in LockedMachine, req[r].op = "start"
        PROVE  machine'[work[req[r].work].machine] = machine[work[req[r].work].machine]
    <3>1. Serves(r, "start") /\ pc[r] \in LockedWork
      BY <1>3, <2>4 DEF Serves, LockedWork, LockedMachine
    <3>2. /\ MachineOf(r) = work[req[r].work].machine /\ MachineOf(r) \in Machines
          /\ Holds(r, "machine", MachineOf(r), "update")
      BY <2>4, <3>1, StartMachine, MachineLock
    <3>3. MachineOf(r) # req[s].machine
      BY <2>3, <3>2, HoldersDiffer, Modes
    <3>4. machine \in [Machines -> MachineRow]
      BY DEF FloorInv, TypeOK
    <3>5. QED
      BY <2>1, <3>2, <3>3, <3>4
  <2>5. QED
    BY <1>2, <1>11, <2>1, <2>2, <2>4 DEF Stays
<1>12. QED
  BY <1>7, <1>8, <1>9, <1>10, <1>11 DEF Commit

LEMMA CommitKeeps ==
  ASSUME TxInv, NEW s \in Slots, Commit(s)
  PROVE  TxInv'
<1>1. TxTypes' /\ LocksExclude' /\ Knows(s)'
  BY EndMoves DEF Commit, TxInv
<1>2. \A r \in Slots \ {s} : Knows(r)'
  BY OthersStay, KnowledgeStays DEF TxInv
<1>3. FloorInv'
  BY CommitIsOfFloor, NextKeeps, FloorAssumption DEF TxInv
<1>4. QED
  BY <1>1, <1>2, <1>3 DEF TxInv

-----------------------------------------------------------------------------
(***************************************************************************)
(* The theorems.                                                           *)
(***************************************************************************)
LEMMA TxInitInv == TxInit => TxInv
<1> SUFFICES ASSUME TxInit
             PROVE  TxInv
  OBVIOUS
<1>1. FloorInv
  BY InitFloorInv, FloorAssumption DEF TxInit
<1>2. Nothing \in Reading
  BY DEF Nothing, Reading, OrderStatuses
<1>3. TxTypes /\ LocksExclude
  BY <1>2 DEF TxInit, TxTypes, LocksExclude, Statements
<1>4. \A r \in Slots : Knows(r)
  BY DEF TxInit, Knows, Serves
<1>5. QED
  BY <1>1, <1>3, <1>4 DEF TxInv

LEMMA StutterKeeps ==
  ASSUME TxInv, UNCHANGED allVars
  PROVE  TxInv'
<1>1. UNCHANGED vars /\ UNCHANGED <<pc, req, stamp, read, locks>>
  BY DEF allVars, vars
<1>2. \A r \in Slots : Stays(r)
  <2>1. UNCHANGED <<machine, work, order, attempts, history>>
    BY <1>1 DEF vars
  <2>2. \A w, m : AttemptsStay(w) /\ PeriodsStay(m)
    BY <2>1 DEF AttemptsStay, PeriodsStay, OpenAttempts, OpenPeriods
  <2>3. QED
    BY <1>1, <2>1, <2>2 DEF Stays
<1>3. \A r \in Slots : Knows(r)'
  BY <1>2, KnowledgeStays DEF TxInv
<1>4. TxTypes' /\ LocksExclude'
  BY <1>1 DEF TxInv, TxTypes, LocksExclude
<1>5. QED
  BY <1>1, <1>3, <1>4, FloorStays DEF TxInv

LEMMA TxNextKeeps ==
  ASSUME TxInv, [TxNext]_allVars
  PROVE  TxInv'
<1>1. CASE TxNext
  <2>1. PICK r \in Slots : \/ \E q \in Request : Begin(r, q)
                           \/ Step(r) \/ Cancel(r) \/ DeadlockVictim(r)
    BY <1>1 DEF TxNext
  <2>2. CASE \E q \in Request : Begin(r, q)
    BY <2>2, BeginKeeps
  <2>3. CASE Step(r)
    BY <2>3, StampKeeps, ReadAttemptKeeps, LockWorkKeeps, LockMachineKeeps, ReadPeriodKeeps,
       LockPeriodKeeps, InsertPeriodKeeps, CheckForeignKeyKeeps, ReadOrderKeeps, LockOrderKeeps,
       CommitKeeps DEF Step
  <2>4. CASE Cancel(r) \/ DeadlockVictim(r)
    BY <2>4, RollbackKeeps DEF Cancel, DeadlockVictim
  <2>5. QED
    BY <2>1, <2>2, <2>3, <2>4
<1>2. QED
  BY <1>1, StutterKeeps

\* The invariant of the transactions holds in every state, whatever the number
\* of requests, machines and works.
THEOREM TransactionsKeepInv == TxSpec => []TxInv
<1>1. QED
  BY TxInitInv, TxNextKeeps, PTL DEF TxSpec

\* Every statement leaves the tables alone but a commit, which is an operation
\* of Floor.
LEMMA StatementIsOfFloor ==
  ASSUME TxInv, TxNext
  PROVE  [Next]_vars
<1>1. PICK r \in Slots : \/ \E q \in Request : Begin(r, q)
                         \/ Step(r) \/ Cancel(r) \/ DeadlockVictim(r)
  BY DEF TxNext
<1>2. \A accepts, next : Acquire(r, accepts, next) => UNCHANGED vars
  BY DEF Acquire, Rollback
<1>3. CASE \E q \in Request : Begin(r, q)
  BY <1>3 DEF Begin
<1>4. CASE Stamp(r) \/ ReadAttempt(r) \/ ReadPeriod(r) \/ ReadOrder(r)
  BY <1>4 DEF Stamp, ReadAttempt, ReadPeriod, ReadOrder, Rollback
<1>5. CASE LockWork(r) \/ LockMachine(r) \/ LockPeriod(r)
  BY <1>2, <1>5 DEF LockWork, LockMachine, LockPeriod, Rollback
<1>6. CASE InsertPeriod(r) \/ CheckForeignKey(r) \/ LockOrder(r)
  BY <1>2, <1>6 DEF InsertPeriod, CheckForeignKey, LockOrder
<1>7. CASE Commit(r)
  BY <1>7, CommitIsOfFloor
<1>8. CASE Cancel(r) \/ DeadlockVictim(r)
  BY <1>8 DEF Cancel, DeadlockVictim, Rollback
<1>9. QED
  BY <1>1, <1>3, <1>4, <1>5, <1>6, <1>7, <1>8 DEF Step

\* The transactions, with their waits, stale snapshots, cancellations and
\* deadlocks, implement the atomic operations of Floor.
THEOREM TransactionsImplementFloor == TxSpec => ImplementsFloor
<1>1. TxInit => Init
  BY DEF TxInit
<1>2. TxInv /\ [TxNext]_allVars => [Next]_vars
  <2>1. UNCHANGED allVars => UNCHANGED vars
    BY DEF allVars, vars
  <2>2. QED
    BY <2>1, StatementIsOfFloor
<1>3. QED
  BY <1>1, <1>2, TransactionsKeepInv, PTL DEF TxSpec, ImplementsFloor, Spec

\* A request that is about to insert finds no entry of either unique index: the
\* open period of the machine is the one it closes, and a pending work, or a
\* machine whose open period is no work's, has no open attempt.
LEMMA NothingDuplicate ==
  ASSUME TxInv, NEW r \in Slots, pc[r] = "insert", Replaces(r)
  PROVE  ~Duplicate(r)
<1>1. /\ pc[r] \in LockedWork /\ pc[r] \in LockedPeriod /\ Replacing(r)
  BY DEF LockedWork, LockedPeriod, FoundPeriod, Replacing, Replaces, Serves
<1>2. OpenPeriods(MachineOf(r)) \ read[r].period = {}
  BY <1>1, PeriodIsCurrent
<1>3. ASSUME req[r].op = "start", NEW a \in attempts, a.end = Open,
             a.work = req[r].work \/ a.machine = MachineOf(r)
      PROVE  FALSE
  <2>1. Serves(r, "start")
    BY <1>3 DEF Replaces, Serves
  <2>2. work[req[r].work].status = "PENDIENTE" /\ req[r].work \in Works
    BY <1>1, <2>1, StartMachine, Fields DEF TxInv
  <2>3. OpenAttempts(req[r].work) = {}
    BY <2>2 DEF TxInv, FloorInv, RunningWork
  <2>4. a.work # req[r].work
    BY <1>3, <2>3 DEF OpenAttempts
  <2>5. NewPeriod(a.machine, "TRABAJANDO", a.work, a.start) \in history
    BY <1>3 DEF TxInv, FloorInv, RunningWork
  <2>6. NewPeriod(a.machine, "TRABAJANDO", a.work, a.start) \in OpenPeriods(MachineOf(r))
    BY <1>3, <2>4, <2>5 DEF OpenPeriods, NewPeriod
  <2>7. a.work \in Works
    BY DEF TxInv, FloorInv, TypeOK, Attempt
  <2>8. QED
    BY <1>1, <2>1, <2>6, <2>7, FreePeriod, FloorAssumption DEF NewPeriod
<1>4. QED
  BY <1>2, <1>3 DEF Duplicate

\* Rows read before a lock, and under a lock of another row, are what there is
\* until the commit: the unique indexes refuse nothing and no wait for a
\* period comes back with "no row".
THEOREM ReadsAreCurrent == TxSpec => []ReadIsCurrent
<1>1. TxInv => ReadIsCurrent
  BY PeriodIsCurrent, NothingDuplicate DEF ReadIsCurrent, Replacing, Replaces, Serves
<1>2. QED
  BY <1>1, TransactionsKeepInv, PTL

-----------------------------------------------------------------------------
(***************************************************************************)
(* Where the locks come from.                                              *)
(***************************************************************************)
LEMMA OriginStays ==
  ASSUME TxInv, NEW g \in locks, LockOrigin(g), pc[g.slot] # "idle", Stays(g.slot)
  PROVE  pc'[g.slot] # "idle" /\ LockOrigin(g)'
<1> DEFINE r == g.slot
<1>1. /\ pc'[r] = pc[r] /\ req'[r] = req[r] /\ read'[r] = read[r]
      /\ pc[r] \in LockedWork /\ req[r].op = "start" => work'[req[r].work] = work[req[r].work]
  BY DEF Stays
<1>2. LockedMachine \subseteq LockedWork /\ LockedPeriod \subseteq LockedWork /\ SharedMachine \subseteq LockedWork
  BY DEF LockedMachine, LockedWork, LockedPeriod, FoundPeriod, SharedMachine
<1>3. pc[r] \in LockedWork => MachineOf(r)' = MachineOf(r)
  BY <1>1 DEF MachineOf
<1>4. pc[r] = "commit" => pc[r] \in LockedWork
  BY DEF LockedWork
<1> HIDE DEF r
<1>5. QED
  BY <1>1, <1>2, <1>3, <1>4, r = g.slot DEF LockOrigin, r

\* The locks of a request that goes on are explained by its next statement.
LEMMA OwnOriginStays ==
  ASSUME NEW g \in locks, LockOrigin(g), NEW r, g.slot = r, pc[r] # "commit",
         UNCHANGED <<vars, req>>, read'[r].attempt = read[r].attempt,
         pc[r] \in LockedPeriod => read'[r].period = read[r].period,
         pc[r] \in LockedWork => pc'[r] \in LockedWork,
         pc[r] \in LockedMachine /\ req[r].op \in {"start", "change"} => pc'[r] \in LockedMachine,
         pc[r] \in SharedMachine => pc'[r] \in SharedMachine,
         pc[r] \in LockedPeriod => pc'[r] \in LockedPeriod,
         pc'[r] = "insert" => pc[r] \notin LockedPeriod
  PROVE  LockOrigin(g)'
<1>1. req' = req /\ work' = work
  BY DEF vars
<1>2. MachineOf(r)' = MachineOf(r)
  BY <1>1 DEF MachineOf
<1>3. QED
  BY <1>1, <1>2 DEF LockOrigin

\* All locks are explained when those of the slot that moves are.
LEMMA OriginKeeps ==
  ASSUME TxInv, LocksOrigin, NEW r \in Slots, \A s \in Slots \ {r} : Stays(s),
         \A g \in locks' : g \in locks \/ g.slot = r,
         \A g \in locks' : g.slot = r => pc'[r] # "idle" /\ LockOrigin(g)'
  PROVE  LocksOrigin'
<1>1. \A g \in locks : g.slot # r => pc'[g.slot] # "idle" /\ LockOrigin(g)'
  BY OriginStays DEF LocksOrigin, TxInv, TxTypes
<1>2. QED
  BY <1>1 DEF LocksOrigin

\* A statement that takes one lock, or gives up.
LEMMA AcquireOrigin ==
  ASSUME TxInv, LocksOrigin, NEW r \in Slots, pc[r] \in Locking,
         NEW accepts, NEW next \in Statements \ {"idle"}, Acquire(r, accepts, next),
         pc[r] \in LockedWork => next \in LockedWork,
         pc[r] \in LockedMachine /\ req[r].op \in {"start", "change"} => next \in LockedMachine,
         pc[r] \in SharedMachine => next \in SharedMachine,
         pc[r] \in LockedPeriod => next \in LockedPeriod,
         next = "insert" => pc[r] \notin LockedPeriod,
         \A g : /\ g.slot = r /\ g.row = Wanted(r).row /\ g.mode = Wanted(r).mode
                /\ pc'[r] = next /\ UNCHANGED <<vars, req, read>>
                => LockOrigin(g)'
  PROVE  LocksOrigin'
<1>1. CASE accepts
  <2>0. PICK new : new = [slot |-> r, row |-> Wanted(r).row, mode |-> Wanted(r).mode]
    OBVIOUS
  <2>1. /\ Blockers(r) = {} /\ pc' = [pc EXCEPT ![r] = next]
        /\ locks' = locks \cup {[slot |-> r, row |-> Wanted(r).row, mode |-> Wanted(r).mode]}
        /\ UNCHANGED <<vars, req, stamp, read>>
    BY <1>1 DEF Acquire, Goto
  <2>2. Moves(r) /\ pc'[r] = next /\ locks' = locks \cup {new}
    BY <2>0, <2>1, GrantMoves DEF TxInv
  <2>3. \A s \in Slots \ {r} : Stays(s)
    BY <2>1, <2>2, TablesStay
  <2>4. new.slot = r /\ LockOrigin(new)'
    <3>1. new.slot = r /\ new.row = Wanted(r).row /\ new.mode = Wanted(r).mode
      BY <2>0
    <3>2. QED
      BY <2>1, <2>2, <3>1
  <2>5. \A g \in locks : g.slot = r => LockOrigin(g)'
    BY <2>1, <2>2, OwnOriginStays DEF LocksOrigin, Locking
  <2>6. pc'[r] # "idle" /\ \A g \in locks' : g \in locks \/ g = new
    BY <2>2
  <2>7. QED
    BY <2>3, <2>4, <2>5, <2>6, OriginKeeps
<1>2. CASE ~accepts
  <2>1. Rollback(r)
    BY <1>2 DEF Acquire
  <2>2. Moves(r) /\ UNCHANGED vars /\ locks' = {g \in locks : g.slot # r}
    BY <2>1, EndMoves DEF Rollback, End, TxInv
  <2>3. \A s \in Slots \ {r} : Stays(s)
    BY <2>2, TablesStay
  <2>4. QED
    BY <2>2, <2>3, OriginKeeps
<1>3. QED
  BY <1>1, <1>2

\* Nothing is held before the first lock.
LEMMA NothingHeldYet ==
  ASSUME LocksOrigin, NEW r,
         \/ pc[r] \in {"idle", "stamp", "readAttempt", "lockWork"}
         \/ pc[r] = "lockMachine" /\ req[r].op \in {"change", "patch"}
  PROVE  \A g \in locks : g.slot # r
  BY DEF LocksOrigin, LockOrigin, LockedWork, LockedMachine, LockedPeriod, FoundPeriod, SharedMachine

\* A request that locks nothing and holds nothing.
LEMMA EarlyOrigin ==
  ASSUME TxInv, LocksOrigin, NEW r \in Slots, Moves(r), UNCHANGED vars,
         \A g \in locks' : g \in locks /\ g.slot # r
  PROVE  LocksOrigin'
  BY TablesStay, OriginKeeps

\* A request that has ended.
LEMMA EndOrigin ==
  ASSUME TxInv, LocksOrigin, NEW r \in Slots, End(r), \A s \in Slots \ {r} : Stays(s)
  PROVE  LocksOrigin'
  BY OriginKeeps DEF End

LEMMA RollbackOrigin ==
  ASSUME TxInv, LocksOrigin, NEW r \in Slots, Rollback(r)
  PROVE  LocksOrigin'
  BY EndMoves, TablesStay, EndOrigin DEF Rollback, TxInv

LEMMA BeginOrigin ==
  ASSUME TxInv, LocksOrigin, NEW r \in Slots, NEW q \in Request, Begin(r, q)
  PROVE  LocksOrigin'
<1>1. pc[r] = "idle" /\ UNCHANGED <<vars, locks>>
  BY DEF Begin
<1>2. Moves(r)
  <2>1. \A s \in Slots \ {r} : stamp'[s] = stamp[s] /\ read'[s] = read[s]
    BY DEF Begin, TxInv, TxTypes
  <2>2. \A s \in Slots \ {r} : pc'[s] = pc[s] /\ req'[s] = req[s]
    BY DEF Begin, Goto, TxInv, TxTypes
  <2>3. QED
    BY <1>1, <2>1, <2>2 DEF Moves
<1>3. QED
  BY <1>1, <1>2, NothingHeldYet, EarlyOrigin

LEMMA StampOrigin ==
  ASSUME TxInv, LocksOrigin, NEW r \in Slots, Stamp(r)
  PROVE  LocksOrigin'
<1>1. pc[r] = "stamp" /\ UNCHANGED <<vars, locks>>
  BY DEF Stamp
<1>2. Moves(r)
  BY DEF Stamp, Goto, TxInv, TxTypes, Moves
<1>3. QED
  BY <1>1, <1>2, NothingHeldYet, EarlyOrigin

LEMMA ReadAttemptOrigin ==
  ASSUME TxInv, LocksOrigin, NEW r \in Slots, ReadAttempt(r)
  PROVE  LocksOrigin'
<1>1. CASE Rollback(r)
  BY <1>1, RollbackOrigin
<1>2. CASE ~Rollback(r)
  <2>1. pc[r] = "readAttempt" /\ UNCHANGED <<vars, locks>>
    BY <1>2 DEF ReadAttempt
  <2>2. Moves(r)
    BY <1>2 DEF ReadAttempt, Goto, TxInv, TxTypes, Moves
  <2>3. QED
    BY <2>1, <2>2, NothingHeldYet, EarlyOrigin
<1>3. QED
  BY <1>1, <1>2

LEMMA LockWorkOrigin ==
  ASSUME TxInv, LocksOrigin, NEW r \in Slots, LockWork(r)
  PROVE  LocksOrigin'
<1>1. pc[r] = "lockWork" /\ req[r].op \in {"start", "finish", "assign"} /\ pc[r] \in Locking
  BY DEF LockWork, Locking
<1>2. PICK accepts, next : Acquire(r, accepts, next) /\ next \in {"lockMachine", "readPeriod", "commit", "foreignKey"}
  BY DEF LockWork
<1>3. pc[r] \notin LockedWork \cup LockedMachine \cup LockedPeriod \cup SharedMachine
  BY <1>1 DEF LockedWork, LockedMachine, LockedPeriod, FoundPeriod, SharedMachine
<1>4. next \in Statements \ {"idle"} /\ next \in LockedWork /\ next # "insert"
  BY <1>2 DEF Statements, LockedWork
<1>5. ASSUME NEW g, g.slot = r, g.row = Wanted(r).row, pc'[r] = next, UNCHANGED <<vars, req, read>>
      PROVE  LockOrigin(g)'
  BY <1>1, <1>4, <1>5 DEF LockOrigin, Wanted
<1>6. QED
  BY <1>1, <1>2, <1>3, <1>4, <1>5, AcquireOrigin

\* The machine a request has to do with stays the same.
LEMMA SameMachine ==
  ASSUME NEW r, UNCHANGED <<vars, req, read>>
  PROVE  MachineOf(r)' = MachineOf(r)
<1>1. work' = work
  BY DEF vars
<1>2. QED
  BY <1>1 DEF MachineOf

LEMMA LockMachineOrigin ==
  ASSUME TxInv, LocksOrigin, NEW r \in Slots, LockMachine(r)
  PROVE  LocksOrigin'
<1> DEFINE next == IF req[r].op = "patch" THEN "commit" ELSE "readPeriod"
           accepts == req[r].op = "start" => Suits(req[r].work, MachineOf(r))
<1>1. pc[r] = "lockMachine" /\ Acquire(r, accepts, next) /\ pc[r] \in Locking
  BY DEF LockMachine, Locking
<1>2. req[r].op \in {"start", "change", "patch"}
  BY <1>1, OpsAt DEF TxInv
<1>3. pc[r] \notin LockedMachine \cup LockedPeriod \cup SharedMachine
  BY <1>1 DEF LockedMachine, LockedPeriod, FoundPeriod, SharedMachine
<1>4. /\ next \in Statements \ {"idle"} /\ next \in LockedWork /\ next # "insert"
      /\ next \in LockedMachine /\ (req[r].op = "patch" => next = "commit")
  BY DEF Statements, LockedWork, LockedMachine
<1>5. ASSUME NEW g, g.slot = r, g.row = Wanted(r).row, g.mode = Wanted(r).mode,
             pc'[r] = next, UNCHANGED <<vars, req, read>>
      PROVE  LockOrigin(g)'
  <2>1. MachineOf(r)' = MachineOf(r)
    BY <1>5, SameMachine
  <2>2. /\ g.row = Row("machine", MachineOf(r))
        /\ g.mode = IF req[r].op = "patch" THEN "write" ELSE "update"
    BY <1>1, <1>5 DEF Wanted
  <2> HIDE DEF next
  <2>3. QED
    BY <1>2, <1>4, <1>5, <2>1, <2>2 DEF LockOrigin
<1> HIDE DEF next, accepts
<1>6. QED
  BY <1>1, <1>3, <1>4, <1>5, AcquireOrigin

LEMMA ReadPeriodOrigin ==
  ASSUME TxInv, LocksOrigin, NEW r \in Slots, ReadPeriod(r)
  PROVE  LocksOrigin'
<1>1. CASE Rollback(r)
  BY <1>1, RollbackOrigin
<1>2. CASE ~Rollback(r)
  <2>1. PICK found, next :
          /\ pc[r] = "readPeriod" /\ UNCHANGED <<vars, req, stamp, locks>>
          /\ read' = [read EXCEPT ![r].period = found]
          /\ pc' = [pc EXCEPT ![r] = next] /\ next \in {"insert", "lockPeriod"}
    BY <1>2 DEF ReadPeriod, Goto
  <2>2. Moves(r) /\ pc'[r] = next
    BY <2>1 DEF TxInv, TxTypes, Moves
  <2>3. read'[r].attempt = read[r].attempt
    BY <2>1 DEF TxInv, TxTypes, Reading
  <2> USE DEF LockedWork, LockedMachine, LockedPeriod, FoundPeriod, SharedMachine
  <2>4. \A g \in locks : g.slot = r => LockOrigin(g)'
    BY <2>1, <2>2, <2>3, OwnOriginStays DEF LocksOrigin
  <2>5. QED
    BY <2>1, <2>2, <2>4, TablesStay, OriginKeeps
<1>3. QED
  BY <1>1, <1>2

LEMMA LockPeriodOrigin ==
  ASSUME TxInv, LocksOrigin, NEW r \in Slots, LockPeriod(r)
  PROVE  LocksOrigin'
<1> DEFINE accepts == \A h \in read[r].period : Takes(r, h)
<1>1. pc[r] = "lockPeriod" /\ pc[r] \in Locking
  BY DEF LockPeriod, Locking
<1>2. req[r].op \in {"start", "finish", "change"} /\ Serves(r, req[r].op)
  BY <1>1, OpsAt DEF TxInv, Serves
<1>3. read[r].period \subseteq history
  BY <1>1, <1>2, PeriodIsCurrent DEF Replacing, OpenPeriods
<1>4. Acquire(r, accepts, "insert")
  BY <1>3 DEF LockPeriod
<1>5. read[r].period # {}
  BY <1>1, <1>2 DEF TxInv, Knows, Serves, StartKnows, FinishKnows, ChangeKnows, FoundPeriod
<1>6. ASSUME NEW g, g.slot = r, g.row = Wanted(r).row, pc'[r] = "insert", UNCHANGED <<vars, req, read>>
      PROVE  LockOrigin(g)'
  <2>1. \E h \in read[r].period : g.row = Row("period", h)
    BY <1>1, <1>5, <1>6 DEF Wanted
  <2>2. QED
    BY <1>2, <1>6, <2>1 DEF LockOrigin, LockedPeriod, FoundPeriod
<1> HIDE DEF accepts
<1>7. "insert" \in Statements \ {"idle"}
  BY DEF Statements
<1>8. QED
  BY <1>1, <1>4, <1>6, <1>7, AcquireOrigin
     DEF LockedWork, LockedMachine, LockedPeriod, FoundPeriod, SharedMachine

LEMMA InsertPeriodOrigin ==
  ASSUME TxInv, LocksOrigin, NEW r \in Slots, InsertPeriod(r)
  PROVE  LocksOrigin'
<1> DEFINE next == CASE req[r].op = "start"  -> "readOrder"
                     [] req[r].op = "finish" -> "foreignKey"
                     [] req[r].op = "change" -> "commit"
<1>1. pc[r] = "insert" /\ Acquire(r, ~Duplicate(r), next) /\ pc[r] \in Locking
  BY DEF InsertPeriod, Locking
<1>2. req[r].op \in {"start", "finish", "change"}
  BY <1>1, OpsAt DEF TxInv
<1>3. /\ next \in Statements \ {"idle"} /\ next # "insert" /\ next \in LockedWork /\ next \in LockedPeriod
      /\ req[r].op \in {"start", "change"} => next \in LockedMachine
  BY <1>2 DEF Statements, LockedWork, LockedMachine, LockedPeriod, FoundPeriod
<1>4. pc[r] \notin SharedMachine
  BY <1>1 DEF SharedMachine
<1> HIDE DEF next
<1>5. ASSUME NEW g, g.slot = r, g.row = Wanted(r).row, pc'[r] = next, UNCHANGED <<vars, req, read>>
      PROVE  LockOrigin(g)'
  <2>1. MachineOf(r)' = MachineOf(r)
    BY <1>5, SameMachine
  <2>2. g.row = Row("openIndex", MachineOf(r))
    BY <1>1, <1>5 DEF Wanted
  <2>3. QED
    BY <1>2, <1>3, <1>5, <2>1, <2>2 DEF LockOrigin
<1>6. QED
  BY <1>1, <1>3, <1>4, <1>5, AcquireOrigin

LEMMA CheckForeignKeyOrigin ==
  ASSUME TxInv, LocksOrigin, NEW r \in Slots, CheckForeignKey(r)
  PROVE  LocksOrigin'
<1> DEFINE next == IF req[r].op = "finish" THEN "readOrder" ELSE "commit"
<1>1. pc[r] = "foreignKey" /\ Acquire(r, TRUE, next) /\ pc[r] \in Locking
  BY DEF CheckForeignKey, Locking
<1>2. req[r].op \in {"finish", "assign"}
  BY <1>1, OpsAt DEF TxInv
<1>3. /\ next \in Statements \ {"idle"} /\ next # "insert" /\ next \in LockedWork
      /\ next \in LockedPeriod /\ next \in SharedMachine
  BY DEF Statements, LockedWork, LockedPeriod, FoundPeriod, SharedMachine
<1> HIDE DEF next
<1>4. ASSUME NEW g, g.slot = r, g.row = Wanted(r).row, g.mode = Wanted(r).mode,
             pc'[r] = next, UNCHANGED <<vars, req, read>>
      PROVE  LockOrigin(g)'
  <2>1. MachineOf(r)' = MachineOf(r)
    BY <1>4, SameMachine
  <2>2. g.row = Row("machine", MachineOf(r)) /\ g.mode = "share"
    BY <1>1, <1>4 DEF Wanted
  <2>3. QED
    BY <1>2, <1>3, <1>4, <2>1, <2>2 DEF LockOrigin
<1>5. QED
  BY <1>1, <1>2, <1>3, <1>4, AcquireOrigin

LEMMA ReadOrderOrigin ==
  ASSUME TxInv, LocksOrigin, NEW r \in Slots, ReadOrder(r)
  PROVE  LocksOrigin'
<1>1. /\ pc[r] = "readOrder" /\ pc' = [pc EXCEPT ![r] = "lockOrder"]
      /\ \E status : read' = [read EXCEPT ![r].orderStatus = status]
      /\ UNCHANGED <<vars, req, stamp, locks>>
  BY DEF ReadOrder, Goto
<1>2. Moves(r) /\ pc'[r] = "lockOrder"
  BY <1>1 DEF TxInv, TxTypes, Moves
<1>3. read'[r].attempt = read[r].attempt /\ read'[r].period = read[r].period
  BY <1>1 DEF TxInv, TxTypes, Reading
<1>4. \A g \in locks : g.slot = r => LockOrigin(g)'
  BY <1>1, <1>2, <1>3, OwnOriginStays
     DEF LocksOrigin, LockedWork, LockedMachine, LockedPeriod, FoundPeriod, SharedMachine
<1>5. QED
  BY <1>1, <1>2, <1>4, TablesStay, OriginKeeps

LEMMA LockOrderOrigin ==
  ASSUME TxInv, LocksOrigin, NEW r \in Slots, LockOrder(r)
  PROVE  LocksOrigin'
<1>1. pc[r] = "lockOrder" /\ Acquire(r, TRUE, "commit") /\ pc[r] \in Locking
  BY DEF LockOrder, Locking
<1>2. "commit" \in Statements \ {"idle"}
  BY DEF Statements
<1>3. ASSUME NEW g, g.slot = r, g.row = Wanted(r).row, pc'[r] = "commit"
      PROVE  LockOrigin(g)'
  BY <1>1, <1>3 DEF LockOrigin, Wanted, Row
<1>4. QED
  BY <1>1, <1>2, <1>3, AcquireOrigin
     DEF LockedWork, LockedMachine, LockedPeriod, FoundPeriod, SharedMachine

LEMMA CommitOrigin ==
  ASSUME TxInv, LocksOrigin, NEW r \in Slots, Commit(r)
  PROVE  LocksOrigin'
  BY OthersStay, EndOrigin DEF Commit

LEMMA TxNextOrigin ==
  ASSUME TxInv, LocksOrigin, [TxNext]_allVars
  PROVE  LocksOrigin'
<1>1. CASE TxNext
  <2>1. PICK r \in Slots : \/ \E q \in Request : Begin(r, q)
                           \/ Step(r) \/ Cancel(r) \/ DeadlockVictim(r)
    BY <1>1 DEF TxNext
  <2>2. CASE \E q \in Request : Begin(r, q)
    BY <2>2, BeginOrigin
  <2>3. CASE Step(r)
    BY <2>3, StampOrigin, ReadAttemptOrigin, LockWorkOrigin, LockMachineOrigin, ReadPeriodOrigin,
       LockPeriodOrigin, InsertPeriodOrigin, CheckForeignKeyOrigin, ReadOrderOrigin,
       LockOrderOrigin, CommitOrigin DEF Step
  <2>4. CASE Cancel(r) \/ DeadlockVictim(r)
    BY <2>4, RollbackOrigin DEF Cancel, DeadlockVictim
  <2>5. QED
    BY <2>1, <2>2, <2>3, <2>4
<1>2. CASE UNCHANGED allVars
  <2>1. UNCHANGED <<machine, work, order, attempts, history, pc, req, read, locks>>
    BY <1>2 DEF allVars
  <2>2. \A r : MachineOf(r)' = MachineOf(r)
    BY <2>1 DEF MachineOf
  <2>3. \A g \in locks : LockOrigin(g) => LockOrigin(g)'
    BY <2>1, <2>2 DEF LockOrigin
  <2>4. QED
    BY <2>1, <2>3 DEF LocksOrigin
<1>3. QED
  BY <1>1, <1>2

\* A request holds the locks its statements have asked for and no other.
THEOREM LocksAreExplained == TxSpec => []LocksOrigin
<1>1. TxInit => LocksOrigin
  BY DEF TxInit, LocksOrigin
<1>2. QED
  BY <1>1, TxNextOrigin, TransactionsKeepInv, PTL DEF TxSpec

-----------------------------------------------------------------------------
(***************************************************************************)
(* Cycles of waits.                                                        *)
(***************************************************************************)
LEMMA Rows ==
  ASSUME NEW t, NEW u, NEW k, NEW l, Row(t, k) = Row(u, l)
  PROVE  t = u /\ k = l
<1>1. Row(t, k).table = t /\ Row(t, k).key = k /\ Row(u, l).table = u /\ Row(u, l).key = l
  BY DEF Row
<1>2. QED
  BY <1>1

\* A slot that blocks another one holds a lock of the row the other one wants.
LEMMA BlockerHolds ==
  ASSUME LocksOrigin, NEW q, NEW b \in Blockers(q)
  PROVE  /\ pc[q] \in Locking /\ b \in Slots /\ b # q /\ pc[b] # "idle"
         /\ \E g \in locks : /\ g.slot = b /\ g.row = Wanted(q).row /\ LockOrigin(g)
                             /\ ~Compatible(g.mode, Wanted(q).mode)
  BY DEF Blockers, HeldByOthers, LocksOrigin

\* In a cycle everyone waits, and everyone is waited for.
LEMMA CycleIsTight ==
  ASSUME NEW D \in SUBSET Slots, Cycle(D), NEW r \in D
  PROVE  (\E b \in D : b \in Blockers(r)) /\ (\E q \in D : r \in Blockers(q))
<1>1. \A q \in D : Blockers(q) \cap D # {}
  BY DEF Cycle, Waits
<1>2. r \notin Blockers(r)
  BY DEF Blockers, HeldByOthers
<1>3. ASSUME \A q \in D : r \notin Blockers(q)
      PROVE  FALSE
  <2> DEFINE E == D \ {r}
  <2>1. E # {} /\ \A q \in E : Blockers(q) \cap E # {}
    BY <1>1, <1>2, <1>3
  <2>2. Waits(E) /\ E \in SUBSET D /\ E # D
    BY <2>1 DEF Waits
  <2>3. QED
    BY <2>2 DEF Cycle
<1>4. QED
  BY <1>1, <1>3

\* Two requests that have locked their work and whose machine is one: neither
\* is a finish.
LEMMA FinishIsAlone ==
  ASSUME TxInv, NEW f \in Slots, NEW r \in Slots, f # r, Serves(f, "finish"), pc[f] \in LockedWork,
         pc[r] \in LockedPeriod, Replaces(r)
  PROVE  MachineOf(f) # MachineOf(r)
<1> SUFFICES ASSUME MachineOf(f) = MachineOf(r)
             PROVE  FALSE
  OBVIOUS
<1>1. PICK h \in OpenPeriods(MachineOf(f)) :
        h.work = req[f].work /\ h.work \in Works /\ h.state = "TRABAJANDO"
  BY FinishPeriod
<1>2. pc[r] \in LockedWork
  BY DEF LockedWork, LockedPeriod, FoundPeriod
<1>3. CASE Serves(r, "start") \/ Serves(r, "change")
  BY <1>1, <1>3, FreePeriod, FloorAssumption
<1>4. CASE Serves(r, "finish")
  <2>1. PICK p \in OpenPeriods(MachineOf(f)) : p.work = req[r].work
    BY <1>2, <1>4, FinishPeriod
  <2>2. h \in history /\ h.machine = MachineOf(f)
    BY DEF OpenPeriods
  <2>3. h = p
    BY <2>2 DEF TxInv, FloorInv, OneOpenPeriod
  <2>4. QED
    BY <1>1, <1>2, <1>4, <2>1, <2>3, WorksApart DEF Serves
<1>5. QED
  BY <1>3, <1>4 DEF Replaces

\* Who waits and is waited for: those who hold no lock, or only that of their
\* work, block nobody who waits for something else.
LEMMA InCycle ==
  ASSUME TxInv, LocksOrigin, NEW D \in SUBSET Slots, Cycle(D), NEW r \in D
  PROVE  /\ pc[r] \in {"lockPeriod", "insert", "foreignKey", "lockOrder"}
         /\ pc[r] = "lockPeriod" => req[r].op \in {"start", "change"}
         /\ pc[r] = "foreignKey" => req[r].op = "finish"
<1>1. \A s \in D : pc[s] \in Locking /\ s \in Slots
  BY CycleIsTight, BlockerHolds
<1>2. \A s \in D : \E q \in D, g \in locks : g.slot = s /\ g.row = Wanted(q).row /\ LockOrigin(g)
  BY CycleIsTight, BlockerHolds
<1>3. \A s \in D : pc[s] # "lockWork"
  BY <1>2, NothingHeldYet
<1>4. \A s \in D : \A key : Wanted(s).row # Row("work", key)
  BY <1>1, <1>3, Rows DEF Wanted, Locking
<1>5. PICK g \in locks : g.slot = r /\ LockOrigin(g) /\ \A key : g.row # Row("work", key)
  BY <1>2, <1>4
<1>6. pc[r] # "lockMachine"
  BY <1>5 DEF LockOrigin, LockedMachine, LockedPeriod, FoundPeriod, SharedMachine
<1>7. pc[r] = "lockPeriod" => req[r].op \in {"start", "change"}
  BY <1>5 DEF LockOrigin, LockedMachine, LockedPeriod, FoundPeriod, SharedMachine
<1>8. pc[r] = "foreignKey" => req[r].op \in {"start", "finish", "change"}
  BY <1>5 DEF LockOrigin, LockedMachine, LockedPeriod, FoundPeriod, SharedMachine
<1>9. pc[r] = "foreignKey" => req[r].op = "finish"
  BY <1>1, <1>8, OpsAt DEF TxInv
<1>10. QED
  BY <1>1, <1>3, <1>6, <1>7, <1>9 DEF Locking

\* Nobody of a cycle waits for an order: who has one locked commits.
LEMMA NoOrderInCycle ==
  ASSUME TxInv, LocksOrigin, NEW D \in SUBSET Slots, Cycle(D), NEW r \in D
  PROVE  pc[r] # "lockOrder"
<1> SUFFICES ASSUME pc[r] = "lockOrder"
             PROVE  FALSE
  OBVIOUS
<1>1. PICK b \in D : b \in Blockers(r)
  BY CycleIsTight
<1>2. PICK g \in locks : g.slot = b /\ g.row = Wanted(r).row /\ LockOrigin(g)
  BY <1>1, BlockerHolds
<1>3. g.row = Row("order", OrderOf[req[r].work])
  BY <1>2 DEF Wanted
<1>4. pc[b] = "commit"
  BY <1>2, <1>3, Rows DEF LockOrigin
<1>5. QED
  BY <1>4, InCycle

\* Nobody of a cycle waits to insert: who has inserted the open period of a
\* machine is the only one to have closed the one before.
LEMMA NoInsertInCycle ==
  ASSUME TxInv, LocksOrigin, NEW D \in SUBSET Slots, Cycle(D), NEW r \in D
  PROVE  pc[r] # "insert"
<1> SUFFICES ASSUME pc[r] = "insert"
             PROVE  FALSE
  OBVIOUS
<1>1. PICK b \in D : b \in Blockers(r)
  BY CycleIsTight
<1>2. PICK g \in locks : g.slot = b /\ g.row = Wanted(r).row /\ LockOrigin(g)
  BY <1>1, BlockerHolds
<1>3. /\ pc[b] \in {"lockPeriod", "insert", "foreignKey"}
      /\ pc[b] = "foreignKey" => req[b].op = "finish"
      /\ b \in Slots /\ r \in Slots /\ b # r
  BY <1>1, InCycle, NoOrderInCycle, BlockerHolds
<1>4. g.row = Row("openIndex", MachineOf(r))
  BY <1>2 DEF Wanted
<1>5. g.row.table # "order"
  BY <1>4 DEF Row
<1>6. /\ req[b].op \in {"start", "finish", "change"} /\ pc[b] \in LockedPeriod \ {"insert"}
      /\ g.row = Row("openIndex", MachineOf(b))
  BY <1>2, <1>4, <1>5, Rows DEF LockOrigin
<1>7. MachineOf(b) = MachineOf(r)
  BY <1>4, <1>6, Rows
<1>8. Replaces(r) /\ pc[r] \in LockedPeriod
  <2>1. req[r].op \in {"start", "finish", "change"}
    BY <1>3, OpsAt DEF TxInv
  <2>2. QED
    BY <2>1 DEF Replaces, Serves, LockedPeriod, FoundPeriod
<1>9. Serves(b, "finish") /\ pc[b] \in LockedWork
  BY <1>3, <1>6 DEF Serves, LockedWork, LockedPeriod, FoundPeriod
<1>10. QED
  BY <1>3, <1>7, <1>8, <1>9, FinishIsAlone

\* So a cycle is made of finishes that check a foreign key and of starts and
\* changes of state that wait for a period.
WaitsForMachine(f) == pc[f] = "foreignKey" /\ req[f].op = "finish"
WaitsForPeriod(c)  == pc[c] = "lockPeriod" /\ req[c].op \in {"start", "change"}

LEMMA CycleKinds ==
  ASSUME TxInv, LocksOrigin, NEW D \in SUBSET Slots, Cycle(D), NEW r \in D
  PROVE  WaitsForPeriod(r) \/ WaitsForMachine(r)
  BY InCycle, NoOrderInCycle, NoInsertInCycle DEF WaitsForMachine, WaitsForPeriod

\* Who blocks a finish there is a start or a change of its machine.
LEMMA FinishBlocked ==
  ASSUME TxInv, LocksOrigin, NEW D \in SUBSET Slots, Cycle(D),
         NEW f \in D, NEW b \in D, b \in Blockers(f), WaitsForMachine(f)
  PROVE  WaitsForPeriod(b) /\ MachineOf(b) = MachineOf(f)
<1>1. PICK g \in locks : /\ g.slot = b /\ g.row = Wanted(f).row /\ LockOrigin(g)
                         /\ ~Compatible(g.mode, Wanted(f).mode)
  BY BlockerHolds
<1>2. g.row = Row("machine", MachineOf(f)) /\ g.mode # "share"
  BY <1>1 DEF Wanted, WaitsForMachine, Compatible
<1>3. g.row.table # "order"
  BY <1>2 DEF Row
<1>4. WaitsForPeriod(b) \/ WaitsForMachine(b)
  BY CycleKinds
<1>5. req[b].op \in {"start", "change"} /\ g.row = Row("machine", MachineOf(b))
  BY <1>1, <1>2, <1>3, <1>4, Rows DEF LockOrigin, WaitsForPeriod, WaitsForMachine
<1>6. QED
  BY <1>2, <1>4, <1>5, Rows DEF WaitsForMachine

\* Who blocks a start or a change there is the finish that closes the period.
LEMMA PeriodBlocked ==
  ASSUME TxInv, LocksOrigin, NEW D \in SUBSET Slots, Cycle(D),
         NEW c \in D, NEW b \in D, b \in Blockers(c), WaitsForPeriod(c)
  PROVE  WaitsForMachine(b) /\ MachineOf(b) = MachineOf(c)
<1>1. PICK g \in locks : g.slot = b /\ g.row = Wanted(c).row /\ LockOrigin(g)
  BY BlockerHolds
<1>2. Serves(c, req[c].op) /\ Replacing(c) /\ b \in Slots /\ c \in Slots
  BY DEF WaitsForPeriod, Serves, Replacing
<1>3. read[c].period # {}
  BY <1>2 DEF WaitsForPeriod, TxInv, Knows, Serves, StartKnows, ChangeKnows
<1>4. PICK h \in read[c].period : g.row = Row("period", h)
  BY <1>1, <1>3 DEF Wanted, WaitsForPeriod
<1>5. g.row.table # "order"
  BY <1>4 DEF Row
<1>6. /\ req[b].op \in {"start", "finish", "change"} /\ pc[b] \in LockedPeriod
      /\ \E p \in read[b].period : g.row = Row("period", p)
  BY <1>1, <1>4, <1>5, Rows DEF LockOrigin
<1>7. WaitsForMachine(b)
  BY <1>6, CycleKinds DEF WaitsForPeriod, LockedPeriod, FoundPeriod
<1>8. h \in read[b].period
  BY <1>4, <1>6, Rows
<1>9. Replacing(b)
  BY <1>7 DEF WaitsForMachine, Replacing
<1>10. h \in OpenPeriods(MachineOf(b)) /\ h \in OpenPeriods(MachineOf(c))
  BY <1>2, <1>4, <1>8, <1>9, PeriodIsCurrent
<1>11. QED
  BY <1>7, <1>10 DEF OpenPeriods

LEMMA CyclesOfTwo ==
  ASSUME TxInv, LocksOrigin
  PROVE  CyclesAreFinishAgainstMachine
<1> SUFFICES ASSUME NEW D \in SUBSET Slots, Cycle(D)
             PROVE  \E f, c \in D : /\ D = {f, c} /\ WaitsForMachine(f) /\ WaitsForPeriod(c)
                                    /\ MachineOf(f) = MachineOf(c)
  BY DEF CyclesAreFinishAgainstMachine, WaitsForMachine, WaitsForPeriod
<1>1. \A f, e \in D : WaitsForMachine(f) /\ WaitsForMachine(e) /\ MachineOf(f) = MachineOf(e) => f = e
  BY FinishIsAlone DEF WaitsForMachine, Serves, Replaces, LockedWork, LockedPeriod, FoundPeriod
<1>2. \A c, e \in D : WaitsForPeriod(c) /\ WaitsForPeriod(e) /\ MachineOf(c) = MachineOf(e) => c = e
  <2>1. \A c \in D : WaitsForPeriod(c) => Holds(c, "machine", MachineOf(c), "update")
    BY MachineLock DEF WaitsForPeriod, Serves, LockedMachine
  <2>2. QED
    BY <2>1, HoldersDiffer, Modes DEF TxInv
<1>3. \A f \in D : WaitsForMachine(f) =>
        \E c \in D : c \in Blockers(f) /\ WaitsForPeriod(c) /\ MachineOf(c) = MachineOf(f)
  BY CycleIsTight, FinishBlocked
<1>4. \A c \in D : WaitsForPeriod(c) =>
        \E f \in D : f \in Blockers(c) /\ WaitsForMachine(f) /\ MachineOf(f) = MachineOf(c)
  BY CycleIsTight, PeriodBlocked
<1>5. PICK f \in D : WaitsForMachine(f)
  <2>1. D # {}
    BY DEF Cycle, Waits
  <2>2. \A r \in D : WaitsForPeriod(r) \/ WaitsForMachine(r)
    BY CycleKinds
  <2>3. QED
    BY <1>4, <2>1, <2>2
<1>6. PICK c \in D : c \in Blockers(f) /\ WaitsForPeriod(c) /\ MachineOf(c) = MachineOf(f)
  BY <1>3, <1>5
<1>7. f \in Blockers(c)
  BY <1>1, <1>4, <1>5, <1>6
<1>8. Waits({f, c})
  BY <1>6, <1>7 DEF Waits
<1>9. {f, c} = D
  BY <1>8 DEF Cycle
<1>10. QED
  BY <1>5, <1>6, <1>9

\* Requests wait for each other in one way only, however many there are: the
\* finish of a work, for the machine's row, against a start or a change that
\* has it and waits for the period the finish has closed.
THEOREM CyclesAreOfTwo == TxSpec => []CyclesAreFinishAgainstMachine
<1>1. QED
  BY CyclesOfTwo, TransactionsKeepInv, LocksAreExplained, PTL

\* What Floor promises holds of its tables while transactions interleave.
THEOREM FloorHoldsUnderTransactions ==
  TxSpec => [](RunningWork /\ HistoryMatchesAttempts /\ Tiled /\ CompletedBySuccess /\ CompleteOrderIsDone)
<1>1. TxInv => RunningWork /\ HistoryMatchesAttempts /\ Tiled /\ CompletedBySuccess /\ CompleteOrderIsDone
  BY DEF TxInv, FloorInv
<1>2. QED
  BY <1>1, TransactionsKeepInv, PTL

=============================================================================
