------------------------------ MODULE FloorTx ------------------------------
(***************************************************************************)
(* The transactions of the production floor, statement by statement, as    *)
(* concurrent requests run them on PostgreSQL at READ COMMITTED.           *)
(*                                                                         *)
(* A slot is a request being served: a goroutine with its connection.  It  *)
(* waits for row locks, reads the rows its next statement's snapshot       *)
(* holds, finds after a wait that a row changed, may be cancelled or be    *)
(* picked by the deadlock detector at any statement, and publishes all its *)
(* writes when it commits.  The rows a transaction writes are locked by it *)
(* or new, so nobody sees them earlier.                                    *)
(***************************************************************************)
EXTENDS Floor

CONSTANTS
  Slots,        \* requests served at the same time
  ClientTimes,  \* fecha_inicio values a client may send with a state change
  Now,          \* a state change without fecha_inicio
  NoRequest     \* an idle slot serves this

ASSUME FloorTxAssumption ==
  /\ ClientTimes \subseteq Times
  /\ Now \notin ClientTimes

VARIABLES
  clock,  \* the server's clock, read by s.now()
  pc,     \* the statement each slot is at
  req,    \* the request each slot serves
  stamp,  \* the timestamp it carries
  read,   \* the rows its statements returned
  locks   \* row locks granted: [slot, row, mode]

\* Floor's vars are the tables.
allVars == <<machine, work, order, attempts, history, clock, pc, req, stamp, read, locks>>

Request ==
  [op : {"start"}, work : Works]
  \cup [op : {"finish"}, work : Works, result : Results]
  \cup [op : {"assign"}, work : Works, machine : Machines]
  \cup [op : {"change"}, machine : Machines, state : States, at : ClientTimes \cup {Now}]
  \cup [op : {"patch"}, machine : Machines, active : BOOLEAN]
  \cup [op : {"patch"}, machine : Machines, type : Types]

Nothing == [attempt |-> {}, period |-> {}, row |-> {}, orderStatus |-> "PENDIENTE"]

Earliest == CHOOSE t \in Times : \A u \in Times : t <= u

-----------------------------------------------------------------------------
(***************************************************************************)
(* Row locks.  FOR UPDATE conflicts with every mode; the lock an UPDATE of *)
(* no key column takes (NO KEY UPDATE) lets the KEY SHARE of a foreign key *)
(* check pass.                                                             *)
(***************************************************************************)
Compatible(m, n) ==
  \/ m = "share" /\ n = "share"
  \/ {m, n} = {"share", "write"}

Row(table, key) == [table |-> table, key |-> key]
HeldByOthers(r, row, mode) ==
  {q \in Slots \ {r} : \E g \in locks :
     g.slot = q /\ g.row = row /\ ~Compatible(g.mode, mode)}

\* The machine of the request: the assigned one for a start, the attempt's for
\* a finish, otherwise the one named in the path or body.
MachineOf(r) ==
  IF req[r].op = "start" THEN work[req[r].work].machine
  ELSE IF req[r].op = "finish" THEN (CHOOSE a \in read[r].attempt : TRUE).machine
  ELSE req[r].machine

\* The lock the statement at pc[r] asks for.
Wanted(r) ==
  IF pc[r] = "lockWork" THEN
    [row |-> Row("work", req[r].work), mode |-> IF req[r].op = "assign" THEN "write" ELSE "update"]
  ELSE IF pc[r] = "lockMachine" THEN
    [row |-> Row("machine", MachineOf(r)), mode |-> IF req[r].op = "patch" THEN "write" ELSE "update"]
  ELSE IF pc[r] = "lockPeriod" THEN
    [row |-> Row("period", CHOOSE h \in read[r].period : TRUE), mode |-> "update"]
  ELSE IF pc[r] = "insert" THEN
    [row |-> Row("openIndex", MachineOf(r)), mode |-> "update"]
  ELSE IF pc[r] = "foreignKey" THEN
    [row |-> Row("machine", MachineOf(r)), mode |-> "share"]
  ELSE [row |-> Row("order", OrderOf[req[r].work]), mode |-> "write"]

Locking == {"lockWork", "lockMachine", "lockPeriod", "insert", "foreignKey", "lockOrder"}

Blockers(r) ==
  IF pc[r] \in Locking THEN HeldByOthers(r, Wanted(r).row, Wanted(r).mode) ELSE {}

-----------------------------------------------------------------------------
(***************************************************************************)
(* Progress of a slot.                                                     *)
(***************************************************************************)
Goto(r, next) == pc' = [pc EXCEPT ![r] = next]

\* Variant: nothing rolls the transaction back when the request is answered.
EndHoldingLocks(r) ==
  /\ pc' = [pc EXCEPT ![r] = "idle"]
  /\ req' = [req EXCEPT ![r] = NoRequest]
  /\ stamp' = [stamp EXCEPT ![r] = Earliest]
  /\ read' = [read EXCEPT ![r] = Nothing]
  /\ UNCHANGED locks

\* The transaction is over, committed or rolled back, and so is the request.
End(r) ==
  /\ pc' = [pc EXCEPT ![r] = "idle"]
  /\ req' = [req EXCEPT ![r] = NoRequest]
  /\ stamp' = [stamp EXCEPT ![r] = Earliest]
  /\ read' = [read EXCEPT ![r] = Nothing]
  /\ locks' = {g \in locks : g.slot # r}

Rollback(r) == End(r) /\ UNCHANGED <<vars, clock>>

\* A locking statement: it waits while others hold the row, then either goes
\* on with the row locked or finds a reason to give up.
Acquire(r, accepts, next) ==
  /\ Blockers(r) = {}
  /\ IF accepts
     THEN /\ locks' = locks \cup
               {[slot |-> r, row |-> Wanted(r).row, mode |-> Wanted(r).mode]}
          /\ Goto(r, next)
          /\ UNCHANGED <<vars, clock, req, stamp, read>>
     ELSE Rollback(r)

-----------------------------------------------------------------------------
(***************************************************************************)
(* Before the transaction: the service reads the rows and refuses what     *)
(* cannot be done, in statements of their own.  A refusal changes nothing. *)
(***************************************************************************)
StartGate(q)  == work[q.work].status = "PENDIENTE" /\ work[q.work].machine # NoMachine
FinishGate(q) == work[q.work].status = "EN_PROCESO"

\* The last of the two statements, of the machine.  The one before, of the work,
\* was at any earlier moment, and every work has been pending: it asks nothing of
\* the work as it is now.  The UPDATE does.
AssignGate(q) == Suits(q.work, q.machine)

Gate(q) ==
  /\ q.op = "start" => StartGate(q)
  /\ q.op = "finish" => FinishGate(q)
  /\ q.op = "assign" => AssignGate(q)

\* MachineService.Update reads the row, overlays the fields of the request and
\* later writes the whole row back.
Overlay(row, q) ==
  IF "active" \in DOMAIN q THEN [row EXCEPT !.active = q.active]
  ELSE [row EXCEPT !.type = q.type]

Begin(r, q) ==
  /\ pc[r] = "idle"
  /\ Gate(q)
  /\ req' = [req EXCEPT ![r] = q]
  /\ IF q.op = "change" /\ q.at # Now
     THEN stamp' = [stamp EXCEPT ![r] = q.at] ELSE UNCHANGED stamp
  /\ IF q.op = "patch"
     THEN read' = [read EXCEPT ![r].row = {Overlay(machine[q.machine], q)}]
     ELSE UNCHANGED read
  /\ Goto(r, IF q.op = "assign" THEN "lockWork"
             ELSE IF q.op = "patch" \/ (q.op = "change" /\ q.at # Now) THEN "lockMachine"
             ELSE "stamp")
  /\ UNCHANGED <<vars, clock, locks>>

\* s.now(), read before the transaction begins: requests may come to their
\* locks in another order than that of their timestamps.
Stamp(r) ==
  /\ pc[r] = "stamp"
  /\ \E t \in {clock, clock + 1} \cap Times :
       /\ clock' = t
       /\ stamp' = [stamp EXCEPT ![r] = t]
  /\ Goto(r, CASE req[r].op = "start"  -> "lockWork"
               [] req[r].op = "finish" -> "readAttempt"
               [] req[r].op = "change" -> "lockMachine")
  /\ UNCHANGED <<vars, req, read, locks>>

-----------------------------------------------------------------------------
(***************************************************************************)
(* The statements.                                                         *)
(***************************************************************************)

\* FinishWork's first SELECT joins the work with its open attempt: what the
\* snapshot shows is the row it will wait for.
ReadAttempt(r) ==
  /\ pc[r] = "readAttempt"
  /\ LET found == OpenAttempts(req[r].work) IN
     IF found = {} THEN Rollback(r)
     ELSE /\ read' = [read EXCEPT ![r].attempt = found]
          /\ Goto(r, "lockWork")
          /\ UNCHANGED <<vars, clock, req, stamp, locks>>

\* What a start or an assignment checks in the work it has locked.
StartAccepts(r)  == StartGate(req[r])
AssignAccepts(r) == work[req[r].work].status = "PENDIENTE"

\* FinishWork after the wait: the join is evaluated again on the rows as they
\* now are, and finds nothing when the attempt was closed meanwhile.
FinishAccepts(r) ==
  /\ read[r].attempt \subseteq attempts
  /\ work[req[r].work].status = "EN_PROCESO"
  /\ \A a \in read[r].attempt : a.start < stamp[r]

LockWork(r) ==
  /\ pc[r] = "lockWork"
  /\ \/ /\ req[r].op = "start"
        /\ Acquire(r, StartAccepts(r), "lockMachine")
     \/ /\ req[r].op = "finish"
        /\ Acquire(r, FinishAccepts(r), "readPeriod")
     \/ /\ req[r].op = "assign"
        /\ Acquire(r, AssignAccepts(r),
             IF work[req[r].work].machine = req[r].machine THEN "commit" ELSE "foreignKey")

\* Variants: the machine is read without a lock; its row is not checked.
LockNoMachine(r) ==
  /\ pc[r] = "lockMachine"
  /\ IF req[r].op = "start" => Suits(req[r].work, MachineOf(r))
     THEN /\ Goto(r, IF req[r].op = "patch" THEN "commit" ELSE "readPeriod")
          /\ UNCHANGED <<vars, clock, req, stamp, read, locks>>
     ELSE Rollback(r)
LockAnyMachine(r) ==
  /\ pc[r] = "lockMachine"
  /\ Acquire(r, TRUE, IF req[r].op = "patch" THEN "commit" ELSE "readPeriod")

\* FOR UPDATE for a start or a change of state; the UPDATE itself for a patch.
LockMachine(r) ==
  /\ pc[r] = "lockMachine"
  /\ Acquire(r, req[r].op = "start" => Suits(req[r].work, MachineOf(r)),
       IF req[r].op = "patch" THEN "commit" ELSE "readPeriod")

\* SELECT of the open period, as its snapshot shows it.
ReadPeriod(r) ==
  /\ pc[r] = "readPeriod"
  /\ LET found == OpenPeriods(MachineOf(r)) IN
     IF found = {} /\ req[r].op = "finish" THEN Rollback(r)
     ELSE /\ read' = [read EXCEPT ![r].period = found]
          /\ Goto(r, IF found = {} THEN "insert" ELSE "lockPeriod")
          /\ UNCHANGED <<vars, clock, req, stamp, locks>>

\* What each operation asks of the open period it has locked.  A finish does
\* not compare its time with the period's: CHECK (fecha_fin > fecha_inicio) does.
StartTakes(h, t)       == h.state = "DISPONIBLE" /\ h.start < t
FinishTakes(h, w, t)   == h.work = w /\ h.state = "TRABAJANDO" /\ h.start < t
ChangeTakes(h, s, t)   == h.work = NoWork /\ h.state # s /\ h.start < t

Takes(r, h) ==
  /\ req[r].op = "start"  => StartTakes(h, stamp[r])
  /\ req[r].op = "finish" => FinishTakes(h, req[r].work, stamp[r])
  /\ req[r].op = "change" => ChangeTakes(h, req[r].state, stamp[r])

\* Variant: a finish locks the machine too, but after the period.
LockPeriodThenMachine(r) ==
  /\ pc[r] = "lockPeriod"
  /\ IF read[r].period \subseteq history
     THEN Acquire(r, \A h \in read[r].period : Takes(r, h),
                  IF req[r].op = "finish" THEN "lockMachine" ELSE "insert")
     ELSE Rollback(r)

\* The period is locked and checked.  A period closed during the wait is no
\* row at all: a start or a change then goes on as for a first period.
LockPeriod(r) ==
  /\ pc[r] = "lockPeriod"
  /\ IF read[r].period \subseteq history
     THEN Acquire(r, \A h \in read[r].period : Takes(r, h), "insert")
     ELSE IF req[r].op = "finish" THEN Rollback(r)
     ELSE /\ read' = [read EXCEPT ![r].period = {}]
          /\ Goto(r, "insert")
          /\ UNCHANGED <<vars, clock, req, stamp, locks>>

\* The partial unique indexes: one open period and one open attempt a machine,
\* one open attempt a work.
Duplicate(r) ==
  \/ OpenPeriods(MachineOf(r)) \ read[r].period # {}
  \/ /\ req[r].op = "start"
     /\ \E a \in attempts : a.end = Open /\ (a.work = req[r].work \/ a.machine = MachineOf(r))

\* INSERT of the attempt and of the next period: an entry another transaction
\* has not committed makes it wait, a committed one makes it fail.
InsertPeriod(r) ==
  /\ pc[r] = "insert"
  /\ Acquire(r, ~Duplicate(r),
       CASE req[r].op = "start"  -> "readOrder"
         [] req[r].op = "finish" -> "foreignKey"
         [] req[r].op = "change" -> "commit")

\* The foreign key check of maquina_id locks the machine's row against its
\* removal.  A start and a change hold that row already; a finish does not.
CheckForeignKey(r) ==
  /\ pc[r] = "foreignKey"
  /\ Acquire(r, TRUE, IF req[r].op = "finish" THEN "readOrder" ELSE "commit")

\* Variant: only works that wait for a machine keep the order open.
OrderStatusSeenUnstarted(r) ==
  IF /\ req[r].op = "finish"
     /\ req[r].result = "EXITOSO"
     /\ \A v \in Works \ {req[r].work} :
          OrderOf[v] = OrderOf[req[r].work] => work[v].status # "PENDIENTE"
  THEN "COMPLETADO" ELSE "EN_PRODUCCION"

\* UPDATE pedidos: its snapshot is taken when the statement begins.  A wait for
\* the row of the order does not refresh what NOT EXISTS (...) sees.
OrderStatusSeen(r) ==
  IF /\ req[r].op = "finish"
     /\ req[r].result = "EXITOSO"
     /\ \A v \in Works \ {req[r].work} :
          OrderOf[v] = OrderOf[req[r].work] => work[v].status = "COMPLETADO"
  THEN "COMPLETADO" ELSE "EN_PRODUCCION"

ReadOrder(r) ==
  /\ pc[r] = "readOrder"
  /\ read' = [read EXCEPT ![r].orderStatus = OrderStatusSeen(r)]
  /\ Goto(r, "lockOrder")
  /\ UNCHANGED <<vars, clock, req, stamp, locks>>

LockOrder(r) == pc[r] = "lockOrder" /\ Acquire(r, TRUE, "commit")

-----------------------------------------------------------------------------
(***************************************************************************)
(* The end of a transaction.                                               *)
(***************************************************************************)
CommitStart(r)  == BeginAttempt(req[r].work, read[r].period, stamp[r])
CommitFinish(r) ==
  \E a \in read[r].attempt :
    EndAttempt(a, read[r].period, req[r].result, stamp[r], read[r].orderStatus)
CommitAssign(r) ==
  /\ work' = [work EXCEPT ![req[r].work].machine = req[r].machine]
  /\ UNCHANGED <<machine, order, attempts, history>>
CommitChange(r) ==
  /\ ReplacePeriod(read[r].period, stamp[r],
       NewPeriod(req[r].machine, req[r].state, NoWork, stamp[r]))
  /\ UNCHANGED <<machine, work, order, attempts>>
CommitPatch(r) ==
  /\ \E row \in read[r].row : machine' = [machine EXCEPT ![req[r].machine] = row]
  /\ UNCHANGED <<work, order, attempts, history>>

Commit(r) ==
  /\ pc[r] = "commit"
  /\ \/ req[r].op = "start"  /\ CommitStart(r)
     \/ req[r].op = "finish" /\ CommitFinish(r)
     \/ req[r].op = "assign" /\ CommitAssign(r)
     \/ req[r].op = "change" /\ CommitChange(r)
     \/ req[r].op = "patch"  /\ CommitPatch(r)
  /\ End(r)
  /\ UNCHANGED clock

\* The client goes away, the connection breaks or the server stops: the
\* deferred Rollback, or PostgreSQL itself, undoes the transaction.
Cancel(r) == pc[r] # "idle" /\ Rollback(r)

\* A set of slots each of which waits for another one of it, and no smaller
\* such set: a cycle of waits.
Waits(D) == D # {} /\ \A r \in D : Blockers(r) \cap D # {}
Cycle(D) == Waits(D) /\ \A E \in SUBSET D : Waits(E) => E = D

\* PostgreSQL ends a wait cycle by failing one of its statements.
DeadlockVictim(r) ==
  /\ \E D \in SUBSET Slots : r \in D /\ Cycle(D)
  /\ Rollback(r)

-----------------------------------------------------------------------------
TxInit ==
  /\ Init
  /\ clock = Earliest
  /\ pc = [r \in Slots |-> "idle"]
  /\ req = [r \in Slots |-> NoRequest]
  /\ stamp = [r \in Slots |-> Earliest]
  /\ read = [r \in Slots |-> Nothing]
  /\ locks = {}

Step(r) ==
  \/ Stamp(r) \/ ReadAttempt(r) \/ LockWork(r) \/ LockMachine(r)
  \/ ReadPeriod(r) \/ LockPeriod(r) \/ InsertPeriod(r) \/ CheckForeignKey(r)
  \/ ReadOrder(r) \/ LockOrder(r) \/ Commit(r)

TxNext ==
  \E r \in Slots :
    \/ \E q \in Request : Begin(r, q)
    \/ Step(r)
    \/ Cancel(r)
    \/ DeadlockVictim(r)

TxSpec == TxInit /\ [][TxNext]_allVars

\* A request that is being served goes on: its statements are executed, a lock
\* is granted in turn (PostgreSQL queues the waiters of a row) and a cycle of
\* waits is broken.  Nobody has to send a request or to cancel one.
Fairness ==
  \A r \in Slots : SF_allVars(Step(r)) /\ WF_allVars(DeadlockVictim(r))

FairTxSpec == TxSpec /\ Fairness
-----------------------------------------------------------------------------
(***************************************************************************)
(* Properties.                                                             *)
(***************************************************************************)

\* Once a request has read the open period of its machine, what it read is
\* still all there is until it commits, also before the period is locked and
\* although a finish does not lock the machine.  So neither unique index ever
\* refuses an insert and the answer "no row" after a wait never comes.
Replacing(r) == pc[r] \in {"lockPeriod", "insert", "foreignKey", "readOrder", "lockOrder", "commit"}
                /\ req[r].op \in {"start", "finish", "change"}

ReadIsCurrent ==
  \A r \in Slots : Replacing(r) =>
    /\ read[r].period = OpenPeriods(MachineOf(r))
    /\ req[r].op = "finish" => read[r].attempt = OpenAttempts(req[r].work)
    /\ pc[r] = "insert" => ~Duplicate(r)

\* Requests wait for each other in one way only: a finish that has closed the
\* period of its machine and inserts the next one needs the machine's row,
\* which a start or a change of state holds while it waits for that period.
CyclesAreFinishAgainstMachine ==
  \A D \in SUBSET Slots : Cycle(D) =>
    \E f, c \in D :
      /\ D = {f, c}
      /\ pc[f] = "foreignKey" /\ req[f].op = "finish"
      /\ pc[c] = "lockPeriod" /\ req[c].op \in {"start", "change"}
      /\ MachineOf(f) = MachineOf(c)

\* The transactions implement the atomic operations of Floor: every commit is
\* one of them and nothing else changes a table.
ImplementsFloor == Spec

\* A request in service ends, with a commit or a refusal.
RequestsEnd == \A r \in Slots : pc[r] # "idle" ~> pc[r] = "idle"

\* README: "el pedido se completa cuando todos sus trabajos terminan
\* exitosamente".  With no request in progress, an order all of whose works
\* are complete is complete.
OrderCompletes ==
  (\A r \in Slots : pc[r] = "idle") =>
    \A o \in Orders :
      /\ \E w \in Works : OrderOf[w] = o
      /\ \A w \in Works : OrderOf[w] = o => work[w].status = "COMPLETADO"
      => order[o] = "COMPLETADO"
=============================================================================
