------------------------------- MODULE Floor -------------------------------
(***************************************************************************)
(* The production floor as its tables change, one committed transaction at *)
(* a time: work items (trabajos) run on machines through attempts          *)
(* (intentos_trabajo) while the state history of every machine             *)
(* (historial_estados_maquina) records who controls it.                    *)
(*                                                                         *)
(* This is what internal/repository promises its callers: each operation   *)
(* is one atomic step whose guard and effect are those of the transaction. *)
(* FloorTx shows that the statement-by-statement transactions keep that    *)
(* promise.                                                                *)
(***************************************************************************)
EXTENDS Naturals, FiniteSets

CONSTANTS
  Machines,      \* rows of maquinas
  Types,         \* rows of tipos_maquina
  Works,         \* rows of trabajos
  Orders,        \* rows of pedidos
  OrderOf,       \* trabajos.pedido_id, never updated
  RequiredType,  \* trabajos.tipo_maquina_id_requerido, never updated
  States,        \* codes of estados_maquina
  Times,         \* timestamps a request can carry
  NoMachine,     \* NULL in trabajos.maquina_id
  NoWork,        \* NULL in historial_estados_maquina.trabajo_id
  Open           \* NULL in fecha_fin and resultado

ASSUME FloorAssumption ==
  /\ OrderOf \in [Works -> Orders]
  /\ RequiredType \in [Works -> Types]
  /\ {"DISPONIBLE", "TRABAJANDO"} \subseteq States
  /\ Times \subseteq Nat
  /\ Open \notin Times
  /\ Open \notin {"EXITOSO", "FALLIDO"}
  /\ NoMachine \notin Machines
  /\ NoWork \notin Works

VARIABLES
  machine,   \* the activa and tipo_maquina_id columns of maquinas
  work,      \* the estado and maquina_id columns of trabajos
  order,     \* the estado column of pedidos
  attempts,  \* rows of intentos_trabajo
  history    \* rows of historial_estados_maquina

vars == <<machine, work, order, attempts, history>>

-----------------------------------------------------------------------------
(***************************************************************************)
(* Rows.                                                                   *)
(***************************************************************************)
\* The CHECKs also allow CANCELADO, which no statement of the code writes.
WorkStatuses  == {"PENDIENTE", "EN_PROCESO", "COMPLETADO"}
OrderStatuses == {"PENDIENTE", "EN_PRODUCCION", "COMPLETADO"}
Results       == {"EXITOSO", "FALLIDO"}

MachineRow == [active : BOOLEAN, type : Types]
WorkRow    == [status : WorkStatuses, machine : Machines \cup {NoMachine}]
Attempt    == [work : Works, number : Nat \ {0}, machine : Machines,
               start : Times, end : Times \cup {Open},
               result : Results \cup {Open}]
Period     == [machine : Machines, state : States,
               work : Works \cup {NoWork},
               start : Times, end : Times \cup {Open}]

PeriodsOf(m)    == {h \in history : h.machine = m}
OpenPeriods(m)  == {h \in history : h.machine = m /\ h.end = Open}
AttemptsOf(w)   == {a \in attempts : a.work = w}
OpenAttempts(w) == {a \in attempts : a.work = w /\ a.end = Open}

\* COALESCE(MAX(numero_intento), 0) over the attempts of a work.
LastNumber(w) ==
  CHOOSE n \in {0} \cup {a.number : a \in AttemptsOf(w)} :
    \A a \in AttemptsOf(w) : a.number <= n

-----------------------------------------------------------------------------
(***************************************************************************)
(* What a transaction writes.  "prev" is the set of open periods it read   *)
(* under lock: one row, or none before the first period of the machine.    *)
(***************************************************************************)
NewPeriod(m, s, w, t) ==
  [machine |-> m, state |-> s, work |-> w, start |-> t, end |-> Open]

ReplacePeriod(prev, t, new) ==
  history' = (history \ prev) \cup {[h EXCEPT !.end = t] : h \in prev} \cup {new}

BeginAttempt(w, prev, t) ==
  LET m == work[w].machine IN
  /\ attempts' = attempts \cup
       {[work |-> w, number |-> LastNumber(w) + 1, machine |-> m,
         start |-> t, end |-> Open, result |-> Open]}
  /\ ReplacePeriod(prev, t, NewPeriod(m, "TRABAJANDO", w, t))
  /\ work' = [work EXCEPT ![w].status = "EN_PROCESO"]
  /\ order' = [order EXCEPT ![OrderOf[w]] = "EN_PRODUCCION"]
  /\ UNCHANGED machine

StatusAfter(result) == IF result = "EXITOSO" THEN "COMPLETADO" ELSE "PENDIENTE"

EndAttempt(a, prev, result, t, orderStatus) ==
  /\ attempts' = (attempts \ {a}) \cup {[a EXCEPT !.end = t, !.result = result]}
  /\ ReplacePeriod(prev, t, NewPeriod(a.machine, "DISPONIBLE", NoWork, t))
  /\ work' = [work EXCEPT ![a.work].status = StatusAfter(result)]
  /\ order' = [order EXCEPT ![OrderOf[a.work]] = orderStatus]
  /\ UNCHANGED machine

-----------------------------------------------------------------------------
(***************************************************************************)
(* Operations.                                                             *)
(***************************************************************************)

\* Variant: the UPDATE does not ask for a pending work.
AssignAnyWork(w, m) ==
  /\ work' = [work EXCEPT ![w].machine = m]
  /\ UNCHANGED <<machine, order, attempts, history>>

\* UPDATE trabajos ... WHERE id = w AND estado = 'PENDIENTE'.  The service
\* looked at the machine before, in another statement: by now the machine
\* may be inactive or of another type.
AssignMachine(w, m) ==
  /\ work[w].status = "PENDIENTE"
  /\ work' = [work EXCEPT ![w].machine = m]
  /\ UNCHANGED <<machine, order, attempts, history>>

\* The machine as StartWork finds it under its row lock.
Suits(w, m) == machine[m].active /\ machine[m].type = RequiredType[w]

\* Variant: the state of the open period is not looked at.
FreeInAnyState(prev, t) == \A h \in prev : h.start < t

\* The open period as StartWork needs it: DISPONIBLE since before t.
FreeBefore(prev, t) == \A h \in prev : h.state = "DISPONIBLE" /\ h.start < t

StartWork(w, t) ==
  LET m == work[w].machine IN
  /\ work[w].status = "PENDIENTE"
  /\ m # NoMachine
  /\ Suits(w, m)
  /\ FreeBefore(OpenPeriods(m), t)
  /\ BeginAttempt(w, OpenPeriods(m), t)

\* The order is complete when no work of it is anything but COMPLETADO, the
\* finishing one included.  The subquery reads the snapshot of its statement,
\* which need not hold a completion committed while it waits for the order
\* row, so a finish that completes the order may still store EN_PRODUCCION.
OrderStatusesAfter(w, result) ==
  {"EN_PRODUCCION"} \cup
  (IF /\ result = "EXITOSO"
      /\ \A v \in Works \ {w} : OrderOf[v] = OrderOf[w] => work[v].status = "COMPLETADO"
   THEN {"COMPLETADO"} ELSE {})

FinishWork(w, result, t) ==
  /\ work[w].status = "EN_PROCESO"
  /\ \E a \in OpenAttempts(w), s \in OrderStatusesAfter(w, result) :
       /\ a.start < t
       /\ \E h \in OpenPeriods(a.machine) : h.work = w /\ h.state = "TRABAJANDO"
       /\ EndAttempt(a, OpenPeriods(a.machine), result, t, s)

\* Variants: the work of the open period, or its start, is not looked at.
ChangeAnyState(m, s, t) ==
  /\ \A h \in OpenPeriods(m) : h.state # s /\ h.start < t
  /\ ReplacePeriod(OpenPeriods(m), t, NewPeriod(m, s, NoWork, t))
  /\ UNCHANGED <<machine, work, order, attempts>>
ChangeAtAnyTime(m, s, t) ==
  /\ \A h \in OpenPeriods(m) : h.work = NoWork /\ h.state # s
  /\ ReplacePeriod(OpenPeriods(m), t, NewPeriod(m, s, NoWork, t))
  /\ UNCHANGED <<machine, work, order, attempts>>

\* A manual change of state: refused while a work controls the open period,
\* when the state is the current one and when it would not start later.
ChangeState(m, s, t) ==
  /\ \A h \in OpenPeriods(m) : h.work = NoWork /\ h.state # s /\ h.start < t
  /\ ReplacePeriod(OpenPeriods(m), t, NewPeriod(m, s, NoWork, t))
  /\ UNCHANGED <<machine, work, order, attempts>>

\* PATCH /maquinas/{id} writes the whole row, whatever the machine is doing.
UpdateMachine(m, row) ==
  /\ machine' = [machine EXCEPT ![m] = row]
  /\ UNCHANGED <<work, order, attempts, history>>

-----------------------------------------------------------------------------
\* Orders and machines as they are created: every work pending, with a
\* machine or without one, and no machine with a first period yet.
Init ==
  /\ machine \in [Machines -> MachineRow]
  /\ work \in [Works -> {r \in WorkRow : r.status = "PENDIENTE"}]
  /\ order = [o \in Orders |-> "PENDIENTE"]
  /\ attempts = {}
  /\ history = {}

Next ==
  \/ \E w \in Works, m \in Machines : AssignMachine(w, m)
  \/ \E w \in Works, t \in Times : StartWork(w, t)
  \/ \E w \in Works, r \in Results, t \in Times : FinishWork(w, r, t)
  \/ \E m \in Machines, s \in States, t \in Times : ChangeState(m, s, t)
  \/ \E m \in Machines, row \in MachineRow : UpdateMachine(m, row)

Spec == Init /\ [][Next]_vars

-----------------------------------------------------------------------------
(***************************************************************************)
(* Properties.                                                             *)
(***************************************************************************)

\* The columns hold values of their domains; both row sets stay finite.
TypeOK ==
  /\ machine \in [Machines -> MachineRow]
  /\ work \in [Works -> WorkRow]
  /\ order \in [Orders -> OrderStatuses]
  /\ attempts \subseteq Attempt
  /\ history \subseteq Period

\* A machine has at most one open period, and one as soon as it has any:
\* what uq_historial_estado_abierto_maquina enforces by refusing the insert
\* holds without it.
OneOpenPeriod ==
  \A h \in history : \E p \in OpenPeriods(h.machine) : OpenPeriods(h.machine) = {p}

\* A work is EN_PROCESO exactly while an attempt of it is open.  It is then its
\* only open one, it runs on the machine the work is assigned to, and the open
\* period of that machine is the one the attempt opened: so no two open
\* attempts share a machine.
RunningWork ==
  /\ \A w \in Works : work[w].status = "EN_PROCESO" <=> OpenAttempts(w) # {}
  /\ \A a \in attempts : a.end = Open =>
       /\ work[a.work].machine = a.machine
       /\ OpenAttempts(a.work) = {a}
       /\ NewPeriod(a.machine, "TRABAJANDO", a.work, a.start) \in history

\* The history is the attempts' own: each attempt is a TRABAJANDO period of
\* the same machine, work, start and end, and each period that names a work is
\* an attempt.  Metrics add both up and compare them.
PeriodOf(a) ==
  [machine |-> a.machine, state |-> "TRABAJANDO", work |-> a.work,
   start |-> a.start, end |-> a.end]

HistoryMatchesAttempts ==
  {h \in history : h.work # NoWork} = {PeriodOf(a) : a \in attempts}

\* The periods of a machine tile time from its first one on: none is empty or
\* reversed, none overlaps another, and where one ends the next begins.
Tiled ==
  /\ \A h \in history : h.end # Open =>
       /\ h.start < h.end
       /\ \E p \in PeriodsOf(h.machine) : p.start = h.end
  /\ \A h, p \in history : h.machine = p.machine /\ h # p =>
       \/ h.end # Open /\ h.end <= p.start
       \/ p.end # Open /\ p.end <= h.start

\* Attempts of a work are numbered 1, 2, ... without gap or repetition, so
\* UNIQUE (trabajo_id, numero_intento) never refuses an insert, and only the
\* last one can be open.
Numbered ==
  \A w \in Works :
    /\ LastNumber(w) \in Nat
    /\ {a.number : a \in AttemptsOf(w)} = 1..LastNumber(w)
    /\ \A a, b \in AttemptsOf(w) : a.number = b.number => a = b
    /\ \A a \in OpenAttempts(w), b \in AttemptsOf(w) : b.number <= a.number

\* A work is COMPLETADO exactly when an attempt succeeded, and then it was
\* its last: no piece is printed again after a success.
CompletedBySuccess ==
  \A w \in Works :
    /\ work[w].status = "COMPLETADO" <=> \E a \in AttemptsOf(w) : a.result = "EXITOSO"
    /\ \A a, b \in AttemptsOf(w) : a.result = "EXITOSO" => b.number <= a.number

\* An order is reported COMPLETADO only when all its works are.
CompleteOrderIsDone ==
  \A w \in Works : order[OrderOf[w]] = "COMPLETADO" => work[w].status = "COMPLETADO"

\* Past rows are kept: a closed period or attempt never changes, and an open
\* one only receives its end (and result).
Closes(old, new) == old.end = Open /\ new.end # Open /\ old.start = new.start
PastIsKept ==
  [][/\ \A h \in history : \/ h \in history'
                           \/ \E p \in history' : Closes(h, p) /\ p = [h EXCEPT !.end = p.end]
     /\ \A a \in attempts : \/ a \in attempts'
                            \/ \E b \in attempts' : Closes(a, b)
                                 /\ b = [a EXCEPT !.end = b.end, !.result = b.result]]_vars

\* A work runs on from the moment it starts until its own finish: no manual
\* change, assignment or patch moves it, ends its attempt or takes its machine.
\* The machine's controlled period and the attempt end in the same step.
EndsTogether ==
  [][\A a \in attempts : a.end = Open /\ a \notin attempts' =>
       /\ work'[a.work].status # "EN_PROCESO"
       /\ \E b \in attempts' : PeriodOf(b) \in history' /\ b.end # Open
            /\ b.work = a.work /\ b.number = a.number
            /\ NewPeriod(a.machine, "DISPONIBLE", NoWork, b.end) \in history']_vars

\* The tables implement the allocation of machines to works: a machine makes the
\* work of its open attempt, and what is COMPLETADO is done.
RunningOn(m) == {a \in attempts : a.machine = m /\ a.end = Open}
Making(m) == IF RunningOn(m) = {} THEN NoWork ELSE (CHOOSE a \in RunningOn(m) : TRUE).work

Alloc == INSTANCE Allocation WITH
  making <- [m \in Machines |-> Making(m)],
  done   <- {w \in Works : work[w].status = "COMPLETADO"}

ImplementsAllocation == Alloc!AllocationSpec
=============================================================================
