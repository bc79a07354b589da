---------------------------- MODULE Floor_proofs ----------------------------
(***************************************************************************)
(* What Floor keeps for every set of machines, works, orders and           *)
(* timestamps.                                                             *)
(***************************************************************************)
EXTENDS Floor, TLAPS

-----------------------------------------------------------------------------
(***************************************************************************)
(* Attempt numbers.                                                        *)
(***************************************************************************)

\* COALESCE(MAX(...), 0) of the numbers 1, ..., k is k.
LEMMA LastNumberOfRange ==
  ASSUME NEW S, NEW k \in Nat, {a.number : a \in S} = 1..k
  PROVE  (CHOOSE n \in {0} \cup {a.number : a \in S} : \A a \in S : a.number <= n) = k
<1> DEFINE N == {0} \cup {a.number : a \in S}
           Bound(n) == \A a \in S : a.number <= n
<1>1. \A a \in S : a.number \in 1..k
  OBVIOUS
<1>2. k \in N /\ Bound(k)
  BY <1>1
<1>3. ASSUME NEW n \in N, Bound(n)
      PROVE  n = k
  <2>1. n \in 0..k
    BY <1>3
  <2>2. CASE k = 0
    BY <2>1, <2>2
  <2>3. CASE k # 0
    <3>1. PICK a \in S : a.number = k
      BY <2>3
    <3>2. QED
      BY <3>1, <1>3, <2>1
  <2>4. QED
    BY <2>2, <2>3
<1> HIDE DEF N, Bound
<1>4. (CHOOSE n \in N : Bound(n)) = k
  BY <1>2, <1>3
<1>5. QED
  BY <1>4 DEF N, Bound

\* The same of the numbers a step leaves.
LEMMA LastNumberAfter ==
  ASSUME NEW w, NEW k \in Nat, {a.number : a \in AttemptsOf(w)'} = 1..k
  PROVE  LastNumber(w)' = k
<1>1. LastNumber(w)' = CHOOSE n \in {0} \cup {a.number : a \in AttemptsOf(w)'} :
                         \A a \in AttemptsOf(w)' : a.number <= n
  BY Zenon DEF LastNumber
<1> DEFINE S == AttemptsOf(w)'
<1> HIDE DEF S
<1>2. {a.number : a \in S} = 1..k
  BY DEF S
<1>3. (CHOOSE n \in {0} \cup {a.number : a \in S} : \A a \in S : a.number <= n) = k
  BY <1>2, LastNumberOfRange, Zenon
<1>4. QED
  BY <1>1, <1>3, Zenon DEF S

\* Numbering depends on the attempts alone.
LEMMA SameAttempts ==
  ASSUME Numbered, attempts' = attempts
  PROVE  Numbered'
<1>1. \A w : AttemptsOf(w)' = AttemptsOf(w) /\ OpenAttempts(w)' = OpenAttempts(w)
  BY DEF AttemptsOf, OpenAttempts
<1>2. \A w : LastNumber(w)' = LastNumber(w)
  BY <1>1, Zenon DEF LastNumber
<1>3. QED
  BY <1>1, <1>2, Zenon DEF Numbered

-----------------------------------------------------------------------------
(***************************************************************************)
(* The state history of a machine.                                         *)
(***************************************************************************)

\* Replacing the open period of a machine adds its first row, or closes the
\* only open one and adds a row.
LEMMA ReplaceCases ==
  ASSUME OneOpenPeriod, NEW m, NEW t, NEW new,
         ReplacePeriod(OpenPeriods(m), t, new)
  PROVE  \/ PeriodsOf(m) = {} /\ OpenPeriods(m) = {} /\ history' = history \cup {new}
         \/ \E p \in history :
              /\ p.machine = m /\ p.end = Open /\ OpenPeriods(m) = {p}
              /\ history' = (history \ {p}) \cup {[p EXCEPT !.end = t], new}
<1>1. CASE PeriodsOf(m) = {}
  <2>1. OpenPeriods(m) = {}
    BY <1>1 DEF OpenPeriods, PeriodsOf
  <2>2. QED
    BY <2>1, <1>1 DEF ReplacePeriod
<1>2. CASE PeriodsOf(m) # {}
  <2>1. PICK h \in history : h.machine = m
    BY <1>2 DEF PeriodsOf
  <2>2. PICK p \in OpenPeriods(m) : OpenPeriods(m) = {p}
    BY <2>1 DEF OneOpenPeriod
  <2>3. p \in history /\ p.machine = m /\ p.end = Open
    BY DEF OpenPeriods
  <2>4. history' = (history \ {p}) \cup {[q EXCEPT !.end = t] : q \in {p}} \cup {new}
    BY <2>2 DEF ReplacePeriod
  <2>5. history' = (history \ {p}) \cup {[p EXCEPT !.end = t], new}
    BY <2>4
  <2>6. QED
    BY <2>2, <2>3, <2>5
<1>3. QED
  BY <1>1, <1>2

HistoryInv == history \subseteq Period /\ OneOpenPeriod /\ Tiled

\* Any operation that replaces the open period of a machine, at a time after
\* its start, keeps the history of every machine gapless and in order.
LEMMA ReplaceKeepsHistory ==
  ASSUME FloorAssumption, HistoryInv,
         NEW m \in Machines, NEW t \in Times, NEW s \in States, NEW w \in Works \cup {NoWork},
         \A h \in OpenPeriods(m) : h.start < t,
         ReplacePeriod(OpenPeriods(m), t, NewPeriod(m, s, w, t))
  PROVE  HistoryInv'
<1> DEFINE new == NewPeriod(m, s, w, t)
<1>0. /\ new \in Period /\ new.machine = m /\ new.start = t /\ new.end = Open
  BY DEF NewPeriod, Period
<1>1. CASE PeriodsOf(m) = {} /\ history' = history \cup {new}
  <2>1. (history \subseteq Period)'
    BY <1>1, <1>0 DEF HistoryInv
  <2>2. \A h \in history : h.machine # m
    BY <1>1 DEF PeriodsOf
  <2>3. OneOpenPeriod'
    <3> SUFFICES ASSUME NEW h \in history'
                 PROVE  \E p \in OpenPeriods(h.machine)' : OpenPeriods(h.machine)' = {p}
      BY DEF OneOpenPeriod
    <3>1. CASE h = new
      <4>1. OpenPeriods(m)' = {new}
        BY <1>1, <1>0, <2>2 DEF OpenPeriods
      <4>2. QED
        BY <4>1, <3>1, <1>0
    <3>2. CASE h \in history
      <4>1. OpenPeriods(h.machine)' = OpenPeriods(h.machine)
        BY <1>1, <1>0, <2>2, <3>2 DEF OpenPeriods
      <4>2. QED
        BY <4>1, <3>2 DEF HistoryInv, OneOpenPeriod
    <3>3. QED
      BY <3>1, <3>2, <1>1
  <2>4. Tiled'
    BY <1>1, <1>0, <2>2 DEF HistoryInv, Tiled, PeriodsOf
  <2>5. QED
    BY <2>1, <2>3, <2>4 DEF HistoryInv
<1>2. ASSUME NEW p \in history, p.machine = m, p.end = Open, OpenPeriods(m) = {p},
             history' = (history \ {p}) \cup {[p EXCEPT !.end = t], new}
      PROVE  HistoryInv'
  <2> DEFINE c == [p EXCEPT !.end = t]
  <2>0. /\ p \in Period /\ p.start < t
        /\ c \in Period /\ c.machine = m /\ c.start = p.start /\ c.end = t
        /\ t # Open /\ p.start \in Nat /\ t \in Nat
    BY <1>2 DEF HistoryInv, Period, FloorAssumption
  <2> HIDE DEF c, new
  <2>1. (history \subseteq Period)'
    BY <1>2, <1>0, <2>0 DEF HistoryInv, c, new
  <2>2. \A h \in history : h.machine = m /\ h # p => h.end # Open
    BY <1>2 DEF OpenPeriods
  <2>3. OneOpenPeriod'
    <3> SUFFICES ASSUME NEW h \in history'
                 PROVE  \E q \in OpenPeriods(h.machine)' : OpenPeriods(h.machine)' = {q}
      BY DEF OneOpenPeriod
    <3>1. CASE h.machine = m
      <4>1. OpenPeriods(m)' = {new}
        BY <1>2, <1>0, <2>0, <2>2 DEF OpenPeriods, c, new
      <4>2. QED
        BY <4>1, <3>1
    <3>2. CASE h.machine # m
      <4>1. h \in history
        BY <3>2, <1>2, <1>0, <2>0 DEF c, new
      <4>2. OpenPeriods(h.machine)' = OpenPeriods(h.machine)
        BY <3>2, <1>2, <1>0, <2>0 DEF OpenPeriods, c, new
      <4>3. QED
        BY <4>1, <4>2 DEF HistoryInv, OneOpenPeriod
    <3>3. QED
      BY <3>1, <3>2
  <2>4. \A h \in history : h.machine = m /\ h # p => h.end # Open /\ h.end <= p.start
    BY <2>2, <1>2 DEF HistoryInv, Tiled
  <2>5. ASSUME NEW h \in history', h.end # Open
        PROVE  h.start < h.end /\ \E q \in PeriodsOf(h.machine)' : q.start = h.end
    <3>1. CASE h = c
      BY <3>1, <2>0, <1>0, <1>2 DEF PeriodsOf, c, new
    <3>2. CASE h \in history /\ h # p
      <4>1. h.start < h.end
        BY <3>2, <2>5 DEF HistoryInv, Tiled
      <4>2. PICK q \in PeriodsOf(h.machine) : q.start = h.end
        BY <3>2, <2>5 DEF HistoryInv, Tiled
      <4>3. CASE q = p
        <5>1. c \in PeriodsOf(h.machine)' /\ c.start = h.end
          BY <4>2, <4>3, <1>2, <2>0 DEF PeriodsOf, c, new
        <5>2. QED
          BY <5>1, <4>1
      <4>4. CASE q # p
        BY <4>1, <4>2, <4>4, <1>2 DEF PeriodsOf
      <4>5. QED
        BY <4>3, <4>4
    <3>3. h # new
      BY <2>5, <1>0 DEF new
    <3>4. QED
      BY <3>1, <3>2, <3>3, <1>2 DEF c, new
  <2>6. ASSUME NEW h \in history', NEW q \in history', h.machine = q.machine, h # q
        PROVE  (h.end # Open /\ h.end <= q.start) \/ (q.end # Open /\ q.end <= h.start)
    <3>1. \A x \in history' : x = c \/ x = new \/ (x \in history /\ x # p)
      BY <1>2 DEF c, new
    <3>2. ASSUME NEW x \in history, x # p, x.machine = m
          PROVE  x.end # Open /\ x.end <= c.start /\ x.end <= new.start
      <4>1. x.end # Open /\ x.end <= p.start
        BY <3>2, <2>4
      <4>2. x.end \in Nat
        BY <4>1, <3>2 DEF HistoryInv, Period, FloorAssumption
      <4>3. QED
        BY <4>1, <4>2, <2>0, <1>0 DEF new
    <3>3. c.end # Open /\ c.end <= new.start
      BY <2>0, <1>0 DEF new
    <3>4. c.machine = m /\ new.machine = m
      BY <2>0, <1>0 DEF new
    <3>5. CASE (h \in history /\ h # p) /\ (q \in history /\ q # p)
      BY <3>5, <2>6 DEF HistoryInv, Tiled
    <3>6. CASE h = c \/ h = new
      BY <3>6, <3>1, <3>2, <3>3, <3>4, <2>6
    <3>7. CASE q = c \/ q = new
      BY <3>7, <3>1, <3>2, <3>3, <3>4, <2>6
    <3>8. QED
      BY <3>1, <3>5, <3>6, <3>7
  <2>7. Tiled'
    BY <2>5, <2>6 DEF Tiled
  <2>8. QED
    BY <2>1, <2>3, <2>7 DEF HistoryInv
<1>3. QED
  BY <1>1, <1>2, ReplaceCases DEF HistoryInv

-----------------------------------------------------------------------------
(***************************************************************************)
(* The inductive invariant: each part needs the others.  An attempt closes *)
(* the period it opened because that is the open one of its machine; the   *)
(* open period cannot be another work's because the tables match; a number *)
(* is free because the numbers used are a range.                           *)
(***************************************************************************)
FloorInv ==
  /\ TypeOK
  /\ OneOpenPeriod
  /\ Tiled
  /\ RunningWork
  /\ HistoryMatchesAttempts
  /\ Numbered
  /\ CompletedBySuccess
  /\ CompleteOrderIsDone

LEMMA InitFloorInv == FloorAssumption /\ Init => FloorInv
<1> SUFFICES ASSUME FloorAssumption, Init
             PROVE  FloorInv
  OBVIOUS
<1>1. TypeOK
  BY DEF Init, TypeOK, WorkRow, WorkStatuses, OrderStatuses
<1>2. OneOpenPeriod /\ Tiled
  BY DEF Init, OneOpenPeriod, Tiled
<1>3. \A w \in Works : AttemptsOf(w) = {} /\ OpenAttempts(w) = {} /\ work[w].status = "PENDIENTE"
  BY DEF Init, AttemptsOf, OpenAttempts
<1>4. RunningWork
  BY <1>3 DEF Init, RunningWork
<1>5. HistoryMatchesAttempts
  BY DEF Init, HistoryMatchesAttempts
<1>6. Numbered
  <2> SUFFICES ASSUME NEW w \in Works
               PROVE  /\ LastNumber(w) \in Nat
                      /\ {a.number : a \in AttemptsOf(w)} = 1..LastNumber(w)
                      /\ \A a, b \in AttemptsOf(w) : a.number = b.number => a = b
                      /\ \A a \in OpenAttempts(w), b \in AttemptsOf(w) : b.number <= a.number
    BY Zenon DEF Numbered
  <2>1. AttemptsOf(w) = {} /\ {a.number : a \in AttemptsOf(w)} = 1..0
    BY <1>3
  <2>2. LastNumber(w) = 0
    BY <2>1, LastNumberOfRange, Zenon DEF LastNumber
  <2>3. QED
    BY <2>1, <2>2
<1>7. CompletedBySuccess
  BY <1>3 DEF CompletedBySuccess
<1>8. CompleteOrderIsDone
  BY DEF Init, CompleteOrderIsDone, FloorAssumption
<1>9. QED
  BY <1>1, <1>2, <1>4, <1>5, <1>6, <1>7, <1>8 DEF FloorInv

\* An assignment only changes the machine of a pending work.
LEMMA AssignKeeps ==
  ASSUME FloorAssumption, FloorInv, NEW w \in Works, NEW m \in Machines, AssignMachine(w, m)
  PROVE  FloorInv'
<1> USE DEF FloorInv
<1>0. /\ work' = [work EXCEPT ![w].machine = m]
      /\ UNCHANGED <<machine, order, attempts, history>>
      /\ work[w].status = "PENDIENTE"
  BY DEF AssignMachine
<1>1. /\ work' \in [Works -> WorkRow]
      /\ \A v \in Works : work'[v].status = work[v].status
      /\ \A v \in Works \ {w} : work'[v] = work[v]
  BY <1>0 DEF TypeOK, WorkRow
<1>2. TypeOK'
  BY <1>0, <1>1 DEF TypeOK
<1>3. OneOpenPeriod' /\ Tiled' /\ HistoryMatchesAttempts'
  BY <1>0 DEF OneOpenPeriod, Tiled, HistoryMatchesAttempts, OpenPeriods, PeriodsOf, PeriodOf
<1>4. RunningWork'
  <2>1. \A v : OpenAttempts(v)' = OpenAttempts(v)
    BY <1>0 DEF OpenAttempts
  <2>2. \A a \in attempts : a.work \in Works
    BY DEF TypeOK, Attempt
  <2>3. \A a \in attempts : a.end = Open => a.work # w
    BY <1>0, <2>2 DEF RunningWork, OpenAttempts
  <2>4. QED
    BY <1>0, <1>1, <2>1, <2>2, <2>3 DEF RunningWork, NewPeriod
<1>5. Numbered'
  BY <1>0, SameAttempts
<1>6. CompletedBySuccess'
  BY <1>0, <1>1 DEF CompletedBySuccess, AttemptsOf
<1>7. CompleteOrderIsDone'
  BY <1>0, <1>1 DEF CompleteOrderIsDone
<1>8. QED
  BY <1>2, <1>3, <1>4, <1>5, <1>6, <1>7

\* A patch of a machine touches no row the invariant is about.
LEMMA UpdateKeeps ==
  ASSUME FloorAssumption, FloorInv, NEW m \in Machines, NEW row \in MachineRow, UpdateMachine(m, row)
  PROVE  FloorInv'
<1> USE DEF FloorInv
<1>0. /\ machine' \in [Machines -> MachineRow]
      /\ UNCHANGED <<work, order, attempts, history>>
  BY DEF UpdateMachine, TypeOK
<1>1. TypeOK'
  BY <1>0 DEF TypeOK
<1>2. OneOpenPeriod' /\ Tiled' /\ HistoryMatchesAttempts'
  BY <1>0 DEF OneOpenPeriod, Tiled, HistoryMatchesAttempts, OpenPeriods, PeriodsOf, PeriodOf
<1>3. RunningWork'
  BY <1>0 DEF RunningWork, NewPeriod, OpenAttempts
<1>4. Numbered' /\ CompletedBySuccess' /\ CompleteOrderIsDone'
  BY <1>0, SameAttempts DEF AttemptsOf, CompletedBySuccess, CompleteOrderIsDone
<1>5. QED
  BY <1>1, <1>2, <1>3, <1>4

\* Replacing a period no work controls leaves the controlled ones alone.
LEMMA ControlledStay ==
  ASSUME FloorInv, NEW m \in Machines, NEW t \in Times, NEW new,
         \A h \in OpenPeriods(m) : h.work = NoWork,
         ReplacePeriod(OpenPeriods(m), t, new)
  PROVE  /\ new \in history'
         /\ \A h : h.work # NoWork /\ h # new => (h \in history <=> h \in history')
<1>1. CASE PeriodsOf(m) = {} /\ OpenPeriods(m) = {} /\ history' = history \cup {new}
  BY <1>1
<1>2. ASSUME NEW p \in history, OpenPeriods(m) = {p},
             history' = (history \ {p}) \cup {[p EXCEPT !.end = t], new}
      PROVE  /\ new \in history'
             /\ \A h : h.work # NoWork /\ h # new => (h \in history <=> h \in history')
  <2>1. p.work = NoWork /\ p \in Period
    BY <1>2 DEF FloorInv, TypeOK
  <2>2. [p EXCEPT !.end = t].work = NoWork
    BY <2>1 DEF Period
  <2>3. QED
    BY <1>2, <2>1, <2>2
<1>3. OneOpenPeriod
  BY DEF FloorInv
<1>4. QED
  BY <1>1, <1>2, <1>3, ReplaceCases

\* A manual change replaces a period no work controls by another such one.
LEMMA ChangeKeeps ==
  ASSUME FloorAssumption, FloorInv, NEW m \in Machines, NEW s \in States, NEW t \in Times,
         ChangeState(m, s, t)
  PROVE  FloorInv'
<1> USE DEF FloorInv
<1> DEFINE new == NewPeriod(m, s, NoWork, t)
<1>0. /\ ReplacePeriod(OpenPeriods(m), t, new)
      /\ UNCHANGED <<machine, work, order, attempts>>
      /\ \A h \in OpenPeriods(m) : h.start < t /\ h.work = NoWork
  BY DEF ChangeState
<1>1. HistoryInv'
  BY <1>0, ReplaceKeepsHistory DEF HistoryInv, TypeOK
<1>2. TypeOK' /\ OneOpenPeriod' /\ Tiled'
  BY <1>0, <1>1 DEF TypeOK, HistoryInv
<1>3. \A h : h.work # NoWork => (h \in history <=> h \in history')
  <2>1. new.work = NoWork
    BY DEF NewPeriod
  <2>2. QED
    BY <1>0, <2>1, ControlledStay
<1>4. HistoryMatchesAttempts'
  BY <1>0, <1>3 DEF HistoryMatchesAttempts, PeriodOf
<1>5. RunningWork'
  <2>1. \A v : OpenAttempts(v)' = OpenAttempts(v)
    BY <1>0 DEF OpenAttempts
  <2>2. ASSUME NEW a \in attempts, a.end = Open
        PROVE  NewPeriod(a.machine, "TRABAJANDO", a.work, a.start) \in history'
    <3>1. NewPeriod(a.machine, "TRABAJANDO", a.work, a.start) \in history
      BY <2>2 DEF RunningWork
    <3>2. a.work # NoWork
      BY <2>2 DEF TypeOK, Attempt, FloorAssumption
    <3>3. QED
      BY <3>1, <3>2, <1>3 DEF NewPeriod
  <2>3. QED
    BY <1>0, <2>1, <2>2 DEF RunningWork, NewPeriod
<1>6. Numbered' /\ CompletedBySuccess' /\ CompleteOrderIsDone'
  BY <1>0, SameAttempts DEF AttemptsOf, CompletedBySuccess, CompleteOrderIsDone
<1>7. QED
  BY <1>2, <1>4, <1>5, <1>6

\* A start opens an attempt and its period where nothing was running.
LEMMA StartKeeps ==
  ASSUME FloorAssumption, FloorInv, NEW w \in Works, NEW t \in Times, StartWork(w, t)
  PROVE  FloorInv'
<1> DEFINE m == work[w].machine
           k == LastNumber(w)
           n == [work |-> w, number |-> k + 1, machine |-> m,
                 start |-> t, end |-> Open, result |-> Open]
           new == NewPeriod(m, "TRABAJANDO", w, t)
<1>0. /\ work[w].status = "PENDIENTE" /\ m \in Machines
      /\ \A h \in OpenPeriods(m) : h.state = "DISPONIBLE" /\ h.start < t
      /\ attempts' = attempts \cup {n}
      /\ ReplacePeriod(OpenPeriods(m), t, new)
      /\ work' = [work EXCEPT ![w].status = "EN_PROCESO"]
      /\ order' = [order EXCEPT ![OrderOf[w]] = "EN_PRODUCCION"]
      /\ machine' = machine
  BY DEF StartWork, FreeBefore, BeginAttempt, FloorInv, TypeOK, WorkRow
<1>1. k \in Nat /\ {a.number : a \in AttemptsOf(w)} = 1..k
  BY DEF FloorInv, Numbered
<1>2. n \in Attempt
  BY <1>0, <1>1 DEF Attempt
<1>3. PeriodOf(n) = new
  BY DEF PeriodOf, NewPeriod
<1>4. new.work = w /\ w # NoWork
  BY DEF NewPeriod, FloorAssumption
<1>5. OpenAttempts(w) = {}
  BY <1>0 DEF FloorInv, RunningWork
<1>6. \A h \in OpenPeriods(m) : h.work = NoWork
  <2> SUFFICES ASSUME NEW h \in OpenPeriods(m), h.work # NoWork
               PROVE  FALSE
    OBVIOUS
  <2>1. PICK a \in attempts : h = PeriodOf(a)
    BY DEF FloorInv, HistoryMatchesAttempts, OpenPeriods
  <2>2. QED
    BY <1>0, <2>1 DEF PeriodOf
<1>7. /\ new \in history'
      /\ \A h : h.work # NoWork /\ h # new => (h \in history <=> h \in history')
  BY <1>0, <1>6, ControlledStay
<1>8. /\ work' \in [Works -> WorkRow]
      /\ work'[w].status = "EN_PROCESO" /\ work'[w].machine = m
      /\ \A v \in Works \ {w} : work'[v] = work[v]
  BY <1>0 DEF FloorInv, TypeOK, WorkRow, WorkStatuses
<1> HIDE DEF n, new
<1>9. n.work = w /\ n.number = k + 1 /\ n.machine = m /\ n.start = t /\ n.end = Open /\ n.result = Open
  BY DEF n
<1>10. /\ \A v \in Works \ {w} : /\ AttemptsOf(v)' = AttemptsOf(v)
                                 /\ OpenAttempts(v)' = OpenAttempts(v)
       /\ AttemptsOf(w)' = AttemptsOf(w) \cup {n}
       /\ OpenAttempts(w)' = {n}
  BY <1>0, <1>5, <1>9 DEF AttemptsOf, OpenAttempts
<1>11. HistoryInv'
  BY <1>0, ReplaceKeepsHistory DEF FloorInv, HistoryInv, TypeOK, FloorAssumption, new
<1>12. TypeOK'
  <2>1. order' \in [Orders -> OrderStatuses]
    BY <1>0 DEF FloorInv, TypeOK, OrderStatuses
  <2>2. attempts' \subseteq Attempt
    BY <1>0, <1>2 DEF FloorInv, TypeOK
  <2>3. QED
    BY <1>0, <1>8, <1>11, <2>1, <2>2 DEF FloorInv, TypeOK, HistoryInv
<1>13. RunningWork'
  <2>1. ASSUME NEW v \in Works
        PROVE  work'[v].status = "EN_PROCESO" <=> OpenAttempts(v)' # {}
    BY <1>8, <1>10 DEF FloorInv, RunningWork
  <2>2. ASSUME NEW a \in attempts', a.end = Open
        PROVE  /\ work'[a.work].machine = a.machine
               /\ OpenAttempts(a.work)' = {a}
               /\ NewPeriod(a.machine, "TRABAJANDO", a.work, a.start) \in history'
    <3>1. CASE a = n
      BY <3>1, <1>7, <1>8, <1>9, <1>10 DEF new
    <3>2. CASE a # n
      <4>1. a \in attempts /\ a.work \in Works /\ a.work # w
        BY <3>2, <2>2, <1>0, <1>5 DEF OpenAttempts, FloorInv, TypeOK, Attempt
      <4>2. /\ work[a.work].machine = a.machine /\ OpenAttempts(a.work) = {a}
            /\ NewPeriod(a.machine, "TRABAJANDO", a.work, a.start) \in history
        BY <4>1, <2>2 DEF FloorInv, RunningWork
      <4>3. NewPeriod(a.machine, "TRABAJANDO", a.work, a.start).work = a.work /\ a.work # NoWork
        BY <4>1 DEF NewPeriod, FloorAssumption
      <4>4. NewPeriod(a.machine, "TRABAJANDO", a.work, a.start) \in history'
        BY <4>1, <4>2, <4>3, <1>4, <1>7
      <4>5. QED
        BY <4>1, <4>2, <4>4, <1>8, <1>10
    <3>3. QED
      BY <3>1, <3>2
  <2>3. QED
    BY <2>1, <2>2 DEF RunningWork, NewPeriod
<1>14. HistoryMatchesAttempts'
  <2>1. {h \in history' : h.work # NoWork} = {h \in history : h.work # NoWork} \cup {new}
    BY <1>4, <1>7
  <2>2. {PeriodOf(a) : a \in attempts'} = {PeriodOf(a) : a \in attempts} \cup {new}
    BY <1>0, <1>3
  <2>3. QED
    BY <2>1, <2>2 DEF FloorInv, HistoryMatchesAttempts, PeriodOf
<1>15. Numbered'
  <2>1. ASSUME NEW v \in Works
        PROVE  /\ LastNumber(v)' \in Nat
               /\ {a.number : a \in AttemptsOf(v)'} = 1..LastNumber(v)'
               /\ \A a, b \in AttemptsOf(v)' : a.number = b.number => a = b
               /\ \A a \in OpenAttempts(v)', b \in AttemptsOf(v)' : b.number <= a.number
    <3>1. CASE v # w
      <4>1. LastNumber(v)' = LastNumber(v)
        BY <3>1, <1>10, Zenon DEF LastNumber
      <4>2. QED
        BY <3>1, <4>1, <1>10 DEF FloorInv, Numbered
    <3>2. CASE v = w
      <4>1. \A a \in AttemptsOf(w) : a.number \in 1..k
        BY <1>1
      <4>2. {a.number : a \in AttemptsOf(w)'} = 1..(k + 1)
        <5>1. {a.number : a \in AttemptsOf(w)'} = {a.number : a \in AttemptsOf(w)} \cup {k + 1}
          BY <1>9, <1>10
        <5>2. QED
          BY <5>1, <1>1
      <4>3. LastNumber(w)' = k + 1
        BY <4>2, <1>1, LastNumberAfter
      <4>4. \A a, b \in AttemptsOf(w)' : a.number = b.number => a = b
        BY <4>1, <1>1, <1>9, <1>10 DEF FloorInv, Numbered
      <4>5. \A a \in OpenAttempts(w)', b \in AttemptsOf(w)' : b.number <= a.number
        BY <4>1, <1>1, <1>9, <1>10
      <4>6. QED
        BY <3>2, <4>2, <4>3, <4>4, <4>5, <1>1
    <3>3. QED
      BY <3>1, <3>2
  <2>2. QED
    BY <2>1 DEF Numbered
<1>16. CompletedBySuccess'
  <2>1. \A a \in AttemptsOf(w)' : a.result # "EXITOSO"
    BY <1>0, <1>9, <1>10 DEF FloorInv, CompletedBySuccess, FloorAssumption
  <2>2. ASSUME NEW v \in Works
        PROVE  /\ work'[v].status = "COMPLETADO" <=> \E a \in AttemptsOf(v)' : a.result = "EXITOSO"
               /\ \A a, b \in AttemptsOf(v)' : a.result = "EXITOSO" => b.number <= a.number
    BY <2>1, <1>8, <1>10 DEF FloorInv, CompletedBySuccess
  <2>3. QED
    BY <2>2 DEF CompletedBySuccess
<1>17. CompleteOrderIsDone'
  BY <1>0, <1>8 DEF FloorInv, CompleteOrderIsDone, TypeOK, FloorAssumption
<1>18. QED
  BY <1>11, <1>12, <1>13, <1>14, <1>15, <1>16, <1>17 DEF FloorInv, HistoryInv

\* A finish closes its attempt and the period that attempt opened, together.
LEMMA FinishKeeps ==
  ASSUME FloorAssumption, FloorInv,
         NEW w \in Works, NEW result \in Results, NEW t \in Times, FinishWork(w, result, t)
  PROVE  FloorInv'
<1>1. PICK a \in OpenAttempts(w), s \in OrderStatusesAfter(w, result) :
        /\ a.start < t
        /\ EndAttempt(a, OpenPeriods(a.machine), result, t, s)
  BY DEF FinishWork
<1> DEFINE m == a.machine
           b == [a EXCEPT !.end = t, !.result = result]
           p == NewPeriod(m, "TRABAJANDO", w, a.start)
           c == [p EXCEPT !.end = t]
           new == NewPeriod(m, "DISPONIBLE", NoWork, t)
<1>2. /\ a \in attempts /\ a \in Attempt /\ a.work = w /\ a.end = Open /\ m \in Machines
      /\ OpenAttempts(w) = {a} /\ p \in history /\ a \in AttemptsOf(w)
  BY DEF OpenAttempts, AttemptsOf, FloorInv, TypeOK, Attempt, RunningWork
<1>3. /\ work[w].status = "EN_PROCESO"
      /\ attempts' = (attempts \ {a}) \cup {b}
      /\ ReplacePeriod(OpenPeriods(m), t, new)
      /\ work' = [work EXCEPT ![w].status = StatusAfter(result)]
      /\ order' = [order EXCEPT ![OrderOf[w]] = s]
      /\ machine' = machine
  BY <1>1, <1>2 DEF FinishWork, EndAttempt
<1>4. /\ b \in Attempt /\ b.work = w /\ b.number = a.number /\ b.end = t /\ b.result = result
      /\ b # a /\ t # Open
  BY <1>2 DEF Attempt, FloorAssumption
<1>5. /\ OpenPeriods(m) = {p} /\ p.machine = m /\ p.work = w /\ p.start = a.start /\ p.end = Open
      /\ w # NoWork
  BY <1>2 DEF FloorInv, OneOpenPeriod, OpenPeriods, NewPeriod, FloorAssumption
<1>6. PeriodOf(a) = p /\ PeriodOf(b) = c /\ c.work = w /\ new.work = NoWork
  BY <1>2, <1>4 DEF PeriodOf, NewPeriod, Attempt
<1>7. history' = (history \ {p}) \cup {c, new}
  <2>1. history' = (history \ {p}) \cup {[h EXCEPT !.end = t] : h \in {p}} \cup {new}
    BY <1>3, <1>5 DEF ReplacePeriod
  <2>2. QED
    BY <2>1
<1>8. /\ work' \in [Works -> WorkRow]
      /\ work'[w].status = StatusAfter(result) /\ work'[w].status # "EN_PROCESO"
      /\ \A v \in Works \ {w} : work'[v] = work[v]
  BY <1>3 DEF FloorInv, TypeOK, WorkRow, WorkStatuses, StatusAfter
<1>9. HistoryInv'
  <2>1. \A h \in OpenPeriods(m) : h.start < t
    BY <1>1, <1>5
  <2>2. "DISPONIBLE" \in States
    BY DEF FloorAssumption
  <2>3. QED
    BY <1>2, <1>3, <2>1, <2>2, ReplaceKeepsHistory DEF FloorInv, HistoryInv, TypeOK
<1> HIDE DEF b, p, c, new
<1>10. /\ \A v \in Works \ {w} : /\ AttemptsOf(v)' = AttemptsOf(v)
                                 /\ OpenAttempts(v)' = OpenAttempts(v)
       /\ AttemptsOf(w)' = (AttemptsOf(w) \ {a}) \cup {b}
       /\ OpenAttempts(w)' = {}
  BY <1>2, <1>3, <1>4 DEF AttemptsOf, OpenAttempts
<1>11. \A x \in attempts \ {a} : x.end = Open => x.work \in Works /\ x.work # w
  BY <1>2 DEF OpenAttempts, FloorInv, TypeOK, Attempt
<1>12. TypeOK'
  <2>1. order' \in [Orders -> OrderStatuses]
    BY <1>3 DEF FloorInv, TypeOK, OrderStatuses, OrderStatusesAfter
  <2>2. attempts' \subseteq Attempt
    BY <1>3, <1>4 DEF FloorInv, TypeOK
  <2>3. QED
    BY <1>3, <1>8, <1>9, <2>1, <2>2 DEF FloorInv, TypeOK, HistoryInv
<1>13. RunningWork'
  <2>1. ASSUME NEW v \in Works
        PROVE  work'[v].status = "EN_PROCESO" <=> OpenAttempts(v)' # {}
    BY <1>8, <1>10 DEF FloorInv, RunningWork
  <2>2. ASSUME NEW x \in attempts', x.end = Open
        PROVE  /\ work'[x.work].machine = x.machine
               /\ OpenAttempts(x.work)' = {x}
               /\ NewPeriod(x.machine, "TRABAJANDO", x.work, x.start) \in history'
    <3>1. x \in attempts /\ x.work \in Works /\ x.work # w
      BY <2>2, <1>3, <1>4, <1>11
    <3>2. /\ work[x.work].machine = x.machine /\ OpenAttempts(x.work) = {x}
          /\ NewPeriod(x.machine, "TRABAJANDO", x.work, x.start) \in history
      BY <3>1, <2>2 DEF FloorInv, RunningWork
    <3>3. NewPeriod(x.machine, "TRABAJANDO", x.work, x.start) # p
      BY <3>1, <1>5 DEF NewPeriod
    <3>4. QED
      BY <3>1, <3>2, <3>3, <1>7, <1>8, <1>10
  <2>3. QED
    BY <2>1, <2>2 DEF RunningWork, NewPeriod
<1>14. HistoryMatchesAttempts'
  <2>1. {h \in history' : h.work # NoWork} = ({h \in history : h.work # NoWork} \ {p}) \cup {c}
    BY <1>5, <1>6, <1>7
  <2>2. \A x \in attempts \ {a} : PeriodOf(x) # p
    BY <1>5, <1>11 DEF PeriodOf
  <2>3. {PeriodOf(x) : x \in attempts'} = ({PeriodOf(x) : x \in attempts} \ {p}) \cup {c}
    <3>1. {PeriodOf(x) : x \in attempts'} = {PeriodOf(x) : x \in attempts \ {a}} \cup {c}
      BY <1>3, <1>6
    <3>2. {PeriodOf(x) : x \in attempts \ {a}} = {PeriodOf(x) : x \in attempts} \ {p}
      BY <2>2, <1>6
    <3>3. QED
      BY <3>1, <3>2
  <2>4. QED
    BY <2>1, <2>3 DEF FloorInv, HistoryMatchesAttempts, PeriodOf
<1>15. Numbered'
  <2>1. ASSUME NEW v \in Works
        PROVE  /\ LastNumber(v)' \in Nat
               /\ {x.number : x \in AttemptsOf(v)'} = 1..LastNumber(v)'
               /\ \A x, y \in AttemptsOf(v)' : x.number = y.number => x = y
               /\ \A x \in OpenAttempts(v)', y \in AttemptsOf(v)' : y.number <= x.number
    <3>1. CASE v # w
      <4>1. LastNumber(v)' = LastNumber(v)
        BY <3>1, <1>10, Zenon DEF LastNumber
      <4>2. QED
        BY <3>1, <4>1, <1>10 DEF FloorInv, Numbered
    <3>2. CASE v = w
      <4>1. {x.number : x \in AttemptsOf(w)'} = {x.number : x \in AttemptsOf(w)}
        BY <1>2, <1>4, <1>10
      <4>2. LastNumber(w) \in Nat /\ {x.number : x \in AttemptsOf(w)} = 1..LastNumber(w)
        BY DEF FloorInv, Numbered
      <4>3. LastNumber(w)' = LastNumber(w)
        BY <4>1, <4>2, LastNumberAfter
      <4>4. \A x, y \in AttemptsOf(w)' : x.number = y.number => x = y
        BY <1>2, <1>4, <1>10 DEF FloorInv, Numbered
      <4>5. QED
        BY <3>2, <4>1, <4>2, <4>3, <4>4, <1>10
    <3>3. QED
      BY <3>1, <3>2
  <2>2. QED
    BY <2>1 DEF Numbered
<1>16. CompletedBySuccess'
  <2>1. \A x \in AttemptsOf(w) : x.result # "EXITOSO"
    BY <1>3 DEF FloorInv, CompletedBySuccess
  <2>2. \A x \in AttemptsOf(w) : x.number <= b.number
    BY <1>2, <1>4 DEF FloorInv, Numbered
  <2>3. b.number <= b.number
    BY <1>4 DEF Attempt
  <2>4. \A x, y \in AttemptsOf(w)' : x.result = "EXITOSO" => y.number <= x.number
    BY <1>10, <2>1, <2>2, <2>3
  <2>5. work'[w].status = "COMPLETADO" <=> \E x \in AttemptsOf(w)' : x.result = "EXITOSO"
    BY <1>4, <1>8, <1>10, <2>1 DEF StatusAfter
  <2>6. QED
    BY <2>4, <2>5, <1>8, <1>10 DEF FloorInv, CompletedBySuccess
<1>17. CompleteOrderIsDone'
  <2> SUFFICES ASSUME NEW v \in Works, order'[OrderOf[v]] = "COMPLETADO"
               PROVE  work'[v].status = "COMPLETADO"
    BY DEF CompleteOrderIsDone
  <2>1. CASE OrderOf[v] = OrderOf[w]
    <3>1. s = "COMPLETADO"
      BY <2>1, <1>3 DEF FloorInv, TypeOK, FloorAssumption
    <3>2. result = "EXITOSO" /\ \A u \in Works \ {w} : OrderOf[u] = OrderOf[w] => work[u].status = "COMPLETADO"
      BY <3>1 DEF OrderStatusesAfter
    <3>3. QED
      BY <2>1, <3>2, <1>8 DEF StatusAfter
  <2>2. CASE OrderOf[v] # OrderOf[w]
    BY <2>2, <1>3, <1>8 DEF FloorInv, TypeOK, FloorAssumption, CompleteOrderIsDone
  <2>3. QED
    BY <2>1, <2>2
<1>18. QED
  BY <1>9, <1>12, <1>13, <1>14, <1>15, <1>16, <1>17 DEF FloorInv, HistoryInv

LEMMA NextKeeps ==
  ASSUME FloorAssumption, FloorInv, [Next]_vars
  PROVE  FloorInv'
<1>1. CASE Next
  BY <1>1, AssignKeeps, StartKeeps, FinishKeeps, ChangeKeeps, UpdateKeeps DEF Next
<1>2. CASE UNCHANGED vars
  <2>1. UNCHANGED <<machine, work, order, attempts, history>>
    BY <1>2 DEF vars
  <2>2. TypeOK' /\ Numbered'
    BY <2>1, SameAttempts DEF FloorInv, TypeOK
  <2>3. OneOpenPeriod' /\ Tiled' /\ HistoryMatchesAttempts'
    BY <2>1 DEF FloorInv, OneOpenPeriod, Tiled, HistoryMatchesAttempts, OpenPeriods, PeriodsOf, PeriodOf
  <2>4. RunningWork' /\ CompletedBySuccess' /\ CompleteOrderIsDone'
    BY <2>1 DEF FloorInv, RunningWork, NewPeriod, OpenAttempts, AttemptsOf, CompletedBySuccess, CompleteOrderIsDone
  <2>5. QED
    BY <2>2, <2>3, <2>4 DEF FloorInv
<1>3. QED
  BY <1>1, <1>2

\* The invariant holds in every state of every behaviour.
THEOREM FloorIsInvariant == Spec => []FloorInv
<1>1. Init => FloorInv
  BY InitFloorInv, FloorAssumption
<1>2. FloorInv /\ [Next]_vars => FloorInv'
  BY NextKeeps, FloorAssumption
<1>3. QED
  BY <1>1, <1>2, PTL DEF Spec

\* Columns keep values of their domains.
THEOREM FloorTypeCorrect == Spec => []TypeOK
<1>1. FloorInv => TypeOK
  BY DEF FloorInv
<1>2. QED
  BY <1>1, FloorIsInvariant, PTL

\* The unique index on open periods never refuses what an operation inserts.
THEOREM OnePeriodIsOpen == Spec => []OneOpenPeriod
<1>1. FloorInv => OneOpenPeriod
  BY DEF FloorInv
<1>2. QED
  BY <1>1, FloorIsInvariant, PTL

\* A work in process, its open attempt and its machine's open period agree.
THEOREM RunningWorkAgrees == Spec => []RunningWork
<1>1. FloorInv => RunningWork
  BY DEF FloorInv
<1>2. QED
  BY <1>1, FloorIsInvariant, PTL

\* The state history and the attempts tell the same story.
THEOREM TablesMatch == Spec => []HistoryMatchesAttempts
<1>1. FloorInv => HistoryMatchesAttempts
  BY DEF FloorInv
<1>2. QED
  BY <1>1, FloorIsInvariant, PTL

\* The periods of a machine have no gap and no overlap.
THEOREM HistoryIsTiled == Spec => []Tiled
<1>1. FloorInv => Tiled
  BY DEF FloorInv
<1>2. QED
  BY <1>1, FloorIsInvariant, PTL

\* Attempt numbers are a range, and the open attempt is the last.
THEOREM AttemptsAreNumbered == Spec => []Numbered
<1>1. FloorInv => Numbered
  BY DEF FloorInv
<1>2. QED
  BY <1>1, FloorIsInvariant, PTL

\* A work is complete by exactly one success, its last attempt.
THEOREM SuccessCompletes == Spec => []CompletedBySuccess
<1>1. FloorInv => CompletedBySuccess
  BY DEF FloorInv
<1>2. QED
  BY <1>1, FloorIsInvariant, PTL

\* No order is reported complete before its works are.
THEOREM CompleteOrdersAreDone == Spec => []CompleteOrderIsDone
<1>1. FloorInv => CompleteOrderIsDone
  BY DEF FloorInv
<1>2. QED
  BY <1>1, FloorIsInvariant, PTL

-----------------------------------------------------------------------------
(***************************************************************************)
(* What a step may never do to the past.                                   *)
(***************************************************************************)
Kept(h) ==
  h \in history' \/ \E p \in history' : Closes(h, p) /\ p = [h EXCEPT !.end = p.end]

\* A replaced period is kept with its end, the others as they are.
LEMMA ReplaceKeepsPast ==
  ASSUME FloorAssumption, FloorInv, NEW m \in Machines, NEW t \in Times, NEW new,
         ReplacePeriod(OpenPeriods(m), t, new)
  PROVE  \A h \in history : Kept(h)
<1>1. CASE PeriodsOf(m) = {} /\ OpenPeriods(m) = {} /\ history' = history \cup {new}
  BY <1>1 DEF Kept
<1>2. ASSUME NEW p \in history, p.end = Open,
             history' = (history \ {p}) \cup {[p EXCEPT !.end = t], new}
      PROVE  \A h \in history : Kept(h)
  <2> DEFINE c == [p EXCEPT !.end = t]
  <2>1. p \in Period /\ t # Open
    BY <1>2 DEF FloorInv, TypeOK, FloorAssumption
  <2>2. c.end = t /\ c.start = p.start /\ c = [p EXCEPT !.end = c.end] /\ c \in history'
    BY <2>1, <1>2 DEF Period
  <2>3. Kept(p)
    BY <2>1, <2>2, <1>2 DEF Kept, Closes
  <2>4. QED
    BY <2>3, <1>2 DEF Kept
<1>3. OneOpenPeriod
  BY DEF FloorInv
<1>4. QED
  BY <1>1, <1>2, <1>3, ReplaceCases

KeptAttempt(a) ==
  a \in attempts' \/ \E b \in attempts' :
    Closes(a, b) /\ b = [a EXCEPT !.end = b.end, !.result = b.result]

LEMMA StepKeepsPast ==
  ASSUME FloorAssumption, FloorInv, Next
  PROVE  /\ \A h \in history : Kept(h)
         /\ \A a \in attempts : KeptAttempt(a)
<1>1. ASSUME NEW w \in Works, NEW m \in Machines, AssignMachine(w, m)
      PROVE  history' = history /\ attempts' = attempts
  BY <1>1 DEF AssignMachine
<1>2. ASSUME NEW m \in Machines, NEW row \in MachineRow, UpdateMachine(m, row)
      PROVE  history' = history /\ attempts' = attempts
  BY <1>2 DEF UpdateMachine
<1>3. ASSUME NEW m \in Machines, NEW s \in States, NEW t \in Times, ChangeState(m, s, t)
      PROVE  (\A h \in history : Kept(h)) /\ attempts' = attempts
  BY <1>3, ReplaceKeepsPast DEF ChangeState
<1>4. ASSUME NEW w \in Works, NEW t \in Times, StartWork(w, t)
      PROVE  (\A h \in history : Kept(h)) /\ attempts \subseteq attempts'
  <2>1. work[w].machine \in Machines
    BY <1>4 DEF StartWork, FloorInv, TypeOK, WorkRow
  <2>2. \A h \in history : Kept(h)
    BY <1>4, <2>1, ReplaceKeepsPast DEF StartWork, BeginAttempt
  <2>3. QED
    BY <1>4, <2>2 DEF StartWork, BeginAttempt
<1>5. ASSUME NEW w \in Works, NEW r \in Results, NEW t \in Times, FinishWork(w, r, t)
      PROVE  (\A h \in history : Kept(h)) /\ \A a \in attempts : KeptAttempt(a)
  <2>1. PICK a \in OpenAttempts(w), s \in OrderStatusesAfter(w, r) : EndAttempt(a, OpenPeriods(a.machine), r, t, s)
    BY <1>5 DEF FinishWork
  <2>2. a \in attempts /\ a \in Attempt /\ a.end = Open /\ a.machine \in Machines /\ t # Open
    BY DEF OpenAttempts, FloorInv, TypeOK, Attempt, FloorAssumption
  <2>3. \A h \in history : Kept(h)
    BY <2>1, <2>2, ReplaceKeepsPast DEF EndAttempt
  <2> DEFINE b == [a EXCEPT !.end = t, !.result = r]
  <2>4. /\ b.end = t /\ b.result = r /\ b.start = a.start
        /\ b = [a EXCEPT !.end = b.end, !.result = b.result]
    BY <2>2 DEF Attempt
  <2>5. attempts' = (attempts \ {a}) \cup {b}
    BY <2>1 DEF EndAttempt
  <2>6. KeptAttempt(a)
    BY <2>2, <2>4, <2>5 DEF KeptAttempt, Closes
  <2>7. QED
    BY <2>3, <2>5, <2>6 DEF KeptAttempt
<1>6. (history' = history => \A h \in history : Kept(h))
      /\ (attempts \subseteq attempts' => \A a \in attempts : KeptAttempt(a))
  BY DEF Kept, KeptAttempt
<1>7. QED
  BY <1>1, <1>2, <1>3, <1>4, <1>5, <1>6 DEF Next

\* Closed periods and attempts are never rewritten.
THEOREM ThePastIsKept == Spec => PastIsKept
<1>1. FloorInv /\ [Next]_vars =>
        [/\ \A h \in history : \/ h \in history'
                               \/ \E p \in history' : Closes(h, p) /\ p = [h EXCEPT !.end = p.end]
         /\ \A a \in attempts : \/ a \in attempts'
                                \/ \E b \in attempts' : Closes(a, b)
                                     /\ b = [a EXCEPT !.end = b.end, !.result = b.result]]_vars
  BY FloorAssumption, StepKeepsPast DEF Kept, KeptAttempt
<1>2. QED
  BY <1>1, FloorIsInvariant, PTL DEF Spec, PastIsKept

-----------------------------------------------------------------------------
(***************************************************************************)
(* An attempt ends by its own finish only, together with its period.       *)
(***************************************************************************)
EndedByFinish(a) ==
  /\ work'[a.work].status # "EN_PROCESO"
  /\ \E b \in attempts' : PeriodOf(b) \in history' /\ b.end # Open
       /\ b.work = a.work /\ b.number = a.number
       /\ NewPeriod(a.machine, "DISPONIBLE", NoWork, b.end) \in history'

LEMMA OnlyFinishEnds ==
  ASSUME FloorAssumption, FloorInv, Next,
         NEW a \in attempts, a.end = Open, a \notin attempts'
  PROVE  EndedByFinish(a)
<1>1. PICK w \in Works, r \in Results, t \in Times : FinishWork(w, r, t)
  BY DEF Next, AssignMachine, StartWork, BeginAttempt, ChangeState, UpdateMachine
<1>2. PICK x \in OpenAttempts(w), s \in OrderStatusesAfter(w, r) : EndAttempt(x, OpenPeriods(x.machine), r, t, s)
  BY <1>1 DEF FinishWork
<1> DEFINE b == [x EXCEPT !.end = t, !.result = r]
<1>3. x \in Attempt /\ x \in attempts /\ x.work = w /\ t # Open
  BY DEF OpenAttempts, FloorInv, TypeOK, FloorAssumption
<1>4. a = x /\ b \in attempts'
  BY <1>2 DEF EndAttempt
<1>5. b.end = t /\ b.work = a.work /\ b.number = a.number
  BY <1>3, <1>4 DEF Attempt
<1>6. NewPeriod(a.machine, "DISPONIBLE", NoWork, t) \in history'
  BY <1>2, <1>4 DEF EndAttempt, ReplacePeriod
<1>7. work'[w].status # "EN_PROCESO"
  BY <1>2, <1>3 DEF EndAttempt, StatusAfter, FloorInv, TypeOK, WorkRow
<1>8. HistoryMatchesAttempts' /\ TypeOK'
  BY <1>1, FinishKeeps DEF FloorInv
<1>9. PeriodOf(b) \in history'
  BY <1>4, <1>8 DEF HistoryMatchesAttempts, PeriodOf
<1> HIDE DEF b
<1>10. QED
  BY <1>3, <1>4, <1>5, <1>6, <1>7, <1>9 DEF EndedByFinish

\* A running attempt, its machine's period and its work's status end in one step.
THEOREM AttemptAndPeriodEndTogether == Spec => EndsTogether
<1>1. FloorInv /\ [Next]_vars =>
        [\A a \in attempts : a.end = Open /\ a \notin attempts' =>
           /\ work'[a.work].status # "EN_PROCESO"
           /\ \E b \in attempts' : PeriodOf(b) \in history' /\ b.end # Open
                /\ b.work = a.work /\ b.number = a.number
                /\ NewPeriod(a.machine, "DISPONIBLE", NoWork, b.end) \in history']_vars
  BY FloorAssumption, OnlyFinishEnds DEF EndedByFinish
<1>2. QED
  BY <1>1, FloorIsInvariant, PTL DEF Spec, EndsTogether

-----------------------------------------------------------------------------
(***************************************************************************)
(* Floor implements Allocation.                                            *)
(***************************************************************************)
Done == {w \in Works : work[w].status = "COMPLETADO"}

\* A machine runs one attempt at most: two would share its open period.
LEMMA OneRunsOn ==
  ASSUME FloorInv, NEW a \in attempts, a.end = Open
  PROVE  RunningOn(a.machine) = {a} /\ Making(a.machine) = a.work
<1>1. ASSUME NEW b \in RunningOn(a.machine)
      PROVE  b = a
  <2> DEFINE p == NewPeriod(a.machine, "TRABAJANDO", a.work, a.start)
             q == NewPeriod(a.machine, "TRABAJANDO", b.work, b.start)
  <2>1. b \in attempts /\ b.machine = a.machine /\ b.end = Open
    BY DEF RunningOn
  <2>2. p \in history /\ q \in history
    BY <2>1 DEF FloorInv, RunningWork
  <2>3. /\ p.machine = a.machine /\ p.end = Open /\ p.work = a.work
        /\ q.machine = a.machine /\ q.end = Open /\ q.work = b.work
    BY DEF NewPeriod
  <2> HIDE DEF p, q
  <2>4. p \in OpenPeriods(a.machine) /\ q \in OpenPeriods(a.machine)
    BY <2>2, <2>3 DEF OpenPeriods
  <2>5. p = q
    BY <2>2, <2>3, <2>4 DEF FloorInv, OneOpenPeriod
  <2>6. b.work = a.work
    BY <2>3, <2>5
  <2>7. OpenAttempts(a.work) = {a} /\ OpenAttempts(b.work) = {b}
    BY <2>1 DEF FloorInv, RunningWork
  <2>8. QED
    BY <2>6, <2>7
<1>2. a \in RunningOn(a.machine)
  BY DEF RunningOn
<1>3. RunningOn(a.machine) = {a}
  BY <1>1, <1>2
<1>4. QED
  BY <1>3 DEF Making

\* What a machine makes is the work of an open attempt.
LEMMA MakesWhatRuns ==
  ASSUME FloorAssumption, FloorInv, NEW m \in Machines, NEW w \in Works, Making(m) = w
  PROVE  w \in Works /\ OpenAttempts(w) # {}
<1>1. RunningOn(m) # {}
  BY DEF Making, FloorAssumption
<1>2. PICK a \in RunningOn(m) : a.work = w
  BY <1>1 DEF Making
<1>3. QED
  BY <1>2 DEF RunningOn, OpenAttempts

\* A step that leaves the attempts and the statuses alone is not seen.
LEMMA SameAllocation ==
  ASSUME attempts' = attempts, \A w \in Works : work'[w].status = work[w].status
  PROVE  (\A m \in Machines : Making(m)' = Making(m)) /\ Done' = Done
  BY DEF Making, RunningOn, Done

LEMMA StartAllocates ==
  ASSUME FloorAssumption, FloorInv, NEW w \in Works, NEW t \in Times, StartWork(w, t)
  PROVE  LET m == work[w].machine IN
         /\ m \in Machines /\ Making(m) = NoWork /\ w \notin Done
         /\ \A n \in Machines : Making(n) # w
         /\ \A n \in Machines : Making(n)' = IF n = m THEN w ELSE Making(n)
         /\ Done' = Done
<1> DEFINE m == work[w].machine
           new == [work |-> w, number |-> LastNumber(w) + 1, machine |-> m,
                   start |-> t, end |-> Open, result |-> Open]
<1>1. /\ work[w].status = "PENDIENTE" /\ m \in Machines
      /\ \A h \in OpenPeriods(m) : h.state = "DISPONIBLE"
      /\ attempts' = attempts \cup {new}
      /\ work' = [work EXCEPT ![w].status = "EN_PROCESO"]
  BY DEF StartWork, FreeBefore, BeginAttempt, FloorInv, TypeOK, WorkRow
<1>2. new.work = w /\ new.machine = m /\ new.end = Open
  OBVIOUS
<1>3. RunningOn(m) = {}
  <2> SUFFICES ASSUME NEW a \in RunningOn(m)
               PROVE  FALSE
    OBVIOUS
  <2>1. NewPeriod(m, "TRABAJANDO", a.work, a.start) \in history
    BY DEF RunningOn, FloorInv, RunningWork
  <2>2. QED
    BY <2>1, <1>1 DEF OpenPeriods, NewPeriod
<1>4. Making(m) = NoWork
  BY <1>3 DEF Making
<1>5. OpenAttempts(w) = {}
  BY <1>1 DEF FloorInv, RunningWork
<1>6. \A n \in Machines : Making(n) # w
  BY <1>5, MakesWhatRuns
<1> HIDE DEF new
<1>7. \A n \in Machines : RunningOn(n)' = IF n = m THEN {new} ELSE RunningOn(n)
  BY <1>1, <1>2, <1>3 DEF RunningOn
<1>8. \A n \in Machines : Making(n)' = IF n = m THEN w ELSE Making(n)
  <2> TAKE n \in Machines
  <2>1. CASE n = m
    <3>1. RunningOn(n)' = {new}
      BY <1>7, <2>1
    <3>2. QED
      BY <3>1, <2>1, <1>2 DEF Making
  <2>2. CASE n # m
    <3>1. RunningOn(n)' = RunningOn(n)
      BY <1>7, <2>2
    <3>2. QED
      BY <3>1, <2>2 DEF Making
  <2>3. QED
    BY <2>1, <2>2
<1>9. w \notin Done /\ Done' = Done
  BY <1>1 DEF Done, FloorInv, TypeOK, WorkRow
<1>10. QED
  BY <1>1, <1>4, <1>6, <1>8, <1>9

LEMMA FinishReleases ==
  ASSUME FloorAssumption, FloorInv,
         NEW w \in Works, NEW r \in Results, NEW t \in Times, FinishWork(w, r, t)
  PROVE  \E m \in Machines :
           /\ Making(m) = w
           /\ \A n \in Machines : Making(n)' = IF n = m THEN NoWork ELSE Making(n)
           /\ Done' = IF r = "EXITOSO" THEN Done \cup {w} ELSE Done
<1>1. PICK a \in OpenAttempts(w), s \in OrderStatusesAfter(w, r) : EndAttempt(a, OpenPeriods(a.machine), r, t, s)
  BY DEF FinishWork
<1> DEFINE m == a.machine
           b == [a EXCEPT !.end = t, !.result = r]
<1>2. /\ a \in attempts /\ a \in Attempt /\ a.end = Open /\ a.work = w
      /\ m \in Machines /\ t # Open /\ work[w].status = "EN_PROCESO"
  BY DEF OpenAttempts, FloorInv, TypeOK, Attempt, FloorAssumption, FinishWork
<1>3. b.end # Open
  BY <1>2 DEF Attempt
<1>4. attempts' = (attempts \ {a}) \cup {b}
  BY <1>1 DEF EndAttempt
<1>5. RunningOn(m) = {a} /\ Making(m) = w
  BY <1>2, OneRunsOn
<1> HIDE DEF b
<1>6. \A n \in Machines : RunningOn(n)' = IF n = m THEN {} ELSE RunningOn(n)
  BY <1>2, <1>3, <1>4, <1>5 DEF RunningOn
<1>7. \A n \in Machines : Making(n)' = IF n = m THEN NoWork ELSE Making(n)
  <2> TAKE n \in Machines
  <2>1. CASE n = m
    <3>1. RunningOn(n)' = {}
      BY <1>6, <2>1
    <3>2. QED
      BY <3>1, <2>1 DEF Making
  <2>2. CASE n # m
    <3>1. RunningOn(n)' = RunningOn(n)
      BY <1>6, <2>2
    <3>2. QED
      BY <3>1, <2>2 DEF Making
  <2>3. QED
    BY <2>1, <2>2
<1>8. work' = [work EXCEPT ![w].status = StatusAfter(r)]
  BY <1>1, <1>2 DEF EndAttempt
<1>9. Done' = IF r = "EXITOSO" THEN Done \cup {w} ELSE Done
  BY <1>2, <1>8 DEF Done, StatusAfter, FloorInv, TypeOK, WorkRow
<1>10. QED
  BY <1>2, <1>5, <1>7, <1>9

\* Every step of the floor is a step of the allocation, or none.
LEMMA StepAllocates ==
  ASSUME FloorAssumption, FloorInv, [Next]_vars
  PROVE  [Alloc!AllocationNext]_<<[m \in Machines |-> Making(m)], Done>>
<1> DEFINE making == [m \in Machines |-> Making(m)]
<1>0. making' = [m \in Machines |-> Making(m)']
  OBVIOUS
<1>1. ASSUME attempts' = attempts, \A w \in Works : work'[w].status = work[w].status
      PROVE  making' = making /\ Done' = Done
  BY <1>0, <1>1, SameAllocation
<1>2. ASSUME NEW w \in Works, NEW m \in Machines, AssignMachine(w, m)
      PROVE  making' = making /\ Done' = Done
  BY <1>1, <1>2 DEF AssignMachine, FloorInv, TypeOK, WorkRow
<1>3. ASSUME NEW m \in Machines, NEW s \in States, NEW t \in Times, ChangeState(m, s, t)
      PROVE  making' = making /\ Done' = Done
  BY <1>1, <1>3 DEF ChangeState
<1>4. ASSUME NEW m \in Machines, NEW row \in MachineRow, UpdateMachine(m, row)
      PROVE  making' = making /\ Done' = Done
  BY <1>1, <1>4 DEF UpdateMachine
<1>5. ASSUME NEW w \in Works, NEW t \in Times, StartWork(w, t)
      PROVE  Alloc!AllocationNext
  <2> DEFINE m == work[w].machine
  <2>1. /\ m \in Machines /\ Making(m) = NoWork /\ w \notin Done
        /\ \A n \in Machines : Making(n) # w
        /\ \A n \in Machines : Making(n)' = IF n = m THEN w ELSE Making(n)
        /\ Done' = Done
    BY <1>5, StartAllocates
  <2>2. making' = [making EXCEPT ![m] = w]
    BY <1>0, <2>1
  <2>3. Alloc!Take(m, w)
    BY <2>1, <2>2 DEF Alloc!Take, Done
  <2>4. QED
    BY <2>1, <2>3 DEF Alloc!AllocationNext
<1>6. ASSUME NEW w \in Works, NEW r \in Results, NEW t \in Times, FinishWork(w, r, t)
      PROVE  Alloc!AllocationNext
  <2>1. PICK m \in Machines :
           /\ Making(m) = w
           /\ \A n \in Machines : Making(n)' = IF n = m THEN NoWork ELSE Making(n)
           /\ Done' = IF r = "EXITOSO" THEN Done \cup {w} ELSE Done
    BY <1>6, FinishReleases
  <2>2. making' = [making EXCEPT ![m] = NoWork] /\ making[m] = w /\ w # NoWork
    BY <1>0, <2>1 DEF FloorAssumption
  <2>3. CASE r = "EXITOSO"
    <3>1. Alloc!Complete(m)
      BY <2>1, <2>2, <2>3 DEF Alloc!Complete, Done
    <3>2. QED
      BY <3>1 DEF Alloc!AllocationNext
  <2>4. CASE r # "EXITOSO"
    <3>1. Alloc!Fail(m)
      BY <2>1, <2>2, <2>4 DEF Alloc!Fail, Done
    <3>2. QED
      BY <3>1 DEF Alloc!AllocationNext
  <2>5. QED
    BY <2>3, <2>4
<1>7. CASE UNCHANGED vars
  BY <1>1, <1>7 DEF vars
<1>8. QED
  BY <1>2, <1>3, <1>4, <1>5, <1>6, <1>7 DEF Next

\* The floor allocates machines to works as Allocation says: one work to a
\* machine, one machine to a work, nothing let go but by its own end, nothing made
\* again once it is complete.
THEOREM FloorImplementsAllocation == Spec => ImplementsAllocation
<1>1. FloorAssumption /\ Init => Alloc!AllocationInit
  <2> SUFFICES ASSUME FloorAssumption, Init
               PROVE  Alloc!AllocationInit
    OBVIOUS
  <2>1. \A m \in Machines : Making(m) = NoWork
    BY DEF Init, Making, RunningOn
  <2>2. {w \in Works : work[w].status = "COMPLETADO"} = {}
    BY DEF Init
  <2>3. QED
    BY <2>1, <2>2 DEF Alloc!AllocationInit
<1>2. FloorInv /\ [Next]_vars =>
        [Alloc!AllocationNext]_<<[m \in Machines |-> Making(m)],
                                {w \in Works : work[w].status = "COMPLETADO"}>>
  BY FloorAssumption, StepAllocates DEF Done
<1>3. QED
  BY <1>1, <1>2, FloorAssumption, FloorIsInvariant, PTL
     DEF Spec, ImplementsAllocation, Alloc!AllocationSpec
=============================================================================
