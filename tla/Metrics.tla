------------------------------ MODULE Metrics -------------------------------
(***************************************************************************)
(* What GET /api/metricas/resumen reports of the floor, and the two reads  *)
(* of a machine's states.  Each is one statement, so it reads one state of *)
(* Floor; its figures are operators of that state and of the window asked  *)
(* for, [from, to).  The reader is OrderView's, with one more thing to ask *)
(* for.                                                                    *)
(***************************************************************************)
EXTENDS OrderView, Functions

CONSTANTS
  Price,        \* precio_sugerido of the concept of each work
  NoPrice,      \* the work is of a direct order: it has no concept
  DefaultSpan,  \* 30 days in the code
  Instants,     \* the clock, and the bounds a request may ask for
  Absent        \* a bound that is not sent

ASSUME MetricsAssumption ==
  /\ Price \in [Works -> Nat \cup {NoPrice}]
  /\ Instants \subseteq Nat
  /\ DefaultSpan \in Nat \ {0}
  /\ NoPrice \notin Nat
  /\ Absent \notin Int

Least(a, b)    == IF a <= b THEN a ELSE b
Greatest(a, b) == IF a >= b THEN a ELSE b

-----------------------------------------------------------------------------
(***************************************************************************)
(* MetricsService.Summary: the window of a request.                        *)
(***************************************************************************)
WindowEnd(to, now) == IF to = Absent \/ to > now THEN now ELSE to
WindowStart(from, end) == IF from = Absent THEN end - DefaultSpan ELSE from

Windows ==
  {w \in {[from |-> WindowStart(f, WindowEnd(t, now)), to |-> WindowEnd(t, now)] :
            f, t \in Instants \cup {Absent}, now \in Instants} :
     w.to > w.from}

-----------------------------------------------------------------------------
(***************************************************************************)
(* MetricsRepository.Summary.                                              *)
(***************************************************************************)
\* Variants: only periods that started in the window; open ones end nowhere.
CountedIfStarted(h, w) == h.start < w.to /\ h.start >= w.from
CountedIfEnded(h, w) == h.start < w.to /\ h.end # Open /\ h.end > w.from

\* WHERE of state_metrics
Counted(h, w) == h.start < w.to /\ (IF h.end = Open THEN w.to ELSE h.end) > w.from

\* EXTRACT(EPOCH FROM LEAST(...) - GREATEST(...))
Length(h, w) ==
  (IF h.end = Open THEN w.to ELSE Least(h.end, w.to)) - Greatest(h.start, w.from)

Seconds(m, states, w) ==
  SumFunction([h \in {p \in PeriodsOf(m) : p.state \in states /\ Counted(p, w)} |-> Length(h, w)])

\* Variant: the end of the window is inclusive.
EndedThrough(m, w) ==
  {a \in attempts : a.machine = m /\ a.end # Open /\ a.end >= w.from /\ a.end <= w.to}

\* WHERE of production_metrics
Ended(m, w) ==
  {a \in attempts : a.machine = m /\ a.end # Open /\ a.end >= w.from /\ a.end < w.to}

\* Variant: every attempt is paid for, as if nothing were reprinted.
PaidForAny(as) == {a \in as : Price[a.work] # NoPrice}

\* FILTER (WHERE i.resultado = 'EXITOSO' AND cc.id IS NOT NULL)
PaidFor(as) == {a \in as : a.result = "EXITOSO" /\ Price[a.work] # NoPrice}

Figures(m, w) ==
  LET ended == Ended(m, w)
      done  == {a \in ended : a.result = "EXITOSO"} IN
  [recorded  |-> Seconds(m, States, w),
   working   |-> Seconds(m, {"TRABAJANDO"}, w),
   completed |-> Cardinality(done),
   failed    |-> Cardinality(ended \ done),
   revenue   |-> SumFunction([a \in PaidFor(ended) |-> Price[a.work]]),
   unpriced  |-> Cardinality(done \ PaidFor(ended))]

\* The totals the service adds up over the machines.
Summary(w) ==
  LET figures == [m \in Machines |-> Figures(m, w)] IN
  [f \in {"recorded", "working", "completed", "failed", "revenue", "unpriced"} |->
     SumFunction([m \in Machines |-> figures[m][f]])]

-----------------------------------------------------------------------------
(***************************************************************************)
(* MachineStateRepository.Current and History.                             *)
(***************************************************************************)
\* Variant: without COALESCE, no open period ends after `desde`.
HistoryOfClosed(m, from, to) ==
  {h \in PeriodsOf(m) : /\ from = Absent \/ (h.end # Open /\ h.end >= from)
                        /\ to = Absent \/ h.start <= to}

History(m, from, to) ==
  {h \in PeriodsOf(m) : /\ from = Absent \/ h.end = Open \/ h.end >= from
                        /\ to = Absent \/ h.start <= to}

\* The row of the current state, and the first of ORDER BY fecha_inicio DESC.
Current(m) == OpenPeriods(m)
FirstShown(shown) == {h \in shown : \A p \in shown : p.start <= h.start}

-----------------------------------------------------------------------------
(***************************************************************************)
(* The reader asks for a report, or for a machine's states.                *)
(***************************************************************************)
ReadReport == at = "idle" /\ Goto("report", NoView)

MetricsNext == ViewNext \/ ReadReport

MetricsSpec == ViewInit /\ [][MetricsNext]_<<vars, viewVars>>

-----------------------------------------------------------------------------
(***************************************************************************)
(* Properties of a report, whatever the floor is when it is read.          *)
(***************************************************************************)
Reported == at = "report"

\* The hours of the states add up to the time gone by in the window since the
\* first period of the machine: the history has no hole or overlap that a
\* report would drop or count twice (README: periods without history are not
\* inferred).
RecordedIsElapsed ==
  Reported =>
    \A m \in Machines, w \in Windows :
      Figures(m, w).recorded =
        IF PeriodsOf(m) = {} THEN 0
        ELSE LET first == CHOOSE h \in PeriodsOf(m) : \A p \in PeriodsOf(m) : h.start <= p.start
             IN Greatest(0, w.to - Greatest(w.from, first.start))

\* Reports of two windows that meet add up to that of both: `hasta` is
\* exclusive, and no attempt or second falls in both or in neither.
WindowsAddUp ==
  Reported =>
    \A v, w \in Windows : v.to = w.from =>
      LET first  == Summary(v)
          second == Summary(w)
      IN  Summary([from |-> v.from, to |-> w.to]) = [f \in DOMAIN first |-> first[f] + second[f]]

\* The hours worked, read from the state history, hold those of the attempts,
\* which another table keeps; a machine put in TRABAJANDO by hand adds more.
AttemptsAreWorked ==
  Reported =>
    \A m \in Machines, w \in Windows :
      LET ran == {a \in attempts : a.machine = m /\ a.start < w.to
                                   /\ (a.end = Open \/ a.end > w.from)} IN
      Figures(m, w).working >=
        SumFunction([a \in ran |-> (IF a.end = Open THEN w.to ELSE Least(a.end, w.to))
                                   - Greatest(a.start, w.from)])

\* A report of everything counts each completed work once and pays for it
\* once, however often it was printed.
CompletedOnce ==
  Reported =>
    LET all  == [from |-> 0, to |-> 1 + CHOOSE t \in Instants : \A u \in Instants : u <= t]
        done == {w \in Works : work[w].status = "COMPLETADO"} IN
    /\ Summary(all).completed = Cardinality(done)
    /\ Summary(all).revenue =
         SumFunction([w \in {v \in done : Price[v] # NoPrice} |-> Price[w]])
    /\ Summary(all).unpriced = Cardinality({w \in done : Price[w] = NoPrice})

\* What a person reads of a machine agrees with what is reported and decided of
\* it.  The history asked for a window holds every period the report of that
\* window counts, besides those only a bound of it touches (README: the filter
\* gives the periods that overlap the range); and the first row of a history
\* without `hasta` is the machine's current state.
HistoryAgrees ==
  Reported =>
    \A m \in Machines :
      /\ \A w \in Windows :
           LET counted == {h \in PeriodsOf(m) : Counted(h, w)}
               shown   == History(m, w.from, w.to) IN
           /\ counted \subseteq shown
           /\ \A h \in shown \ counted : h.start = w.to \/ h.end = w.from
      /\ \A from \in Instants \cup {Absent} : FirstShown(History(m, from, Absent)) = Current(m)
=============================================================================
