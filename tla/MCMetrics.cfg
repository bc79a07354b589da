\* Two machines, a quoted and a direct work, three timestamps.
CONSTANTS
  m1 = m1
  m2 = m2
  w1 = w1
  w2 = w2
  o1 = o1
  A = A
  Machines = {m1, m2}
  Works = {w1, w2}
  Orders = {o1}
  Types = {A}
  OrderOf <- MCOrderOf
  RequiredType <- MCRequiredType
  States = {"DISPONIBLE", "TRABAJANDO"}
  Times = {1, 2, 3}
  NoMachine = NoMachine
  NoWork = NoWork
  Open = Open
  Price <- MCPrice
  NoPrice = NoPrice
  DefaultSpan = 2
  Instants = {0, 2, 4}
  Absent = Absent
  NoView = NoView
SPECIFICATION MetricsSpec
SYMMETRY Symmetry
INVARIANTS
  RunningWork
  HistoryMatchesAttempts
  Tiled
  RecordedIsElapsed
  WindowsAddUp
  AttemptsAreWorked
  CompletedOnce
  HistoryAgrees
  OrderAgrees
  WorkAgrees
PROPERTY
  ImplementsAllocation
