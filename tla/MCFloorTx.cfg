\* Two works of an order on two machines, two concurrent requests.
CONSTANTS
  m1 = m1  m2 = m2
  w1 = w1  w2 = w2
  o1 = o1
  A = A  B = B
  s1 = s1  s2 = s2
  Machines = {m1, m2}
  Works = {w1, w2}
  Orders = {o1}
  Types = {A}
  OrderOf <- MCOrderOf
  RequiredType <- MCRequiredType
  States = {"DISPONIBLE", "TRABAJANDO"}
  Times = {1, 2}
  ClientTimes = {}
  Slots = {s1, s2}
  Now = Now
  NoRequest = NoRequest
  NoMachine = NoMachine
  NoWork = NoWork
  Open = Open
SPECIFICATION TxSpec
SYMMETRY Symmetry
INVARIANTS
  ReadIsCurrent
  CyclesAreFinishAgainstMachine
PROPERTIES
  ImplementsFloor
