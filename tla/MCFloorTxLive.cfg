\* One work on one machine, tried again and finished by two concurrent requests, with
\* a client-sent time and a machine whose type is changed, under fairness.
CONSTANTS
  m1 = m1  m2 = m2
  w1 = w1  w2 = w2
  o1 = o1
  A = A  B = B
  s1 = s1  s2 = s2
  Machines = {m1}
  Works = {w1}
  Orders = {o1}
  Types = {A, B}
  OrderOf <- MCOrderOf
  RequiredType <- MCRequiredType
  States = {"DISPONIBLE", "TRABAJANDO"}
  Times = {1, 2, 3}
  ClientTimes = {2}
  Slots = {s1, s2}
  Now = Now
  NoRequest = NoRequest
  NoMachine = NoMachine
  NoWork = NoWork
  Open = Open
SPECIFICATION FairTxSpec
PROPERTIES
  ImplementsFloor
  RequestsEnd
