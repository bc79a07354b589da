\* Quotes of two concepts and direct orders of two works while rates, machines and
\* the customer change.
CONSTANTS
  q1 = q1
  o1 = o1
  o2 = o2
  s1 = s1
  s2 = s2
  QuoteIds = {q1}
  OrderIds = {o1}
  Customers = {c1}
  Machines = {m1}
  Types = {A}
  Rates = {1, 2}
  MaxTotal = 3
  MaxLines = 2
  Slots = {s1}
  Ops = {"quote", "direct"}
  NoQuote = NoQuote
  NoOrder = NoOrder
  NoMachine = NoMachine
  NoConcept = NoConcept
  NoRequest = NoRequest
SPECIFICATION TxSpec
SYMMETRY Symmetry
INVARIANTS
  TotalsAddUp
PROPERTIES
  ImplementsQuotes
