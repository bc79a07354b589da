\* Two concurrent requests that change the status of a quote or convert it.
CONSTANTS
  q1 = q1
  o1 = o1
  o2 = o2
  s1 = s1
  s2 = s2
  QuoteIds = {q1}
  OrderIds = {o1, o2}
  Customers = {c1}
  Machines = {m1}
  Types = {A}
  Rates = {1}
  MaxTotal = 2
  MaxLines = 1
  Slots = {s1, s2}
  Ops = {"quote", "status", "order"}
  NoQuote = NoQuote
  NoOrder = NoOrder
  NoMachine = NoMachine
  NoConcept = NoConcept
  NoRequest = NoRequest
SPECIFICATION TxSpec
SYMMETRY Symmetry
INVARIANTS
  WorksAreConcepts
  RefusalsAreTrue
  ConversionIsAlone
PROPERTIES
  ImplementsQuotes
