\* Two requests on machines, what they refer to and their rates.
SPECIFICATION Spec
CONSTANTS
  l1 = l1
  l2 = l2
  Ids <- MCIds
  Named <- MCNamed
  Slots = {s1, s2}
  Null = Null
  Invalid = Invalid
  Unstorable = Unstorable
  NoRow = NoRow
  NoRequest = NoRequest
SYMMETRY Symmetry
INVARIANTS
  ServiceIsAsStrict
  RefusalsAreTrue
PROPERTY OnlyRacesUndo
