\* Two requests of any kind, two updates of accounts among them.
CONSTANTS
  u1 = u1
  u2 = u2
  r1 = r1
  r2 = r2
  Users = {u1, u2}
  Tokens = {s1, s2}
  Slots = {r1, r2}
  Asked <- OneColumn
  NoUser = NoUser
  NoSession = NoSession
  NoRequest = NoRequest
  Deleted = Deleted
  Unset = Unset
SPECIFICATION Spec
SYMMETRY Symmetry
INVARIANTS
  OneInitial
  UpdateEndsSessions
PROPERTY LastAdminIsLostByARace
