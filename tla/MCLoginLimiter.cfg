\* An account, two addresses and two requests.
CONSTANTS
  r1 = r1
  r2 = r2
  a1 = a1
  a2 = a2
  Users = {u1}
  Tokens = {s1}
  Slots = {r1, r2}
  Asked <- Unchanging
  Addresses = {a1, a2}
  Maximum = 1
  Window = 1
  SweepAbove = 1
  Horizon = 2
  NoUser = NoUser
  NoSession = NoSession
  NoRequest = NoRequest
  Deleted = Deleted
  Unset = Unset
SPECIFICATION LimiterSpec
SYMMETRY Symmetry
INVARIANTS
  LimitHolds
