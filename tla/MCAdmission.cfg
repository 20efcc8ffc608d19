SPECIFICATION Spec
CONSTANTS
  Clients = {c1, c2, c3}
  Keys = {k1}
  NoKey = NoKey
  Limit = 1
  MaxJobs = 4
SYMMETRY Symmetric
INVARIANTS OneJobPerKey PendingIsOwned OvershootIsBounded
