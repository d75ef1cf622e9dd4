SPECIFICATION Spec
CONSTANTS
  r1 = r1
  r2 = r2
  NoUser = NoUser
  Requests = {r1, r2}
  MaxTokens = 2
  MaxChanges = 1
SYMMETRY RequestSymmetry
INVARIANTS TypeOK RevokedStaysOut OneLiveSession
PROPERTY ProfileKeepsRole
CHECK_DEADLOCK FALSE
