SPECIFICATION Spec
CONSTANTS
  r1 = r1
  r2 = r2
  t1 = t1
  t2 = t2
  ip1 = ip1
  ip2 = ip2
  User = User
  None = None
  Requests = {r1, r2}
  Tokens = {t1, t2}
  Ips = {ip1}
  Factors = {"email", "authenticator"}
  MaxAttempts = 1
  MaxWrong = 2
SYMMETRY LoginSymmetry
CHECK_DEADLOCK FALSE
INVARIANTS TypeOK NoStandoff OneValidCode LimitHolds BlockIsEarned
PROPERTY NoReplay
