SPECIFICATION Spec
CONSTANTS
  u1 = u1
  u2 = u2
  b1 = b1
  b2 = b2
  free = free
  basic = basic
  pro = pro
  None = None
  Users = {u1, u2}
  Billers = {b1}
  Plans = {free, basic, pro}
  Included <- SmallIncluded
  Downgrades <- Cheaper
  FirstPlan = basic
  PackSize = 1
  MaxPeriod = 2
  MaxPurchases = 1
  MaxChanges = 2
SYMMETRY Symmetry
INVARIANTS TypeOK SmsWereReserved ExtrasAddUp
PROPERTY GrantWithinQuota
