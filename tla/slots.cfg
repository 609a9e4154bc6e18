\* Two requests at a time, in any interleaving, over two goods items, one of
\* them cold, and two warehouses; with deadlocks.
SPECIFICATION FairSpec
CONSTANTS
  Goods = {g1, g2}
  Slots = {s1, s2, s3}
  Warehouses = {w1, w2}
  Customers = {c1}
  Customer = c1
  Here = w1
  ColdItem = g1
  Dry = s3
  Weak = s2
  OwnerOf <- MCOwner
  FirstHome <- MCHome
  SiteOf <- MCSite
  Cold <- MCCold
  Maintenance = {s3}
  Size <- MCSize
  Limit <- MCLimit
  Grain <- MCGrain
  Largest = 6
  None = None
  Requests = {r1, r2}
  Roles = {"ADMIN", "CUSTOMER"}
  Ops <- MCOps
  Clerk = r1
  GoodsTargets = {"STORED", "PENDING_DELIVERY"}
  Arriving = {"PENDING_PICKUP"}
  InitialGoods = {"PENDING_PICKUP"}
INVARIANTS TypeOK OverfillBounded StoredWhereItBelongs SumsCurrent
PROPERTIES RequestsFinish
\* All goods may be on their way out or deleted: the system rests.
CHECK_DEADLOCK FALSE
