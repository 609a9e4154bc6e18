\* Two requests of customers at a time, in any interleaving.
SPECIFICATION Spec
CONSTANTS
  Contracts = {c1, c2}
  Goods = {g1, g2}
  Space <- MCSpace
  Volume <- MCVolume
  Largest = 1
  Warehouses = {w1, w2}
  None = None
  Requests = {r1, r2}
  InvoiceLimit = 2
  GoodsLimit = 2
  Fallback = 1
  Roles = {"CUSTOMER"}
SYMMETRY Symmetry
INVARIANTS TypeOK WithinContract FallbackOnlyWhereLeft
\* All rows may be used up and all goods gone: the system rests.
CHECK_DEADLOCK FALSE
