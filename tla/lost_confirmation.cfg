\* The last two items of a received order, in two warehouses, are put away at
\* the same time.
SPECIFICATION Spec
CONSTANTS
  Orders = {o1}
  Goods = {g1, g2}
  Quantity <- MCQuantity
  WarehouseOf <- OwnWarehouse
  Packages = 1
  Vehicles = {v1}
  Drivers = {d1}
  None = None
  Requests = {r1, r2}
  DemoLimit = 1
  Roles = {"ADMIN"}
  Kinds = {"PICKUP"}
  Counts = {1}
  Ops = {"create", "status", "receive", "goods"}
  OrderTargets = {"EN_ROUTE_PICKUP", "PICKED_UP", "IN_TRANSIT", "ARRIVED_DESTINATION"}
  GoodsTargets = {"STORED"}
  InitialGoods = {"DRAFT"}
SYMMETRY Symmetry
INVARIANTS StoredMeansConfirmed
\* All orders may be closed and the demo limit reached: the system rests.
CHECK_DEADLOCK FALSE
