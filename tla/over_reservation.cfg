\* A stale assignment reopens a cancelled order whose package was promised
\* again.
SPECIFICATION Spec
CONSTANTS
  Orders = {o1, o2}
  Goods = {g1}
  Quantity <- MCQuantity
  WarehouseOf <- OneWarehouse
  Packages = 1
  Vehicles = {v1}
  Drivers = {d1}
  None = None
  Requests = {r1, r2}
  DemoLimit = 2
  Roles = {"ADMIN"}
  Kinds = {"PICKUP"}
  Counts = {1}
  Ops = {"create", "status"}
  OrderTargets = {"DRIVER_ASSIGNED", "PENDING_ASSIGNMENT", "CANCELLED"}
  GoodsTargets = {}
  InitialGoods = {"DRAFT"}
SYMMETRY Symmetry
INVARIANTS NoOverReservation
\* All orders may be closed and the demo limit reached: the system rests.
CHECK_DEADLOCK FALSE
