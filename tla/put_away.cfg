\* Two requests at a time, in any interleaving, about one inbound order of two
\* goods items of one warehouse, received through the dock.
SPECIFICATION Spec
CONSTANTS
  Orders = {o1}
  Goods = {g1, g2}
  Quantity <- MCQuantity
  WarehouseOf <- OneWarehouse
  Packages = 1
  Vehicles = {}
  Drivers = {d1}
  None = None
  Requests = {r1, r2}
  DemoLimit = 1
  Roles = {"ADMIN"}
  Kinds = {"PICKUP"}
  Counts = {1}
  Ops = {"create", "status", "receive", "goods"}
  OrderTargets = {"EN_ROUTE_PICKUP", "PICKED_UP", "IN_TRANSIT", "ARRIVED_DESTINATION",
                  "DELAYED", "CANCELLED"}
  GoodsTargets = {"INSPECTING", "STORED", "CANCELLED"}
  InitialGoods = {"DRAFT"}
SYMMETRY Symmetry
INVARIANTS StoredMeansConfirmed
\* All orders may be closed and the demo limit reached: the system rests.
CHECK_DEADLOCK FALSE
