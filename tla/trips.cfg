\* One request at a time: two orders of either type that may share two goods
\* items, one vehicle and one driver.  Admins receive through the dock, never
\* by setting an inbound order DELIVERED themselves.
SPECIFICATION Spec
CONSTANTS
  Orders = {o1, o2}
  Goods = {g1, g2}
  Quantity <- MCQuantity
  WarehouseOf <- OneWarehouse
  Packages = 2
  Vehicles = {v1}
  Drivers = {d1}
  None = None
  Requests = {r1}
  DemoLimit = 2
  Roles = {"ADMIN"}
  Kinds = {"PICKUP", "DELIVERY"}
  Counts = {1}
  Ops = {"create", "status", "receive", "pod", "assign", "goods"}
  OrderTargets = {"PENDING_ASSIGNMENT", "DRIVER_ASSIGNED", "EN_ROUTE_PICKUP", "PICKED_UP",
                  "IN_TRANSIT", "ARRIVED_DESTINATION", "DELAYED",
                  "CONFIRMED", "CANCELLED"}
  GoodsTargets = {"INSPECTING", "STORED", "CANCELLED"}
  InitialGoods = {"DRAFT"}
SYMMETRY Symmetry
INVARIANTS StoredMeansConfirmed
PROPERTIES ClashOnlyByResuming CancelledGoodsStay
\* All orders may be closed and the demo limit reached: the system rests.
CHECK_DEADLOCK FALSE
