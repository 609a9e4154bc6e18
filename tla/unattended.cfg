\* Liveness, and what drivers and customers can do without an admin: two
\* requests at a time over two goods items, with deadlocks.
SPECIFICATION FairSpec
CONSTANTS
  Orders = {o1, o2}
  Goods = {g1, g2}
  Quantity <- MCQuantity
  WarehouseOf <- OneWarehouse
  Packages = 1
  Vehicles = {}
  Drivers = {d1}
  None = None
  Requests = {r1, r2}
  DemoLimit = 1
  Roles = {"CUSTOMER", "DRIVER"}
  Kinds = {"PICKUP"}
  Counts = {1}
  Ops = {"create", "goods", "status", "receive"}
  OrderTargets = {"EN_ROUTE_PICKUP", "ARRIVED_DESTINATION", "DELAYED", "DELIVERED"}
  GoodsTargets = {"IN_TRANSIT_INBOUND", "INSPECTING", "STORED"}
  InitialGoods = {"DRAFT"}
INVARIANTS InboundNeedsAdmin
PROPERTIES RequestsFinish
\* All orders may be closed and the demo limit reached: the system rests.
CHECK_DEADLOCK FALSE
