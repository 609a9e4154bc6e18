\* One request at a time: a delayed order resumes after its driver was given away.
SPECIFICATION Spec
CONSTANTS
  Orders = {o1, o2}
  Goods = {g1}
  Quantity <- MCQuantity
  WarehouseOf <- OneWarehouse
  Packages = 2
  Vehicles = {v1, v2}
  Drivers = {d1}
  None = None
  Requests = {r1}
  DemoLimit = 2
  Roles = {"ADMIN"}
  Kinds = {"DELIVERY"}
  Counts = {1}
  Ops = {"create", "status"}
  OrderTargets = {"PENDING_ASSIGNMENT", "DRIVER_ASSIGNED", "EN_ROUTE_PICKUP", "PICKED_UP",
                  "IN_TRANSIT", "ARRIVED_DESTINATION", "DELAYED", "DELIVERED",
                  "CONFIRMED", "CANCELLED"}
  GoodsTargets = {}
  InitialGoods = {"STORED"}
INVARIANTS NoDoubleAssignment
\* All orders may be closed and the demo limit reached: the system rests.
CHECK_DEADLOCK FALSE
