\* Two requests at a time, never about one order: reservation, trip, receiving,
\* put-away and cancellation of two orders.
SPECIFICATION SerialSpec
CONSTANTS
  Orders = {o1, o2}
  Goods = {g1}
  Quantity <- MCQuantity
  WarehouseOf <- OneWarehouse
  Packages = 2
  Vehicles = {v1}
  Drivers = {d1}
  None = None
  Requests = {r1, r2}
  DemoLimit = 2
  Roles = {"ADMIN"}
  Kinds = {"PICKUP", "DELIVERY"}
  Counts = {1, 2}
  Ops = {"create", "status", "receive", "pod", "goods"}
  OrderTargets = {"DRIVER_ASSIGNED", "EN_ROUTE_PICKUP",
                  "ARRIVED_DESTINATION", "DELAYED", "DELIVERED", "CANCELLED"}
  GoodsTargets = {"STORED"}
  InitialGoods = {"DRAFT"}
SYMMETRY Symmetry
INVARIANTS NoOverReservation
PROPERTIES PromisesAtomic FollowsTable DeliveredFreesVehicle
\* All orders may be closed and the demo limit reached: the system rests.
CHECK_DEADLOCK FALSE
