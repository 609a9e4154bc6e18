\* Two requests at a time, in any interleaving, over one goods item of three
\* packages, one vehicle and one driver; the demo limit is two orders, a third
\* one slips through.
SPECIFICATION Spec
CONSTANTS
  Orders = {o1, o2, o3, o4}
  Goods = {g1}
  Quantity <- MCQuantity
  WarehouseOf <- OneWarehouse
  Packages = 3
  Vehicles = {v1}
  Drivers = {d1}
  None = None
  Requests = {r1, r2}
  DemoLimit = 2
  Roles = {"ADMIN"}
  Kinds = {"PICKUP"}
  Counts = {1, 2}
  Ops = {"create", "status"}
  OrderTargets = {"DRIVER_ASSIGNED", "CANCELLED"}
  GoodsTargets = {}
  InitialGoods = {"DRAFT"}
SYMMETRY Symmetry
INVARIANTS TypeOK FirstClaimsFit OvershootBounded SharingBounded
PROPERTIES FirstClaimsAtomic
\* All orders may be closed and the demo limit reached: the system rests.
CHECK_DEADLOCK FALSE
