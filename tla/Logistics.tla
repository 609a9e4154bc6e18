----------------------------- MODULE Logistics -----------------------------
(***************************************************************************)
(* Delivery orders, the goods they name and the fleet that carries them:   *)
(* the handlers of logistics.service.ts, and the goods status change of    *)
(* goods.service.ts, as concurrent requests over one PostgreSQL database.  *)
(*                                                                         *)
(* A handler reads and validates before its transaction, then writes what  *)
(* it decided.  Each action below is what one handler does between two     *)
(* moments another request can be seen: a read before the transaction, a   *)
(* check inside it, or the commit, where all its writes become visible.    *)
(* Isolation is READ COMMITTED: a read sees the last commit and takes no   *)
(* lock, SELECT FOR UPDATE and UPDATE hold the row to the end of the       *)
(* transaction.                                                            *)
(*                                                                         *)
(* Abstracted: one customer owns all goods and orders; a vehicle fits any  *)
(* cargo and is never in maintenance; a driver's licence is valid.  Rack   *)
(* slots, notifications, mutations and POD details decide nothing here.    *)
(***************************************************************************)
EXTENDS OrderFlow, GoodsFlow, Integers, FiniteSets

CONSTANTS
  Orders,        \* identities of the delivery orders that may be created
  Goods,         \* goods items
  Quantity,      \* registered packages of each goods item
  WarehouseOf,   \* the warehouse each is registered for
  Vehicles, Drivers,
  None,          \* SQL NULL: no vehicle, no driver
  Requests,      \* HTTP requests the server handles at the same time
  DemoLimit,     \* MAX_DEMO_ORDERS_LIMIT
  Roles, Kinds,  \* the roles and order types clients use
  Counts,        \* the package counts clients ask for
  Ops,           \* the operations clients call
  OrderTargets,  \* the statuses clients ask to give an order
  GoodsTargets,  \* and a goods item
  InitialGoods   \* the goods statuses the database starts with

Operations == {"create", "status", "receive", "pod", "assign", "goods"}

ASSUME QuantityAssumption ==
  /\ IsFiniteSet(Orders)
  /\ Quantity \in [Goods -> Nat \ {0}]
ASSUME NoneAssumption ==
  /\ None \notin Orders \cup Goods \cup Vehicles \cup Drivers
  /\ Vehicles \cap Drivers = {}
  /\ Goods \cap (Vehicles \cup Drivers) = {}
ASSUME RequestsAssumption ==
  IsFiniteSet(Requests) /\ Requests # {} /\ DemoLimit \in Nat
ASSUME InputsAssumption ==
  /\ Roles \subseteq UserRole /\ Kinds \subseteq OrderKind
  /\ Counts \subseteq Nat /\ Ops \subseteq Operations
  /\ OrderTargets \subseteq OrderStatus
  /\ GoodsTargets \subseteq GoodsStatus /\ InitialGoods \subseteq GoodsStatus

VARIABLES
  status,    \* DeliveryOrder.status, or NotCreated
  kind,      \* DeliveryOrder.type
  qty,       \* OrderItem.quantity; 0 for goods the order does not name
  truck,     \* DeliveryOrder.vehicleId
  courier,   \* DeliveryOrder.driverId
  goods,     \* GoodsItem.status
  fleet,     \* Vehicle.status
  req,       \* what each request in flight has read, decided and locked
  revived    \* history: orders a status change brought back to reserving

vars == <<status, kind, qty, truck, courier, goods, fleet, req, revived>>
orderVars == <<status, kind, qty, truck, courier, revived>>

NotCreated == "NOT_CREATED"
Idle == [op |-> "idle"]

(***************************************************************************)
(* What the handlers compute from the tables they read.                    *)
(***************************************************************************)
Named(want) == {g \in Goods : want[g] > 0}
Items(o) == Named(qty[o])
Created == {o \in Orders : status[o] # NotCreated}
Reserving == {o \in Orders : status[o] \in ReservingStatus}

(* The packages of goods g that the orders of S of type k name.            *)
Units(S, k, g) ==
  {p \in S \X (1 .. Quantity[g]) : kind[p[1]] = k /\ p[2] <= qty[p[1]][g]}

(* The active-reservation check: want packages fit beside the reserved ones. *)
AvailableBesideBusy(want, k, g) ==   \* mutant: the list of busy statuses
  Cardinality(Units({o \in Orders : status[o] \in BusyStatus}, k, g)) + want
    <= Quantity[g]
Available(want, k, g) ==
  Cardinality(Units(Reserving, k, g)) + want <= Quantity[g]

(* MAX_DEMO_ORDERS_LIMIT, counted before anything else is looked at.       *)
UpToDemoLimit == Cardinality(Created) <= DemoLimit   \* mutant: off by one
BelowDemoLimit == Cardinality(Created) < DemoLimit

(* Whether an order other than o keeps the vehicle or the driver busy.     *)
VehicleBusy(v, o) ==
  \E p \in Orders \ {o} : truck[p] = v /\ status[p] \in BusyStatus
DriverOnTheRoad(d, o) ==   \* mutant: an arrived driver counts as free
  \E p \in Orders \ {o} :
    courier[p] = d /\ status[p] \in BusyStatus \ {"ARRIVED_DESTINATION"}
DriverUnderWay(d, o) ==   \* mutant: an assigned driver counts as free
  \E p \in Orders \ {o} :
    courier[p] = d /\ status[p] \in BusyStatus \ {"DRIVER_ASSIGNED"}
DriverBusy(d, o) ==
  \E p \in Orders \ {o} : courier[p] = d /\ status[p] \in BusyStatus

(* validateDriverAndVehicleForOrder: the order's own vehicle, once it is   *)
(* IN_SERVICE, is refused too.                                             *)
FleetValid(v, d, o) ==
  /\ v # None => fleet[v] = "AVAILABLE" /\ ~VehicleBusy(v, o)
  /\ d # None => ~DriverBusy(d, o)

(* Goods whose lifecycle allows a new order of type k.                     *)
Eligible(k, s) == IF k = "PICKUP" THEN CanInbound(s) ELSE CanOutbound(s)

MayCreate(role) == role \in {"CUSTOMER", "ADMIN"}

Target(given, seen) == IF given # None THEN given ELSE seen

(* A pickup order drags its goods along: those whose status is in SyncFrom *)
(* are set to SyncInto.                                                    *)
SyncFromAny(to) ==   \* mutant: a cancellation reverts all that is not stored
  IF to = "CANCELLED" THEN GoodsStatus \ {"STORED"} ELSE {"DRAFT"}
SyncFrom(to) ==
  CASE to \in {"DRIVER_ASSIGNED", "EN_ROUTE_PICKUP"} -> {"DRAFT"}
    [] to \in {"PICKED_UP", "IN_TRANSIT"} -> {"DRAFT", "PENDING_PICKUP"}
    [] to = "CANCELLED" -> {"PENDING_PICKUP", "IN_TRANSIT_INBOUND"}
    [] OTHER -> {}
SyncIntoOrderStatus(to) ==   \* mutant: the status of the order is written
  IF to = "CANCELLED" THEN "PENDING_ASSIGNMENT" ELSE "PENDING_PICKUP"
SyncInto(to) ==
  CASE to \in {"DRIVER_ASSIGNED", "EN_ROUTE_PICKUP"} -> "PENDING_PICKUP"
    [] to \in {"PICKED_UP", "IN_TRANSIT"} -> "IN_TRANSIT_INBOUND"
    [] OTHER -> "DRAFT"

FleetWith(v, s) == [u \in Vehicles |-> IF u = v THEN s ELSE fleet[u]]
GoodsWith(S, s) == [g \in Goods |-> IF g \in S THEN s ELSE goods[g]]

(* The vehicle write of a status change: none unless it assigns or ends.   *)
FleetAfterCancelOnly(to, v) ==   \* mutant: DELIVERED does not free it
  CASE to = "DRIVER_ASSIGNED" -> FleetWith(v, "IN_SERVICE")
    [] to = "CANCELLED" -> FleetWith(v, "AVAILABLE")
    [] OTHER -> fleet
FleetAfter(to, v) ==
  CASE to = "DRIVER_ASSIGNED" -> FleetWith(v, "IN_SERVICE")
    [] to \in {"DELIVERED", "CANCELLED"} -> FleetWith(v, "AVAILABLE")
    [] OTHER -> fleet

(* Inbound orders that the put-away of g completes.                        *)
CompletedWithSelf(g) ==   \* mutant: the item itself is read before its write
  {o \in Orders : /\ kind[o] = "PICKUP" /\ status[o] = "DELIVERED"
                  /\ g \in Items(o)
                  /\ \A h \in Items(o) : goods[h] = "STORED"}
CompletedUnreceived(g) ==   \* mutant: the status of the order is not looked at
  {o \in Orders : /\ kind[o] = "PICKUP" /\ g \in Items(o)
                  /\ \A h \in Items(o) \ {g} : goods[h] = "STORED"}
CompletedBy(g) ==
  {o \in Orders : /\ kind[o] = "PICKUP" /\ status[o] = "DELIVERED"
                  /\ g \in Items(o)
                  /\ \A h \in Items(o) \ {g} : goods[h] = "STORED"}

(***************************************************************************)
(* Row locks of the transactions in flight.                                *)
(***************************************************************************)
HeldGoods(r) ==
  CASE req[r].op = "create" -> req[r].held
    [] req[r].op = "goods" /\ req[r].stage = "locked" -> {req[r].item}
    [] OTHER -> {}
GoodsUnlocked(r, S) == TRUE   \* mutant: no SELECT FOR UPDATE
GoodsFree(r, S) == \A s \in Requests \ {r} : HeldGoods(s) \cap S = {}

HoldsOrder(r, o) ==
  req[r].op = "status" /\ req[r].stage = "locked" /\ req[r].order = o
OrderFree(r, o) == \A s \in Requests \ {r} : ~HoldsOrder(s, o)

(* A goods status change recalculates the used capacity of the warehouse,  *)
(* and so holds the warehouse's row as well as the item's.                 *)
WarehouseUnlocked(r, g) == TRUE   \* mutant: the recalculation is left out
WarehouseFree(r, g) ==
  \A s \in Requests \ {r} :
    req[s].op = "goods" /\ req[s].stage = "locked"
      => WarehouseOf[req[s].item] # WarehouseOf[g]

Advance(r, state) == req' = [req EXCEPT ![r] = state]
Finish(r) == Advance(r, Idle)

(***************************************************************************)
(* POST /logistics/orders                                                  *)
(***************************************************************************)
BeginCreate(r) ==
  /\ "create" \in Ops /\ req[r] = Idle
  /\ BelowDemoLimit
  /\ Advance(r, [op |-> "counted"])
  /\ UNCHANGED <<orderVars, goods, fleet>>

(* What createOrder keeps of its input and of the goods it read.           *)
NewCreate(k, want, v, d) ==
  [op |-> "create", stage |-> IF {v, d} = {None} THEN "tx" ELSE "validate",
   kind |-> k, want |-> want, truck |-> v, courier |-> d,
   drafts |-> {g \in Named(want) : goods[g] = "DRAFT"},
   held |-> {}, todo |-> Named(want) \cup ({v, d} \ {None})]

ReadGoods(r) ==
  /\ req[r].op = "counted"
  /\ \E role \in Roles, k \in Kinds, want \in [Goods -> Counts \cup {0}],
        v \in Vehicles \cup {None}, d \in Drivers \cup {None} :
       /\ MayCreate(role)
       /\ Named(want) # {}
       /\ \A g \in Named(want) :
            Eligible(k, goods[g]) /\ want[g] <= Quantity[g]
       /\ Advance(r, NewCreate(k, want, v, d))
  /\ UNCHANGED <<orderVars, goods, fleet>>

(* The role, goods, warehouse or count the client sent is refused.         *)
RefuseCreate(r) ==
  /\ req[r].op = "counted"
  /\ Finish(r)
  /\ UNCHANGED <<orderVars, goods, fleet>>

(* The fleet validation outside the transaction, of a new order or of a    *)
(* status change.                                                          *)
ValidateFleet(r) ==
  LET q == req[r]
      own == IF q.op = "status" THEN q.order ELSE None
  IN /\ q.op \in {"create", "status"} /\ q.stage = "validate"
     /\ IF FleetValid(q.truck, q.courier, own)
          THEN Advance(r, [q EXCEPT !.stage = "tx"])
          ELSE Finish(r)
     /\ UNCHANGED <<orderVars, goods, fleet>>

LockGoods(r, g) ==
  LET q == req[r]
  IN /\ q.op = "create" /\ q.stage = "tx"
     /\ g \in Named(q.want) \ q.held
     /\ GoodsFree(r, {g})
     /\ Advance(r, [q EXCEPT !.held = @ \cup {g}])
     /\ UNCHANGED <<orderVars, goods, fleet>>

CheckGoodsHangs(r, g) ==   \* mutant: a conflict leaves the handler waiting
  LET q == req[r]
  IN /\ q.op = "create" /\ q.held = Named(q.want) /\ g \in q.todo \cap Goods
     /\ Available(q.want[g], q.kind, g)
     /\ Advance(r, [q EXCEPT !.todo = @ \ {g}])
     /\ UNCHANGED <<orderVars, goods, fleet>>
CheckGoods(r, g) ==
  LET q == req[r]
  IN /\ q.op = "create" /\ q.held = Named(q.want) /\ g \in q.todo \cap Goods
     /\ IF Available(q.want[g], q.kind, g)
          THEN Advance(r, [q EXCEPT !.todo = @ \ {g}])
          ELSE Finish(r)
     /\ UNCHANGED <<orderVars, goods, fleet>>

(* "Double assignment prevented", inside the transaction of a new order or *)
(* of a status change; the vehicle is looked up before the driver.         *)
CheckVehicle(r) ==
  LET q == req[r]
      own == IF q.op = "status" THEN q.order ELSE None
  IN /\ q.op \in {"create", "status"} /\ q.stage = "tx"
     /\ q.todo \cap Goods = {} /\ q.truck \in q.todo
     /\ IF VehicleBusy(q.truck, own)
          THEN Finish(r)
          ELSE Advance(r, [q EXCEPT !.todo = @ \ {q.truck}])
     /\ UNCHANGED <<orderVars, goods, fleet>>

CheckDriver(r) ==
  LET q == req[r]
      own == IF q.op = "status" THEN q.order ELSE None
  IN /\ q.op \in {"create", "status"} /\ q.stage = "tx"
     /\ q.todo = {q.courier}
     /\ IF DriverBusy(q.courier, own)
          THEN Finish(r)
          ELSE Advance(r, [q EXCEPT !.todo = {}])
     /\ UNCHANGED <<orderVars, goods, fleet>>

CommitCreate(r, o) ==
  LET q == req[r]
  IN /\ q.op = "create" /\ q.stage = "tx" /\ q.todo = {}
     /\ status[o] = NotCreated
     /\ status' = [status EXCEPT ![o] = IF q.courier = None
                                          THEN "PENDING_ASSIGNMENT"
                                          ELSE "DRIVER_ASSIGNED"]
     /\ kind' = [kind EXCEPT ![o] = q.kind]
     /\ qty' = [qty EXCEPT ![o] = q.want]
     /\ truck' = [truck EXCEPT ![o] = q.truck]
     /\ courier' = [courier EXCEPT ![o] = q.courier]
     /\ goods' = IF q.kind = "PICKUP" THEN GoodsWith(q.drafts, "PENDING_PICKUP")
                                      ELSE goods
     /\ fleet' = FleetWith(q.truck, "IN_SERVICE")
     /\ Finish(r)
     /\ UNCHANGED revived

(***************************************************************************)
(* PATCH /logistics/orders/:id/status                                      *)
(***************************************************************************)
(* What updateOrderStatus keeps: the target vehicle and driver are those   *)
(* given or, failing that, those the order had; only an assignment or a    *)
(* given one is checked.                                                   *)
NewStatus(o, to, v, d) ==
  LET tv == Target(v, truck[o])
      td == Target(d, courier[o])
      assigns == to = "DRIVER_ASSIGNED"
      given == {v, d} \ {None}
  IN [op |-> "status",
      stage |-> IF assigns \/ given # {} THEN "validate" ELSE "tx",
      order |-> o, to |-> to, truck |-> tv, courier |-> td, given |-> given,
      todo |-> IF assigns THEN {tv, td} ELSE given, touched |-> {}]

BeginStatus(r) ==
  /\ "status" \in Ops /\ req[r] = Idle
  /\ \E role \in Roles, o \in Created, to \in OrderTargets,
        v \in Vehicles \cup {None}, d \in Drivers \cup {None} :
       /\ RoleMaySetOrder(role, to, kind[o])
       /\ to \in AllowedOrderTransitions(status[o])
       /\ to = "DRIVER_ASSIGNED" =>
            None \notin {Target(v, truck[o]), Target(d, courier[o])}
       /\ Advance(r, NewStatus(o, to, v, d))
  /\ UNCHANGED <<orderVars, goods, fleet>>

(* The order row is written first; the goods are read while it is locked.  *)
LockOrder(r) ==
  LET q == req[r]
  IN /\ q.op = "status" /\ q.stage = "tx" /\ q.todo = {}
     /\ OrderFree(r, q.order)
     /\ Advance(r, [q EXCEPT !.stage = "locked",
                             !.touched =
            IF kind[q.order] = "PICKUP"
              THEN {g \in Items(q.order) : goods[g] \in SyncFrom(q.to)}
              ELSE {}])
     /\ UNCHANGED <<orderVars, goods, fleet>>

(* The status is written whatever it has become since it was read.         *)
CommitStatus(r) ==
  LET q == req[r]
  IN /\ q.op = "status" /\ q.stage = "locked"
     /\ GoodsFree(r, q.touched)
     /\ status' = [status EXCEPT ![q.order] = q.to]
     /\ truck' = [truck EXCEPT
                    ![q.order] = IF q.truck \in q.given THEN q.truck ELSE @]
     /\ courier' = [courier EXCEPT
                    ![q.order] = IF q.courier \in q.given THEN q.courier ELSE @]
     /\ goods' = GoodsWith(q.touched, SyncInto(q.to))
     /\ fleet' = FleetAfter(q.to, q.truck)
     /\ revived' = IF q.order \notin Reserving /\ q.to \in ReservingStatus
                     THEN revived \cup {q.order} ELSE revived
     /\ Finish(r)
     /\ UNCHANGED <<kind, qty>>

(***************************************************************************)
(* POST /logistics/orders/:id/receive                                      *)
(***************************************************************************)
BeginReceive(r) ==
  /\ "receive" \in Ops /\ req[r] = Idle
  /\ "ADMIN" \in Roles
  /\ \E o \in Created :
       /\ kind[o] = "PICKUP" /\ status[o] = "ARRIVED_DESTINATION"
       /\ \A g \in Items(o) : goods[g] # "CANCELLED"
       /\ Advance(r, [op |-> "receive", order |-> o, truck |-> truck[o]])
  /\ UNCHANGED <<orderVars, goods, fleet>>

CommitReceive(r) ==
  LET q == req[r]
  IN /\ q.op = "receive"
     /\ OrderFree(r, q.order) /\ GoodsFree(r, Items(q.order))
     /\ status' = [status EXCEPT ![q.order] = "DELIVERED"]
     /\ goods' = GoodsWith(Items(q.order), "INSPECTING")
     /\ fleet' = FleetWith(q.truck, "AVAILABLE")
     /\ Finish(r)
     /\ UNCHANGED <<kind, qty, truck, courier, revived>>

(***************************************************************************)
(* POST /logistics/orders/:id/pod: any role, any status of a delivery.     *)
(***************************************************************************)
BeginPod(r) ==
  /\ "pod" \in Ops /\ req[r] = Idle
  /\ \E o \in Created :
       /\ kind[o] # "PICKUP"
       /\ Advance(r, [op |-> "pod", order |-> o, truck |-> truck[o]])
  /\ UNCHANGED <<orderVars, goods, fleet>>

CommitPod(r) ==
  LET q == req[r]
  IN /\ q.op = "pod"
     /\ OrderFree(r, q.order)
     /\ status' = [status EXCEPT ![q.order] = "DELIVERED"]
     /\ fleet' = FleetWith(q.truck, "AVAILABLE")
     /\ Finish(r)
     /\ UNCHANGED <<kind, qty, truck, courier, goods, revived>>

(***************************************************************************)
(* POST /logistics/vehicles/assign: the vehicle is not looked at.          *)
(***************************************************************************)
BeginAssign(r) ==
  /\ "assign" \in Ops /\ req[r] = Idle
  /\ "ADMIN" \in Roles
  /\ \E v \in Vehicles, d \in Drivers :
       ~DriverBusy(d, None) /\ Advance(r, [op |-> "assign", truck |-> v])
  /\ UNCHANGED <<orderVars, goods, fleet>>

CommitAssign(r) ==
  /\ req[r].op = "assign"
  /\ fleet' = FleetWith(req[r].truck, "IN_SERVICE")
  /\ Finish(r)
  /\ UNCHANGED <<orderVars, goods>>

(***************************************************************************)
(* PATCH /goods/:id/status; a put-away may complete an inbound order.      *)
(***************************************************************************)
BeginGoods(r) ==
  /\ "goods" \in Ops /\ req[r] = Idle
  /\ \E role \in Roles, g \in Goods, to \in GoodsTargets :
       /\ RoleMaySetGoods(role, to)
       /\ to \in AllowedGoodsTransitions(goods[g])
       /\ to = "STORED" => MayPutAway(goods[g])
       /\ Advance(r, [op |-> "goods", stage |-> "read", item |-> g, to |-> to,
                      confirms |-> {}])
  /\ UNCHANGED <<orderVars, goods, fleet>>

(* The goods row and the warehouse's are written, then the orders the item *)
(* may complete are read.                                                  *)
LockItem(r) ==
  LET q == req[r]
  IN /\ q.op = "goods" /\ q.stage = "read"
     /\ GoodsFree(r, {q.item}) /\ WarehouseFree(r, q.item)
     /\ Advance(r, [q EXCEPT !.stage = "locked",
                             !.confirms = IF q.to = "STORED"
                                            THEN CompletedBy(q.item) ELSE {}])
     /\ UNCHANGED <<orderVars, goods, fleet>>

CommitGoods(r) ==
  LET q == req[r]
  IN /\ q.op = "goods" /\ q.stage = "locked"
     /\ \A o \in q.confirms : OrderFree(r, o)
     /\ goods' = GoodsWith({q.item}, q.to)
     /\ status' = [o \in Orders |-> IF o \in q.confirms THEN "CONFIRMED"
                                                        ELSE status[o]]
     /\ Finish(r)
     /\ UNCHANGED <<kind, qty, truck, courier, fleet, revived>>

(***************************************************************************)
(* A request is dropped before its commit, and its transaction with it:    *)
(* the process stops, the connection is lost, the transaction times out,   *)
(* or a later check fails (rack slot, manifest total, missing row).        *)
(***************************************************************************)
Abort(r) ==
  /\ req[r] # Idle
  /\ Finish(r)
  /\ UNCHANGED <<orderVars, goods, fleet>>

(* What request r waits for: rows another transaction holds.               *)
WaitsFor(r, s) ==
  LET q == req[r]
  IN /\ r # s
     /\ \/ /\ q.op = "create" /\ q.stage = "tx"
           /\ HeldGoods(s) \cap Named(q.want) # {}
        \/ /\ q.op = "status" /\ q.stage = "locked"
           /\ HeldGoods(s) \cap q.touched # {}
        \/ /\ q.op = "goods" /\ q.stage = "locked"
           /\ \E o \in q.confirms : HoldsOrder(s, o)

(* PostgreSQL's deadlock detector ends one of a set of transactions that   *)
(* wait for each other.                                                    *)
EndDeadlock(r) ==
  /\ \E S \in SUBSET Requests :
       /\ r \in S
       /\ \A s \in S : \E t, u \in S : WaitsFor(s, t) /\ WaitsFor(u, s)
  /\ Finish(r)
  /\ UNCHANGED <<orderVars, goods, fleet>>

Begin(r) ==
  \/ BeginCreate(r) \/ BeginStatus(r) \/ BeginReceive(r) \/ BeginPod(r)
  \/ BeginAssign(r) \/ BeginGoods(r)

Continue(r) ==
  \/ ReadGoods(r) \/ RefuseCreate(r) \/ ValidateFleet(r)
  \/ CheckVehicle(r) \/ CheckDriver(r)
  \/ \E g \in Goods : LockGoods(r, g) \/ CheckGoods(r, g)
  \/ \E o \in Orders : CommitCreate(r, o)
  \/ LockOrder(r) \/ CommitStatus(r) \/ CommitReceive(r) \/ CommitPod(r)
  \/ CommitAssign(r) \/ LockItem(r) \/ CommitGoods(r)

Init ==
  /\ status = [o \in Orders |-> NotCreated]
  /\ kind = [o \in Orders |-> "PICKUP"]
  /\ qty = [o \in Orders |-> [g \in Goods |-> 0]]
  /\ truck = [o \in Orders |-> None]
  /\ courier = [o \in Orders |-> None]
  /\ goods \in [Goods -> InitialGoods]
  /\ fleet = [v \in Vehicles |-> "AVAILABLE"]
  /\ req = [r \in Requests |-> Idle]
  /\ revived = {}

Next == \E r \in Requests : Begin(r) \/ Continue(r) \/ Abort(r) \/ EndDeadlock(r)

Spec == Init /\ [][Next]_vars

(* The same, of clients that never have two requests about one order at a  *)
(* time.                                                                   *)
OnOrder(r) ==
  IF req[r].op \in {"status", "receive", "pod"} THEN req[r].order ELSE None
Alone ==
  \A r, s \in Requests : r # s /\ OnOrder(r) # None => OnOrder(r) # OnOrder(s)
SerialSpec == Init /\ [][Next /\ Alone']_vars

(* Node runs every handler it started, and PostgreSQL queues those who     *)
(* wait for a row; no handler is owed its client's next call.              *)
Fairness ==
  /\ \A r \in Requests : SF_vars(Continue(r))
  /\ WF_vars(\E r \in Requests : EndDeadlock(r))
FairSpec == Spec /\ Fairness

(***************************************************************************)
(* Properties                                                              *)
(***************************************************************************)
CreateState ==
  [op: {"create"}, stage: {"validate", "tx"}, kind: OrderKind,
   want: [Goods -> Nat], truck: Vehicles \cup {None},
   courier: Drivers \cup {None}, drafts: SUBSET Goods, held: SUBSET Goods,
   todo: SUBSET (Goods \cup Vehicles \cup Drivers)]
StatusState ==
  [op: {"status"}, stage: {"validate", "tx", "locked"}, order: Orders,
   to: OrderStatus, truck: Vehicles \cup {None}, courier: Drivers \cup {None},
   given: SUBSET (Vehicles \cup Drivers), todo: SUBSET (Vehicles \cup Drivers),
   touched: SUBSET Goods]
TripEndState ==
  [op: {"receive", "pod"}, order: Orders, truck: Vehicles \cup {None}]
AssignState == [op: {"assign"}, truck: Vehicles]
GoodsState ==
  [op: {"goods"}, stage: {"read", "locked"}, item: Goods, to: GoodsStatus,
   confirms: SUBSET Orders]
RequestState ==
  {Idle, [op |-> "counted"]} \cup CreateState \cup StatusState
    \cup TripEndState \cup AssignState \cup GoodsState

(* Every row holds a value of its column, every request a state of its     *)
(* handler.                                                                *)
TypeOK ==
  /\ status \in [Orders -> OrderStatus \cup {NotCreated}]
  /\ kind \in [Orders -> OrderKind]
  /\ qty \in [Orders -> [Goods -> Nat]]
  /\ truck \in [Orders -> Vehicles \cup {None}]
  /\ courier \in [Orders -> Drivers \cup {None}]
  /\ goods \in [Goods -> GoodsStatus]
  /\ fleet \in [Vehicles -> {"AVAILABLE", "IN_SERVICE"}]
  /\ req \in [Requests -> RequestState]
  /\ revived \in SUBSET Orders

(* createOrder, under every interleaving: the packages of a goods item     *)
(* that open orders of one type reserve by their creation never exceed     *)
(* those registered.  Orders a status change reopened are left out: no     *)
(* handler checks the reservations again for them.                         *)
FirstClaimsFit ==
  \A g \in Goods, k \in OrderKind :
    Cardinality(Units(Reserving \ revived, k, g)) <= Quantity[g]

(* The same of all open orders: no package is promised twice.              *)
NoOverReservation ==
  \A g \in Goods, k \in OrderKind :
    Cardinality(Units(Reserving, k, g)) <= Quantity[g]

(* createOrder checks reservations item by item and writes the order later *)
(* still, yet, whatever runs beside it, an order claims its packages as if *)
(* check and claim were one step, and holds them until a status change     *)
(* takes it out of the reserving statuses.  Orders a status change         *)
(* reopened have given up their claim: nothing checks it again.            *)
ClaimStage(o, S) ==
  IF status[o] = NotCreated THEN "none" ELSE IF o \in S THEN "held" ELSE "gone"
FirstClaims ==
  INSTANCE Claims WITH Types <- OrderKind, type <- kind, want <- qty,
    stage <- [o \in Orders |-> ClaimStage(o, Reserving \ revived)]
FirstClaimsAtomic == FirstClaims!Spec

(* The same of all reserving orders: no claim given up is taken up again.  *)
Promises ==
  INSTANCE Claims WITH Types <- OrderKind, type <- kind, want <- qty,
    stage <- [o \in Orders |-> ClaimStage(o, Reserving)]
PromisesAtomic == Promises!Spec

(* createOrder counts the orders before its transaction, so requests in    *)
(* flight together overshoot the limit, but by less than their number.     *)
OvershootBounded ==
  Cardinality(Created) < DemoLimit + Cardinality(Requests)

(* Four handlers write an order's status, three of them from what they     *)
(* read before their transaction.  Yet it only moves along the transition  *)
(* table, except that a POD delivers a delivery from any status.  So no    *)
(* pickup order leaves CANCELLED or CONFIRMED.                             *)
FollowsTable ==
  [][\A o \in Created :
       \/ status'[o] = status[o]
       \/ status'[o] \in AllowedOrderTransitions(status[o])
       \/ kind[o] # "PICKUP" /\ status'[o] = "DELIVERED"]_vars

(* Receiving, POD and a DELIVERED status free the vehicle the order then   *)
(* has, and not one it had when the handler read it.                       *)
DeliveredFreesVehicle ==
  [][\A o \in Orders :
       status[o] # "DELIVERED" /\ status'[o] = "DELIVERED" /\ truck'[o] # None
         => fleet'[truck'[o]] = "AVAILABLE"]_vars

(* The busy orders that have x for their vehicle or driver.                *)
Sharers(x) == {o \in Orders : x \in {truck[o], courier[o]} /\ status[o] \in BusyStatus}

(* createOrder and updateOrderStatus check that a driver or vehicle is     *)
(* free without locking it: requests in flight together may all pass, but  *)
(* no more busy orders share it than there are requests, where no order is *)
(* set DELAYED (an order that resumes from there is not checked).          *)
SharingBounded ==
  \A x \in Vehicles \cup Drivers :
    Cardinality(Sharers(x)) <= Cardinality(Requests)

(* Two busy orders that share a vehicle or a driver.                       *)
Clash(o, p) ==
  /\ o # p /\ {status[o], status[p]} \subseteq BusyStatus
  /\ \/ truck[o] = truck[p] /\ truck[o] # None
     \/ courier[o] = courier[p] /\ courier[o] # None

(* "Double assignment prevented": no vehicle or driver is on two busy      *)
(* orders.                                                                 *)
NoDoubleAssignment == \A o, p \in Orders : ~Clash(o, p)

(* Request after request, the checks of createOrder and updateOrderStatus  *)
(* leave one way to a double assignment: a DELAYED order, whose driver and *)
(* vehicle may have been given away, resumes.                              *)
ClashOnlyByResuming ==
  [][\A o, p \in Orders :
       ~Clash(o, p) /\ Clash(o, p)' => "DELAYED" \in {status[o], status[p]}]_vars

(* Without an admin no inbound order gets past the dock, and none of the   *)
(* goods are inspected or stored, whatever drivers and customers call.     *)
InboundNeedsAdmin ==
  /\ \A o \in Created :
       kind[o] = "PICKUP" => status[o] \notin {"DELIVERED", "CONFIRMED"}
  /\ \A g \in Goods : goods[g] \notin {"INSPECTING", "STORED"}

(* The put-away of its last item confirms a received order: none is left   *)
(* DELIVERED with all its goods on the racks.                              *)
StoredMeansConfirmed ==
  \A o \in Created :
    kind[o] = "PICKUP" /\ status[o] = "DELIVERED"
      => \E g \in Items(o) : goods[g] # "STORED"

(* Cancelled goods are terminated: no handler, of the goods or of an order *)
(* that names them, gives them another status.                             *)
CancelledGoodsStay ==
  [][\A g \in Goods :
       goods[g] = "CANCELLED" => goods'[g] = "CANCELLED"]_vars

(* Every request ends: row locks, and the order they are taken in, never   *)
(* hold a handler for good.                                                *)
RequestsFinish == \A r \in Requests : req[r] # Idle ~> req[r] = Idle
=============================================================================
