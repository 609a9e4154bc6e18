---------------------------- MODULE InboundProofs ----------------------------
(***************************************************************************)
(* Proofs about inbound orders: without an admin none gets past the dock   *)
(* (InboundNeedsAdmin), and received through the dock none is left         *)
(* DELIVERED with all its goods stored (StoredMeansConfirmed).             *)
(*                                                                         *)
(* The first rests on the role rules alone.  The second follows the        *)
(* put-away: it holds the item's and the warehouse's row from its reading  *)
(* of the orders it may complete to its commit, so in one warehouse no     *)
(* other item is stored in between, and no order of the item is received.  *)
(***************************************************************************)
EXTENDS ReservationProofs

(***************************************************************************)
(* What requests ask for.                                                  *)
(***************************************************************************)
(* A request as a handler has read and accepted it.                        *)
Accepted(q) ==
  \/ q.op \in {"counted", "assign"}
  \/ /\ q.op = "status"
     /\ \E role \in Roles, o \in Created, to \in OrderTargets :
          RoleMaySetOrder(role, to, kind[o]) /\ q.order = o /\ q.to = to
  \/ /\ q.op = "receive" /\ "ADMIN" \in Roles
  \/ /\ q.op = "pod" /\ q.order \in Created /\ kind[q.order] # "PICKUP"
  \/ /\ q.op = "goods" /\ q.stage = "read"
     /\ \E role \in Roles, to \in GoodsTargets : RoleMaySetGoods(role, to) /\ q.to = to

LEMMA BeginAccepts ==
  ASSUME TypeOK, NEW r \in Requests, Begin(r)
  PROVE  Accepted(req'[r])
<1>1. CASE BeginCreate(r)
  <2>1. req'[r] = [op |-> "counted"]
    BY <1>1, Moves DEF BeginCreate
  <2>. QED BY <2>1 DEF Accepted
<1>2. CASE BeginStatus(r)
  <2>1. PICK role \in Roles, o \in Created, to \in OrderTargets,
             v \in Vehicles \cup {None}, d \in Drivers \cup {None} :
           RoleMaySetOrder(role, to, kind[o]) /\ Advance(r, NewStatus(o, to, v, d))
    BY <1>2 DEF BeginStatus
  <2>2. /\ NewStatus(o, to, v, d).op = "status"
        /\ NewStatus(o, to, v, d).order = o /\ NewStatus(o, to, v, d).to = to
    BY DEF NewStatus
  <2>. QED BY <2>1, <2>2, Moves DEF Accepted
<1>3. CASE BeginReceive(r)
  <2>1. PICK o \in Created :
          Advance(r, [op |-> "receive", order |-> o, truck |-> truck[o]])
    BY <1>3 DEF BeginReceive
  <2>2. req'[r] = [op |-> "receive", order |-> o, truck |-> truck[o]]
    BY <2>1, Moves
  <2>. QED BY <1>3, <2>2 DEF Accepted, BeginReceive
<1>4. CASE BeginPod(r)
  <2>1. PICK o \in Created :
          /\ kind[o] # "PICKUP"
          /\ Advance(r, [op |-> "pod", order |-> o, truck |-> truck[o]])
    BY <1>4 DEF BeginPod
  <2>2. req'[r] = [op |-> "pod", order |-> o, truck |-> truck[o]]
    BY <2>1, Moves
  <2>. QED BY <2>1, <2>2 DEF Accepted
<1>5. CASE BeginAssign(r)
  <2>1. PICK v \in Vehicles : Advance(r, [op |-> "assign", truck |-> v])
    BY <1>5 DEF BeginAssign
  <2>2. req'[r] = [op |-> "assign", truck |-> v]
    BY <2>1, Moves
  <2>. QED BY <2>2 DEF Accepted
<1>6. CASE BeginGoods(r)
  <2>1. PICK role \in Roles, g \in Goods, to \in GoodsTargets :
          /\ RoleMaySetGoods(role, to)
          /\ Advance(r, [op |-> "goods", stage |-> "read", item |-> g, to |-> to,
                         confirms |-> {}])
    BY <1>6 DEF BeginGoods
  <2>2. req'[r] = [op |-> "goods", stage |-> "read", item |-> g, to |-> to,
                   confirms |-> {}]
    BY <2>1, Moves
  <2>. QED BY <2>1, <2>2 DEF Accepted
<1>. QED BY <1>1, <1>2, <1>3, <1>4, <1>5, <1>6 DEF Begin

LEMMA ReadAsks ==
  ASSUME TypeOK, NEW r \in Requests, ReadGoods(r)
  PROVE  req'[r].op = "create" /\ Named(req'[r].want) # {}
<1>1. PICK k \in Kinds, want \in [Goods -> Counts \cup {0}],
           v \in Vehicles \cup {None}, d \in Drivers \cup {None} :
         Named(want) # {} /\ Advance(r, NewCreate(k, want, v, d))
  BY DEF ReadGoods
<1>2. NewCreate(k, want, v, d).op = "create" /\ NewCreate(k, want, v, d).want = want
  BY DEF NewCreate
<1>. QED BY <1>1, <1>2, Moves

(* A put-away that has its locks read the orders it completes under them.  *)
LEMMA LockItemReads ==
  ASSUME TypeOK, NEW r \in Requests, LockItem(r)
  PROVE  /\ req[r].op = "goods" /\ req[r].stage = "read"
         /\ req'[r].op = "goods" /\ req'[r].item = req[r].item
         /\ req'[r].to = req[r].to
         /\ req'[r].confirms = IF req[r].to = "STORED" THEN CompletedBy(req[r].item)
                                                       ELSE {}
<1> DEFINE p == req[r]
           C == IF p.to = "STORED" THEN CompletedBy(p.item) ELSE {}
<1>1. Advance(r, [p EXCEPT !.stage = "locked", !.confirms = C])
      /\ p.op = "goods" /\ p.stage = "read"
  BY DEF LockItem
<1>2. p \in GoodsState
  BY <1>1, RequestByOp DEF TypeOK
<1> HIDE DEF C
<1>3. req'[r] = [p EXCEPT !.stage = "locked", !.confirms = C]
  BY <1>1, Moves
<1>4. /\ req'[r].op = "goods" /\ req'[r].item = p.item /\ req'[r].to = p.to
      /\ req'[r].confirms = C
  BY <1>2, <1>3 DEF GoodsState
<1>. QED BY <1>1, <1>4 DEF C

(* What a request becomes in a step of its own.                            *)
LEMMA OwnStep ==
  ASSUME TypeOK, LocksHeld, NEW r \in Requests, StepOf(r)
  PROVE  \/ req'[r] = Idle
         \/ Accepted(req'[r])
         \/ req'[r].op = "create" /\ Named(req'[r].want) # {}
         \/ /\ req'[r].op = "create" /\ req[r].op = "create"
            /\ req'[r].want = req[r].want
         \/ /\ req'[r].op = "status" /\ req[r].op = "status"
            /\ req'[r].order = req[r].order /\ req'[r].to = req[r].to
         \/ LockItem(r)
<1>1. CASE Finish(r)
  BY <1>1, FinishOne
<1>2. CASE Begin(r)
  BY <1>2, BeginAccepts
<1>3. CASE ReadGoods(r)
  BY <1>3, ReadAsks
<1>4. CASE GoesOn(req[r], req'[r], r)
  BY <1>4 DEF GoesOn
<1>. QED BY <1>1, <1>2, <1>3, <1>4, ContinueGoesOn DEF StepOf, Abort, EndDeadlock

(***************************************************************************)
(* Without an admin                                                        *)
(***************************************************************************)
(* What no customer and no driver can ask for, of orders of types k.       *)
Lay(q, k) ==
  /\ q.op # "receive"
  /\ q.op = "pod" => k[q.order] # "PICKUP"
  /\ q.op = "status" /\ k[q.order] = "PICKUP" => q.to \notin {"DELIVERED", "CONFIRMED"}
  /\ q.op = "goods" => /\ q.to \notin {"INSPECTING", "STORED"}
                       /\ q.stage = "locked" => q.confirms = {}

LayInv ==
  ReservationInv /\ InboundNeedsAdmin /\ \A r \in Requests : Lay(req[r], kind)

LEMMA LayRoles ==
  ASSUME "ADMIN" \notin Roles, NEW role \in Roles
  PROVE  /\ \A to : RoleMaySetOrder(role, to, "PICKUP")
                      => to \notin {"DELIVERED", "CONFIRMED"}
         /\ \A to : RoleMaySetGoods(role, to) => to \notin {"INSPECTING", "STORED"}
<1>1. role \in {"CUSTOMER", "DRIVER"}
  BY InputsAssumption DEF UserRole
<1>. QED BY <1>1 DEF RoleMaySetOrder, CustomerMaySet, DriverMaySet, RoleMaySetGoods

LEMMA OwnLay ==
  ASSUME TypeOK, LocksHeld, "ADMIN" \notin Roles, NEW r \in Requests, StepOf(r),
         Lay(req[r], kind)
  PROVE  Lay(req'[r], kind)
<1>1. CASE req'[r] = Idle
  BY <1>1 DEF Lay, Idle
<1>2. CASE Accepted(req'[r])
  BY <1>2, LayRoles DEF Accepted, Lay
<1>3. CASE req'[r].op = "create"
  BY <1>3 DEF Lay
<1>4. CASE /\ req'[r].op = "status" /\ req[r].op = "status"
           /\ req'[r].order = req[r].order /\ req'[r].to = req[r].to
  BY <1>4 DEF Lay
<1>5. CASE LockItem(r)
  BY <1>5, LockItemReads DEF Lay
<1>. QED BY <1>1, <1>2, <1>3, <1>4, <1>5, OwnStep

(* Orders keep their type once they are created, and the goods they name.  *)
LEMMA KindStays ==
  ASSUME TypeOK, OrdersExist, NEW r \in Requests, StepOf(r), NEW o \in Created
  PROVE  kind'[o] = kind[o] /\ qty'[o] = qty[o]
<1>1. CASE UNCHANGED <<orderVars, goods>>
  BY <1>1 DEF orderVars
<1>2. CASE CommitOf(r)
  BY <1>2, HoldersShrink
<1>3. CASE \E p \in Orders : CommitCreate(r, p)
  BY <1>3 DEF CommitCreate, Created, TypeOK
<1>. QED BY <1>1, <1>2, <1>3, QuietOrCommit

LEMMA LayStays ==
  ASSUME TypeOK, OrdersExist, OrdersExist', NEW r \in Requests, StepOf(r),
         NEW q, q.op \in {"status", "receive", "pod"} => q.order \in Created, Lay(q, kind)
  PROVE  Lay(q, kind')
BY KindStays DEF Lay

LEMMA LayDock ==
  ASSUME LayInv, NEW r \in Requests, StepOf(r)
  PROVE  InboundNeedsAdmin'
<1>0. TypeOK /\ OrdersExist /\ Lay(req[r], kind) /\ InboundNeedsAdmin
  BY DEF LayInv, ReservationInv
<1>1. CASE UNCHANGED <<orderVars, goods>>
  BY <1>0, <1>1 DEF orderVars, InboundNeedsAdmin, Created
<1>2. ASSUME NEW p \in Orders, CommitCreate(r, p) PROVE InboundNeedsAdmin'
  <2>1. \A o \in Created' : o # p => o \in Created /\ status'[o] = status[o]
                                      /\ kind'[o] = kind[o]
    BY <1>0, <1>2 DEF CommitCreate, Created, TypeOK
  <2>2. status'[p] \in {"PENDING_ASSIGNMENT", "DRIVER_ASSIGNED"}
    BY <1>0, <1>2 DEF CommitCreate, TypeOK
  <2>3. \A g \in Goods : goods'[g] \in {goods[g], "PENDING_PICKUP"}
    BY <1>0, <1>2 DEF CommitCreate, GoodsWith
  <2>. QED BY <1>0, <2>1, <2>2, <2>3 DEF InboundNeedsAdmin
<1>3. CASE CommitOf(r)
  <2>1. Created' = Created /\ kind' = kind
    BY <1>0, <1>3, HoldersShrink
  <2>2. CASE CommitStatus(r)
    <3>1. /\ req[r].op = "status" /\ req[r].order \in Created
          /\ status' = [status EXCEPT ![req[r].order] = req[r].to]
      BY <1>0, <2>2 DEF CommitStatus, OrdersExist
    <3>2. \A g \in Goods : goods'[g] \in {goods[g], SyncInto(req[r].to)}
      BY <2>2 DEF CommitStatus, GoodsWith
    <3>3. SyncInto(req[r].to) \notin {"INSPECTING", "STORED"}
      BY DEF SyncInto
    <3>4. \A o \in Created : kind[o] = "PICKUP" => status'[o] \notin {"DELIVERED", "CONFIRMED"}
      BY <1>0, <3>1 DEF InboundNeedsAdmin, Lay, TypeOK, Created
    <3>. QED BY <1>0, <2>1, <3>2, <3>3, <3>4 DEF InboundNeedsAdmin
  <2>3. CASE CommitPod(r)
    <3>1. /\ kind[req[r].order] # "PICKUP" /\ UNCHANGED goods
          /\ status' = [status EXCEPT ![req[r].order] = "DELIVERED"]
      BY <1>0, <2>3 DEF CommitPod, Lay
    <3>. QED BY <1>0, <2>1, <3>1 DEF InboundNeedsAdmin, TypeOK, Created
  <2>4. CASE CommitGoods(r)
    <3>1. req[r].to \notin {"INSPECTING", "STORED"} /\ req[r].confirms = {}
      BY <1>0, <2>4 DEF CommitGoods, Lay
    <3>2. \A g \in Goods : goods'[g] \in {goods[g], req[r].to}
      BY <2>4 DEF CommitGoods, GoodsWith
    <3>3. \A o \in Orders : status'[o] = status[o]
      BY <2>4, <3>1 DEF CommitGoods
    <3>. QED BY <1>0, <2>1, <3>1, <3>2, <3>3 DEF InboundNeedsAdmin, Created
  <2>5. ~CommitReceive(r)
    BY <1>0 DEF CommitReceive, Lay
  <2>. QED BY <1>3, <2>2, <2>3, <2>4, <2>5 DEF CommitOf
<1>. QED BY <1>1, <1>2, <1>3, QuietOrCommit

(* The order of a request was created before the step that takes it up.    *)
LEMMA OrderWasThere ==
  ASSUME ReservationInv, NEW r \in Requests, StepOf(r), NEW s \in Requests,
         req'[s].op \in {"status", "receive", "pod"}
  PROVE  req'[s].order \in Created
<1>0. TypeOK /\ OrdersExist /\ OrdersExist'
  BY OrdersExistKept DEF ReservationInv
<1> SUFFICES ASSUME req'[s].order \notin Created PROVE FALSE
  OBVIOUS
<1>1. req'[s].order \in Created' \ Created
  BY <1>0 DEF OrdersExist
<1>2. PICK o \in Orders : CommitCreate(r, o)
  <2>1. ~CommitOf(r)
    BY <1>0, <1>1, HoldersShrink
  <2>2. ~UNCHANGED <<orderVars, goods>>
    BY <1>1 DEF orderVars, Created
  <2>. QED BY <2>1, <2>2, QuietOrCommit
<1>3. s # r
  BY <1>0, <1>2, FinishOne DEF CommitCreate, Idle
<1>. QED BY <1>0, <1>3, OthersStay DEF OrdersExist

LEMMA StepLay ==
  ASSUME LayInv, "ADMIN" \notin Roles, [Next]_vars
  PROVE  LayInv'
<1>0. /\ ReservationInv' /\ ReservationInv /\ TypeOK /\ OrdersExist /\ OrdersExist'
      /\ LocksHeld
  BY StepReserves DEF LayInv, ReservationInv
<1>1. ASSUME NEW r \in Requests, StepOf(r) PROVE LayInv'
  <2>1. ASSUME NEW s \in Requests PROVE Lay(req'[s], kind')
    <3>1. Lay(req'[s], kind)
      BY <1>0, <1>1, OwnLay, OthersStay DEF LayInv
    <3>2. req'[s].op \in {"status", "receive", "pod"} => req'[s].order \in Created
      BY <1>1, OrderWasThere DEF LayInv
    <3>. QED BY <1>0, <1>1, <3>1, <3>2, LayStays
  <2>2. InboundNeedsAdmin'
    BY <1>1, LayDock
  <2>. QED BY <1>0, <2>1, <2>2 DEF LayInv
<1>2. CASE UNCHANGED vars
  BY <1>0, <1>2 DEF vars, LayInv, InboundNeedsAdmin, Created
<1>. QED BY <1>1, <1>2, NextIsStepOf

(* Whatever drivers and customers call, no inbound order is received or    *)
(* confirmed and none of its goods inspected or stored without an admin.   *)
THEOREM DockNeedsAdmin ==
  ASSUME "ADMIN" \notin Roles, InitialGoods \cap {"INSPECTING", "STORED"} = {}
  PROVE  Spec => []InboundNeedsAdmin
<1>1. Init => LayInv
  <2> SUFFICES ASSUME Init PROVE LayInv
    OBVIOUS
  <2>1. \A r \in Requests : req[r] = Idle
    BY DEF Init
  <2>2. InboundNeedsAdmin
    BY DEF Init, InboundNeedsAdmin, Created
  <2>. QED BY <2>1, <2>2, InitReserves DEF LayInv, Lay, Idle
<1>2. LayInv /\ [Next]_vars => LayInv'
  BY StepLay
<1>3. LayInv => InboundNeedsAdmin
  BY DEF LayInv
<1>. QED BY <1>1, <1>2, <1>3, PTL DEF Spec

(***************************************************************************)
(* Received through the dock                                               *)
(***************************************************************************)
(* What clients ask for who set no order DELIVERED themselves, of orders   *)
(* of types k: createOrder refuses an order without goods, submitPod an    *)
(* inbound one.                                                            *)
Asks(q, k) ==
  /\ q.op = "create" => Named(q.want) # {}
  /\ q.op = "status" => q.to # "DELIVERED"
  /\ q.op = "pod" => k[q.order] # "PICKUP"

(* A transaction that holds the rows of a goods item and its warehouse.    *)
HoldsItem(q) == q.op = "goods" /\ q.stage = "locked"

OneLocked ==
  \A r, s \in Requests : HoldsItem(req[r]) /\ HoldsItem(req[s]) => r = s

(* A received order that waits for item g alone.                           *)
AwaitsOnly(o, g) ==
  /\ kind[o] = "PICKUP" /\ status[o] = "DELIVERED" /\ g \in Items(o)
  /\ \A h \in Items(o) \ {g} : goods[h] = "STORED"

(* The put-away in flight will confirm every order that waits for its item *)
(* alone.                                                                  *)
Confirming ==
  \A r \in Requests : HoldsItem(req[r]) /\ req[r].to = "STORED"
    => \A o \in Created : AwaitsOnly(o, req[r].item) => o \in req[r].confirms

DockInv ==
  /\ ReservationInv /\ OneLocked /\ Confirming /\ StoredMeansConfirmed
  /\ \A o \in Created : Items(o) # {}
  /\ \A r \in Requests : Asks(req[r], kind)

OnlyByDock ==
  /\ \A g, h \in Goods : WarehouseOf[g] = WarehouseOf[h]
  /\ "DELIVERED" \notin OrderTargets

LEMMA OwnAsks ==
  ASSUME TypeOK, LocksHeld, OnlyByDock, NEW r \in Requests, StepOf(r),
         Asks(req[r], kind)
  PROVE  Asks(req'[r], kind)
<1>1. CASE req'[r] = Idle
  BY <1>1 DEF Asks, Idle
<1>2. CASE Accepted(req'[r])
  BY <1>2 DEF Accepted, Asks, OnlyByDock
<1>3. CASE req'[r].op = "create" /\ Named(req'[r].want) # {}
  BY <1>3 DEF Asks
<1>4. CASE /\ req'[r].op = "create" /\ req[r].op = "create"
           /\ req'[r].want = req[r].want
  BY <1>4 DEF Asks
<1>5. CASE /\ req'[r].op = "status" /\ req[r].op = "status"
           /\ req'[r].order = req[r].order /\ req'[r].to = req[r].to
  BY <1>5 DEF Asks
<1>6. CASE LockItem(r)
  BY <1>6, LockItemReads DEF Asks
<1>. QED BY <1>1, <1>2, <1>3, <1>4, <1>5, <1>6, OwnStep

(* A request takes the locks of an item by LockItem, and finishes once it  *)
(* has them.                                                               *)
LEMMA OwnLocks ==
  ASSUME TypeOK, LocksHeld, NEW r \in Requests, StepOf(r), HoldsItem(req'[r])
  PROVE  LockItem(r)
BY OwnStep DEF HoldsItem, Accepted, Idle

LEMMA OneLockedKept ==
  ASSUME DockInv, OnlyByDock, NEW r \in Requests, StepOf(r)
  PROVE  OneLocked'
<1>0. TypeOK /\ LocksHeld /\ OneLocked
  BY DEF DockInv, ReservationInv
<1>1. ASSUME NEW s \in Requests \ {r}, HoldsItem(req'[r]), HoldsItem(req[s])
      PROVE  FALSE
  <2>1. LockItem(r)
    BY <1>0, <1>1, OwnLocks
  <2>2. WarehouseFree(r, req[r].item) /\ req[r].op = "goods"
    BY <2>1 DEF LockItem
  <2>3. req[r].item \in Goods /\ req[s].item \in Goods
    BY <1>0, <1>1, <2>2, RequestByOp DEF HoldsItem, TypeOK, GoodsState
  <2>. QED BY <1>1, <2>2, <2>3 DEF WarehouseFree, HoldsItem, OnlyByDock
<1>. QED BY <1>0, <1>1, OthersStay DEF OneLocked

(***************************************************************************)
(* Every step that does not put goods away keeps an unstored item unstored *)
(* and, except at the dock, delivers no inbound order.                     *)
(***************************************************************************)
Quietly ==
  /\ \A o \in Created' :
       kind'[o] = "PICKUP" /\ status'[o] = "DELIVERED"
         => /\ o \in Created /\ kind[o] = "PICKUP" /\ status[o] = "DELIVERED"
            /\ qty'[o] = qty[o]
  /\ \A g \in Goods : goods'[g] = "STORED" => goods[g] = "STORED"

LEMMA MostStepsQuiet ==
  ASSUME DockInv, NEW r \in Requests, StepOf(r), ~CommitReceive(r),
         ~(CommitGoods(r) /\ req[r].to = "STORED")
  PROVE  Quietly
<1>0. TypeOK /\ OrdersExist /\ Asks(req[r], kind)
  BY DEF DockInv, ReservationInv
<1>1. CASE UNCHANGED <<orderVars, goods>>
  BY <1>1 DEF orderVars, Quietly, Created
<1>2. ASSUME NEW p \in Orders, CommitCreate(r, p) PROVE Quietly
  <2>1. \A o \in Created' : o # p => /\ o \in Created /\ status'[o] = status[o]
                                     /\ kind'[o] = kind[o] /\ qty'[o] = qty[o]
    BY <1>0, <1>2 DEF CommitCreate, Created, TypeOK
  <2>2. status'[p] \in {"PENDING_ASSIGNMENT", "DRIVER_ASSIGNED"}
    BY <1>0, <1>2 DEF CommitCreate, TypeOK
  <2>3. \A g \in Goods : goods'[g] \in {goods[g], "PENDING_PICKUP"}
    BY <1>0, <1>2 DEF CommitCreate, GoodsWith
  <2>. QED BY <2>1, <2>2, <2>3 DEF Quietly
<1>3. CASE CommitOf(r)
  <2>1. Created' = Created /\ kind' = kind /\ qty' = qty
    BY <1>0, <1>3, HoldersShrink
  <2>2. CASE CommitStatus(r)
    <3>1. /\ req[r].op = "status" /\ req[r].to # "DELIVERED"
          /\ status' = [status EXCEPT ![req[r].order] = req[r].to]
      BY <1>0, <2>2 DEF CommitStatus, Asks
    <3>2. \A g \in Goods : goods'[g] \in {goods[g], SyncInto(req[r].to)}
      BY <2>2 DEF CommitStatus, GoodsWith
    <3>3. SyncInto(req[r].to) # "STORED"
      BY DEF SyncInto
    <3>4. \A o \in Created : status'[o] = "DELIVERED" => status[o] = "DELIVERED"
      BY <1>0, <3>1 DEF TypeOK, Created
    <3>. QED BY <2>1, <3>2, <3>3, <3>4 DEF Quietly
  <2>3. CASE CommitPod(r)
    <3>1. /\ kind[req[r].order] # "PICKUP" /\ UNCHANGED goods
          /\ status' = [status EXCEPT ![req[r].order] = "DELIVERED"]
      BY <1>0, <2>3 DEF CommitPod, Asks
    <3>. QED BY <1>0, <2>1, <3>1 DEF Quietly, TypeOK, Created
  <2>4. CASE CommitGoods(r)
    <3>1. req[r].to # "STORED"
      BY <2>4
    <3>2. \A g \in Goods : goods'[g] \in {goods[g], req[r].to}
      BY <2>4 DEF CommitGoods, GoodsWith
    <3>3. \A o \in Orders : status'[o] \in {status[o], "CONFIRMED"}
      BY <2>4 DEF CommitGoods
    <3>. QED BY <2>1, <3>1, <3>2, <3>3 DEF Quietly, Created
  <2>. QED BY <1>3, <2>2, <2>3, <2>4 DEF CommitOf
<1>. QED BY <1>1, <1>2, <1>3, QuietOrCommit

(* A quiet step leaves a received order its unstored item, and makes no    *)
(* order wait for an item alone that did not before.                       *)
LEMMA QuietKeeps ==
  ASSUME Quietly
  PROVE  /\ StoredMeansConfirmed => StoredMeansConfirmed'
         /\ \A o \in Created', g \in Goods : AwaitsOnly(o, g)' => o \in Created /\ AwaitsOnly(o, g)
<1>1. \A o \in Created' : kind'[o] = "PICKUP" /\ status'[o] = "DELIVERED"
        => Items(o)' = Items(o)
  BY DEF Quietly, Items, Named
<1>3. StoredMeansConfirmed => StoredMeansConfirmed'
  BY <1>1 DEF Quietly, StoredMeansConfirmed, Items, Named
<1>4. ASSUME NEW o \in Created', NEW g \in Goods, AwaitsOnly(o, g)'
      PROVE  o \in Created /\ AwaitsOnly(o, g)
  BY <1>1, <1>4 DEF Quietly, AwaitsOnly, Items, Named
<1>. QED BY <1>3, <1>4

(* Receiving sets all goods of its order INSPECTING, of which there are    *)
(* some, and none of them is locked by a put-away.                         *)
LEMMA ReceivingKeeps ==
  ASSUME DockInv, NEW r \in Requests, CommitReceive(r)
  PROVE  /\ StoredMeansConfirmed'
         /\ \A s \in Requests \ {r}, o \in Created', g \in Goods :
              HoldsItem(req[s]) /\ req[s].item = g /\ AwaitsOnly(o, g)'
                => o \in Created /\ AwaitsOnly(o, g)
<1> DEFINE d == req[r].order
<1>0. /\ TypeOK /\ OrdersExist /\ d \in Created /\ StoredMeansConfirmed
      /\ \A o \in Created : Items(o) # {}
  BY DEF DockInv, ReservationInv, OrdersExist, CommitReceive
<1>1. /\ Created' = Created /\ kind' = kind /\ qty' = qty
      /\ status' = [status EXCEPT ![d] = "DELIVERED"]
      /\ goods' = GoodsWith(Items(d), "INSPECTING")
  BY <1>0, HoldersShrink DEF CommitReceive, CommitOf
<1>2. \A o : Items(o)' = Items(o) /\ Items(o) \subseteq Goods
  BY <1>1 DEF Items, Named
<1>3. /\ \A g \in Goods : goods'[g] = "STORED" => goods[g] = "STORED" /\ g \notin Items(d)
      /\ \A o \in Created \ {d} : status'[o] = status[o]
  BY <1>0, <1>1 DEF GoodsWith, TypeOK, Created
<1>4. StoredMeansConfirmed'
  <2>1. ASSUME NEW o \in Created, kind[o] = "PICKUP", status'[o] = "DELIVERED"
        PROVE  \E g \in Items(o) : goods'[g] # "STORED"
    <3>1. CASE o = d
      BY <1>0, <1>2, <1>3, <3>1
    <3>2. CASE o # d
      BY <1>0, <1>2, <1>3, <2>1, <3>2 DEF StoredMeansConfirmed
    <3>. QED BY <3>1, <3>2
  <2>. QED BY <1>1, <1>2, <2>1 DEF StoredMeansConfirmed
<1>5. ASSUME NEW s \in Requests \ {r}, NEW o \in Created, NEW g \in Goods,
             HoldsItem(req[s]), req[s].item = g, AwaitsOnly(o, g)'
      PROVE  AwaitsOnly(o, g)
  <2>1. g \notin Items(d)
    BY <1>5 DEF CommitReceive, GoodsFree, HeldGoods, HoldsItem
  <2>2. o # d /\ kind[o] = "PICKUP" /\ status'[o] = "DELIVERED" /\ g \in Items(o)
        /\ \A h \in Items(o) \ {g} : goods'[h] = "STORED"
    BY <1>1, <1>2, <1>5, <2>1 DEF AwaitsOnly
  <2>. QED BY <1>2, <1>3, <2>2 DEF AwaitsOnly
<1>. QED BY <1>1, <1>4, <1>5

(* A put-away confirms the orders that await its item; any other received  *)
(* order has another item that is not stored.                              *)
LEMMA PutAwayKeeps ==
  ASSUME DockInv, NEW r \in Requests, CommitGoods(r), req[r].to = "STORED"
  PROVE  StoredMeansConfirmed'
<1> DEFINE i == req[r].item
<1>0. TypeOK /\ OrdersExist /\ StoredMeansConfirmed
  BY DEF DockInv, ReservationInv
<1>1. Created' = Created /\ kind' = kind /\ qty' = qty
  BY <1>0, HoldersShrink DEF CommitOf
<1>2. /\ \A o \in Orders : status'[o] = "DELIVERED"
                             => status[o] = "DELIVERED" /\ o \notin req[r].confirms
      /\ \A g \in Goods \ {i} : goods'[g] = goods[g]
  BY DEF CommitGoods, GoodsWith
<1>3. \A o \in Created : AwaitsOnly(o, i) => o \in req[r].confirms
  BY DEF CommitGoods, DockInv, Confirming, HoldsItem
<1>4. \A o : Items(o)' = Items(o) /\ Items(o) \subseteq Goods
  BY <1>1 DEF Items, Named
<1>5. ASSUME NEW o \in Created, kind[o] = "PICKUP", status'[o] = "DELIVERED"
      PROVE  \E g \in Items(o) : goods'[g] # "STORED"
  <2>1. status[o] = "DELIVERED" /\ ~AwaitsOnly(o, i)
    BY <1>2, <1>3, <1>5 DEF Created
  <2>2. \E g \in Items(o) \ {i} : goods[g] # "STORED"
    BY <1>0, <1>5, <2>1 DEF AwaitsOnly, StoredMeansConfirmed
  <2>. QED BY <1>2, <1>4, <2>2
<1>. QED BY <1>1, <1>4, <1>5 DEF StoredMeansConfirmed

LEMMA ConfirmingKept ==
  ASSUME DockInv, OnlyByDock, NEW r \in Requests, StepOf(r)
  PROVE  Confirming'
<1>0. TypeOK /\ OrdersExist /\ LocksHeld /\ OneLocked /\ Confirming /\ TypeOK'
  BY NextTyped DEF DockInv, ReservationInv
<1> SUFFICES ASSUME NEW s \in Requests, HoldsItem(req'[s]), req'[s].to = "STORED",
                    NEW o \in Created', NEW g \in Goods, req'[s].item = g,
                    AwaitsOnly(o, g)'
             PROVE  o \in req'[s].confirms
  <2>1. \A s \in Requests : HoldsItem(req'[s]) => req'[s].item \in Goods
    BY <1>0, RequestByOp DEF HoldsItem, TypeOK, GoodsState
  <2>. QED BY <2>1 DEF Confirming, HoldsItem, AwaitsOnly
<1>1. CASE s = r
  <2>1. LockItem(r)
    BY <1>0, <1>1, OwnLocks
  <2>2. req'[r].confirms = CompletedBy(g) /\ UNCHANGED <<orderVars, goods>>
    BY <1>0, <1>1, <2>1, LockItemReads DEF LockItem
  <2>3. o \in Created /\ AwaitsOnly(o, g)
    BY <2>2 DEF orderVars, AwaitsOnly, Created, Items, Named
  <2>. QED BY <1>1, <2>2, <2>3 DEF CompletedBy, AwaitsOnly, Created
<1>2. CASE s # r
  <2>1. req'[s] = req[s]
    BY <1>0, <1>2, OthersStay
  <2>2. o \in Created /\ AwaitsOnly(o, g)
    <3>1. CASE CommitReceive(r)
      BY <1>2, <2>1, <3>1, ReceivingKeeps
    <3>2. CASE CommitGoods(r)
      BY <1>0, <1>2, <2>1, <3>2 DEF CommitGoods, OneLocked, HoldsItem
    <3>3. CASE ~CommitReceive(r) /\ ~CommitGoods(r)
      BY <3>3, MostStepsQuiet, QuietKeeps
    <3>. QED BY <3>1, <3>2, <3>3
  <2>. QED BY <1>0, <2>1, <2>2 DEF Confirming
<1>. QED BY <1>1, <1>2

LEMMA StoredKept ==
  ASSUME DockInv, NEW r \in Requests, StepOf(r)
  PROVE  StoredMeansConfirmed'
<1>1. CASE CommitReceive(r)
  BY <1>1, ReceivingKeeps
<1>2. CASE CommitGoods(r) /\ req[r].to = "STORED"
  BY <1>2, PutAwayKeeps
<1>3. CASE ~CommitReceive(r) /\ ~(CommitGoods(r) /\ req[r].to = "STORED")
  BY <1>3, MostStepsQuiet, QuietKeeps DEF DockInv
<1>. QED BY <1>1, <1>2, <1>3

LEMMA OrdersNameGoods ==
  ASSUME DockInv, NEW r \in Requests, StepOf(r), NEW o \in Created'
  PROVE  Items(o)' # {}
<1>0. TypeOK /\ OrdersExist /\ \A p \in Created : Items(p) # {}
  BY DEF DockInv, ReservationInv
<1>1. CASE o \in Created
  BY <1>0, <1>1, KindStays DEF Items, Named
<1>2. CASE o \notin Created
  <2>1. PICK p \in Orders : CommitCreate(r, p)
    <3>1. CASE UNCHANGED <<orderVars, goods>>
      BY <1>2, <3>1 DEF orderVars, Created
    <3>2. CASE CommitOf(r)
      BY <1>0, <1>2, <3>2, HoldersShrink
    <3>. QED BY <3>1, <3>2, QuietOrCommit
  <2>2. o = p /\ o \in Orders
    BY <1>0, <1>2, <2>1 DEF CommitCreate, Created, TypeOK
  <2>3. qty'[o] = req[r].want
    BY <1>0, <2>1, <2>2 DEF CommitCreate, TypeOK
  <2>4. Named(req[r].want) # {}
    BY <2>1 DEF CommitCreate, DockInv, Asks
  <2>. QED BY <2>3, <2>4 DEF Items, Named
<1>. QED BY <1>1, <1>2

LEMMA StepDocks ==
  ASSUME DockInv, OnlyByDock, [Next]_vars
  PROVE  DockInv'
<1>0. /\ ReservationInv' /\ ReservationInv /\ TypeOK /\ OrdersExist /\ OrdersExist'
      /\ LocksHeld
  BY StepReserves DEF DockInv, ReservationInv
<1>1. ASSUME NEW r \in Requests, StepOf(r) PROVE DockInv'
  <2>1. ASSUME NEW s \in Requests PROVE Asks(req'[s], kind')
    <3>1. Asks(req'[s], kind)
      BY <1>0, <1>1, OwnAsks, OthersStay DEF DockInv
    <3>2. req'[s].op \in {"status", "receive", "pod"} => req'[s].order \in Created
      BY <1>0, <1>1, OrderWasThere
    <3>. QED BY <1>0, <1>1, <3>1, <3>2, KindStays DEF Asks
  <2>2. OneLocked' /\ Confirming' /\ StoredMeansConfirmed'
    BY <1>1, OneLockedKept, ConfirmingKept, StoredKept
  <2>3. \A o \in Created' : Items(o)' # {}
    BY <1>1, OrdersNameGoods
  <2>. QED BY <1>0, <2>1, <2>2, <2>3 DEF DockInv
<1>2. CASE UNCHANGED vars
  BY <1>0, <1>2 DEF vars, DockInv, OneLocked, Confirming, StoredMeansConfirmed,
     AwaitsOnly, Created, Items, Named
<1>. QED BY <1>1, <1>2, NextIsStepOf

(* In one warehouse, and with inbound orders received through the dock, no *)
(* received order is left DELIVERED once all its goods are on the racks,   *)
(* however the put-aways of its items interleave.                          *)
THEOREM StoredOrdersConfirmed ==
  ASSUME \A g, h \in Goods : WarehouseOf[g] = WarehouseOf[h],
         "DELIVERED" \notin OrderTargets
  PROVE  Spec => []StoredMeansConfirmed
<1>0. OnlyByDock
  BY DEF OnlyByDock
<1>1. Init => DockInv
  <2> SUFFICES ASSUME Init PROVE DockInv
    OBVIOUS
  <2>1. (\A r \in Requests : req[r] = Idle) /\ Created = {}
    BY DEF Init, Created
  <2>. QED BY <2>1, InitReserves DEF DockInv, OneLocked, Confirming, HoldsItem,
           StoredMeansConfirmed, Asks, Idle
<1>2. DockInv /\ [Next]_vars => DockInv'
  BY <1>0, StepDocks
<1>3. DockInv => StoredMeansConfirmed
  BY DEF DockInv
<1>. QED BY <1>1, <1>2, <1>3, PTL DEF Spec
=============================================================================
