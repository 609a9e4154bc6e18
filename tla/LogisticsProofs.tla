-------------------------- MODULE LogisticsProofs --------------------------
(***************************************************************************)
(* Types: every row and every request in flight keeps its type, for every  *)
(* set of orders, goods, vehicles, drivers and requests.  The lemmas here  *)
(* say what one request's step writes; the other proofs build on them.     *)
(***************************************************************************)
EXTENDS Logistics, FiniteSetTheorems, TLAPS

(***************************************************************************)
(* A request's operation tells which record it is.                         *)
(***************************************************************************)
LEMMA RequestByOp ==
  ASSUME NEW q \in RequestState
  PROVE  /\ q.op = "idle" => q = Idle
         /\ q.op = "counted" => q = [op |-> "counted"]
         /\ q.op = "create" => q \in CreateState
         /\ q.op = "status" => q \in StatusState
         /\ q.op \in {"receive", "pod"} => q \in TripEndState
         /\ q.op = "assign" => q \in AssignState
         /\ q.op = "goods" => q \in GoodsState
  BY DEF RequestState, Idle, CreateState, StatusState, TripEndState,
         AssignState, GoodsState

LEMMA IdleIsRequest ==
  /\ Idle \in RequestState
  /\ [op |-> "counted"] \in RequestState
  BY DEF RequestState

LEMMA RequestStates ==
  ASSUME NEW q \in CreateState \cup StatusState \cup TripEndState
                   \cup AssignState \cup GoodsState
  PROVE  q \in RequestState
  BY DEF RequestState

(* One request moves, the others keep their state.                         *)
LEMMA AdvanceOne ==
  ASSUME TypeOK, NEW r \in Requests, NEW st \in RequestState, Advance(r, st)
  PROVE  /\ req' \in [Requests -> RequestState]
         /\ req'[r] = st
         /\ \A s \in Requests \ {r} : req'[s] = req[s]
  BY DEF TypeOK, Advance

LEMMA FinishOne ==
  ASSUME TypeOK, NEW r \in Requests, Finish(r)
  PROVE  /\ req' \in [Requests -> RequestState]
         /\ req'[r] = Idle
         /\ \A s \in Requests \ {r} : req'[s] = req[s]
  BY AdvanceOne, IdleIsRequest DEF Finish

LEMMA WritesTyped ==
  ASSUME TypeOK
  PROVE  /\ \A v, s : s \in {"AVAILABLE", "IN_SERVICE"} =>
              FleetWith(v, s) \in [Vehicles -> {"AVAILABLE", "IN_SERVICE"}]
         /\ \A S, s : s \in GoodsStatus =>
              GoodsWith(S, s) \in [Goods -> GoodsStatus]
         /\ \A to, v :
              FleetAfter(to, v) \in [Vehicles -> {"AVAILABLE", "IN_SERVICE"}]
         /\ \A to : SyncInto(to) \in GoodsStatus
  BY DEF TypeOK, FleetWith, GoodsWith, FleetAfter, SyncInto, GoodsStatus

(***************************************************************************)
(* Type correctness: Init, then one step per action.                       *)
(***************************************************************************)
LEMMA InitTyped == Init => TypeOK
  BY InputsAssumption, IdleIsRequest
  DEF Init, TypeOK, OrderStatus, OrderKind

(* What a request step leaves alone when it only moves the request.        *)
LEMMA OnlyRequestMoves ==
  ASSUME TypeOK, req' \in [Requests -> RequestState],
         UNCHANGED <<orderVars, goods, fleet>>
  PROVE  TypeOK'
  BY DEF TypeOK, orderVars

LEMMA NewStatusTyped ==
  ASSUME TypeOK, NEW o \in Created, NEW to \in OrderTargets,
         NEW v \in Vehicles \cup {None}, NEW d \in Drivers \cup {None},
         to = "DRIVER_ASSIGNED" =>
           None \notin {Target(v, truck[o]), Target(d, courier[o])}
  PROVE  /\ NewStatus(o, to, v, d) \in StatusState
         /\ NewStatus(o, to, v, d).order = o
         /\ NewStatus(o, to, v, d).to = to
         /\ NewStatus(o, to, v, d).touched = {}
         /\ NewStatus(o, to, v, d).stage # "locked"
<1> DEFINE tv == Target(v, truck[o])
           td == Target(d, courier[o])
           given == {v, d} \ {None}
           todo == IF to = "DRIVER_ASSIGNED" THEN {tv, td} ELSE given
           stage == IF to = "DRIVER_ASSIGNED" \/ given # {}
                      THEN "validate" ELSE "tx"
<1>1. /\ o \in Orders /\ to \in OrderStatus
      /\ tv \in Vehicles \cup {None} /\ td \in Drivers \cup {None}
  BY InputsAssumption DEF TypeOK, Created, Target
<1>2. given \in SUBSET (Vehicles \cup Drivers)
  OBVIOUS
<1>3. todo \in SUBSET (Vehicles \cup Drivers)
  BY <1>1, <1>2
<1>4. stage \in {"validate", "tx"}
  OBVIOUS
<1>5. NewStatus(o, to, v, d) =
        [op |-> "status", stage |-> stage, order |-> o, to |-> to,
         truck |-> tv, courier |-> td, given |-> given, todo |-> todo,
         touched |-> {}]
  BY DEF NewStatus
<1> HIDE DEF tv, td, given, todo, stage
<1>. QED BY <1>1, <1>2, <1>3, <1>4, <1>5 DEF StatusState

LEMMA NewCreateTyped ==
  ASSUME TypeOK, NEW k \in Kinds, NEW want \in [Goods -> Counts \cup {0}],
         NEW v \in Vehicles \cup {None}, NEW d \in Drivers \cup {None}
  PROVE  /\ NewCreate(k, want, v, d) \in CreateState
         /\ NewCreate(k, want, v, d).want = want
         /\ NewCreate(k, want, v, d).held = {}
         /\ Named(want) \subseteq NewCreate(k, want, v, d).todo
<1> DEFINE stage == IF {v, d} = {None} THEN "tx" ELSE "validate"
           todo == Named(want) \cup ({v, d} \ {None})
           drafts == {g \in Named(want) : goods[g] = "DRAFT"}
<1>1. k \in OrderKind /\ want \in [Goods -> Nat]
  <2>1. Kinds \subseteq OrderKind /\ Counts \subseteq Nat
    BY InputsAssumption
  <2>2. Counts \cup {0} \subseteq Nat
    BY <2>1
  <2>. QED BY <2>1, <2>2
<1>2. /\ stage \in {"validate", "tx"} /\ drafts \in SUBSET Goods
      /\ todo \in SUBSET (Goods \cup Vehicles \cup Drivers)
  BY DEF Named
<1>3. NewCreate(k, want, v, d) =
        [op |-> "create", stage |-> stage, kind |-> k, want |-> want,
         truck |-> v, courier |-> d, drafts |-> drafts, held |-> {},
         todo |-> todo]
  BY DEF NewCreate
<1>4. Named(want) \subseteq todo
  OBVIOUS
<1> HIDE DEF stage, todo, drafts
<1>. QED BY <1>1, <1>2, <1>3, <1>4 DEF CreateState

LEMMA BeginTyped ==
  ASSUME TypeOK, NEW r \in Requests, Begin(r)
  PROVE  TypeOK'
<1>1. CASE BeginCreate(r)
  BY <1>1, AdvanceOne, IdleIsRequest, OnlyRequestMoves DEF BeginCreate
<1>2. CASE BeginStatus(r)
  <2>1. PICK o \in Created, to \in OrderTargets,
             v \in Vehicles \cup {None}, d \in Drivers \cup {None} :
           /\ to = "DRIVER_ASSIGNED" =>
                None \notin {Target(v, truck[o]), Target(d, courier[o])}
           /\ Advance(r, NewStatus(o, to, v, d))
    BY <1>2 DEF BeginStatus
  <2>2. NewStatus(o, to, v, d) \in RequestState
    BY <2>1, NewStatusTyped, RequestStates
  <2>. QED BY <1>2, <2>1, <2>2, AdvanceOne, OnlyRequestMoves DEF BeginStatus
<1>3. CASE BeginReceive(r)
  <2>1. PICK o \in Orders :
          Advance(r, [op |-> "receive", order |-> o, truck |-> truck[o]])
    BY <1>3 DEF BeginReceive, Created
  <2>2. [op |-> "receive", order |-> o, truck |-> truck[o]] \in RequestState
    BY DEF TripEndState, RequestState, TypeOK
  <2>. QED BY <1>3, <2>1, <2>2, AdvanceOne, OnlyRequestMoves DEF BeginReceive
<1>4. CASE BeginPod(r)
  <2>1. PICK o \in Orders :
          Advance(r, [op |-> "pod", order |-> o, truck |-> truck[o]])
    BY <1>4 DEF BeginPod, Created
  <2>2. [op |-> "pod", order |-> o, truck |-> truck[o]] \in RequestState
    BY DEF TripEndState, RequestState, TypeOK
  <2>. QED BY <1>4, <2>1, <2>2, AdvanceOne, OnlyRequestMoves DEF BeginPod
<1>5. CASE BeginAssign(r)
  <2>1. PICK v \in Vehicles : Advance(r, [op |-> "assign", truck |-> v])
    BY <1>5 DEF BeginAssign
  <2>2. [op |-> "assign", truck |-> v] \in RequestState
    BY DEF AssignState, RequestState
  <2>. QED BY <1>5, <2>1, <2>2, AdvanceOne, OnlyRequestMoves DEF BeginAssign
<1>6. CASE BeginGoods(r)
  <2>1. PICK g \in Goods, to \in GoodsTargets :
          Advance(r, [op |-> "goods", stage |-> "read", item |-> g, to |-> to,
                      confirms |-> {}])
    BY <1>6 DEF BeginGoods
  <2>2. [op |-> "goods", stage |-> "read", item |-> g, to |-> to,
         confirms |-> {}] \in RequestState
    BY InputsAssumption DEF GoodsState, RequestState
  <2>. QED BY <1>6, <2>1, <2>2, AdvanceOne, OnlyRequestMoves DEF BeginGoods
<1>. QED BY <1>1, <1>2, <1>3, <1>4, <1>5, <1>6 DEF Begin

LEMMA FinishTyped ==
  ASSUME TypeOK, NEW r \in Requests, Finish(r),
         UNCHANGED <<orderVars, goods, fleet>>
  PROVE  TypeOK'
  BY FinishOne, OnlyRequestMoves

LEMMA ContinueTyped ==
  ASSUME TypeOK, NEW r \in Requests, Continue(r)
  PROVE  TypeOK'
<1> DEFINE q == req[r]
<1>q. q \in RequestState
  BY DEF TypeOK
<1>1. CASE ReadGoods(r)
  <2>1. PICK k \in Kinds, want \in [Goods -> Counts \cup {0}],
             v \in Vehicles \cup {None}, d \in Drivers \cup {None} :
           Advance(r, NewCreate(k, want, v, d))
    BY <1>1 DEF ReadGoods
  <2>2. NewCreate(k, want, v, d) \in RequestState
    BY NewCreateTyped, RequestStates
  <2>. QED BY <1>1, <2>1, <2>2, AdvanceOne, OnlyRequestMoves DEF ReadGoods
<1>2. CASE RefuseCreate(r)
  BY <1>2, FinishTyped DEF RefuseCreate
<1>3. CASE ValidateFleet(r)
  <2>1. [q EXCEPT !.stage = "tx"] \in RequestState
    BY <1>3, <1>q, RequestByOp
    DEF ValidateFleet, RequestState, CreateState, StatusState
  <2>2. Advance(r, [q EXCEPT !.stage = "tx"]) \/ Finish(r)
    BY <1>3 DEF ValidateFleet
  <2>3. UNCHANGED <<orderVars, goods, fleet>>
    BY <1>3 DEF ValidateFleet
  <2>. QED BY <2>1, <2>2, <2>3, AdvanceOne, OnlyRequestMoves, FinishTyped
<1>4. CASE CheckVehicle(r)
  <2>1. [q EXCEPT !.todo = @ \ {q.truck}] \in RequestState
    BY <1>4, <1>q, RequestByOp
    DEF CheckVehicle, RequestState, CreateState, StatusState
  <2>2. Advance(r, [q EXCEPT !.todo = @ \ {q.truck}]) \/ Finish(r)
    BY <1>4 DEF CheckVehicle
  <2>3. UNCHANGED <<orderVars, goods, fleet>>
    BY <1>4 DEF CheckVehicle
  <2>. QED BY <2>1, <2>2, <2>3, AdvanceOne, OnlyRequestMoves, FinishTyped
<1>5. CASE CheckDriver(r)
  <2>1. [q EXCEPT !.todo = {}] \in RequestState
    BY <1>5, <1>q, RequestByOp
    DEF CheckDriver, RequestState, CreateState, StatusState
  <2>2. Advance(r, [q EXCEPT !.todo = {}]) \/ Finish(r)
    BY <1>5 DEF CheckDriver
  <2>3. UNCHANGED <<orderVars, goods, fleet>>
    BY <1>5 DEF CheckDriver
  <2>. QED BY <2>1, <2>2, <2>3, AdvanceOne, OnlyRequestMoves, FinishTyped
<1>6. ASSUME NEW g \in Goods, LockGoods(r, g)
      PROVE  TypeOK'
  <2>1. [q EXCEPT !.held = @ \cup {g}] \in RequestState
    BY <1>6, <1>q, RequestByOp DEF LockGoods, RequestState, CreateState
  <2>. QED BY <1>6, <2>1, AdvanceOne, OnlyRequestMoves DEF LockGoods
<1>7. ASSUME NEW g \in Goods, CheckGoods(r, g)
      PROVE  TypeOK'
  <2>1. [q EXCEPT !.todo = @ \ {g}] \in RequestState
    BY <1>7, <1>q, RequestByOp DEF CheckGoods, RequestState, CreateState
  <2>2. Advance(r, [q EXCEPT !.todo = @ \ {g}]) \/ Finish(r)
    BY <1>7 DEF CheckGoods
  <2>3. UNCHANGED <<orderVars, goods, fleet>>
    BY <1>7 DEF CheckGoods
  <2>. QED BY <2>1, <2>2, <2>3, AdvanceOne, OnlyRequestMoves, FinishTyped
<1>8. ASSUME NEW o \in Orders, CommitCreate(r, o)
      PROVE  TypeOK'
  <2>1. q \in CreateState
    BY <1>8, <1>q, RequestByOp DEF CommitCreate
  <2>2. goods' \in [Goods -> GoodsStatus]
    BY <1>8, WritesTyped DEF CommitCreate, TypeOK, GoodsStatus
  <2>3. fleet' \in [Vehicles -> {"AVAILABLE", "IN_SERVICE"}]
    BY <1>8, WritesTyped DEF CommitCreate
  <2>4. status' \in [Orders -> OrderStatus \cup {NotCreated}]
    BY <1>8 DEF CommitCreate, TypeOK, OrderStatus
  <2>5. req' \in [Requests -> RequestState]
    BY <1>8, FinishOne DEF CommitCreate
  <2>. QED BY <1>8, <2>1, <2>2, <2>3, <2>4, <2>5
           DEF CommitCreate, TypeOK, CreateState
<1>9. CASE LockOrder(r)
  <2>1. PICK T \in SUBSET Goods :
           Advance(r, [q EXCEPT !.stage = "locked", !.touched = T])
    <3> DEFINE T == IF kind[q.order] = "PICKUP"
                      THEN {g \in Items(q.order) : goods[g] \in SyncFrom(q.to)}
                      ELSE {}
    <3>1. T \in SUBSET Goods
      BY DEF Items, Named
    <3>. QED BY <1>9, <3>1 DEF LockOrder
  <2>2. [q EXCEPT !.stage = "locked", !.touched = T] \in RequestState
    BY <1>9, <1>q, RequestByOp DEF LockOrder, RequestState, StatusState
  <2>. QED BY <1>9, <2>1, <2>2, AdvanceOne, OnlyRequestMoves DEF LockOrder
<1>10. CASE CommitStatus(r)
  <2>1. q \in StatusState
    BY <1>10, <1>q, RequestByOp DEF CommitStatus
  <2>2. goods' \in [Goods -> GoodsStatus]
    BY <1>10, WritesTyped DEF CommitStatus
  <2>3. fleet' \in [Vehicles -> {"AVAILABLE", "IN_SERVICE"}]
    BY <1>10, WritesTyped DEF CommitStatus
  <2>4. /\ q.order \in Orders /\ q.to \in OrderStatus
        /\ q.truck \in Vehicles \cup {None}
        /\ q.courier \in Drivers \cup {None}
    BY <2>1 DEF StatusState
  <2>5. status' \in [Orders -> OrderStatus \cup {NotCreated}]
    BY <1>10, <2>4 DEF CommitStatus, TypeOK
  <2>6. /\ truck' \in [Orders -> Vehicles \cup {None}]
        /\ courier' \in [Orders -> Drivers \cup {None}]
    BY <1>10, <2>4 DEF CommitStatus, TypeOK
  <2>7. revived' \in SUBSET Orders
    BY <1>10, <2>4 DEF CommitStatus, TypeOK
  <2>8. req' \in [Requests -> RequestState]
    BY <1>10, FinishOne DEF CommitStatus
  <2>. QED BY <1>10, <2>2, <2>3, <2>5, <2>6, <2>7, <2>8
           DEF CommitStatus, TypeOK
<1>11. CASE CommitReceive(r) \/ CommitPod(r)
  <2>1. status' = [status EXCEPT ![q.order] = "DELIVERED"]
    BY <1>11 DEF CommitReceive, CommitPod
  <2>2. status' \in [Orders -> OrderStatus \cup {NotCreated}]
    BY <2>1 DEF TypeOK, OrderStatus
  <2>3. goods' \in [Goods -> GoodsStatus]
    BY <1>11, WritesTyped DEF CommitReceive, CommitPod, TypeOK, GoodsStatus
  <2>4. fleet' \in [Vehicles -> {"AVAILABLE", "IN_SERVICE"}]
    BY <1>11, WritesTyped DEF CommitReceive, CommitPod
  <2>5. req' \in [Requests -> RequestState]
    BY <1>11, FinishOne DEF CommitReceive, CommitPod
  <2>. QED BY <1>11, <2>2, <2>3, <2>4, <2>5
           DEF CommitReceive, CommitPod, TypeOK
<1>12. CASE CommitAssign(r)
  <2>1. fleet' \in [Vehicles -> {"AVAILABLE", "IN_SERVICE"}]
    BY <1>12, WritesTyped DEF CommitAssign
  <2>2. req' \in [Requests -> RequestState]
    BY <1>12, FinishOne DEF CommitAssign
  <2>. QED BY <1>12, <2>1, <2>2 DEF CommitAssign, TypeOK, orderVars
<1>13. CASE LockItem(r)
  <2>1. PICK C \in SUBSET Orders :
           Advance(r, [q EXCEPT !.stage = "locked", !.confirms = C])
    <3> DEFINE C == IF q.to = "STORED" THEN CompletedBy(q.item) ELSE {}
    <3>1. C \in SUBSET Orders
      BY DEF CompletedBy
    <3>. QED BY <1>13, <3>1 DEF LockItem
  <2>2. [q EXCEPT !.stage = "locked", !.confirms = C] \in RequestState
    BY <1>13, <1>q, RequestByOp DEF LockItem, RequestState, GoodsState
  <2>. QED BY <1>13, <2>1, <2>2, AdvanceOne, OnlyRequestMoves DEF LockItem
<1>14. CASE CommitGoods(r)
  <2>1. q \in GoodsState
    BY <1>14, <1>q, RequestByOp DEF CommitGoods
  <2>2. goods' \in [Goods -> GoodsStatus]
    BY <1>14, <2>1, WritesTyped DEF CommitGoods, GoodsState
  <2>3. status' \in [Orders -> OrderStatus \cup {NotCreated}]
    BY <1>14 DEF CommitGoods, TypeOK, OrderStatus
  <2>4. req' \in [Requests -> RequestState]
    BY <1>14, FinishOne DEF CommitGoods
  <2>. QED BY <1>14, <2>2, <2>3, <2>4 DEF CommitGoods, TypeOK
<1>. QED
  BY <1>1, <1>2, <1>3, <1>4, <1>5, <1>6, <1>7, <1>8, <1>9, <1>10, <1>11,
     <1>12, <1>13, <1>14 DEF Continue

LEMMA StepTyped == TypeOK /\ [Next]_vars => TypeOK'
<1> SUFFICES ASSUME TypeOK, [Next]_vars PROVE TypeOK'
  OBVIOUS
<1>1. ASSUME NEW r \in Requests, Abort(r) \/ EndDeadlock(r)
      PROVE  TypeOK'
  BY <1>1, FinishTyped DEF Abort, EndDeadlock
<1>2. CASE UNCHANGED vars
  BY <1>2 DEF vars, TypeOK
<1>. QED BY <1>1, <1>2, BeginTyped, ContinueTyped DEF Next

(* Types are kept by every handler, whatever requests run together.        *)
THEOREM TypeCorrect == Spec => []TypeOK
  BY InitTyped, StepTyped, PTL DEF Spec
=============================================================================
