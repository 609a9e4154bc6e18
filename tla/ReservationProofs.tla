------------------------- MODULE ReservationProofs -------------------------
(***************************************************************************)
(* Proofs about createOrder: new orders never promise more packages of a   *)
(* goods item than are registered (FirstClaimsFit) and exceed the demo     *)
(* limit by few (OvershootBounded), for every interleaving of requests.    *)
(*                                                                         *)
(* The first invariant follows createOrder: the rows of the goods it names *)
(* are locked by one transaction at a time, a goods item is checked only   *)
(* while its row is locked, and what the check found stays true until the  *)
(* commit because every other commit leaves the orders that hold packages  *)
(* as they are, or takes some away.                                        *)
(***************************************************************************)
EXTENDS LogisticsProofs

FirstHolders == Reserving \ revived

(* The goods whose reservations a creation has already checked.            *)
Checked(q) == Named(q.want) \ q.todo

OrdersExist ==
  \A r \in Requests :
    /\ req[r].op \in {"status", "receive", "pod"} => req[r].order \in Created
    /\ req[r].op = "goods" => req[r].confirms \subseteq Created

LocksHeld ==
  \A r \in Requests : req[r].op = "create" =>
    req[r].held \subseteq Named(req[r].want) /\ Checked(req[r]) \subseteq req[r].held

LocksExclusive ==
  \A r, s \in Requests : r # s => HeldGoods(r) \cap HeldGoods(s) = {}

CheckedFit ==
  \A r \in Requests : req[r].op = "create" =>
    \A g \in Checked(req[r]) :
      Cardinality(Units(FirstHolders, req[r].kind, g)) + req[r].want[g]
        <= Quantity[g]

ReservationInv ==
  TypeOK /\ OrdersExist /\ LocksHeld /\ LocksExclusive /\ CheckedFit
    /\ FirstClaimsFit

(***************************************************************************)
(* Counting packages.                                                      *)
(***************************************************************************)
LEMMA UnitsFinite ==
  ASSUME NEW S \in SUBSET Orders, NEW k, NEW g \in Goods
  PROVE  /\ IsFiniteSet(Units(S, k, g))
         /\ Cardinality(Units(S, k, g)) \in Nat
<1>1. IsFiniteSet(S) /\ IsFiniteSet(1 .. Quantity[g])
  BY QuantityAssumption, FS_Subset, FS_Interval
<1>2. IsFiniteSet(S \X (1 .. Quantity[g]))
  BY <1>1, FS_Product
<1>3. Units(S, k, g) \in SUBSET (S \X (1 .. Quantity[g]))
  BY DEF Units
<1>. QED BY <1>2, <1>3, FS_Subset, FS_CardinalityType

(* The packages of T as the next state has them.                           *)
NextUnits(T, k, g) ==
  {p \in T \X (1 .. Quantity[g]) : kind'[p[1]] = k /\ p[2] <= qty'[p[1]][g]}

(* One more order o adds at most the n packages it names; the other orders *)
(* of T were there before and name what they named.                        *)
LEMMA UnitsGrow ==
  ASSUME NEW S \in SUBSET Orders, NEW o \in Orders, NEW T \in SUBSET (S \cup {o}),
         NEW k, NEW g \in Goods, NEW n \in Nat,
         \A p \in T \ {o} : kind'[p] = kind[p] /\ qty'[p] = qty[p],
         kind'[o] = k => qty'[o][g] = n
  PROVE  Cardinality(NextUnits(T, k, g)) <= Cardinality(Units(S, k, g)) + n
<1> DEFINE U == NextUnits(T, k, g)
           V == Units(S, k, g)
           X == {o} \X (1 .. n)
<1>1. U \subseteq V \cup X
  <2>1. ASSUME NEW p \in T \X (1 .. Quantity[g]),
               kind'[p[1]] = k, p[2] <= qty'[p[1]][g]
        PROVE  p \in V \cup X
    <3>1. CASE p[1] = o
      <4>1. p = <<o, p[2]>> /\ p[2] \in Nat \ {0}
        BY <3>1, QuantityAssumption
      <4>2. p[2] \in 1 .. n
        BY <2>1, <3>1, <4>1
      <4>. QED BY <4>1, <4>2
    <3>2. CASE p[1] # o
      <4>1. p[1] \in T \ {o} /\ p[1] \in S
        BY <3>2
      <4>. QED BY <2>1, <4>1 DEF Units
    <3>. QED BY <3>1, <3>2
  <2>. QED BY <2>1 DEF NextUnits
<1>2. IsFiniteSet(V) /\ Cardinality(V) \in Nat
  BY UnitsFinite
<1> HIDE DEF U, V
<1>3. IsFiniteSet(X) /\ Cardinality(X) = n
  <2>1. IsFiniteSet({o}) /\ Cardinality({o}) = 1
    BY FS_Singleton
  <2>2. IsFiniteSet(1 .. n) /\ Cardinality(1 .. n) = n
    BY FS_Interval
  <2>3. /\ IsFiniteSet({o} \X (1 .. n))
        /\ Cardinality({o} \X (1 .. n)) = Cardinality({o}) * Cardinality(1 .. n)
    BY <2>1, <2>2, FS_Product
  <2>. QED BY <2>1, <2>2, <2>3
<1>4. IsFiniteSet(V \cup X) /\ Cardinality(V \cup X) <= Cardinality(V) + n
  <2> HIDE DEF X
  <2>1. Cardinality(V \cap X) \in Nat
    BY <1>2, FS_Subset, FS_CardinalityType
  <2>2. /\ IsFiniteSet(V \cup X)
        /\ Cardinality(V \cup X) =
             Cardinality(V) + Cardinality(X) - Cardinality(V \cap X)
    BY <1>2, <1>3, FS_Union
  <2>. QED BY <1>2, <1>3, <2>1, <2>2
<1>5. Cardinality(U) <= Cardinality(V \cup X) /\ Cardinality(U) \in Nat
  BY <1>1, <1>4, FS_Subset, FS_CardinalityType
<1>6. Cardinality(V \cup X) \in Nat
  BY <1>4, FS_CardinalityType
<1>7. Cardinality(U) <= Cardinality(V) + n
  BY <1>2, <1>4, <1>5, <1>6
<1>. QED BY <1>7 DEF U, V

(* Without a new order, no package is added.                               *)
LEMMA UnitsKept ==
  ASSUME NEW S \in SUBSET Orders, NEW T \in SUBSET S, NEW k, NEW g \in Goods,
         kind' = kind, qty' = qty
  PROVE  Cardinality(NextUnits(T, k, g)) <= Cardinality(Units(S, k, g))
<1>1. NextUnits(T, k, g) \in SUBSET Units(S, k, g)
  BY DEF Units, NextUnits
<1>. QED BY <1>1, UnitsFinite, FS_Subset

(***************************************************************************)
(* What the step of one request changes.                                   *)
(***************************************************************************)
StepOf(r) == Begin(r) \/ Continue(r) \/ Abort(r) \/ EndDeadlock(r)

LEMMA NextIsStepOf == [Next]_vars => (\E r \in Requests : StepOf(r)) \/ UNCHANGED vars
  BY DEF Next, StepOf

LEMMA Moves ==
  ASSUME TypeOK, NEW r \in Requests, NEW st, Advance(r, st)
  PROVE  req'[r] = st /\ \A s \in Requests \ {r} : req'[s] = req[s]
  BY DEF TypeOK, Advance

LEMMA OthersStay ==
  ASSUME TypeOK, NEW r \in Requests, StepOf(r)
  PROVE  \A s \in Requests \ {r} : req'[s] = req[s]
<1>1. PICK st : Advance(r, st)
  BY DEF StepOf, Begin, Continue, Abort, EndDeadlock, Finish, BeginCreate,
         BeginStatus, BeginReceive, BeginPod, BeginAssign, BeginGoods,
         ReadGoods, RefuseCreate, ValidateFleet, CheckVehicle, CheckDriver,
         LockGoods, CheckGoods, CommitCreate, LockOrder, CommitStatus,
         CommitReceive, CommitPod, CommitAssign, LockItem, CommitGoods
<1>. QED BY <1>1, Moves

(* The commits of existing orders.                                         *)
CommitOf(r) ==
  CommitStatus(r) \/ CommitReceive(r) \/ CommitPod(r) \/ CommitGoods(r)

LEMMA QuietOrCommit ==
  ASSUME NEW r \in Requests, StepOf(r)
  PROVE  \/ UNCHANGED <<orderVars, goods>>
         \/ CommitOf(r)
         \/ \E o \in Orders : CommitCreate(r, o)
  BY DEF StepOf, Begin, Continue, Abort, EndDeadlock, CommitOf, BeginCreate,
         BeginStatus, BeginReceive, BeginPod, BeginAssign, BeginGoods,
         ReadGoods, RefuseCreate, ValidateFleet, CheckVehicle, CheckDriver,
         LockGoods, CheckGoods, LockOrder, CommitAssign, LockItem

(* They take packages away, or give them back to an order marked revived.  *)
LEMMA HoldersShrink ==
  ASSUME TypeOK, OrdersExist, NEW r \in Requests, CommitOf(r)
  PROVE  /\ kind' = kind /\ qty' = qty
         /\ FirstHolders' \subseteq FirstHolders
         /\ Created' = Created
         /\ req'[r] = Idle
<1> DEFINE q == req[r]
<1>q. q \in RequestState
  BY DEF TypeOK
<1>r. NotCreated \notin OrderStatus /\ NotCreated \notin ReservingStatus
  BY DEF NotCreated, OrderStatus, ReservingStatus
<1>1. CASE CommitStatus(r)
  <2>1. q.order \in Created /\ q.to \in OrderStatus
    BY <1>1, <1>q, RequestByOp DEF CommitStatus, OrdersExist, StatusState
  <2>2. status' = [status EXCEPT ![q.order] = q.to] /\ kind' = kind /\ qty' = qty
    BY <1>1 DEF CommitStatus
  <2>3. revived' = IF q.order \notin Reserving /\ q.to \in ReservingStatus
                     THEN revived \cup {q.order} ELSE revived
    BY <1>1 DEF CommitStatus
  <2>4. FirstHolders' \subseteq FirstHolders
    BY <2>1, <2>2, <2>3 DEF FirstHolders, Reserving, Created, TypeOK
  <2>5. Created' = Created
    BY <2>1, <2>2, <1>r DEF Created, TypeOK
  <2>. QED BY <1>1, <2>2, <2>4, <2>5, FinishOne DEF CommitStatus
<1>2. CASE CommitReceive(r) \/ CommitPod(r)
  <2>1. q.order \in Created
    BY <1>2 DEF CommitReceive, CommitPod, OrdersExist
  <2>2. /\ status' = [status EXCEPT ![q.order] = "DELIVERED"]
        /\ kind' = kind /\ qty' = qty /\ revived' = revived
    BY <1>2 DEF CommitReceive, CommitPod
  <2>3. FirstHolders' \subseteq FirstHolders
    BY <2>1, <2>2 DEF FirstHolders, Reserving, Created, TypeOK, ReservingStatus
  <2>4. Created' = Created
    BY <2>1, <2>2 DEF Created, TypeOK, NotCreated
  <2>. QED BY <1>2, <2>2, <2>3, <2>4, FinishOne DEF CommitReceive, CommitPod
<1>3. CASE CommitGoods(r)
  <2>1. q.confirms \subseteq Created
    BY <1>3 DEF CommitGoods, OrdersExist
  <2>2. /\ status' = [o \in Orders |-> IF o \in q.confirms THEN "CONFIRMED"
                                                            ELSE status[o]]
        /\ kind' = kind /\ qty' = qty /\ revived' = revived
    BY <1>3 DEF CommitGoods
  <2>3. FirstHolders' \subseteq FirstHolders
    BY <2>2 DEF FirstHolders, Reserving, ReservingStatus
  <2>4. Created' = Created
    BY <2>1, <2>2 DEF Created, TypeOK, NotCreated
  <2>. QED BY <1>3, <2>2, <2>3, <2>4, FinishOne DEF CommitGoods
<1>. QED BY <1>1, <1>2, <1>3 DEF CommitOf

(* A creation keeps its input; it starts with nothing locked or checked,   *)
(* locks a free row, or checks a row it has locked.                        *)
CreateGoesOn(p, q, r) ==
  /\ p.op = "create" /\ q.want = p.want /\ q.kind = p.kind
  /\ \/ q.held = p.held /\ Checked(q) \subseteq Checked(p)
     \/ \E g \in Named(p.want) : /\ GoodsFree(r, {g}) /\ q.held = p.held \cup {g}
                                /\ Checked(q) = Checked(p)
     \/ \E g \in Named(p.want) : /\ p.held = Named(p.want) /\ q.held = p.held
                                /\ Checked(q) \subseteq Checked(p) \cup {g}
                                /\ Available(p.want[g], p.kind, g)

LEMMA CreateMoves ==
  ASSUME TypeOK, LocksHeld, NEW r \in Requests, StepOf(r), req'[r].op = "create"
  PROVE  /\ UNCHANGED orderVars
         /\ req'[r] \in CreateState
         /\ \/ req'[r].held = {} /\ Checked(req'[r]) = {}
            \/ CreateGoesOn(req[r], req'[r], r)
<1> DEFINE p == req[r]
           q == req'[r]
<1>p. p \in RequestState
  BY DEF TypeOK
<1>i. ~Finish(r)
  BY Moves DEF Finish, Idle
<1>1. CASE Begin(r)
  <2>1. q.op # "create"
    <3>1. CASE BeginCreate(r)
      <4>1. q = [op |-> "counted"]
        BY <3>1, Moves DEF BeginCreate
      <4>. QED BY <4>1
    <3>3. CASE BeginReceive(r) \/ BeginPod(r)
      <4>1. PICK o \in Created, op \in {"receive", "pod"} :
              Advance(r, [op |-> op, order |-> o, truck |-> truck[o]])
        BY <3>3 DEF BeginReceive, BeginPod
      <4>2. q = [op |-> op, order |-> o, truck |-> truck[o]]
        BY <4>1, Moves
      <4>. QED BY <4>2
    <3>4. CASE BeginAssign(r)
      <4>1. PICK v \in Vehicles : Advance(r, [op |-> "assign", truck |-> v])
        BY <3>4 DEF BeginAssign
      <4>2. q = [op |-> "assign", truck |-> v]
        BY <4>1, Moves
      <4>. QED BY <4>2
    <3>5. CASE BeginGoods(r)
      <4>1. PICK g \in Goods, to \in GoodsTargets :
              Advance(r, [op |-> "goods", stage |-> "read", item |-> g,
                          to |-> to, confirms |-> {}])
        BY <3>5 DEF BeginGoods
      <4>2. q = [op |-> "goods", stage |-> "read", item |-> g, to |-> to,
                 confirms |-> {}]
        BY <4>1, Moves
      <4>. QED BY <4>2
    <3>2. CASE BeginStatus(r)
      <4>1. PICK o \in Created, to \in OrderTargets,
                 v \in Vehicles \cup {None}, d \in Drivers \cup {None} :
               Advance(r, NewStatus(o, to, v, d))
        BY <3>2 DEF BeginStatus
      <4>2. NewStatus(o, to, v, d).op = "status"
        BY DEF NewStatus
      <4>. QED BY <4>1, <4>2, Moves
    <3>. QED BY <1>1, <3>1, <3>2, <3>3, <3>4, <3>5 DEF Begin
  <2>. QED BY <2>1
<1>2. CASE ReadGoods(r)
  <2>1. PICK k \in Kinds, want \in [Goods -> Counts \cup {0}],
             v \in Vehicles \cup {None}, d \in Drivers \cup {None} :
           Advance(r, NewCreate(k, want, v, d))
    BY <1>2 DEF ReadGoods
  <2>2. q = NewCreate(k, want, v, d)
    BY <2>1, Moves
  <2>. QED BY <1>2, <2>2, NewCreateTyped DEF ReadGoods, Checked
<1>3. CASE ValidateFleet(r)
  <2>1. Advance(r, [p EXCEPT !.stage = "tx"])
    BY <1>3, <1>i DEF ValidateFleet
  <2>2. q = [p EXCEPT !.stage = "tx"]
    BY <2>1, Moves
  <2>3. p \in CreateState
    BY <1>3, <1>p, <2>2, RequestByOp DEF ValidateFleet, StatusState
  <2>. QED BY <1>3, <2>2, <2>3 DEF ValidateFleet, CreateState, Checked, CreateGoesOn
<1>4. CASE CheckVehicle(r) \/ CheckDriver(r)
  <2>1. \E t \in SUBSET (Goods \cup Vehicles \cup Drivers) :
           /\ Advance(r, [p EXCEPT !.todo = t])
           /\ p.todo \cap Goods = {}
    <3>1. CASE CheckVehicle(r)
      <4>1. Advance(r, [p EXCEPT !.todo = @ \ {p.truck}]) /\ p.todo \cap Goods = {}
        BY <3>1, <1>i DEF CheckVehicle
      <4>2. p.todo \ {p.truck} \in SUBSET (Goods \cup Vehicles \cup Drivers)
        BY <3>1, <1>p, RequestByOp DEF CheckVehicle, CreateState, StatusState
      <4>. QED BY <4>1, <4>2
    <3>2. CASE CheckDriver(r)
      <4>1. Advance(r, [p EXCEPT !.todo = {}]) /\ p.todo = {p.courier}
        BY <3>2, <1>i DEF CheckDriver
      <4>2. p.courier \in Drivers \cup {None}
        BY <3>2, <1>p, RequestByOp DEF CheckDriver, CreateState, StatusState
      <4>3. p.todo \in SUBSET (Goods \cup Vehicles \cup Drivers)
        BY <3>2, <1>p, RequestByOp DEF CheckDriver, CreateState, StatusState
      <4>4. p.courier \notin Goods
        BY <4>1, <4>2, <4>3, NoneAssumption
      <4>. QED BY <4>1, <4>4
    <3>. QED BY <1>4, <3>1, <3>2
  <2>2. PICK t \in SUBSET (Goods \cup Vehicles \cup Drivers) :
           /\ Advance(r, [p EXCEPT !.todo = t])
           /\ p.todo \cap Goods = {}
    BY <2>1
  <2>3. q = [p EXCEPT !.todo = t]
    BY <2>2, Moves
  <2>4. p \in CreateState
    BY <1>4, <1>p, <2>3, RequestByOp DEF CheckVehicle, CheckDriver, StatusState
  <2>5. q \in CreateState /\ q.want = p.want /\ q.kind = p.kind /\ q.held = p.held
    BY <2>3, <2>4 DEF CreateState
  <2>6. Checked(q) \subseteq Checked(p)
    BY <2>2, <2>5 DEF Checked, Named
  <2>. QED BY <1>4, <2>4, <2>5, <2>6
           DEF CheckVehicle, CheckDriver, CreateState, CreateGoesOn
<1>5. ASSUME NEW g \in Goods, LockGoods(r, g)
      PROVE  UNCHANGED orderVars /\ q \in CreateState /\ CreateGoesOn(p, q, r)
  <2>1. q = [p EXCEPT !.held = @ \cup {g}]
    BY <1>5, Moves DEF LockGoods
  <2>2. p \in CreateState
    BY <1>5, <1>p, RequestByOp DEF LockGoods
  <2>3. q \in CreateState /\ q.want = p.want /\ q.kind = p.kind
        /\ q.held = p.held \cup {g} /\ q.todo = p.todo
    BY <2>1, <2>2 DEF CreateState
  <2>4. g \in Named(p.want) /\ GoodsFree(r, {g}) /\ UNCHANGED orderVars
    BY <1>5 DEF LockGoods, orderVars
  <2>. QED BY <1>5, <2>3, <2>4 DEF LockGoods, Checked, CreateGoesOn
<1>6. ASSUME NEW g \in Goods, CheckGoods(r, g)
      PROVE  UNCHANGED orderVars /\ q \in CreateState /\ CreateGoesOn(p, q, r)
  <2>0. Advance(r, [p EXCEPT !.todo = @ \ {g}]) /\ Available(p.want[g], p.kind, g)
    BY <1>6, <1>i DEF CheckGoods
  <2>1. q = [p EXCEPT !.todo = @ \ {g}]
    BY <2>0, Moves
  <2>2. p \in CreateState
    BY <1>6, <1>p, RequestByOp DEF CheckGoods
  <2>3. q \in CreateState /\ q.want = p.want /\ q.kind = p.kind
        /\ q.held = p.held /\ q.todo = p.todo \ {g}
    BY <2>1, <2>2 DEF CreateState
  <2>4. CASE g \in Named(p.want)
    BY <1>6, <2>0, <2>2, <2>3, <2>4 DEF CheckGoods, CreateState, Checked, CreateGoesOn
  <2>5. CASE g \notin Named(p.want)
    <3>1. Checked(q) \subseteq Checked(p)
      BY <2>3, <2>5 DEF Checked
    <3>. QED BY <1>6, <2>2, <2>3, <3>1 DEF CheckGoods, CreateState, CreateGoesOn
  <2>. QED BY <2>4, <2>5
<1>7. CASE LockOrder(r) \/ LockItem(r)
  <2>1. CASE LockOrder(r)
    <3>1. p \in StatusState
      BY <2>1, <1>p, RequestByOp DEF LockOrder
    <3> DEFINE T == IF kind[p.order] = "PICKUP"
                      THEN {g \in Items(p.order) : goods[g] \in SyncFrom(p.to)}
                      ELSE {}
    <3>2. Advance(r, [p EXCEPT !.stage = "locked", !.touched = T])
      BY <2>1 DEF LockOrder
    <3> HIDE DEF T
    <3>4. q = [p EXCEPT !.stage = "locked", !.touched = T]
      BY <3>2, Moves
    <3>3. q.op = "status"
      BY <3>1, <3>4 DEF StatusState
    <3>. QED BY <3>3
  <2>2. CASE LockItem(r)
    <3>1. p \in GoodsState
      BY <2>2, <1>p, RequestByOp DEF LockItem
    <3> DEFINE C == IF p.to = "STORED" THEN CompletedBy(p.item) ELSE {}
    <3>2. Advance(r, [p EXCEPT !.stage = "locked", !.confirms = C])
      BY <2>2 DEF LockItem
    <3> HIDE DEF C
    <3>4. q = [p EXCEPT !.stage = "locked", !.confirms = C]
      BY <3>2, Moves
    <3>3. q.op = "goods"
      BY <3>1, <3>4 DEF GoodsState
    <3>. QED BY <3>3
  <2>. QED BY <1>7, <2>1, <2>2
<1>. QED
  BY <1>i, <1>1, <1>2, <1>3, <1>4, <1>5, <1>6, <1>7
  DEF StepOf, Continue, Abort, EndDeadlock, RefuseCreate, CommitCreate,
      CommitStatus, CommitReceive, CommitPod, CommitAssign, CommitGoods

(***************************************************************************)
(* The orders a request is about exist, and stay.                          *)
(***************************************************************************)
LEMMA CreatedGrows ==
  ASSUME TypeOK, OrdersExist, NEW r \in Requests, StepOf(r)
  PROVE  Created \subseteq Created'
<1>1. CASE UNCHANGED orderVars
  BY <1>1 DEF orderVars, Created
<1>2. CASE CommitOf(r)
  BY <1>2, HoldersShrink
<1>3. ASSUME NEW o \in Orders, CommitCreate(r, o)
      PROVE  Created \subseteq Created'
  BY <1>3 DEF CommitCreate, Created, NotCreated, TypeOK
<1>. QED BY <1>1, <1>2, <1>3, QuietOrCommit

(* The order of a request, from its first read to its commit.              *)
AboutCreated(q) ==
  /\ q.op \in {"status", "receive", "pod"} => q.order \in Created
  /\ q.op = "goods" => q.confirms \subseteq Created

LEMMA OwnOrder ==
  ASSUME TypeOK, OrdersExist, NEW r \in Requests, StepOf(r)
  PROVE  AboutCreated(req'[r])
<1> DEFINE p == req[r]
           q == req'[r]
<1>p. p \in RequestState /\ AboutCreated(p)
  BY DEF TypeOK, OrdersExist, AboutCreated
<1>f. ASSUME Finish(r) PROVE AboutCreated(q)
  BY <1>f, FinishOne DEF AboutCreated, Idle
<1>1. CASE BeginCreate(r)
  <2>1. q = [op |-> "counted"]
    BY <1>1, Moves DEF BeginCreate
  <2>. QED BY <2>1 DEF AboutCreated
<1>2. CASE BeginStatus(r)
  <2>1. PICK o \in Created, to \in OrderTargets,
             v \in Vehicles \cup {None}, d \in Drivers \cup {None} :
           Advance(r, NewStatus(o, to, v, d))
    BY <1>2 DEF BeginStatus
  <2>2. q = NewStatus(o, to, v, d)
    BY <2>1, Moves
  <2>3. q.op = "status" /\ q.order = o
    BY <2>2 DEF NewStatus
  <2>. QED BY <2>3 DEF AboutCreated
<1>3. CASE BeginReceive(r) \/ BeginPod(r)
  <2>1. PICK o \in Created, op \in {"receive", "pod"} :
          Advance(r, [op |-> op, order |-> o, truck |-> truck[o]])
    BY <1>3 DEF BeginReceive, BeginPod
  <2>2. q = [op |-> op, order |-> o, truck |-> truck[o]]
    BY <2>1, Moves
  <2>. QED BY <2>2 DEF AboutCreated
<1>4. CASE BeginAssign(r)
  <2>1. PICK v \in Vehicles : Advance(r, [op |-> "assign", truck |-> v])
    BY <1>4 DEF BeginAssign
  <2>2. q = [op |-> "assign", truck |-> v]
    BY <2>1, Moves
  <2>. QED BY <2>2 DEF AboutCreated
<1>5. CASE BeginGoods(r)
  <2>1. PICK g \in Goods, to \in GoodsTargets :
          Advance(r, [op |-> "goods", stage |-> "read", item |-> g,
                      to |-> to, confirms |-> {}])
    BY <1>5 DEF BeginGoods
  <2>2. q = [op |-> "goods", stage |-> "read", item |-> g, to |-> to,
             confirms |-> {}]
    BY <2>1, Moves
  <2>. QED BY <2>2 DEF AboutCreated
<1>6. CASE q.op = "create"
  BY <1>6 DEF AboutCreated
<1>7. CASE ValidateFleet(r) \/ CheckVehicle(r) \/ CheckDriver(r)
  <2>1. \/ Finish(r)
        \/ Advance(r, [p EXCEPT !.stage = "tx"])
        \/ \E t : Advance(r, [p EXCEPT !.todo = t])
    BY <1>7 DEF ValidateFleet, CheckVehicle, CheckDriver
  <2>2. p \in CreateState \/ p \in StatusState
    BY <1>7, <1>p, RequestByOp DEF ValidateFleet, CheckVehicle, CheckDriver
  <2>3. CASE Advance(r, [p EXCEPT !.stage = "tx"])
    BY <2>2, <2>3, <1>p, Moves DEF AboutCreated, CreateState, StatusState
  <2>4. ASSUME NEW t, Advance(r, [p EXCEPT !.todo = t])
        PROVE  AboutCreated(q)
    BY <2>2, <2>4, <1>p, Moves DEF AboutCreated, CreateState, StatusState
  <2>. QED BY <1>f, <2>1, <2>3, <2>4
<1>8. CASE LockOrder(r)
  <2> DEFINE T == IF kind[p.order] = "PICKUP"
                    THEN {g \in Items(p.order) : goods[g] \in SyncFrom(p.to)}
                    ELSE {}
  <2>1. p \in StatusState
    BY <1>8, <1>p, RequestByOp DEF LockOrder
  <2>2. Advance(r, [p EXCEPT !.stage = "locked", !.touched = T])
    BY <1>8 DEF LockOrder
  <2> HIDE DEF T
  <2>3. q = [p EXCEPT !.stage = "locked", !.touched = T]
    BY <2>2, Moves
  <2>. QED BY <2>1, <2>3, <1>p DEF StatusState, AboutCreated
<1>9. CASE LockItem(r)
  <2> DEFINE C == IF p.to = "STORED" THEN CompletedBy(p.item) ELSE {}
  <2>1. p \in GoodsState
    BY <1>9, <1>p, RequestByOp DEF LockItem
  <2>2. Advance(r, [p EXCEPT !.stage = "locked", !.confirms = C])
    BY <1>9 DEF LockItem
  <2>3. C \subseteq Created
    BY DEF CompletedBy, Created, NotCreated
  <2> HIDE DEF C
  <2>4. q = [p EXCEPT !.stage = "locked", !.confirms = C]
    BY <2>2, Moves
  <2>. QED BY <2>1, <2>3, <2>4 DEF GoodsState, AboutCreated
<1>10. CASE Abort(r) \/ EndDeadlock(r) \/ RefuseCreate(r) \/ CommitOf(r)
              \/ CommitAssign(r) \/ \E o \in Orders : CommitCreate(r, o)
  BY <1>10, <1>f DEF Abort, EndDeadlock, RefuseCreate, CommitOf, CommitStatus,
     CommitReceive, CommitPod, CommitGoods, CommitAssign, CommitCreate
<1>11. CASE ReadGoods(r)
  <2>1. PICK k \in Kinds, want \in [Goods -> Counts \cup {0}],
             v \in Vehicles \cup {None}, d \in Drivers \cup {None} :
           Advance(r, NewCreate(k, want, v, d))
    BY <1>11 DEF ReadGoods
  <2>2. q.op = "create"
    BY <2>1, Moves DEF NewCreate
  <2>. QED BY <1>6, <2>2
<1>12. ASSUME NEW g \in Goods, LockGoods(r, g) \/ CheckGoods(r, g)
       PROVE  AboutCreated(q)
  <2>1. p \in CreateState
    BY <1>12, <1>p, RequestByOp DEF LockGoods, CheckGoods
  <2>2. \/ Finish(r)
        \/ \E h : Advance(r, [p EXCEPT !.held = h])
        \/ \E t : Advance(r, [p EXCEPT !.todo = t])
    BY <1>12 DEF LockGoods, CheckGoods
  <2>3. ASSUME NEW h, Advance(r, [p EXCEPT !.held = h])
        PROVE  q.op = "create"
    BY <2>1, <2>3, Moves DEF CreateState
  <2>4. ASSUME NEW t, Advance(r, [p EXCEPT !.todo = t])
        PROVE  q.op = "create"
    BY <2>1, <2>4, Moves DEF CreateState
  <2>. QED BY <1>f, <1>6, <2>2, <2>3, <2>4
<1>. QED
  BY <1>1, <1>2, <1>3, <1>4, <1>5, <1>7, <1>8, <1>9, <1>10, <1>11, <1>12
  DEF StepOf, Begin, Continue, CommitOf

LEMMA OrdersExistKept ==
  ASSUME TypeOK, OrdersExist, NEW r \in Requests, StepOf(r)
  PROVE  OrdersExist'
<1>1. AboutCreated(req'[r])
  BY OwnOrder
<1>. QED BY <1>1, CreatedGrows, OthersStay DEF OrdersExist, AboutCreated

(***************************************************************************)
(* Row locks: held by one transaction at a time, and of goods named.       *)
(***************************************************************************)
LEMMA GoodsMoves ==
  ASSUME TypeOK, NEW r \in Requests, StepOf(r),
         req'[r].op = "goods", req'[r].stage = "locked"
  PROVE  GoodsFree(r, {req'[r].item})
<1> DEFINE p == req[r]
           q == req'[r]
<1>p. p \in RequestState
  BY DEF TypeOK
<1>f. ~Finish(r)
  BY FinishOne DEF Idle
<1>1. ~BeginCreate(r) /\ ~CommitOf(r) /\ ~CommitAssign(r)
  BY <1>f, Moves DEF BeginCreate, CommitOf, CommitStatus, CommitReceive,
     CommitPod, CommitGoods, CommitAssign
<1>2. ~BeginStatus(r)
  <2>1. ASSUME NEW o, NEW to, NEW v, NEW d, Advance(r, NewStatus(o, to, v, d))
        PROVE  FALSE
    BY <2>1, Moves DEF NewStatus
  <2>. QED BY <2>1 DEF BeginStatus
<1>3. ~BeginReceive(r) /\ ~BeginPod(r)
  <2>1. ASSUME NEW o, NEW op \in {"receive", "pod"},
               Advance(r, [op |-> op, order |-> o, truck |-> truck[o]])
        PROVE  FALSE
    <3>1. q = [op |-> op, order |-> o, truck |-> truck[o]]
      BY <2>1, Moves
    <3>. QED BY <3>1
  <2>. QED BY <2>1 DEF BeginReceive, BeginPod
<1>4. ~BeginAssign(r)
  <2>1. ASSUME NEW v, Advance(r, [op |-> "assign", truck |-> v])
        PROVE  FALSE
    <3>1. q = [op |-> "assign", truck |-> v]
      BY <2>1, Moves
    <3>. QED BY <3>1
  <2>. QED BY <2>1 DEF BeginAssign
<1>5. ~BeginGoods(r)
  <2>1. ASSUME NEW g, NEW to,
               Advance(r, [op |-> "goods", stage |-> "read", item |-> g,
                           to |-> to, confirms |-> {}])
        PROVE  FALSE
    <3>1. q = [op |-> "goods", stage |-> "read", item |-> g, to |-> to,
               confirms |-> {}]
      BY <2>1, Moves
    <3>. QED BY <3>1
  <2>. QED BY <2>1 DEF BeginGoods
<1>6. ~ReadGoods(r)
  <2>1. ASSUME NEW k, NEW want, NEW v, NEW d, Advance(r, NewCreate(k, want, v, d))
        PROVE  FALSE
    BY <2>1, Moves DEF NewCreate
  <2>. QED BY <2>1 DEF ReadGoods
<1>7. ~ValidateFleet(r) /\ ~CheckVehicle(r) /\ ~CheckDriver(r)
  <2> SUFFICES ASSUME ValidateFleet(r) \/ CheckVehicle(r) \/ CheckDriver(r)
               PROVE  FALSE
    OBVIOUS
  <2>1. \/ Advance(r, [p EXCEPT !.stage = "tx"])
        \/ \E t : Advance(r, [p EXCEPT !.todo = t])
    BY <1>f DEF ValidateFleet, CheckVehicle, CheckDriver
  <2>2. p \in CreateState \/ p \in StatusState
    BY <1>p, RequestByOp DEF ValidateFleet, CheckVehicle, CheckDriver
  <2>3. ASSUME Advance(r, [p EXCEPT !.stage = "tx"]) PROVE FALSE
    BY <2>2, <2>3, Moves DEF CreateState, StatusState
  <2>4. ASSUME NEW t, Advance(r, [p EXCEPT !.todo = t]) PROVE FALSE
    BY <2>2, <2>4, Moves DEF CreateState, StatusState
  <2>. QED BY <2>1, <2>3, <2>4
<1>8. ASSUME NEW g \in Goods, LockGoods(r, g) \/ CheckGoods(r, g)
      PROVE  FALSE
  <2>1. p \in CreateState
    BY <1>8, <1>p, RequestByOp DEF LockGoods, CheckGoods
  <2>2. \/ \E h : Advance(r, [p EXCEPT !.held = h])
        \/ \E t : Advance(r, [p EXCEPT !.todo = t])
    BY <1>8, <1>f DEF LockGoods, CheckGoods
  <2>3. ASSUME NEW h, Advance(r, [p EXCEPT !.held = h]) PROVE FALSE
    BY <2>1, <2>3, Moves DEF CreateState
  <2>4. ASSUME NEW t, Advance(r, [p EXCEPT !.todo = t]) PROVE FALSE
    BY <2>1, <2>4, Moves DEF CreateState
  <2>. QED BY <2>2, <2>3, <2>4
<1>9. ~LockOrder(r)
  <2> SUFFICES ASSUME LockOrder(r) PROVE FALSE
    OBVIOUS
  <2> DEFINE T == IF kind[p.order] = "PICKUP"
                    THEN {g \in Items(p.order) : goods[g] \in SyncFrom(p.to)}
                    ELSE {}
  <2>1. p \in StatusState
    BY <1>p, RequestByOp DEF LockOrder
  <2>2. Advance(r, [p EXCEPT !.stage = "locked", !.touched = T])
    BY DEF LockOrder
  <2> HIDE DEF T
  <2>3. q = [p EXCEPT !.stage = "locked", !.touched = T]
    BY <2>2, Moves
  <2>. QED BY <2>1, <2>3 DEF StatusState
<1>10. LockItem(r)
  BY <1>f, <1>1, <1>2, <1>3, <1>4, <1>5, <1>6, <1>7, <1>8, <1>9
  DEF StepOf, Begin, Continue, CommitOf, Abort, EndDeadlock, RefuseCreate,
      CommitCreate
<1>11. q.item = p.item
  <2> DEFINE C == IF p.to = "STORED" THEN CompletedBy(p.item) ELSE {}
  <2>1. p \in GoodsState
    BY <1>10, <1>p, RequestByOp DEF LockItem
  <2>2. Advance(r, [p EXCEPT !.stage = "locked", !.confirms = C])
    BY <1>10 DEF LockItem
  <2> HIDE DEF C
  <2>3. q = [p EXCEPT !.stage = "locked", !.confirms = C]
    BY <2>2, Moves
  <2>. QED BY <2>1, <2>3 DEF GoodsState
<1>. QED BY <1>10, <1>11 DEF LockItem

LEMMA LocksKept ==
  ASSUME TypeOK, LocksHeld, LocksExclusive, NEW r \in Requests, StepOf(r)
  PROVE  LocksHeld' /\ LocksExclusive'
<1> DEFINE p == req[r]
           q == req'[r]
<1>1. ASSUME q.op = "create"
      PROVE  q.held \subseteq Named(q.want) /\ Checked(q) \subseteq q.held
  <2>1. CASE q.held = {} /\ Checked(q) = {}
    BY <2>1
  <2>2. CASE CreateGoesOn(p, q, r)
    <3>1. p.held \subseteq Named(p.want) /\ Checked(p) \subseteq p.held
      BY <2>2 DEF CreateGoesOn, LocksHeld
    <3>2. Named(q.want) = Named(p.want)
      BY <2>2 DEF CreateGoesOn
    <3>. QED BY <2>2, <3>1, <3>2 DEF CreateGoesOn
  <2>. QED BY <1>1, <2>1, <2>2, CreateMoves
<1>2. LocksHeld'
  <2>1. ASSUME NEW s \in Requests, req'[s].op = "create"
        PROVE  req'[s].held \subseteq Named(req'[s].want)
               /\ Checked(req'[s]) \subseteq req'[s].held
    <3>1. CASE s = r
      BY <3>1, <2>1, <1>1
    <3>2. CASE s # r
      BY <3>2, <2>1, OthersStay DEF LocksHeld
    <3>. QED BY <3>1, <3>2
  <2>2. \A want : Named(want)' = Named(want)
    BY DEF Named
  <2>. QED BY <2>1 DEF LocksHeld, Checked, Named
<1>3. ASSUME NEW s \in Requests \ {r}
      PROVE  HeldGoods(r)' \cap HeldGoods(s) = {}
  <2>1. CASE q.op = "create"
    <3>1. HeldGoods(r)' = q.held
      BY <2>1 DEF HeldGoods
    <3>2. CASE q.held = {}
      BY <3>1, <3>2
    <3>3. CASE CreateGoesOn(p, q, r)
      <4>1. HeldGoods(r) = p.held /\ p.held \cap HeldGoods(s) = {}
        BY <3>3 DEF CreateGoesOn, HeldGoods, LocksExclusive
      <4>. QED BY <3>1, <3>3, <4>1 DEF CreateGoesOn, GoodsFree
    <3>. QED BY <2>1, <3>2, <3>3, CreateMoves
  <2>2. CASE q.op = "goods" /\ q.stage = "locked"
    <3>1. HeldGoods(r)' = {q.item}
      BY <2>2 DEF HeldGoods
    <3>. QED BY <2>2, <3>1, GoodsMoves DEF GoodsFree
  <2>3. CASE ~(q.op = "create") /\ ~(q.op = "goods" /\ q.stage = "locked")
    <3>1. HeldGoods(r)' = {}
      BY <2>3 DEF HeldGoods
    <3>. QED BY <3>1
  <2>. QED BY <2>1, <2>2, <2>3
<1>4. ASSUME NEW s \in Requests \ {r}
      PROVE  HeldGoods(s)' = HeldGoods(s)
  BY OthersStay DEF HeldGoods
<1>5. LocksExclusive'
  <2> SUFFICES ASSUME NEW s \in Requests, NEW t \in Requests, s # t
               PROVE  HeldGoods(s)' \cap HeldGoods(t)' = {}
    BY DEF LocksExclusive
  <2>1. CASE s = r
    BY <2>1, <1>3, <1>4
  <2>2. CASE t = r
    BY <2>2, <1>3, <1>4
  <2>3. CASE s # r /\ t # r
    BY <2>3, <1>4 DEF LocksExclusive
  <2>. QED BY <2>1, <2>2, <2>3
<1>. QED BY <1>2, <1>5

(***************************************************************************)
(* The reservations.                                                       *)
(***************************************************************************)
LEMMA HoldersAreOrders == TypeOK => FirstHolders \in SUBSET Orders
  BY DEF FirstHolders, Reserving

(* Without a new order the packages first holders hold only become fewer.  *)
LEMMA HoldingsShrink ==
  ASSUME TypeOK, OrdersExist, NEW r \in Requests, StepOf(r),
         \A o \in Orders : ~CommitCreate(r, o), NEW k, NEW g \in Goods
  PROVE  Cardinality(NextUnits(FirstHolders', k, g))
           <= Cardinality(Units(FirstHolders, k, g))
<1>1. kind' = kind /\ qty' = qty /\ FirstHolders' \subseteq FirstHolders
  <2>1. CASE UNCHANGED orderVars
    BY <2>1 DEF orderVars, FirstHolders, Reserving
  <2>2. CASE CommitOf(r)
    BY <2>2, HoldersShrink
  <2>. QED BY <2>1, <2>2, QuietOrCommit
<1>. QED BY <1>1, HoldersAreOrders, UnitsKept

(* A new order adds, of each goods item, what it names.                    *)
LEMMA HoldingsGrow ==
  ASSUME TypeOK, NEW r \in Requests, NEW o \in Orders, CommitCreate(r, o),
         NEW k, NEW g \in Goods
  PROVE  Cardinality(NextUnits(FirstHolders', k, g))
           <= Cardinality(Units(FirstHolders, k, g))
                + (IF req[r].kind = k THEN req[r].want[g] ELSE 0)
<1> DEFINE q == req[r]
           n == IF q.kind = k THEN q.want[g] ELSE 0
<1>1. q \in CreateState
  BY RequestByOp DEF CommitCreate, TypeOK
<1>2. n \in Nat
  BY <1>1 DEF CreateState
<1>3. /\ kind' = [kind EXCEPT ![o] = q.kind] /\ qty' = [qty EXCEPT ![o] = q.want]
      /\ revived' = revived
      /\ status' = [status EXCEPT ![o] = status'[o]]
  BY DEF CommitCreate, TypeOK
<1>4. FirstHolders' \in SUBSET (FirstHolders \cup {o})
  BY <1>3 DEF FirstHolders, Reserving, TypeOK
<1>5. \A p \in FirstHolders' \ {o} : kind'[p] = kind[p] /\ qty'[p] = qty[p]
  BY <1>3, <1>4, HoldersAreOrders DEF TypeOK
<1>6. kind'[o] = k => qty'[o][g] = n
  BY <1>3 DEF TypeOK
<1>8. FirstHolders \in SUBSET Orders
  BY HoldersAreOrders
<1> HIDE DEF n
<1>9. Cardinality(NextUnits(FirstHolders', k, g))
        <= Cardinality(Units(FirstHolders, k, g)) + n
  BY <1>2, <1>4, <1>5, <1>6, <1>8, UnitsGrow
<1>. QED BY <1>9 DEF n

(* What the reservation check establishes.                                 *)
LEMMA AvailableFits ==
  ASSUME TypeOK, NEW k, NEW g \in Goods, NEW n \in Nat, Available(n, k, g)
  PROVE  Cardinality(Units(FirstHolders, k, g)) + n <= Quantity[g]
<1>1. Reserving \in SUBSET Orders /\ FirstHolders \in SUBSET Reserving
  BY DEF Reserving, FirstHolders
<1>2. Units(FirstHolders, k, g) \in SUBSET Units(Reserving, k, g)
  BY <1>1 DEF Units
<1>3. /\ Cardinality(Units(FirstHolders, k, g))
           <= Cardinality(Units(Reserving, k, g))
      /\ Cardinality(Units(Reserving, k, g)) \in Nat
      /\ Cardinality(Units(FirstHolders, k, g)) \in Nat
  BY <1>1, <1>2, UnitsFinite, FS_Subset
<1>. QED BY <1>3, QuantityAssumption DEF Available

LEMMA NextTyped ==
  ASSUME TypeOK, NEW r \in Requests, StepOf(r)
  PROVE  TypeOK'
  BY StepTyped DEF StepOf, Next

LEMMA NextUnitsCount ==
  ASSUME TypeOK, NEW r \in Requests, StepOf(r), NEW k, NEW g \in Goods
  PROVE  Cardinality(NextUnits(FirstHolders', k, g)) \in Nat
<1>1. FirstHolders' \in SUBSET Orders
  BY NextTyped, HoldersAreOrders DEF FirstHolders, Reserving
<1>2. IsFiniteSet(FirstHolders' \X (1 .. Quantity[g]))
  <2>1. IsFiniteSet(FirstHolders') /\ IsFiniteSet(1 .. Quantity[g])
    BY <1>1, QuantityAssumption, FS_Subset, FS_Interval
  <2>. QED BY <2>1, FS_Product
<1>3. NextUnits(FirstHolders', k, g) \in SUBSET (FirstHolders' \X (1 .. Quantity[g]))
  BY DEF NextUnits
<1>. QED BY <1>2, <1>3, FS_Subset, FS_CardinalityType

(* The check of a goods item stays true while its row is locked.           *)
LEMMA CheckedFitKept ==
  ASSUME ReservationInv, NEW r \in Requests, StepOf(r),
         NEW s \in Requests, req'[s].op = "create", NEW g \in Checked(req'[s])
  PROVE  Cardinality(NextUnits(FirstHolders', req'[s].kind, g))
           + req'[s].want[g] <= Quantity[g]
<1> DEFINE p == req[s]
           q == req'[s]
           before == Cardinality(Units(FirstHolders, q.kind, g))
           after == Cardinality(NextUnits(FirstHolders', q.kind, g))
<1>1. TypeOK /\ OrdersExist /\ LocksHeld /\ LocksExclusive /\ CheckedFit
  BY DEF ReservationInv
<1>2. q \in CreateState /\ g \in Goods
  BY <1>1, NextTyped, RequestByOp DEF TypeOK, Checked, Named
<1>3. FirstHolders \in SUBSET Orders
  BY <1>1, HoldersAreOrders
<1>4. q.want[g] \in Nat /\ before \in Nat /\ after \in Nat /\ Quantity[g] \in Nat
  BY <1>1, <1>2, <1>3, UnitsFinite, NextUnitsCount, QuantityAssumption
  DEF CreateState
<1>5. before + q.want[g] <= Quantity[g]
  <2>1. CASE s # r
    BY <1>1, <2>1, OthersStay DEF CheckedFit
  <2>2. CASE s = r
    <3>1. CreateGoesOn(p, q, r)
      BY <1>1, <2>2, CreateMoves
    <3>2. CASE g \in Checked(p)
      BY <1>1, <3>1, <3>2 DEF CheckedFit, CreateGoesOn
    <3>3. CASE g \notin Checked(p)
      <4>1. Available(q.want[g], q.kind, g)
        BY <3>1, <3>3 DEF CreateGoesOn
      <4>. QED BY <1>1, <1>2, <1>4, <4>1, AvailableFits
    <3>. QED BY <3>2, <3>3
  <2>. QED BY <2>1, <2>2
<1>6. after <= before
  <2>1. CASE \A o \in Orders : ~CommitCreate(r, o)
    BY <1>1, <1>2, <2>1, HoldingsShrink
  <2>2. ASSUME NEW o \in Orders, CommitCreate(r, o)
        PROVE  after <= before
    <3>1. s # r /\ req'[s] = req[s]
      <4>1. req'[r] = Idle
        BY <1>1, <2>2, FinishOne DEF CommitCreate
      <4>2. s # r
        BY <4>1 DEF Idle
      <4>. QED BY <1>1, <4>2, OthersStay
    <3>2. g \in HeldGoods(s)
      BY <1>1, <3>1 DEF LocksHeld, HeldGoods
    <3>3. req[r] \in CreateState
      BY <1>1, <2>2, RequestByOp DEF CommitCreate, TypeOK
    <3>4. Named(req[r].want) \subseteq HeldGoods(r)
      BY <1>1, <2>2, <3>3 DEF LocksHeld, HeldGoods, Checked, CommitCreate
    <3>5. g \notin Named(req[r].want)
      BY <1>1, <3>1, <3>2, <3>4 DEF LocksExclusive
    <3>6. req[r].want[g] = 0
      BY <1>2, <3>3, <3>5 DEF Named, CreateState
    <3>7. after <= before + (IF req[r].kind = q.kind THEN req[r].want[g] ELSE 0)
      BY <1>1, <1>2, <2>2, HoldingsGrow
    <3>. QED BY <1>4, <3>6, <3>7
  <2>. QED BY <2>1, <2>2
<1> HIDE DEF before, after, q
<1>7. after + q.want[g] <= Quantity[g]
  BY <1>4, <1>5, <1>6
<1>. QED BY <1>7 DEF after, q

LEMMA ClaimsFitKept ==
  ASSUME ReservationInv, NEW r \in Requests, StepOf(r),
         NEW g \in Goods, NEW k \in OrderKind
  PROVE  Cardinality(NextUnits(FirstHolders', k, g)) <= Quantity[g]
<1> DEFINE before == Cardinality(Units(FirstHolders, k, g))
           after == Cardinality(NextUnits(FirstHolders', k, g))
<1>1. TypeOK /\ OrdersExist /\ CheckedFit /\ before <= Quantity[g]
  BY DEF ReservationInv, FirstClaimsFit, FirstHolders
<1>2. before \in Nat /\ after \in Nat /\ Quantity[g] \in Nat
  <2>1. FirstHolders \in SUBSET Orders
    BY <1>1, HoldersAreOrders
  <2>. QED BY <1>1, <2>1, UnitsFinite, NextUnitsCount, QuantityAssumption
<1>3. CASE \A o \in Orders : ~CommitCreate(r, o)
  <2>1. after <= before
    BY <1>1, <1>3, HoldingsShrink
  <2> HIDE DEF before, after
  <2>2. after <= Quantity[g]
    BY <1>1, <1>2, <2>1
  <2>. QED BY <2>2 DEF after
<1>4. ASSUME NEW o \in Orders, CommitCreate(r, o)
      PROVE  after <= Quantity[g]
  <2> DEFINE q == req[r]
  <2>1. q \in CreateState
    BY <1>1, <1>4, RequestByOp DEF CommitCreate, TypeOK
  <2>2. q.want[g] \in Nat
    BY <2>1 DEF CreateState
  <2>3. after <= before + (IF q.kind = k THEN q.want[g] ELSE 0)
    BY <1>1, <1>4, HoldingsGrow
  <2>4. CASE q.kind = k /\ g \in Named(q.want)
    <3>1. before + q.want[g] <= Quantity[g]
      BY <1>1, <1>4, <2>4 DEF CheckedFit, Checked, CommitCreate
    <3>. QED BY <1>2, <2>2, <2>3, <2>4, <3>1
  <2>5. CASE ~(q.kind = k /\ g \in Named(q.want))
    <3>1. (IF q.kind = k THEN q.want[g] ELSE 0) = 0
      BY <2>2, <2>5 DEF Named
    <3>. QED BY <1>1, <1>2, <2>3, <3>1
  <2>. QED BY <2>4, <2>5
<1>. QED BY <1>3, <1>4

LEMMA InitReserves == Init => ReservationInv
<1> SUFFICES ASSUME Init PROVE ReservationInv
  OBVIOUS
<1>1. TypeOK
  BY InitTyped
<1>2. \A r \in Requests : req[r].op = "idle"
  BY DEF Init, Idle
<1>3. OrdersExist /\ LocksHeld /\ LocksExclusive /\ CheckedFit
  BY <1>2 DEF OrdersExist, LocksHeld, LocksExclusive, CheckedFit, HeldGoods
<1>4. FirstClaimsFit
  <2>1. Reserving = {}
    BY DEF Init, Reserving, NotCreated, ReservingStatus
  <2>2. \A g \in Goods, k \in OrderKind : Units(Reserving \ revived, k, g) = {}
    BY <2>1 DEF Units
  <2>3. Cardinality({}) = 0
    BY FS_EmptySet
  <2>4. SUFFICES ASSUME NEW g \in Goods, NEW k \in OrderKind
                 PROVE  Cardinality(Units(Reserving \ revived, k, g))
                          <= Quantity[g]
    BY DEF FirstClaimsFit
  <2>5. Cardinality(Units(Reserving \ revived, k, g)) = 0
    BY <2>2, <2>3
  <2>. QED BY <2>5, QuantityAssumption
<1>. QED BY <1>1, <1>3, <1>4 DEF ReservationInv

LEMMA StepReserves == ReservationInv /\ [Next]_vars => ReservationInv'
<1> SUFFICES ASSUME ReservationInv, [Next]_vars PROVE ReservationInv'
  OBVIOUS
<1>1. ASSUME NEW r \in Requests, StepOf(r)
      PROVE  ReservationInv'
  <2>1. TypeOK'
    BY <1>1, NextTyped DEF ReservationInv
  <2>2. OrdersExist'
    BY <1>1, OrdersExistKept DEF ReservationInv
  <2>3. LocksHeld' /\ LocksExclusive'
    BY <1>1, LocksKept DEF ReservationInv
  <2>4. CheckedFit'
    <3>1. ASSUME NEW s \in Requests, req'[s].op = "create",
                 NEW g \in Checked(req'[s])
          PROVE  Cardinality(NextUnits(FirstHolders', req'[s].kind, g))
                   + req'[s].want[g] <= Quantity[g]
      BY <1>1, <3>1, CheckedFitKept
    <3>. QED BY <3>1 DEF CheckedFit, Checked, Named, Units, NextUnits
  <2>5. FirstClaimsFit'
    <3>1. ASSUME NEW g \in Goods, NEW k \in OrderKind
          PROVE  Cardinality(NextUnits(FirstHolders', k, g)) <= Quantity[g]
      BY <1>1, <3>1, ClaimsFitKept
    <3>. QED BY <3>1 DEF FirstClaimsFit, FirstHolders, Units, NextUnits
  <2>. QED BY <2>1, <2>2, <2>3, <2>4, <2>5 DEF ReservationInv
<1>2. CASE UNCHANGED vars
  <2>1. /\ Reserving' = Reserving /\ FirstHolders' = FirstHolders
        /\ Created' = Created
    BY <1>2 DEF vars, Reserving, FirstHolders, Created
  <2>2. TypeOK'
    BY <1>2, StepTyped DEF ReservationInv
  <2>3. OrdersExist'
    BY <1>2, <2>1 DEF vars, ReservationInv, OrdersExist
  <2>4. LocksHeld'
    BY <1>2 DEF vars, ReservationInv, LocksHeld, Checked, Named
  <2>5. LocksExclusive'
    BY <1>2 DEF vars, ReservationInv, LocksExclusive, HeldGoods
  <2>6. CheckedFit'
    BY <1>2, <2>1 DEF vars, ReservationInv, CheckedFit, Checked, Named, Units
  <2>7. FirstClaimsFit'
    BY <1>2, <2>1 DEF vars, ReservationInv, FirstClaimsFit, FirstHolders, Units
  <2>. QED BY <2>2, <2>3, <2>4, <2>5, <2>6, <2>7 DEF ReservationInv
<1>. QED BY <1>1, <1>2, NextIsStepOf

(* createOrder's lock and check are enough for the orders as created: in   *)
(* every interleaving, the packages first promised of a goods item are     *)
(* never more than those registered.                                       *)
THEOREM FirstClaimsAlwaysFit == Spec => []FirstClaimsFit
<1>1. ReservationInv => FirstClaimsFit
  BY DEF ReservationInv
<1>. QED BY <1>1, InitReserves, StepReserves, PTL DEF Spec

(***************************************************************************)
(* The refinement of Claims.  A commit of existing orders gives claims up, *)
(* a creation claims what it checked, every other step is a stutter.       *)
(***************************************************************************)
FirstStage == [o \in Orders |-> ClaimStage(o, FirstHolders)]

ClaimInv == ReservationInv /\ revived \subseteq Created

LEMMA HoldersHeld ==
  ASSUME TypeOK
  PROVE  /\ FirstClaims!Holders = FirstHolders
         /\ \A k, g : FirstClaims!Held(k, g) = Units(FirstHolders, k, g)
<1>1. \A o \in Orders : status[o] = NotCreated => o \notin Reserving
  BY DEF Reserving, ReservingStatus, NotCreated
<1>2. \A o \in Orders : FirstStage[o] = "held" <=> o \in FirstHolders
  BY <1>1 DEF FirstStage, ClaimStage, FirstHolders
<1>3. FirstClaims!Holders = {o \in Orders : FirstStage[o] = "held"}
  BY DEF FirstClaims!Holders, FirstStage, FirstHolders
<1>4. FirstClaims!Holders = FirstHolders
  BY <1>2, <1>3, HoldersAreOrders
<1>. QED BY <1>4 DEF FirstClaims!Held, Units

LEMMA RevivedKept ==
  ASSUME ClaimInv, NEW r \in Requests, StepOf(r)
  PROVE  revived' \subseteq Created'
<1>0. TypeOK /\ OrdersExist /\ Created \subseteq Created'
  BY CreatedGrows DEF ClaimInv, ReservationInv
<1>1. CASE UNCHANGED <<orderVars, goods>>
  BY <1>0, <1>1 DEF ClaimInv, orderVars
<1>2. CASE CommitOf(r)
  <2>1. revived' \subseteq revived \cup Created
    BY <1>0, <1>2 DEF CommitOf, CommitStatus, CommitReceive, CommitPod,
                      CommitGoods, OrdersExist
  <2>. QED BY <1>0, <2>1 DEF ClaimInv
<1>3. ASSUME NEW o \in Orders, CommitCreate(r, o)
      PROVE  revived' \subseteq Created'
  BY <1>0, <1>3 DEF CommitCreate, ClaimInv
<1>. QED BY <1>1, <1>2, <1>3, QuietOrCommit

(* The orders a commit takes out of the reserving statuses give up what    *)
(* they hold, together.                                                    *)
LEMMA CommitGivesUp ==
  ASSUME TypeOK, OrdersExist, NEW r \in Requests, CommitOf(r)
  PROVE  FirstClaims!Next
<1> DEFINE S == FirstHolders \ FirstHolders'
<1>1. /\ kind' = kind /\ qty' = qty
      /\ FirstHolders' \subseteq FirstHolders /\ Created' = Created
  BY HoldersShrink
<1>2. S \in SUBSET FirstClaims!Holders
  BY HoldersHeld
<1>3. \A o \in Orders : (status'[o] = NotCreated) <=> (status[o] = NotCreated)
  BY <1>1 DEF Created
<1>4. \A o \in S : status[o] # NotCreated
  BY DEF FirstHolders, Reserving, ReservingStatus, NotCreated
<1>5. FirstStage' = [o \in Orders |-> IF o \in S THEN "gone" ELSE FirstStage[o]]
  <2>1. ASSUME NEW o \in Orders
        PROVE  ClaimStage(o, FirstHolders)'
                 = IF o \in S THEN "gone" ELSE ClaimStage(o, FirstHolders)
    BY <1>1, <1>3, <1>4 DEF ClaimStage
  <2>. QED BY <2>1 DEF FirstStage
<1>6. FirstClaims!GiveUp(S)
  <2> HIDE DEF S
  <2>. QED BY <1>1, <1>5 DEF FirstClaims!GiveUp, FirstStage, FirstHolders
<1>. QED BY <1>2, <1>6 DEF FirstClaims!Next

(* Every item an order names has been checked, and still fits; an item it  *)
(* does not name fits because the claims held do.                          *)
LEMMA CreateClaims ==
  ASSUME ClaimInv, NEW r \in Requests, NEW o \in Orders, CommitCreate(r, o)
  PROVE  FirstClaims!Next
<1> DEFINE q == req[r]
<1>0. TypeOK /\ CheckedFit /\ FirstClaimsFit /\ q \in CreateState
  BY RequestByOp DEF ClaimInv, ReservationInv, TypeOK, CommitCreate
<1>1. /\ q.op = "create" /\ q.todo = {} /\ status[o] = NotCreated
      /\ kind' = [kind EXCEPT ![o] = q.kind] /\ qty' = [qty EXCEPT ![o] = q.want]
      /\ revived' = revived /\ o \notin revived
  BY DEF CommitCreate, ClaimInv, Created
<1>2. /\ status'[o] \in ReservingStatus
      /\ \A p \in Orders \ {o} : status'[p] = status[p]
  BY <1>0 DEF CommitCreate, TypeOK, ReservingStatus
<1>3. FirstStage' = [FirstStage EXCEPT ![o] = "held"]
  <2>1. o \in FirstHolders' /\ status'[o] # NotCreated
    BY <1>1, <1>2 DEF FirstHolders, Reserving, ReservingStatus, NotCreated
  <2>2. \A p \in Orders \ {o} : p \in FirstHolders' <=> p \in FirstHolders
    BY <1>1, <1>2 DEF FirstHolders, Reserving
  <2>3. ASSUME NEW p \in Orders
        PROVE  ClaimStage(p, FirstHolders)'
                 = IF p = o THEN "held" ELSE ClaimStage(p, FirstHolders)
    BY <1>2, <2>1, <2>2 DEF ClaimStage
  <2>. QED BY <2>3 DEF FirstStage
<1>4. FirstStage[o] = "none"
  BY <1>1 DEF FirstStage, ClaimStage
<1>5. kind'[o] = q.kind /\ qty'[o] = q.want
  BY <1>0, <1>1 DEF TypeOK
<1>6. ASSUME NEW g \in Goods
      PROVE  Cardinality(Units(FirstHolders, q.kind, g)) + q.want[g] <= Quantity[g]
  <2>1. CASE g \in Named(q.want)
    BY <1>0, <1>1, <2>1 DEF CheckedFit, Checked
  <2>2. CASE g \notin Named(q.want)
    <3>1. q.want[g] = 0 /\ q.kind \in OrderKind
      BY <1>0, <2>2 DEF Named, CreateState
    <3>2. Cardinality(Units(FirstHolders, q.kind, g)) <= Quantity[g]
      BY <1>0, <3>1 DEF FirstClaimsFit, FirstHolders
    <3>3. Cardinality(Units(FirstHolders, q.kind, g)) \in Nat
      BY <1>0, HoldersAreOrders, UnitsFinite
    <3>. QED BY <3>1, <3>2, <3>3
  <2>. QED BY <2>1, <2>2
<1>7. \A g \in Goods :
        Cardinality(FirstClaims!Held(kind'[o], g)) + qty'[o][g] <= Quantity[g]
  BY <1>0, <1>5, <1>6, HoldersHeld
<1>8. FirstClaims!Claim(o)
  BY <1>0, <1>1, <1>3, <1>4, <1>5, <1>7
  DEF FirstClaims!Claim, FirstStage, FirstHolders, TypeOK,
      FirstClaims!Cardinality, Cardinality
<1>. QED BY <1>8 DEF FirstClaims!Next

LEMMA StepClaims ==
  ClaimInv /\ [Next]_vars => ClaimInv' /\ [FirstClaims!Next]_(FirstClaims!vars)
<1> SUFFICES ASSUME ClaimInv, [Next]_vars
             PROVE  ClaimInv' /\ [FirstClaims!Next]_(FirstClaims!vars)
  OBVIOUS
<1>0. ReservationInv' /\ TypeOK /\ OrdersExist
  BY StepReserves DEF ClaimInv, ReservationInv
<1>1. ASSUME UNCHANGED orderVars
      PROVE  UNCHANGED FirstClaims!vars
  BY <1>1 DEF orderVars, FirstClaims!vars, ClaimStage, Reserving
<1>2. ASSUME NEW r \in Requests, StepOf(r)
      PROVE  ClaimInv' /\ [FirstClaims!Next]_(FirstClaims!vars)
  <2>1. ClaimInv'
    BY <1>0, <1>2, RevivedKept DEF ClaimInv
  <2>2. CASE UNCHANGED <<orderVars, goods>>
    BY <1>1, <2>1, <2>2
  <2>3. CASE CommitOf(r)
    BY <1>0, <2>1, <2>3, CommitGivesUp
  <2>4. CASE \E o \in Orders : CommitCreate(r, o)
    BY <2>1, <2>4, CreateClaims
  <2>. QED BY <1>2, <2>2, <2>3, <2>4, QuietOrCommit
<1>3. CASE UNCHANGED vars
  <2>1. UNCHANGED orderVars
    BY <1>3 DEF vars, orderVars
  <2>2. ClaimInv'
    BY <1>0, <2>1 DEF ClaimInv, orderVars, Created
  <2>. QED BY <1>1, <2>1, <2>2
<1>. QED BY <1>2, <1>3, NextIsStepOf

LEMMA InitClaims == Init => ClaimInv /\ FirstClaims!Init
<1> SUFFICES ASSUME Init PROVE ClaimInv /\ FirstClaims!Init
  OBVIOUS
<1>1. ClaimInv
  BY InitReserves DEF Init, ClaimInv
<1>2. kind \in [Orders -> OrderKind] /\ qty \in [Orders -> [Goods -> Nat]]
  BY InitTyped DEF TypeOK
<1>3. \A o \in Orders : ClaimStage(o, Reserving \ revived) = "none"
  BY DEF Init, ClaimStage
<1>. QED BY <1>1, <1>2, <1>3 DEF FirstClaims!Init

(* createOrder implements Claims: in every interleaving an order claims    *)
(* all its packages in one step, only if they are left, and no handler     *)
(* changes a claim or takes one up again.                                  *)
THEOREM FirstClaimsAreAtomic == Spec => FirstClaimsAtomic
<1>1. ClaimInv /\ [Next]_vars => ClaimInv'
  BY StepClaims
<1>2. ClaimInv /\ [Next]_vars => [FirstClaims!Next]_(FirstClaims!vars)
  BY StepClaims
<1>. QED
  BY <1>1, <1>2, InitClaims, PTL DEF Spec, FirstClaimsAtomic, FirstClaims!Spec

(***************************************************************************)
(* MAX_DEMO_ORDERS_LIMIT is overshot by less than the number of concurrent *)
(* requests.  createOrder counts the orders once, before its transaction: a*)
(* request that has counted and not yet committed may add one order, so    *)
(* those requests are counted as orders.                                   *)
(***************************************************************************)
Pending == {r \in Requests : req[r].op \in {"counted", "create"}}

LimitInv ==
  /\ ReservationInv
  /\ Cardinality(Created) + Cardinality(Pending)
       < DemoLimit + Cardinality(Requests)

(* A handler that goes on is still the same one, about the same order.     *)
GoesOn(p, q, r) ==
  /\ q.op = p.op /\ q.op \in {"create", "status", "goods"}
  /\ q.op = "create" => q.want = p.want /\ q.drafts = p.drafts
  /\ q.op \in {"create", "status"} => q.truck = p.truck /\ q.courier = p.courier
  /\ q.op = "status" => /\ q.order = p.order /\ q.to = p.to /\ q.given = p.given
                        /\ q.touched = p.touched \/ LockOrder(r)
  /\ q.op = "goods" => LockItem(r)

LEMMA ContinueGoesOn ==
  ASSUME TypeOK, NEW r \in Requests, Continue(r)
  PROVE  Finish(r) \/ ReadGoods(r)
           \/ (GoesOn(req[r], req'[r], r) /\ UNCHANGED orderVars)
<1> DEFINE p == req[r]
           q == req'[r]
<1> SUFFICES ASSUME ~Finish(r), ~ReadGoods(r)
             PROVE  GoesOn(p, q, r) /\ UNCHANGED orderVars
  OBVIOUS
<1>p. p \in RequestState
  BY DEF TypeOK
<1>1. CASE ValidateFleet(r)
  <2>1. q = [p EXCEPT !.stage = "tx"] /\ UNCHANGED orderVars
    BY <1>1, Moves DEF ValidateFleet
  <2>2. p \in CreateState \cup StatusState
    BY <1>1, <1>p, RequestByOp DEF ValidateFleet
  <2>. QED BY <2>1, <2>2 DEF GoesOn, CreateState, StatusState
<1>2. CASE CheckVehicle(r) \/ CheckDriver(r)
  <2>1. UNCHANGED orderVars /\ p.op \in {"create", "status"}
    BY <1>2 DEF CheckVehicle, CheckDriver
  <2>2. \E t : Advance(r, [p EXCEPT !.todo = t])
    BY <1>2 DEF CheckVehicle, CheckDriver
  <2>3. PICK t : q = [p EXCEPT !.todo = t]
    BY <2>2, Moves
  <2>4. p \in CreateState \cup StatusState
    BY <2>1, <1>p, RequestByOp
  <2>. QED BY <2>1, <2>3, <2>4 DEF GoesOn, CreateState, StatusState
<1>3. ASSUME NEW g \in Goods, LockGoods(r, g) \/ CheckGoods(r, g)
      PROVE  GoesOn(p, q, r) /\ UNCHANGED orderVars
  <2>1. UNCHANGED orderVars /\ p.op = "create"
    BY <1>3 DEF LockGoods, CheckGoods
  <2>2. \/ q = [p EXCEPT !.held = @ \cup {g}]
        \/ q = [p EXCEPT !.todo = @ \ {g}]
    BY <1>3, Moves DEF LockGoods, CheckGoods
  <2>3. p \in CreateState
    BY <2>1, <1>p, RequestByOp
  <2>. QED BY <2>1, <2>2, <2>3 DEF GoesOn, CreateState
<1>4. CASE LockOrder(r)
  <2> DEFINE T == IF kind[p.order] = "PICKUP"
                    THEN {g \in Items(p.order) : goods[g] \in SyncFrom(p.to)}
                    ELSE {}
  <2>1. /\ Advance(r, [p EXCEPT !.stage = "locked", !.touched = T])
        /\ UNCHANGED orderVars
    BY <1>4 DEF LockOrder
  <2> HIDE DEF T
  <2>2. q = [p EXCEPT !.stage = "locked", !.touched = T]
    BY <2>1, Moves
  <2>3. p \in StatusState
    BY <1>4, <1>p, RequestByOp DEF LockOrder
  <2>. QED BY <1>4, <2>1, <2>2, <2>3 DEF GoesOn, StatusState
<1>5. CASE LockItem(r)
  <2> DEFINE C == IF p.to = "STORED" THEN CompletedBy(p.item) ELSE {}
  <2>1. /\ Advance(r, [p EXCEPT !.stage = "locked", !.confirms = C])
        /\ UNCHANGED orderVars
    BY <1>5 DEF LockItem
  <2> HIDE DEF C
  <2>2. q = [p EXCEPT !.stage = "locked", !.confirms = C]
    BY <2>1, Moves
  <2>3. p \in GoodsState
    BY <1>5, <1>p, RequestByOp DEF LockItem
  <2>4. q.op = p.op /\ p.op = "goods"
    BY <2>2, <2>3 DEF GoodsState
  <2>. QED BY <1>5, <2>1, <2>4 DEF GoesOn
<1>. QED
  BY <1>1, <1>2, <1>3, <1>4, <1>5
  DEF Continue, RefuseCreate, CommitCreate, CommitStatus, CommitReceive,
      CommitPod, CommitAssign, CommitGoods

LEMMA BeginPending ==
  ASSUME TypeOK, NEW r \in Requests, Begin(r), ~BeginCreate(r)
  PROVE  req'[r].op \notin {"counted", "create"}
<1>1. CASE BeginReceive(r) \/ BeginPod(r)
  <2>1. PICK o \in Created, op \in {"receive", "pod"} :
          Advance(r, [op |-> op, order |-> o, truck |-> truck[o]])
    BY <1>1 DEF BeginReceive, BeginPod
  <2>2. req'[r] = [op |-> op, order |-> o, truck |-> truck[o]]
    BY <2>1, Moves
  <2>. QED BY <2>2
<1>2. CASE BeginAssign(r)
  <2>1. PICK v \in Vehicles : Advance(r, [op |-> "assign", truck |-> v])
    BY <1>2 DEF BeginAssign
  <2>2. req'[r] = [op |-> "assign", truck |-> v]
    BY <2>1, Moves
  <2>. QED BY <2>2
<1>3. CASE BeginGoods(r)
  <2>1. PICK g \in Goods, to \in GoodsTargets :
          Advance(r, [op |-> "goods", stage |-> "read", item |-> g,
                      to |-> to, confirms |-> {}])
    BY <1>3 DEF BeginGoods
  <2>2. req'[r] = [op |-> "goods", stage |-> "read", item |-> g, to |-> to,
                   confirms |-> {}]
    BY <2>1, Moves
  <2>. QED BY <2>2
<1>4. CASE BeginStatus(r)
  <2>1. PICK o \in Created, to \in OrderTargets,
             v \in Vehicles \cup {None}, d \in Drivers \cup {None} :
           Advance(r, NewStatus(o, to, v, d))
    BY <1>4 DEF BeginStatus
  <2>2. NewStatus(o, to, v, d).op = "status"
    BY DEF NewStatus
  <2>. QED BY <2>1, <2>2, Moves
<1>. QED BY <1>1, <1>2, <1>3, <1>4 DEF Begin

(* Only createOrder's count adds a pending request.                        *)
LEMMA PendingShrinks ==
  ASSUME TypeOK, NEW r \in Requests, StepOf(r), ~BeginCreate(r)
  PROVE  Pending' \subseteq Pending
<1>1. req'[r].op \in {"counted", "create"} => req[r].op \in {"counted", "create"}
  <2>1. CASE Finish(r)
    BY <2>1, FinishOne DEF Idle
  <2>2. CASE Begin(r)
    BY <2>2, BeginPending
  <2>3. CASE Continue(r)
    BY <2>1, <2>3, ContinueGoesOn DEF GoesOn, ReadGoods
  <2>. QED BY <2>1, <2>2, <2>3 DEF StepOf, Abort, EndDeadlock
<1>. QED BY <1>1, OthersStay DEF Pending

LEMMA LimitCounts ==
  /\ IsFiniteSet(Created) /\ Cardinality(Created) \in Nat
  /\ IsFiniteSet(Pending) /\ Cardinality(Pending) \in Nat
  /\ IsFiniteSet(Requests) /\ Cardinality(Requests) \in Nat
  /\ Cardinality(Pending) <= Cardinality(Requests)
<1>1. Created \in SUBSET Orders /\ Pending \in SUBSET Requests
  BY DEF Created, Pending
<1>. QED BY <1>1, QuantityAssumption, RequestsAssumption, FS_Subset,
            FS_CardinalityType

LEMMA StepLimited == LimitInv /\ [Next]_vars => LimitInv'
<1> SUFFICES ASSUME LimitInv, [Next]_vars PROVE LimitInv'
  OBVIOUS
<1>i. ReservationInv' /\ ReservationInv /\ TypeOK /\ OrdersExist
  BY StepReserves DEF LimitInv, ReservationInv
<1> DEFINE orders == Cardinality(Created)
           pending == Cardinality(Pending)
           all == Cardinality(Requests)
<1>n. orders \in Nat /\ pending \in Nat /\ all \in Nat /\ DemoLimit \in Nat
  BY LimitCounts, RequestsAssumption
<1>0. orders + pending < DemoLimit + all
  BY DEF LimitInv
<1>f. IsFiniteSet(Pending') /\ Cardinality(Pending') \in Nat
      /\ Cardinality(Pending') <= all
  <2>1. Pending' \in SUBSET Requests
    BY DEF Pending
  <2>. QED BY <2>1, RequestsAssumption, FS_Subset, FS_CardinalityType
<1>1. ASSUME NEW r \in Requests, BeginCreate(r)
      PROVE  Cardinality(Created') + Cardinality(Pending') < DemoLimit + all
  <2>1. Created' = Created /\ orders < DemoLimit
    BY <1>1 DEF BeginCreate, BelowDemoLimit, orderVars, Created
  <2>. QED BY <2>1, <1>f, <1>n
<1>2. ASSUME NEW r \in Requests, NEW o \in Orders, CommitCreate(r, o)
      PROVE  Cardinality(Created') + Cardinality(Pending') < DemoLimit + all
  <2>1. Created' = Created \cup {o} /\ o \notin Created
    BY <1>i, <1>2 DEF CommitCreate, Created, NotCreated, TypeOK
  <2>2. Cardinality(Created') = orders + 1
    BY <2>1, LimitCounts, FS_AddElement
  <2>3. r \in Pending /\ Pending' \subseteq Pending \ {r}
    <3>1. req'[r] = Idle /\ \A s \in Requests \ {r} : req'[s] = req[s]
      BY <1>i, <1>2, FinishOne DEF CommitCreate
    <3>. QED BY <1>2, <3>1 DEF Pending, CommitCreate, Idle
  <2>4. IsFiniteSet(Pending \ {r}) /\ Cardinality(Pending \ {r}) = pending - 1
    BY <2>3, LimitCounts, FS_RemoveElement
  <2>5. Cardinality(Pending') <= pending - 1
    BY <2>3, <2>4, FS_Subset
  <2>. QED BY <2>2, <2>5, <1>0, <1>n, <1>f
<1>3. ASSUME NEW r \in Requests, StepOf(r), ~BeginCreate(r),
             \A o \in Orders : ~CommitCreate(r, o)
      PROVE  Cardinality(Created') + Cardinality(Pending') < DemoLimit + all
  <2>1. Created' = Created
    <3>1. CASE UNCHANGED orderVars
      BY <3>1 DEF orderVars, Created
    <3>2. CASE CommitOf(r)
      BY <1>i, <3>2, HoldersShrink
    <3>. QED BY <1>3, <3>1, <3>2, QuietOrCommit
  <2>2. Pending' \subseteq Pending
    BY <1>i, <1>3, PendingShrinks
  <2>3. Cardinality(Pending') <= pending
    BY <2>2, LimitCounts, FS_Subset
  <2>. QED BY <2>1, <2>3, <1>0, <1>n, <1>f
<1>4. CASE UNCHANGED vars
  BY <1>i, <1>4, <1>0 DEF vars, LimitInv, Created, Pending
<1>. QED BY <1>i, <1>1, <1>2, <1>3, <1>4, NextIsStepOf DEF LimitInv

LEMMA InitLimited == Init => LimitInv
<1> SUFFICES ASSUME Init PROVE LimitInv
  OBVIOUS
<1>1. Created = {} /\ Pending = {}
  BY DEF Init, Created, Pending, Idle
<1>2. Cardinality(Created) = 0 /\ Cardinality(Pending) = 0
  BY <1>1, FS_EmptySet
<1>3. Cardinality(Requests) \in Nat /\ Cardinality(Requests) # 0
  BY RequestsAssumption, FS_EmptySet, FS_CardinalityType
<1>. QED BY <1>2, <1>3, InitReserves, RequestsAssumption DEF LimitInv

(* Requests that pass the order count together exceed the limit by less    *)
(* than their number, however createOrder's steps interleave.              *)
THEOREM OvershootAlwaysBounded == Spec => []OvershootBounded
<1>1. LimitInv => OvershootBounded
  BY LimitCounts, RequestsAssumption DEF LimitInv, OvershootBounded
<1>. QED BY <1>1, InitLimited, StepLimited, PTL DEF Spec
=============================================================================
