--------------------------- MODULE SerialProofs ---------------------------
(***************************************************************************)
(* Proofs about clients that never have two requests about one order at a  *)
(* time (SerialSpec): no package is promised twice (NoOverReservation), an *)
(* order's status moves along the transition table (FollowsTable), and the *)
(* end of a trip frees the vehicle the order has (DeliveredFreesVehicle).  *)
(*                                                                         *)
(* The only other writer of such an order is a put-away, which confirms    *)
(* it.  So what a handler read of its order before the transaction still   *)
(* stands at the commit, up to a confirmation it would have written too.   *)
(*                                                                         *)
(* Then proofs about one request at a time, where everything a handler     *)
(* read still stands: cancelled goods stay so (CancelledGoodsStay), and    *)
(* only a resumption makes two busy orders share a vehicle or a driver     *)
(* (ClashOnlyByResuming).  Last, what is left of that when requests        *)
(* interleave in any way: how many may share one (SharingBounded).         *)
(***************************************************************************)
EXTENDS ReservationProofs

Settled == {"DELIVERED", "CONFIRMED"}

(* The validation of request q still stands.                               *)
Stands(q) ==
  /\ q.op = "status" =>
       \/ q.to \in AllowedOrderTransitions(status[q.order])
       \/ q.to = "CONFIRMED" /\ status[q.order] = "CONFIRMED"
  /\ q.op = "receive" =>
       kind[q.order] = "PICKUP" /\ status[q.order] = "ARRIVED_DESTINATION"
  /\ q.op = "pod" => kind[q.order] # "PICKUP"
  /\ q.op = "goods" =>
       \A o \in q.confirms : kind[o] = "PICKUP" /\ status[o] \in Settled

SerialInv ==
  /\ ReservationInv
  /\ revived = {}
  /\ Alone
  /\ \A r \in Requests : Stands(req[r])

(***************************************************************************)
(* What the transition table says of settled and closed orders.            *)
(***************************************************************************)
LEMMA SettledTransitions ==
  /\ AllowedOrderTransitions("DELIVERED") = {"CONFIRMED"}
  /\ AllowedOrderTransitions("CONFIRMED") = {}
  /\ AllowedOrderTransitions("CANCELLED") = {}
  /\ AllowedOrderTransitions(NotCreated) = {}
  BY DEF AllowedOrderTransitions, NotCreated

(* A standing status change never reopens an order, and of a settled one   *)
(* only makes it CONFIRMED.                                                *)
LEMMA StandingStatus ==
  ASSUME NEW q, q.op = "status", Stands(q),
         status[q.order] \in OrderStatus \cup {NotCreated}
  PROVE  /\ status[q.order] \in ReservingStatus \/ q.to = "CONFIRMED"
         /\ status[q.order] \in Settled => q.to = "CONFIRMED"
         /\ status[q.order] # NotCreated
  BY SettledTransitions
  DEF Stands, OrderStatus, ReservingStatus, Settled, NotCreated

(***************************************************************************)
(* A request's validation stands from its first read on.                   *)
(***************************************************************************)
LEMMA BeginStands ==
  ASSUME TypeOK, NEW r \in Requests, Begin(r)
  PROVE  Stands(req'[r])
<1>1. CASE BeginCreate(r)
  <2>1. req'[r] = [op |-> "counted"]
    BY <1>1, Moves DEF BeginCreate
  <2>. QED BY <2>1 DEF Stands
<1>2. CASE BeginStatus(r)
  <2>1. PICK o \in Created, to \in OrderTargets,
             v \in Vehicles \cup {None}, d \in Drivers \cup {None} :
           /\ to \in AllowedOrderTransitions(status[o])
           /\ Advance(r, NewStatus(o, to, v, d))
    BY <1>2 DEF BeginStatus
  <2>2. /\ NewStatus(o, to, v, d).op = "status"
        /\ NewStatus(o, to, v, d).order = o
        /\ NewStatus(o, to, v, d).to = to
    BY DEF NewStatus
  <2>. QED BY <2>1, <2>2, Moves DEF Stands
<1>3. CASE BeginReceive(r)
  <2>1. PICK o \in Created :
          /\ kind[o] = "PICKUP" /\ status[o] = "ARRIVED_DESTINATION"
          /\ Advance(r, [op |-> "receive", order |-> o, truck |-> truck[o]])
    BY <1>3 DEF BeginReceive
  <2>2. req'[r] = [op |-> "receive", order |-> o, truck |-> truck[o]]
    BY <2>1, Moves
  <2>. QED BY <2>1, <2>2 DEF Stands
<1>4. CASE BeginPod(r)
  <2>1. PICK o \in Created :
          /\ kind[o] # "PICKUP"
          /\ Advance(r, [op |-> "pod", order |-> o, truck |-> truck[o]])
    BY <1>4 DEF BeginPod
  <2>2. req'[r] = [op |-> "pod", order |-> o, truck |-> truck[o]]
    BY <2>1, Moves
  <2>. QED BY <2>1, <2>2 DEF Stands
<1>5. CASE BeginAssign(r)
  <2>1. PICK v \in Vehicles : Advance(r, [op |-> "assign", truck |-> v])
    BY <1>5 DEF BeginAssign
  <2>2. req'[r] = [op |-> "assign", truck |-> v]
    BY <2>1, Moves
  <2>. QED BY <2>2 DEF Stands
<1>6. CASE BeginGoods(r)
  <2>1. PICK g \in Goods, to \in GoodsTargets :
          Advance(r, [op |-> "goods", stage |-> "read", item |-> g,
                      to |-> to, confirms |-> {}])
    BY <1>6 DEF BeginGoods
  <2>2. req'[r] = [op |-> "goods", stage |-> "read", item |-> g, to |-> to,
                   confirms |-> {}]
    BY <2>1, Moves
  <2>. QED BY <2>2 DEF Stands
<1>. QED BY <1>1, <1>2, <1>3, <1>4, <1>5, <1>6 DEF Begin

LEMMA LockItemStands ==
  ASSUME TypeOK, NEW r \in Requests, LockItem(r)
  PROVE  Stands(req'[r])
<1> DEFINE p == req[r]
           C == IF p.to = "STORED" THEN CompletedBy(p.item) ELSE {}
<1>1. \A o \in C : kind[o] = "PICKUP" /\ status[o] \in Settled
  BY DEF CompletedBy, Settled
<1>2. Advance(r, [p EXCEPT !.stage = "locked", !.confirms = C])
  BY DEF LockItem
<1> HIDE DEF C
<1>3. req'[r] = [p EXCEPT !.stage = "locked", !.confirms = C]
  BY <1>2, Moves
<1>4. p \in GoodsState
  BY RequestByOp DEF LockItem, TypeOK
<1>5. req'[r].op = "goods" /\ req'[r].confirms = C
  BY <1>3, <1>4 DEF GoodsState
<1>. QED BY <1>1, <1>5 DEF Stands

(* Between two commits: what stood still stands.                           *)
LEMMA OwnStands ==
  ASSUME TypeOK, NEW r \in Requests, StepOf(r), Stands(req[r])
  PROVE  Stands(req'[r])
<1>1. CASE Finish(r)
  BY <1>1, FinishOne DEF Stands, Idle
<1>2. CASE Begin(r)
  BY <1>2, BeginStands
<1>3. CASE ReadGoods(r)
  <2>1. PICK k \in Kinds, want \in [Goods -> Counts \cup {0}],
             v \in Vehicles \cup {None}, d \in Drivers \cup {None} :
           Advance(r, NewCreate(k, want, v, d))
    BY <1>3 DEF ReadGoods
  <2>2. NewCreate(k, want, v, d).op = "create"
    BY DEF NewCreate
  <2>. QED BY <2>1, <2>2, Moves DEF Stands
<1>4. CASE GoesOn(req[r], req'[r], r)
  BY <1>4, LockItemStands DEF GoesOn, Stands
<1>. QED BY <1>1, <1>2, <1>3, <1>4, ContinueGoesOn
         DEF StepOf, Abort, EndDeadlock

(***************************************************************************)
(* The commits, and what they leave standing.                              *)
(***************************************************************************)
(* A commit moves its own order, or confirms a settled pickup order; none  *)
(* moves a settled pickup order back.                                      *)
OrderMoves(r, o) ==
  /\ \/ status'[o] = status[o]
     \/ OnOrder(r) = o
     \/ kind[o] = "PICKUP" /\ status[o] \in Settled /\ status'[o] = "CONFIRMED"
  /\ kind[o] = "PICKUP" /\ status[o] \in Settled => status'[o] \in Settled

LEMMA CommitMoves ==
  ASSUME SerialInv, NEW r \in Requests, CommitOf(r)
  PROVE  /\ kind' = kind /\ revived' = {}
         /\ \A o \in Orders : OrderMoves(r, o)
<1> DEFINE q == req[r]
<1>i. TypeOK /\ OrdersExist /\ Stands(q) /\ revived = {} /\ q \in RequestState
  BY DEF SerialInv, ReservationInv, TypeOK
<1>1. CASE CommitStatus(r)
  <2>1. q.op = "status" /\ q.order \in Created /\ q.order \in Orders
    BY <1>i, <1>1 DEF CommitStatus, OrdersExist, Created
  <2>2. status' = [status EXCEPT ![q.order] = q.to] /\ kind' = kind
    BY <1>1 DEF CommitStatus
  <2>3. status[q.order] \in OrderStatus \cup {NotCreated}
    BY <1>i, <2>1 DEF TypeOK
  <2>4. /\ status[q.order] \in ReservingStatus \/ q.to = "CONFIRMED"
        /\ status[q.order] \in Settled => q.to = "CONFIRMED"
    BY <1>i, <2>1, <2>3, StandingStatus
  <2>5. revived' = {}
    <3>1. ~(q.order \notin Reserving /\ q.to \in ReservingStatus)
      BY <2>1, <2>4 DEF Reserving, ReservingStatus
    <3>. QED BY <1>i, <1>1, <3>1 DEF CommitStatus
  <2>6. \A o \in Orders : OrderMoves(r, o)
    BY <1>i, <2>1, <2>2, <2>4 DEF OrderMoves, OnOrder, Settled, TypeOK
  <2>. QED BY <2>2, <2>5, <2>6
<1>2. CASE CommitReceive(r) \/ CommitPod(r)
  <2>1. /\ q.op \in {"receive", "pod"} /\ q.order \in Orders
        /\ status' = [status EXCEPT ![q.order] = "DELIVERED"]
        /\ kind' = kind /\ revived' = revived
    BY <1>i, <1>2 DEF CommitReceive, CommitPod, OrdersExist, Created
  <2>2. kind[q.order] = "PICKUP" => status[q.order] = "ARRIVED_DESTINATION"
    BY <1>i, <2>1 DEF Stands
  <2>3. \A o \in Orders : OrderMoves(r, o)
    BY <1>i, <2>1, <2>2 DEF OrderMoves, OnOrder, Settled, TypeOK
  <2>. QED BY <1>i, <2>1, <2>3
<1>3. CASE CommitGoods(r)
  <2>1. /\ q.op = "goods"
        /\ status' = [o \in Orders |-> IF o \in q.confirms THEN "CONFIRMED"
                                                           ELSE status[o]]
        /\ kind' = kind /\ revived' = revived
    BY <1>3 DEF CommitGoods
  <2>2. \A o \in q.confirms : kind[o] = "PICKUP" /\ status[o] \in Settled
    BY <1>i, <2>1 DEF Stands
  <2>3. \A o \in Orders : OrderMoves(r, o)
    BY <2>1, <2>2 DEF OrderMoves, Settled
  <2>. QED BY <1>i, <2>1, <2>3
<1>. QED BY <1>1, <1>2, <1>3 DEF CommitOf

LEMMA OthersStand ==
  ASSUME SerialInv, NEW r \in Requests, StepOf(r),
         NEW s \in Requests \ {r}
  PROVE  revived' = {} /\ Stands(req[s])'
<1> DEFINE q == req[s]
<1>i. /\ TypeOK /\ OrdersExist /\ Stands(q) /\ revived = {} /\ Alone
      /\ req'[s] = q
  BY OthersStay DEF SerialInv, ReservationInv
<1>1. CASE UNCHANGED orderVars
  BY <1>i, <1>1 DEF orderVars, Stands
<1>2. ASSUME NEW o \in Orders, CommitCreate(r, o)
      PROVE  revived' = {} /\ Stands(req[s])'
  <2>1. \A p \in Created : kind'[p] = kind[p] /\ status'[p] = status[p]
    BY <1>i, <1>2 DEF CommitCreate, Created, TypeOK
  <2>2. /\ q.op \in {"status", "receive", "pod"} => q.order \in Created
        /\ q.op = "goods" => q.confirms \subseteq Created
    BY <1>i DEF OrdersExist
  <2>3. revived' = revived
    BY <1>2 DEF CommitCreate
  <2>. QED BY <1>i, <2>1, <2>2, <2>3 DEF Stands
<1>3. CASE CommitOf(r)
  <2>1. kind' = kind /\ revived' = {} /\ \A o \in Orders : OrderMoves(r, o)
    BY <1>3, CommitMoves
  <2>2. CASE q.op \in {"status", "receive", "pod"}
    <3>1. q.order \in Orders /\ OnOrder(s) = q.order /\ OnOrder(s) # None
      BY <1>i, <2>2, NoneAssumption DEF OrdersExist, Created, OnOrder
    <3>2. OnOrder(r) # q.order
      BY <1>i, <3>1 DEF Alone
    <3>3. \/ status'[q.order] = status[q.order]
          \/ status[q.order] \in Settled /\ status'[q.order] = "CONFIRMED"
      BY <2>1, <3>1, <3>2 DEF OrderMoves
    <3>4. q.op = "status" /\ status[q.order] \in Settled => q.to = "CONFIRMED"
      BY <1>i, <3>1, StandingStatus DEF TypeOK
    <3>. QED BY <1>i, <2>1, <2>2, <3>3, <3>4 DEF Stands, Settled
  <2>3. CASE q.op = "goods"
    <3>1. q.confirms \subseteq Orders
      BY <1>i, <2>3 DEF OrdersExist, Created
    <3>. QED BY <1>i, <2>1, <2>3, <3>1 DEF Stands, OrderMoves, Settled
  <2>4. CASE q.op \notin {"status", "receive", "pod", "goods"}
    BY <1>i, <2>1, <2>4 DEF Stands
  <2>. QED BY <2>2, <2>3, <2>4
<1>. QED BY <1>1, <1>2, <1>3, QuietOrCommit

(* Its own validation, when the step commits or not.                       *)
LEMMA OwnStandsNext ==
  ASSUME SerialInv, NEW r \in Requests, StepOf(r)
  PROVE  revived' = {} /\ Stands(req[r])'
<1>i. TypeOK /\ Stands(req[r]) /\ revived = {}
  BY DEF SerialInv, ReservationInv
<1>1. CASE UNCHANGED orderVars
  <2>1. Stands(req'[r])
    BY <1>i, OwnStands
  <2>. QED BY <1>i, <1>1, <2>1 DEF orderVars, Stands
<1>2. CASE CommitOf(r) \/ \E o \in Orders : CommitCreate(r, o)
  <2>1. Finish(r)
    BY <1>2 DEF CommitOf, CommitStatus, CommitReceive, CommitPod, CommitGoods,
                CommitCreate
  <2>2. revived' = {}
    BY <1>i, <1>2, CommitMoves DEF CommitCreate
  <2>. QED BY <1>i, <2>1, <2>2, FinishOne DEF Stands, Idle
<1>. QED BY <1>1, <1>2, QuietOrCommit

LEMMA InitSerial == Init => SerialInv
<1> SUFFICES ASSUME Init PROVE SerialInv
  OBVIOUS
<1>1. \A r \in Requests : req[r] = Idle
  BY DEF Init
<1>. QED BY <1>1, InitReserves DEF SerialInv, Init, Alone, OnOrder, Stands, Idle

LEMMA StepSerial == SerialInv /\ [Next /\ Alone']_vars => SerialInv'
<1> SUFFICES ASSUME SerialInv, [Next /\ Alone']_vars PROVE SerialInv'
  OBVIOUS
<1>1. ReservationInv'
  BY StepReserves DEF SerialInv
<1>2. ASSUME NEW r \in Requests, StepOf(r), Alone'
      PROVE  SerialInv'
  BY <1>1, <1>2, OthersStand, OwnStandsNext DEF SerialInv
<1>3. CASE UNCHANGED vars
  <2>1. revived' = {} /\ Alone'
    BY <1>3 DEF vars, SerialInv, Alone, OnOrder
  <2>2. \A r \in Requests : Stands(req[r])'
    BY <1>3 DEF vars, SerialInv, Stands
  <2>. QED BY <1>1, <2>1, <2>2 DEF SerialInv
<1>. QED BY <1>2, <1>3 DEF Next, StepOf

(* With one request about an order at a time, the reservation check of     *)
(* createOrder is enough: no package of a goods item is promised twice.    *)
THEOREM SerialNeverOverReserves == SerialSpec => []NoOverReservation
<1>1. SerialInv => NoOverReservation
  BY DEF SerialInv, ReservationInv, FirstClaimsFit, NoOverReservation
<1>. QED BY <1>1, InitSerial, StepSerial, PTL DEF SerialSpec

(***************************************************************************)
(* The refinement of Claims by all reserving orders: none is ever revived, *)
(* so their claims are the first claims.                                   *)
(***************************************************************************)
LEMMA PromisesAreFirstClaims ==
  ASSUME revived = {}
  PROVE  /\ [o \in Orders |-> ClaimStage(o, Reserving)] = FirstStage
         /\ FirstClaims!Init => Promises!Init
<1>1. Reserving = FirstHolders
  BY DEF FirstHolders
<1>2. [o \in Orders |-> ClaimStage(o, Reserving)] = FirstStage
  BY <1>1 DEF FirstStage
<1>. QED BY <1>2 DEF FirstClaims!Init, Promises!Init, FirstStage, FirstHolders

LEMMA PromisesStep ==
  ASSUME revived = {}, revived' = {},
         [FirstClaims!Next]_(FirstClaims!vars)
  PROVE  [Promises!Next]_(Promises!vars)
<1> DEFINE P == [o \in Orders |-> ClaimStage(o, Reserving)]
           F == [o \in Orders |-> ClaimStage(o, Reserving \ revived)]
<1>1. P = F /\ P' = F'
  <2>1. Reserving \ revived = Reserving /\ (Reserving \ revived)' = Reserving'
    OBVIOUS
  <2>2. \A o \in Orders :
          /\ ClaimStage(o, Reserving \ revived) = ClaimStage(o, Reserving)
          /\ ClaimStage(o, Reserving \ revived)' = ClaimStage(o, Reserving)'
    BY <2>1 DEF ClaimStage
  <2>. QED BY <2>2
<1>2. FirstClaims!Holders = Promises!Holders
  BY <1>1 DEF FirstClaims!Holders, Promises!Holders
<1>3. \A k, g : FirstClaims!Held(k, g) = Promises!Held(k, g)
  BY <1>2 DEF FirstClaims!Held, Promises!Held
<1>4. ASSUME NEW o \in Orders, FirstClaims!Claim(o) PROVE Promises!Claim(o)
  <2>1. ASSUME NEW k, NEW g
        PROVE  FirstClaims!Cardinality(FirstClaims!Held(k, g))
                 = Promises!Cardinality(Promises!Held(k, g))
    BY <1>3 DEF FirstClaims!Cardinality, Promises!Cardinality
  <2>. QED BY <1>1, <1>4, <2>1 DEF FirstClaims!Claim, Promises!Claim
<1>5. ASSUME NEW S, FirstClaims!GiveUp(S) PROVE Promises!GiveUp(S)
  BY <1>1, <1>5 DEF FirstClaims!GiveUp, Promises!GiveUp
<1>6. UNCHANGED FirstClaims!vars => UNCHANGED Promises!vars
  BY <1>1 DEF FirstClaims!vars, Promises!vars
<1>. QED BY <1>2, <1>4, <1>5, <1>6 DEF FirstClaims!Next, Promises!Next

(* With one request about an order at a time, createOrder implements       *)
(* Claims for all orders that reserve: a claim once given up, by delivery  *)
(* or cancellation, is never taken up again unchecked.                     *)
THEOREM SerialPromisesAreAtomic == SerialSpec => PromisesAtomic
<1>1. Init => SerialInv /\ ClaimInv /\ Promises!Init
  BY InitSerial, InitClaims, PromisesAreFirstClaims DEF SerialInv
<1>2. SerialInv /\ ClaimInv /\ [Next /\ Alone']_vars => SerialInv' /\ ClaimInv'
  BY StepSerial, StepClaims
<1>3. SerialInv /\ ClaimInv /\ SerialInv' /\ [Next /\ Alone']_vars
        => [Promises!Next]_(Promises!vars)
  BY StepClaims, PromisesStep DEF SerialInv
<1>. QED
  BY <1>1, <1>2, <1>3, PTL DEF SerialSpec, PromisesAtomic, Promises!Spec

(* With one request about an order at a time, the table a handler looked   *)
(* up before its transaction holds for the status it then overwrites.      *)
LEMMA CommitFollows ==
  ASSUME SerialInv, NEW r \in Requests, CommitOf(r), NEW o \in Orders
  PROVE  \/ status'[o] = status[o]
         \/ status'[o] \in AllowedOrderTransitions(status[o])
         \/ kind[o] # "PICKUP" /\ status'[o] = "DELIVERED"
<1> DEFINE q == req[r]
<1>i. TypeOK /\ Stands(q)
  BY DEF SerialInv, ReservationInv
<1>1. CASE CommitStatus(r)
  <2>1. q.op = "status" /\ status' = [status EXCEPT ![q.order] = q.to]
    BY <1>1 DEF CommitStatus
  <2>2. \/ q.to \in AllowedOrderTransitions(status[q.order])
        \/ q.to = "CONFIRMED" /\ status[q.order] = "CONFIRMED"
    BY <1>i, <2>1 DEF Stands
  <2>. QED BY <1>i, <2>1, <2>2 DEF TypeOK
<1>2. CASE CommitReceive(r)
  <2>1. q.op = "receive" /\ status' = [status EXCEPT ![q.order] = "DELIVERED"]
    BY <1>2 DEF CommitReceive
  <2>2. status[q.order] = "ARRIVED_DESTINATION"
    BY <1>i, <2>1 DEF Stands
  <2>3. "DELIVERED" \in AllowedOrderTransitions("ARRIVED_DESTINATION")
    BY DEF AllowedOrderTransitions
  <2>. QED BY <1>i, <2>1, <2>2, <2>3 DEF TypeOK
<1>3. CASE CommitPod(r)
  <2>1. q.op = "pod" /\ status' = [status EXCEPT ![q.order] = "DELIVERED"]
    BY <1>3 DEF CommitPod
  <2>2. kind[q.order] # "PICKUP"
    BY <1>i, <2>1 DEF Stands
  <2>. QED BY <1>i, <2>1, <2>2 DEF TypeOK
<1>4. CASE CommitGoods(r)
  <2>1. /\ q.op = "goods"
        /\ status'[o] = IF o \in q.confirms THEN "CONFIRMED" ELSE status[o]
    BY <1>4 DEF CommitGoods
  <2>2. o \in q.confirms => status[o] \in Settled
    BY <1>i, <2>1 DEF Stands
  <2>. QED BY <2>1, <2>2, SettledTransitions DEF Settled
<1>. QED BY <1>1, <1>2, <1>3, <1>4 DEF CommitOf

(* With one request about an order at a time, status changes, receiving,   *)
(* PODs and put-aways move an order along the transition table only, but   *)
(* for the POD of a delivery: no cancelled or confirmed pickup order ever  *)
(* moves again.                                                            *)
THEOREM SerialFollowsTable == SerialSpec => FollowsTable
<1> DEFINE Along == \A o \in Created :
       \/ status'[o] = status[o]
       \/ status'[o] \in AllowedOrderTransitions(status[o])
       \/ kind[o] # "PICKUP" /\ status'[o] = "DELIVERED"
<1>1. SerialInv /\ [Next /\ Alone']_vars => [Along]_vars
  <2> SUFFICES ASSUME SerialInv, NEW r \in Requests, StepOf(r) PROVE Along
    BY DEF Next, StepOf
  <2>1. CASE UNCHANGED orderVars
    BY <2>1 DEF orderVars
  <2>2. CASE CommitOf(r)
    BY <2>2, CommitFollows DEF Created
  <2>3. ASSUME NEW o \in Orders, CommitCreate(r, o) PROVE Along
    BY <2>3 DEF CommitCreate, Created, SerialInv, ReservationInv, TypeOK
  <2>. QED BY <2>1, <2>2, <2>3, QuietOrCommit
<1>. QED BY <1>1, InitSerial, StepSerial, PTL DEF SerialSpec, FollowsTable

(***************************************************************************)
(* The vehicle a handler frees is the one its order has.                   *)
(***************************************************************************)
KnowsTruck(q) ==
  /\ q.op = "status" => q.truck = truck[q.order] \/ q.truck \in q.given
  /\ q.op \in {"receive", "pod"} => q.truck = truck[q.order]

TruckInv == SerialInv /\ \A r \in Requests : KnowsTruck(req[r])

LEMMA BeginKnows ==
  ASSUME TypeOK, NEW r \in Requests, Begin(r)
  PROVE  KnowsTruck(req'[r])
<1>1. CASE BeginCreate(r)
  <2>1. req'[r] = [op |-> "counted"]
    BY <1>1, Moves DEF BeginCreate
  <2>. QED BY <2>1 DEF KnowsTruck
<1>2. CASE BeginStatus(r)
  <2>1. PICK o \in Created, to \in OrderTargets,
             v \in Vehicles \cup {None}, d \in Drivers \cup {None} :
           Advance(r, NewStatus(o, to, v, d))
    BY <1>2 DEF BeginStatus
  <2>2. /\ NewStatus(o, to, v, d).op = "status"
        /\ NewStatus(o, to, v, d).order = o
        /\ NewStatus(o, to, v, d).truck = Target(v, truck[o])
        /\ NewStatus(o, to, v, d).given = {v, d} \ {None}
    BY DEF NewStatus
  <2>. QED BY <2>1, <2>2, Moves DEF KnowsTruck, Target
<1>3. CASE BeginReceive(r) \/ BeginPod(r)
  <2>1. PICK o \in Created, op \in {"receive", "pod"} :
          Advance(r, [op |-> op, order |-> o, truck |-> truck[o]])
    BY <1>3 DEF BeginReceive, BeginPod
  <2>2. req'[r] = [op |-> op, order |-> o, truck |-> truck[o]]
    BY <2>1, Moves
  <2>. QED BY <2>2 DEF KnowsTruck
<1>4. CASE BeginAssign(r)
  <2>1. PICK v \in Vehicles : Advance(r, [op |-> "assign", truck |-> v])
    BY <1>4 DEF BeginAssign
  <2>2. req'[r] = [op |-> "assign", truck |-> v]
    BY <2>1, Moves
  <2>. QED BY <2>2 DEF KnowsTruck
<1>5. CASE BeginGoods(r)
  <2>1. PICK g \in Goods, to \in GoodsTargets :
          Advance(r, [op |-> "goods", stage |-> "read", item |-> g,
                      to |-> to, confirms |-> {}])
    BY <1>5 DEF BeginGoods
  <2>2. req'[r] = [op |-> "goods", stage |-> "read", item |-> g, to |-> to,
                   confirms |-> {}]
    BY <2>1, Moves
  <2>. QED BY <2>2 DEF KnowsTruck
<1>. QED BY <1>1, <1>2, <1>3, <1>4, <1>5 DEF Begin

LEMMA OwnKnows ==
  ASSUME TypeOK, NEW r \in Requests, StepOf(r), KnowsTruck(req[r])
  PROVE  KnowsTruck(req'[r])
<1>1. CASE Finish(r)
  BY <1>1, FinishOne DEF KnowsTruck, Idle
<1>2. CASE Begin(r)
  BY <1>2, BeginKnows
<1>3. CASE ReadGoods(r)
  <2>1. PICK k \in Kinds, want \in [Goods -> Counts \cup {0}],
             v \in Vehicles \cup {None}, d \in Drivers \cup {None} :
           Advance(r, NewCreate(k, want, v, d))
    BY <1>3 DEF ReadGoods
  <2>2. NewCreate(k, want, v, d).op = "create"
    BY DEF NewCreate
  <2>. QED BY <2>1, <2>2, Moves DEF KnowsTruck
<1>4. CASE GoesOn(req[r], req'[r], r)
  BY <1>4 DEF GoesOn, KnowsTruck
<1>. QED BY <1>1, <1>2, <1>3, <1>4, ContinueGoesOn
         DEF StepOf, Abort, EndDeadlock

(* Only the order of the request that commits changes its vehicle.         *)
LEMMA TrucksMove ==
  ASSUME TypeOK, OrdersExist, NEW r \in Requests, StepOf(r), NEW o \in Created,
         OnOrder(r) # o
  PROVE  truck'[o] = truck[o]
<1>1. CASE UNCHANGED <<orderVars, goods>>
  BY <1>1 DEF orderVars
<1>2. CASE CommitOf(r)
  BY <1>2 DEF CommitOf, CommitStatus, CommitReceive, CommitPod, CommitGoods,
              OnOrder, TypeOK, Created
<1>3. CASE \E p \in Orders : CommitCreate(r, p)
  BY <1>3 DEF CommitCreate, Created, TypeOK
<1>. QED BY <1>1, <1>2, <1>3, QuietOrCommit

LEMMA OthersKnow ==
  ASSUME TruckInv, NEW r \in Requests, StepOf(r), NEW s \in Requests \ {r}
  PROVE  KnowsTruck(req[s])'
<1> DEFINE q == req[s]
<1>0. /\ TypeOK /\ OrdersExist /\ Alone /\ KnowsTruck(q) /\ req'[s] = q
  BY OthersStay DEF TruckInv, SerialInv, ReservationInv
<1>1. CASE q.op \in {"status", "receive", "pod"}
  <2>1. q.order \in Created /\ OnOrder(s) = q.order /\ OnOrder(s) # None
    BY <1>0, <1>1, NoneAssumption DEF OrdersExist, Created, OnOrder
  <2>2. truck'[q.order] = truck[q.order]
    BY <1>0, <2>1, TrucksMove DEF Alone
  <2>. QED BY <1>0, <2>2 DEF KnowsTruck
<1>2. CASE q.op \notin {"status", "receive", "pod"}
  BY <1>0, <1>2 DEF KnowsTruck
<1>. QED BY <1>1, <1>2

LEMMA OwnKnowsNext ==
  ASSUME TruckInv, NEW r \in Requests, StepOf(r)
  PROVE  KnowsTruck(req[r])'
<1>0. TypeOK /\ KnowsTruck(req[r])
  BY DEF TruckInv, SerialInv, ReservationInv
<1>1. CASE UNCHANGED <<orderVars, goods>>
  BY <1>0, <1>1, OwnKnows DEF orderVars, KnowsTruck
<1>2. CASE CommitOf(r) \/ \E o \in Orders : CommitCreate(r, o)
  <2>1. Finish(r)
    BY <1>2 DEF CommitOf, CommitStatus, CommitReceive, CommitPod, CommitGoods,
                CommitCreate
  <2>. QED BY <1>0, <2>1, FinishOne DEF KnowsTruck, Idle
<1>. QED BY <1>1, <1>2, QuietOrCommit

LEMMA StepTrucks == TruckInv /\ [Next /\ Alone']_vars => TruckInv'
<1> SUFFICES ASSUME TruckInv, [Next /\ Alone']_vars PROVE TruckInv'
  OBVIOUS
<1>1. SerialInv'
  BY StepSerial DEF TruckInv
<1>2. ASSUME NEW r \in Requests, StepOf(r) PROVE TruckInv'
  BY <1>1, <1>2, OthersKnow, OwnKnowsNext DEF TruckInv
<1>3. CASE UNCHANGED vars
  BY <1>1, <1>3 DEF vars, TruckInv, KnowsTruck
<1>. QED BY <1>2, <1>3 DEF Next, StepOf

(* With one request about an order at a time, the end of a trip frees the  *)
(* vehicle the order has, and not one it had when the handler read it.     *)
THEOREM SerialFreesVehicle == SerialSpec => DeliveredFreesVehicle
<1> DEFINE Frees == \A o \in Orders :
       status[o] # "DELIVERED" /\ status'[o] = "DELIVERED" /\ truck'[o] # None
         => fleet'[truck'[o]] = "AVAILABLE"
<1>1. TruckInv /\ [Next /\ Alone']_vars => [Frees]_vars
  <2> SUFFICES ASSUME TruckInv, NEW r \in Requests, StepOf(r),
                      NEW o \in Orders, status[o] # "DELIVERED",
                      status'[o] = "DELIVERED", truck'[o] # None
               PROVE  fleet'[truck'[o]] = "AVAILABLE"
    BY DEF Next, StepOf
  <2>0. /\ TypeOK /\ OrdersExist /\ KnowsTruck(req[r])
        /\ truck'[o] \in Vehicles
    BY NextTyped DEF TruckInv, SerialInv, ReservationInv, TypeOK
  <2>1. CASE UNCHANGED <<orderVars, goods>>
    BY <2>1 DEF orderVars
  <2>2. CASE CommitStatus(r)
    <3>1. req[r].order = o /\ req[r].op = "status" /\ req[r].to = "DELIVERED"
      BY <2>0, <2>2 DEF CommitStatus, TypeOK
    <3>2. truck'[o] = req[r].truck
      BY <2>0, <2>2, <3>1 DEF CommitStatus, KnowsTruck, TypeOK
    <3>3. fleet' = FleetWith(req[r].truck, "AVAILABLE")
      BY <2>2, <3>1 DEF CommitStatus, FleetAfter
    <3>. QED BY <2>0, <3>2, <3>3 DEF FleetWith
  <2>3. CASE CommitReceive(r) \/ CommitPod(r)
    <3>1. req[r].order = o /\ req[r].op \in {"receive", "pod"}
      BY <2>0, <2>3 DEF CommitReceive, CommitPod, TypeOK
    <3>2. truck'[o] = req[r].truck /\ fleet' = FleetWith(req[r].truck, "AVAILABLE")
      BY <2>0, <2>3, <3>1 DEF CommitReceive, CommitPod, KnowsTruck
    <3>. QED BY <2>0, <3>2 DEF FleetWith
  <2>4. CASE CommitGoods(r)
    BY <2>4 DEF CommitGoods
  <2>5. ASSUME NEW p \in Orders, CommitCreate(r, p)
        PROVE  FALSE
    BY <2>0, <2>5 DEF CommitCreate, TypeOK
  <2>. QED BY <2>1, <2>2, <2>3, <2>4, <2>5, QuietOrCommit DEF CommitOf
<1>2. Init => TruckInv
  BY InitSerial DEF Init, TruckInv, KnowsTruck, Idle
<1>. QED BY <1>1, <1>2, StepTrucks, PTL DEF SerialSpec, DeliveredFreesVehicle

(***************************************************************************)
(* One request at a time: nothing a handler read changes before it writes. *)
(***************************************************************************)
OneRequest == \A r, s \in Requests : r = s

(* The goods request q is going to write are not CANCELLED.                *)
Spares(q) ==
  /\ q.op = "create" => \A g \in q.drafts : goods[g] # "CANCELLED"
  /\ q.op = "status" => \A g \in q.touched : goods[g] # "CANCELLED"
  /\ q.op = "receive" => \A g \in Items(q.order) : goods[g] # "CANCELLED"
  /\ q.op = "goods" => goods[q.item] # "CANCELLED"

SparesInv == ReservationInv /\ \A r \in Requests : Spares(req[r])

LEMMA BeginSpares ==
  ASSUME TypeOK, NEW r \in Requests, Begin(r)
  PROVE  Spares(req'[r])
<1>1. CASE BeginCreate(r)
  <2>1. req'[r] = [op |-> "counted"]
    BY <1>1, Moves DEF BeginCreate
  <2>. QED BY <2>1 DEF Spares
<1>2. CASE BeginStatus(r)
  <2>1. PICK o \in Created, to \in OrderTargets,
             v \in Vehicles \cup {None}, d \in Drivers \cup {None} :
           Advance(r, NewStatus(o, to, v, d))
    BY <1>2 DEF BeginStatus
  <2>2. NewStatus(o, to, v, d).op = "status" /\ NewStatus(o, to, v, d).touched = {}
    BY DEF NewStatus
  <2>. QED BY <2>1, <2>2, Moves DEF Spares
<1>3. CASE BeginReceive(r)
  <2>1. PICK o \in Created :
          /\ \A g \in Items(o) : goods[g] # "CANCELLED"
          /\ Advance(r, [op |-> "receive", order |-> o, truck |-> truck[o]])
    BY <1>3 DEF BeginReceive
  <2>2. req'[r] = [op |-> "receive", order |-> o, truck |-> truck[o]]
    BY <2>1, Moves
  <2>. QED BY <2>1, <2>2 DEF Spares
<1>4. CASE BeginPod(r)
  <2>1. PICK o \in Created :
          Advance(r, [op |-> "pod", order |-> o, truck |-> truck[o]])
    BY <1>4 DEF BeginPod
  <2>2. req'[r] = [op |-> "pod", order |-> o, truck |-> truck[o]]
    BY <2>1, Moves
  <2>. QED BY <2>2 DEF Spares
<1>5. CASE BeginAssign(r)
  <2>1. PICK v \in Vehicles : Advance(r, [op |-> "assign", truck |-> v])
    BY <1>5 DEF BeginAssign
  <2>2. req'[r] = [op |-> "assign", truck |-> v]
    BY <2>1, Moves
  <2>. QED BY <2>2 DEF Spares
<1>6. CASE BeginGoods(r)
  <2>1. PICK g \in Goods, to \in GoodsTargets :
          /\ to \in AllowedGoodsTransitions(goods[g])
          /\ Advance(r, [op |-> "goods", stage |-> "read", item |-> g,
                         to |-> to, confirms |-> {}])
    BY <1>6 DEF BeginGoods
  <2>2. req'[r] = [op |-> "goods", stage |-> "read", item |-> g, to |-> to,
                   confirms |-> {}]
    BY <2>1, Moves
  <2>3. goods[g] # "CANCELLED"
    BY <2>1 DEF AllowedGoodsTransitions
  <2>. QED BY <2>2, <2>3 DEF Spares
<1>. QED BY <1>1, <1>2, <1>3, <1>4, <1>5, <1>6 DEF Begin

LEMMA LockItemKeeps ==
  ASSUME TypeOK, NEW r \in Requests, LockItem(r)
  PROVE  req'[r].item = req[r].item
<1> DEFINE p == req[r]
           C == IF p.to = "STORED" THEN CompletedBy(p.item) ELSE {}
<1>1. Advance(r, [p EXCEPT !.stage = "locked", !.confirms = C]) /\ p \in GoodsState
  BY RequestByOp DEF LockItem, TypeOK
<1> HIDE DEF C
<1>2. req'[r] = [p EXCEPT !.stage = "locked", !.confirms = C]
  BY <1>1, Moves
<1>. QED BY <1>1, <1>2 DEF GoodsState

LEMMA LockOrderSpares ==
  ASSUME TypeOK, NEW r \in Requests, LockOrder(r)
  PROVE  /\ req'[r].op = "status"
         /\ \A g \in req'[r].touched : goods[g] # "CANCELLED"
<1> DEFINE p == req[r]
           T == IF kind[p.order] = "PICKUP"
                  THEN {g \in Items(p.order) : goods[g] \in SyncFrom(p.to)}
                  ELSE {}
<1>1. \A g \in T : goods[g] # "CANCELLED"
  BY DEF SyncFrom
<1>2. Advance(r, [p EXCEPT !.stage = "locked", !.touched = T])
  BY DEF LockOrder
<1> HIDE DEF T
<1>3. req'[r] = [p EXCEPT !.stage = "locked", !.touched = T]
  BY <1>2, Moves
<1>4. p \in StatusState
  BY RequestByOp DEF LockOrder, TypeOK
<1>5. req'[r].op = "status" /\ req'[r].touched = T
  BY <1>3, <1>4 DEF StatusState
<1>. QED BY <1>1, <1>5

(* A new order drafts DRAFT goods only; other handlers name those they     *)
(* named before, or those LockOrder reads.                                 *)
LEMMA OwnSpares ==
  ASSUME TypeOK, NEW r \in Requests, StepOf(r), Spares(req[r])
  PROVE  Spares(req'[r])
<1>1. CASE Finish(r)
  BY <1>1, FinishOne DEF Spares, Idle
<1>2. CASE Begin(r)
  BY <1>2, BeginSpares
<1>3. CASE ReadGoods(r)
  <2>1. PICK k \in Kinds, want \in [Goods -> Counts \cup {0}],
             v \in Vehicles \cup {None}, d \in Drivers \cup {None} :
           Advance(r, NewCreate(k, want, v, d))
    BY <1>3 DEF ReadGoods
  <2>2. /\ NewCreate(k, want, v, d).op = "create"
        /\ \A g \in NewCreate(k, want, v, d).drafts : goods[g] = "DRAFT"
    BY DEF NewCreate
  <2>. QED BY <2>1, <2>2, Moves DEF Spares
<1>4. CASE GoesOn(req[r], req'[r], r)
  <2>1. CASE LockOrder(r)
    BY <2>1, LockOrderSpares DEF Spares
  <2>2. CASE LockItem(r)
    <3>1. req[r].op = "goods" /\ req'[r].op = "goods"
      BY <1>4, <2>2 DEF GoesOn, LockItem
    <3>2. req'[r].item = req[r].item
      BY <2>2, LockItemKeeps
    <3>. QED BY <1>4, <3>1, <3>2 DEF Spares
  <2>. QED BY <1>4, <2>1, <2>2 DEF GoesOn, Spares
<1>. QED BY <1>1, <1>2, <1>3, <1>4, ContinueGoesOn
         DEF StepOf, Abort, EndDeadlock

LEMMA StepSpares ==
  ASSUME OneRequest, SparesInv, [Next]_vars
  PROVE  SparesInv'
<1>0. ReservationInv' /\ TypeOK
  BY StepReserves DEF SparesInv, ReservationInv
<1>1. ASSUME NEW r \in Requests, StepOf(r) PROVE Spares(req[r])'
  <2>1. CASE UNCHANGED <<orderVars, goods>>
    BY <1>0, <1>1, <2>1, OwnSpares DEF SparesInv, Spares, orderVars, Items, Named
  <2>2. CASE CommitOf(r) \/ \E o \in Orders : CommitCreate(r, o)
    <3>1. Finish(r)
      BY <2>2 DEF CommitOf, CommitStatus, CommitReceive, CommitPod, CommitGoods,
                  CommitCreate
    <3>. QED BY <1>0, <3>1, FinishOne DEF Spares, Idle
  <2>. QED BY <1>1, <2>1, <2>2, QuietOrCommit
<1>2. CASE UNCHANGED vars
  BY <1>0, <1>2 DEF vars, SparesInv, Spares, Items, Named
<1>. QED BY <1>0, <1>1, <1>2, NextIsStepOf DEF SparesInv, OneRequest

(* Request after request, no handler gives cancelled goods another status. *)
THEOREM CancelledGoodsEnd ==
  ASSUME \A r, s \in Requests : r = s
  PROVE  Spec => CancelledGoodsStay
<1> DEFINE Stay == \A g \in Goods : goods[g] = "CANCELLED" => goods'[g] = "CANCELLED"
<1>0. OneRequest
  BY DEF OneRequest
<1>1. SparesInv /\ [Next]_vars => [Stay]_vars
  <2> SUFFICES ASSUME SparesInv, NEW r \in Requests, StepOf(r),
                      NEW g \in Goods, goods[g] = "CANCELLED"
               PROVE  goods'[g] = "CANCELLED"
    BY NextIsStepOf
  <2>0. Spares(req[r])
    BY DEF SparesInv
  <2>1. CASE UNCHANGED <<orderVars, goods>>
    BY <2>1
  <2>2. CASE CommitOf(r) \/ \E o \in Orders : CommitCreate(r, o)
    BY <2>0, <2>2 DEF Spares, CommitOf, CommitStatus, CommitReceive, CommitPod,
                      CommitGoods, CommitCreate, GoodsWith
  <2>. QED BY <2>1, <2>2, QuietOrCommit
<1>2. Init => SparesInv
  BY InitReserves DEF Init, SparesInv, Spares, Idle
<1>3. SparesInv /\ [Next]_vars => SparesInv'
  BY <1>0, StepSpares
<1>. QED BY <1>1, <1>2, <1>3, PTL DEF Spec, CancelledGoodsStay

(***************************************************************************)
(* A handler looks at every other busy order before it gives an order a    *)
(* vehicle or a driver.                                                    *)
(***************************************************************************)
Own(q) == IF q.op = "status" THEN q.order ELSE None

(* Request q puts its order on x, which the order need not have had.       *)
Picks(q, x) ==
  x # None /\ (q.op = "create" \/ q.to = "DRIVER_ASSIGNED" \/ x \in q.given)

Vetted(q) ==
  /\ q.op \in {"create", "status"} =>
       /\ Picks(q, q.truck) /\ q.truck \notin q.todo => ~VehicleBusy(q.truck, Own(q))
       /\ Picks(q, q.courier) /\ q.courier \notin q.todo
            => ~DriverBusy(q.courier, Own(q))
  /\ q.op = "status" =>
       /\ q.to \in AllowedOrderTransitions(status[q.order])
       /\ q.truck = truck[q.order] \/ q.truck \in q.given
       /\ q.courier = courier[q.order] \/ q.courier \in q.given
       /\ q.stage = "locked" => q.todo = {}

VettedInv == ReservationInv /\ \A r \in Requests : Vetted(req[r])

LEMMA NewVetted ==
  ASSUME TypeOK, NEW r \in Requests, BeginStatus(r) \/ ReadGoods(r)
  PROVE  Vetted(req'[r])
<1>1. CASE BeginStatus(r)
  <2>1. PICK o \in Created, to \in OrderTargets,
             v \in Vehicles \cup {None}, d \in Drivers \cup {None} :
           /\ to \in AllowedOrderTransitions(status[o])
           /\ Advance(r, NewStatus(o, to, v, d))
    BY <1>1 DEF BeginStatus
  <2> DEFINE n == NewStatus(o, to, v, d)
  <2>2. /\ n.op = "status" /\ n.order = o /\ n.to = to
        /\ n.truck = Target(v, truck[o]) /\ n.courier = Target(d, courier[o])
        /\ n.given = {v, d} \ {None}
        /\ n.todo = IF to = "DRIVER_ASSIGNED"
                      THEN {Target(v, truck[o]), Target(d, courier[o])}
                      ELSE {v, d} \ {None}
        /\ n.stage # "locked"
    BY DEF NewStatus
  <2> HIDE DEF n
  <2>3. /\ n.truck = truck[o] \/ n.truck \in n.given
        /\ n.courier = courier[o] \/ n.courier \in n.given
    BY <2>2 DEF Target
  <2>4. /\ Picks(n, n.truck) => n.truck \in n.todo
        /\ Picks(n, n.courier) => n.courier \in n.todo
    BY <2>2 DEF Picks
  <2>5. req'[r] = n
    BY <2>1, Moves DEF n
  <2>. QED BY <2>1, <2>2, <2>3, <2>4, <2>5 DEF Vetted
<1>2. CASE ReadGoods(r)
  <2>1. PICK k \in Kinds, want \in [Goods -> Counts \cup {0}],
             v \in Vehicles \cup {None}, d \in Drivers \cup {None} :
           Advance(r, NewCreate(k, want, v, d))
    BY <1>2 DEF ReadGoods
  <2> DEFINE n == NewCreate(k, want, v, d)
  <2>2. /\ n.op = "create" /\ n.truck = v /\ n.courier = d
        /\ {v, d} \ {None} \subseteq n.todo
    BY DEF NewCreate
  <2> HIDE DEF n
  <2>3. req'[r] = n
    BY <2>1, Moves DEF n
  <2>. QED BY <2>2, <2>3 DEF Vetted, Picks
<1>. QED BY <1>1, <1>2

(* What is taken off the list has been looked up.                          *)
LEMMA LooksUp ==
  ASSUME TypeOK, NEW r \in Requests, Continue(r), ~ReadGoods(r),
         req'[r].op \in {"create", "status"}
  PROVE  /\ req[r].truck # None /\ req[r].truck \in req[r].todo \ req'[r].todo
              => ~VehicleBusy(req[r].truck, Own(req[r]))
         /\ req[r].courier # None /\ req[r].courier \in req[r].todo \ req'[r].todo
              => ~DriverBusy(req[r].courier, Own(req[r]))
         /\ req'[r].op = "status" /\ req'[r].stage = "locked" => req'[r].todo = {}
<1> DEFINE p == req[r]
           q == req'[r]
<1>p. p \in RequestState
  BY DEF TypeOK
<1>f. ~Finish(r)
  BY FinishOne DEF Idle
<1>1. CASE ValidateFleet(r)
  <2>1. q = [p EXCEPT !.stage = "tx"] /\ p \in CreateState \cup StatusState
    BY <1>1, <1>f, <1>p, Moves, RequestByOp DEF ValidateFleet
  <2>2. q.todo = p.todo /\ q.stage = "tx"
    BY <2>1 DEF CreateState, StatusState
  <2>. QED BY <2>2
<1>2. CASE CheckVehicle(r)
  <2>1. /\ q = [p EXCEPT !.todo = @ \ {p.truck}] /\ ~VehicleBusy(p.truck, Own(p))
        /\ p \in CreateState \cup StatusState /\ p.stage = "tx"
    BY <1>2, <1>f, <1>p, Moves, RequestByOp DEF CheckVehicle, Own
  <2>2. q.todo = p.todo \ {p.truck} /\ q.stage = "tx"
    BY <2>1 DEF CreateState, StatusState
  <2>3. p.courier # None => p.courier # p.truck
    BY <2>1, NoneAssumption DEF CreateState, StatusState
  <2>. QED BY <2>1, <2>2, <2>3
<1>3. CASE CheckDriver(r)
  <2>1. /\ q = [p EXCEPT !.todo = {}] /\ ~DriverBusy(p.courier, Own(p))
        /\ p.todo = {p.courier} /\ p \in CreateState \cup StatusState
    BY <1>3, <1>f, <1>p, Moves, RequestByOp DEF CheckDriver, Own
  <2>2. q.todo = {}
    BY <2>1 DEF CreateState, StatusState
  <2>3. p.truck # None => p.courier # p.truck
    BY <2>1, NoneAssumption DEF CreateState, StatusState
  <2>. QED BY <2>1, <2>2, <2>3
<1>4. ASSUME NEW g \in Goods, LockGoods(r, g) \/ CheckGoods(r, g)
      PROVE  q.op = "create" /\ q.todo \in {p.todo, p.todo \ {g}}
             /\ p.truck # g /\ p.courier # g
  <2>1. \/ q = [p EXCEPT !.held = @ \cup {g}]
        \/ q = [p EXCEPT !.todo = @ \ {g}]
    BY <1>4, <1>f, Moves DEF LockGoods, CheckGoods
  <2>2. p \in CreateState
    BY <1>4, <1>p, RequestByOp DEF LockGoods, CheckGoods
  <2>3. q.op = "create" /\ q.todo \in {p.todo, p.todo \ {g}}
    BY <2>1, <2>2 DEF CreateState
  <2>4. p.truck # g /\ p.courier # g
    BY <2>2, NoneAssumption DEF CreateState
  <2>. QED BY <2>3, <2>4
<1>5. CASE LockOrder(r)
  <2> DEFINE T == IF kind[p.order] = "PICKUP"
                    THEN {g \in Items(p.order) : goods[g] \in SyncFrom(p.to)}
                    ELSE {}
  <2>1. /\ Advance(r, [p EXCEPT !.stage = "locked", !.touched = T])
        /\ p.todo = {} /\ p \in StatusState
    BY <1>5, <1>p, RequestByOp DEF LockOrder
  <2> HIDE DEF T
  <2>2. q = [p EXCEPT !.stage = "locked", !.touched = T]
    BY <2>1, Moves
  <2>3. q.todo = {} /\ p.todo = {}
    BY <2>1, <2>2 DEF StatusState
  <2>. QED BY <2>3
<1>6. ~LockItem(r)
  BY ContinueGoesOn, <1>p, <1>f, RequestByOp DEF LockItem, GoesOn
<1>7. CASE \E g \in Goods : LockGoods(r, g) \/ CheckGoods(r, g)
  BY <1>4, <1>7
<1>. QED
  BY <1>1, <1>2, <1>3, <1>5, <1>6, <1>7, <1>f
  DEF Continue, RefuseCreate, CommitCreate, CommitStatus, CommitReceive,
      CommitPod, CommitAssign, CommitGoods

LEMMA BeginReads ==
  ASSUME TypeOK, NEW r \in Requests, Begin(r), ~BeginStatus(r)
  PROVE  req'[r].op \notin {"create", "status"}
<1>1. CASE BeginReceive(r) \/ BeginPod(r)
  <2>1. PICK o \in Created, op \in {"receive", "pod"} :
          Advance(r, [op |-> op, order |-> o, truck |-> truck[o]])
    BY <1>1 DEF BeginReceive, BeginPod
  <2>2. req'[r] = [op |-> op, order |-> o, truck |-> truck[o]]
    BY <2>1, Moves
  <2>. QED BY <2>2
<1>2. CASE BeginCreate(r)
  <2>1. req'[r] = [op |-> "counted"]
    BY <1>2, Moves DEF BeginCreate
  <2>. QED BY <2>1
<1>3. CASE BeginAssign(r)
  <2>1. PICK v \in Vehicles : Advance(r, [op |-> "assign", truck |-> v])
    BY <1>3 DEF BeginAssign
  <2>2. req'[r] = [op |-> "assign", truck |-> v]
    BY <2>1, Moves
  <2>. QED BY <2>2
<1>4. CASE BeginGoods(r)
  <2>1. PICK g \in Goods, to \in GoodsTargets :
          Advance(r, [op |-> "goods", stage |-> "read", item |-> g,
                      to |-> to, confirms |-> {}])
    BY <1>4 DEF BeginGoods
  <2>2. req'[r] = [op |-> "goods", stage |-> "read", item |-> g, to |-> to,
                   confirms |-> {}]
    BY <2>1, Moves
  <2>. QED BY <2>2
<1>. QED BY <1>1, <1>2, <1>3, <1>4 DEF Begin

LEMMA OwnVetted ==
  ASSUME TypeOK, NEW r \in Requests, StepOf(r), Vetted(req[r])
  PROVE  Vetted(req'[r])
<1> DEFINE p == req[r]
           q == req'[r]
<1>1. CASE q.op \notin {"create", "status"}
  BY <1>1 DEF Vetted
<1>2. CASE q.op \in {"create", "status"}
  <2>1. ~Finish(r)
    BY <1>2, FinishOne DEF Idle
  <2>2. CASE Begin(r)
    <3>1. BeginStatus(r)
      BY <1>2, <2>2, BeginReads
    <3>. QED BY <3>1, NewVetted
  <2>3. CASE ReadGoods(r)
    BY <2>3, NewVetted
  <2>4. CASE Continue(r) /\ ~ReadGoods(r)
    <3>1. GoesOn(p, q, r)
      BY <2>1, <2>4, ContinueGoesOn
    <3>2. /\ q.op = p.op /\ q.truck = p.truck /\ q.courier = p.courier
          /\ q.op = "status" => q.order = p.order /\ q.to = p.to /\ q.given = p.given
      BY <1>2, <3>1 DEF GoesOn
    <3>3. Own(q) = Own(p) /\ \A x : Picks(q, x) <=> Picks(p, x)
      BY <1>2, <3>2 DEF Own, Picks
    <3>4. /\ q.truck # None /\ q.truck \in p.todo \ q.todo => ~VehicleBusy(q.truck, Own(q))
          /\ q.courier # None /\ q.courier \in p.todo \ q.todo
               => ~DriverBusy(q.courier, Own(q))
          /\ q.op = "status" /\ q.stage = "locked" => q.todo = {}
      BY <1>2, <2>4, <3>2, <3>3, LooksUp
    <3>. QED BY <1>2, <3>2, <3>3, <3>4 DEF Vetted, Picks
  <2>. QED BY <2>1, <2>2, <2>3, <2>4 DEF StepOf, Abort, EndDeadlock
<1>. QED BY <1>1, <1>2

LEMMA StepVetted ==
  ASSUME OneRequest, VettedInv, [Next]_vars
  PROVE  VettedInv'
<1>0. ReservationInv' /\ TypeOK
  BY StepReserves DEF VettedInv, ReservationInv
<1>1. ASSUME NEW r \in Requests, StepOf(r) PROVE Vetted(req[r])'
  <2>1. CASE UNCHANGED <<orderVars, goods>>
    <3>1. Vetted(req'[r])
      BY <1>0, <1>1, OwnVetted DEF VettedInv
    <3>. QED BY <2>1, <3>1 DEF Vetted, VehicleBusy, DriverBusy, Own, Picks, orderVars
  <2>2. CASE CommitOf(r) \/ \E o \in Orders : CommitCreate(r, o)
    <3>1. Finish(r)
      BY <2>2 DEF CommitOf, CommitStatus, CommitReceive, CommitPod, CommitGoods,
                  CommitCreate
    <3>. QED BY <1>0, <3>1, FinishOne DEF Vetted, Idle
  <2>. QED BY <1>1, <2>1, <2>2, QuietOrCommit
<1>2. CASE UNCHANGED vars
  <2>1. \A r \in Requests : Vetted(req[r])
    BY DEF VettedInv
  <2>. QED BY <1>0, <1>2, <2>1
           DEF vars, VettedInv, Vetted, VehicleBusy, DriverBusy, Own, Picks
<1>. QED BY <1>0, <1>1, <1>2, NextIsStepOf DEF VettedInv, OneRequest

(* An order becomes busy by an assignment, which its vehicle and driver    *)
(* are looked up for, by a resumption, or was busy before.                 *)
LEMMA BusyBefore ==
  ASSUME NEW s, NEW to \in AllowedOrderTransitions(s), to \in BusyStatus,
         s \in OrderStatus \cup {NotCreated}
  PROVE  to = "DRIVER_ASSIGNED" \/ s = "DELAYED" \/ s \in BusyStatus
BY DEF AllowedOrderTransitions, BusyStatus, OrderStatus, NotCreated

(* A status change makes its order clash with none it did not clash with   *)
(* before, unless the order was DELAYED.                                   *)
LEMMA StatusVetted ==
  ASSUME TypeOK, OrdersExist, NEW r \in Requests, CommitStatus(r), Vetted(req[r]),
         NEW o \in Orders, o = req[r].order, NEW p \in Orders, Clash(o, p)'
  PROVE  Clash(o, p) \/ status[o] = "DELAYED"
<1> DEFINE q == req[r]
<1>0. /\ q.op = "status" /\ q.todo = {}
      /\ q.to \in AllowedOrderTransitions(status[o])
      /\ Picks(q, q.truck) => ~VehicleBusy(q.truck, o)
      /\ Picks(q, q.courier) => ~DriverBusy(q.courier, o)
      /\ q.truck = truck[o] \/ q.truck \in q.given
      /\ q.courier = courier[o] \/ q.courier \in q.given
  BY DEF CommitStatus, Vetted, Own
<1>1. /\ status'[o] = q.to /\ status'[p] = status[p] /\ p # o
      /\ truck'[o] = q.truck /\ truck'[p] = truck[p]
      /\ courier'[o] = q.courier /\ courier'[p] = courier[p]
  BY <1>0 DEF CommitStatus, Clash, TypeOK
<1>2. /\ q.to \in BusyStatus /\ status[p] \in BusyStatus
      /\ \/ q.truck = truck[p] /\ q.truck # None
         \/ q.courier = courier[p] /\ q.courier # None
  BY <1>1 DEF Clash
<1>3. CASE q.truck = truck[p] /\ q.truck # None
  <2>1. VehicleBusy(q.truck, o)
    BY <1>1, <1>2, <1>3 DEF VehicleBusy
  <2>2. ~(q.to = "DRIVER_ASSIGNED" \/ q.truck \in q.given)
    BY <1>0, <1>3, <2>1 DEF Picks
  <2>3. status[o] = "DELAYED" \/ status[o] \in BusyStatus
    BY <1>0, <1>2, <2>2, BusyBefore DEF TypeOK
  <2>. QED BY <1>0, <1>1, <1>2, <1>3, <2>2, <2>3 DEF Clash
<1>4. CASE q.courier = courier[p] /\ q.courier # None
  <2>1. DriverBusy(q.courier, o)
    BY <1>1, <1>2, <1>4 DEF DriverBusy
  <2>2. ~(q.to = "DRIVER_ASSIGNED" \/ q.courier \in q.given)
    BY <1>0, <1>4, <2>1 DEF Picks
  <2>3. status[o] = "DELAYED" \/ status[o] \in BusyStatus
    BY <1>0, <1>2, <2>2, BusyBefore DEF TypeOK
  <2>. QED BY <1>0, <1>1, <1>2, <1>4, <2>2, <2>3 DEF Clash
<1>. QED BY <1>2, <1>3, <1>4

(* A new order clashes with none.                                          *)
LEMMA CreateVetted ==
  ASSUME TypeOK, NEW r \in Requests, NEW o \in Orders, CommitCreate(r, o),
         Vetted(req[r]), NEW p \in Orders
  PROVE  ~Clash(o, p)'
<1> DEFINE q == req[r]
<1>1. /\ q.op = "create" /\ q.todo = {}
      /\ q.truck # None => ~VehicleBusy(q.truck, None)
      /\ q.courier # None => ~DriverBusy(q.courier, None)
  BY DEF CommitCreate, Vetted, Picks, Own
<1>2. /\ truck'[o] = q.truck /\ courier'[o] = q.courier
      /\ p # o => /\ status'[p] = status[p] /\ truck'[p] = truck[p]
                  /\ courier'[p] = courier[p]
  BY DEF CommitCreate, TypeOK
<1>3. p \in Orders \ {None}
  BY NoneAssumption
<1>. QED BY <1>1, <1>2, <1>3 DEF Clash, VehicleBusy, DriverBusy

(* Request after request, two busy orders come to share a vehicle or a     *)
(* driver only by the resumption of a DELAYED one.                         *)
THEOREM OnlyResumingClashes ==
  ASSUME \A r, s \in Requests : r = s
  PROVE  Spec => ClashOnlyByResuming
<1> DEFINE Only == \A o, p \in Orders :
       ~Clash(o, p) /\ Clash(o, p)' => "DELAYED" \in {status[o], status[p]}
<1>0. OneRequest
  BY DEF OneRequest
<1>1. VettedInv /\ [Next]_vars => [Only]_vars
  <2> SUFFICES ASSUME VettedInv, NEW r \in Requests, StepOf(r),
                      NEW o \in Orders, NEW p \in Orders,
                      ~Clash(o, p), Clash(o, p)'
               PROVE  "DELAYED" \in {status[o], status[p]}
    BY NextIsStepOf
  <2>0. TypeOK /\ OrdersExist /\ Vetted(req[r]) /\ ~Clash(p, o) /\ Clash(p, o)'
    BY DEF VettedInv, ReservationInv, Clash
  <2>1. CASE UNCHANGED <<orderVars, goods>>
    BY <2>1 DEF orderVars, Clash
  <2>2. CASE CommitStatus(r)
    <3>1. o = req[r].order \/ p = req[r].order
      BY <2>0, <2>2 DEF CommitStatus, Clash, TypeOK
    <3>. QED BY <2>0, <2>2, <3>1, StatusVetted
  <2>3. CASE CommitReceive(r) \/ CommitPod(r) \/ CommitGoods(r)
    <3>1. /\ UNCHANGED <<truck, courier>>
          /\ \A x \in Orders : status'[x] \in {status[x], "DELIVERED", "CONFIRMED"}
      BY <2>0, <2>3 DEF CommitReceive, CommitPod, CommitGoods, TypeOK
    <3>. QED BY <3>1 DEF Clash, BusyStatus
  <2>4. ASSUME NEW x \in Orders, CommitCreate(r, x) PROVE FALSE
    <3>1. ~(o = x \/ p = x)
      BY <2>0, <2>4, CreateVetted
    <3>2. \A y \in Orders \ {x} : /\ status'[y] = status[y] /\ truck'[y] = truck[y]
                                  /\ courier'[y] = courier[y]
      BY <2>0, <2>4 DEF CommitCreate, TypeOK
    <3>. QED BY <3>1, <3>2 DEF Clash
  <2>. QED BY <2>1, <2>2, <2>3, <2>4, QuietOrCommit DEF CommitOf
<1>2. Init => VettedInv
  BY InitReserves DEF Init, VettedInv, Vetted, Idle
<1>3. VettedInv /\ [Next]_vars => VettedInv'
  BY <1>0, StepVetted
<1>. QED BY <1>1, <1>2, <1>3, PTL DEF Spec, ClashOnlyByResuming

(***************************************************************************)
(* Any interleaving: how many busy orders share a driver or vehicle x.     *)
(*                                                                         *)
(* Requests that found x free and have not committed may each put one      *)
(* order on it.  So those are counted with the orders: a creation that has *)
(* found x free (Creating), and an order that is on x or that a status     *)
(* change would leave on x (May).  A check that finds x free leaves only   *)
(* the orders of requests in flight to count; every other step adds none.  *)
(***************************************************************************)
(* Request q is to put its order on x, and x must be free for it.          *)
Takes(q, x) ==
  x \in {q.truck, q.courier} /\ (q.to = "DRIVER_ASSIGNED" \/ x \in q.given)

(* Order o has x, and request q leaves it with x.                          *)
Kept(q, o, x) ==
  \/ truck[o] = x /\ q.truck \notin q.given
  \/ courier[o] = x /\ q.courier \notin q.given

WillCarry(q, o, x) ==
  /\ q.op = "status" /\ q.order = o
  /\ x \in q.given \/ (q.to \in BusyStatus /\ Kept(q, o, x))
  /\ Takes(q, x) => x \notin q.todo

FoundFree(q, x) ==
  q.op = "create" /\ x \in {q.truck, q.courier} /\ x \notin q.todo

May(x) ==
  Sharers(x) \cup {o \in Orders : \E r \in Requests : WillCarry(req[r], o, x)}
Creating(x) == {r \in Requests : FoundFree(req[r], x)}

(* What a status change gives its order is what it checks, and clients     *)
(* never ask for DELAYED.                                                  *)
Plain(q) ==
  q.op = "status" =>
    /\ q.given \subseteq {q.truck, q.courier} /\ q.to # "DELAYED"
    /\ q.stage = "locked" => q.todo = {}

Counted(x) == Cardinality(May(x)) + Cardinality(Creating(x)) <= Cardinality(Requests)

FleetItems == Vehicles \cup Drivers

PlainInv ==
  /\ ReservationInv
  /\ \A o \in Orders : status[o] # "DELAYED"
  /\ \A r \in Requests : Plain(req[r])

SharingInv == PlainInv /\ \A x \in FleetItems : Counted(x)

(* What BeginStatus reads: nothing is looked up yet, and a busy order that *)
(* is to stay busy counts already.                                         *)
LEMMA NewCarries ==
  ASSUME PlainInv, "DELAYED" \notin OrderTargets,
         NEW r \in Requests, BeginStatus(r)
  PROVE  /\ Plain(req'[r])
         /\ \A x \in FleetItems, o \in Orders :
              WillCarry(req'[r], o, x) => o \in Sharers(x)
<1>0. TypeOK
  BY DEF PlainInv, ReservationInv
<1>1. PICK o \in Created, to \in OrderTargets,
           v \in Vehicles \cup {None}, d \in Drivers \cup {None} :
         /\ to \in AllowedOrderTransitions(status[o])
         /\ Advance(r, NewStatus(o, to, v, d))
  BY DEF BeginStatus
<1> DEFINE n == NewStatus(o, to, v, d)
<1>2. /\ n.op = "status" /\ n.order = o /\ n.to = to
      /\ n.truck = Target(v, truck[o]) /\ n.courier = Target(d, courier[o])
      /\ n.given = {v, d} \ {None}
      /\ n.todo = IF to = "DRIVER_ASSIGNED"
                    THEN {Target(v, truck[o]), Target(d, courier[o])}
                    ELSE {v, d} \ {None}
      /\ n.stage # "locked"
  BY DEF NewStatus
<1> HIDE DEF n
<1>3. req'[r] = n
  BY <1>0, <1>1, Moves DEF n
<1>4. Plain(n)
  BY <1>2 DEF Plain, Target
<1>5. ASSUME NEW x \in FleetItems, NEW p \in Orders, WillCarry(n, p, x)
      PROVE  p \in Sharers(x)
  <2>1. p = o /\ o \in Orders
    BY <1>2, <1>5 DEF WillCarry
  <2>2. ~Takes(n, x)
    BY <1>2, <1>5 DEF WillCarry, Takes
  <2>3. x \notin n.given
    BY <1>2, <1>4, <2>2 DEF Takes, Plain
  <2>4. to \in BusyStatus /\ Kept(n, o, x)
    BY <1>2, <1>5, <2>1, <2>3 DEF WillCarry
  <2>5. x \in {truck[o], courier[o]} /\ to # "DRIVER_ASSIGNED"
    <3>1. x \in {truck[o], courier[o]}
      BY <2>4 DEF Kept
    <3>2. x \in {n.truck, n.courier}
      BY <1>2, <2>3, <2>4 DEF Kept, Target
    <3>. QED BY <1>2, <2>2, <3>1, <3>2 DEF Takes
  <2>6. status[o] \in OrderStatus \cup {NotCreated} /\ status[o] # "DELAYED"
    BY <1>0, <2>1 DEF TypeOK, PlainInv
  <2>7. status[o] \in BusyStatus
    BY <1>1, <2>4, <2>5, <2>6, BusyBefore
  <2>. QED BY <2>1, <2>5, <2>7 DEF Sharers
<1>. QED BY <1>3, <1>4, <1>5

(* A list gets shorter only by what is looked up.                          *)
LEMMA LooksUpFleet ==
  ASSUME TypeOK, NEW r \in Requests, Continue(r), ~ReadGoods(r),
         req'[r].op \in {"create", "status"}, NEW x \in FleetItems,
         x \in {req[r].truck, req[r].courier}, x \in req[r].todo \ req'[r].todo
  PROVE  Sharers(x) \subseteq {Own(req[r])}
<1> DEFINE q == req[r]
<1>1. GoesOn(q, req'[r], r)
  BY ContinueGoesOn, FinishOne DEF Idle
<1>2. q.truck \in Vehicles \cup {None} /\ q.courier \in Drivers \cup {None}
  BY <1>1, RequestByOp DEF GoesOn, TypeOK, CreateState, StatusState
<1>3. x # None
  BY NoneAssumption DEF FleetItems
<1>4. \A o \in Orders :
         truck[o] \in Vehicles \cup {None} /\ courier[o] \in Drivers \cup {None}
  BY DEF TypeOK
<1>5. CASE x = q.truck
  <2>1. ~VehicleBusy(x, Own(q))
    BY <1>3, <1>5, LooksUp
  <2>2. \A o \in Orders : courier[o] # x
    BY <1>2, <1>3, <1>4, <1>5, NoneAssumption
  <2>. QED BY <2>1, <2>2 DEF VehicleBusy, Sharers
<1>6. CASE x = q.courier
  <2>1. ~DriverBusy(x, Own(q))
    BY <1>3, <1>6, LooksUp
  <2>2. \A o \in Orders : truck[o] # x
    BY <1>2, <1>3, <1>4, <1>6, NoneAssumption
  <2>. QED BY <2>1, <2>2 DEF DriverBusy, Sharers
<1>. QED BY <1>5, <1>6

(* A request's own step, as seen by the orders before it.                  *)
LEMMA OwnCarries ==
  ASSUME PlainInv, "DELAYED" \notin OrderTargets, NEW r \in Requests, StepOf(r)
  PROVE  /\ Plain(req'[r])
         /\ \A x \in FleetItems, o \in Orders :
              WillCarry(req'[r], o, x) =>
                o \in May(x) \/ Sharers(x) \subseteq {o}
         /\ \A x \in FleetItems :
              FoundFree(req'[r], x) => FoundFree(req[r], x) \/ Sharers(x) = {}
<1> DEFINE p == req[r]
           q == req'[r]
<1>0. TypeOK /\ Plain(p)
  BY DEF PlainInv, ReservationInv
<1>1. CASE q.op \notin {"create", "status"}
  BY <1>1 DEF Plain, WillCarry, FoundFree
<1>2. CASE q.op \in {"create", "status"}
  <2>1. ~Finish(r)
    BY <1>0, <1>2, FinishOne DEF Idle
  <2>2. CASE Begin(r)
    <3>1. BeginStatus(r)
      BY <1>0, <1>2, <2>2, BeginReads
    <3>2. q.op = "status"
      <4>1. PICK o, to, v, d : Advance(r, NewStatus(o, to, v, d))
        BY <3>1 DEF BeginStatus
      <4>. QED BY <1>0, <4>1, Moves DEF NewStatus
    <3>. QED BY <3>1, <3>2, NewCarries DEF FoundFree, May
  <2>3. CASE ReadGoods(r)
    <3>1. PICK k \in Kinds, want \in [Goods -> Counts \cup {0}],
               v \in Vehicles \cup {None}, d \in Drivers \cup {None} :
             Advance(r, NewCreate(k, want, v, d))
      BY <2>3 DEF ReadGoods
    <3> DEFINE n == NewCreate(k, want, v, d)
    <3>2. /\ n.op = "create" /\ n.truck = v /\ n.courier = d
          /\ {v, d} \ {None} \subseteq n.todo
      BY DEF NewCreate
    <3> HIDE DEF n
    <3>3. q = n
      BY <1>0, <3>1, Moves DEF n
    <3>. QED BY <3>2, <3>3, NoneAssumption
             DEF Plain, WillCarry, FoundFree, FleetItems
  <2>4. CASE Continue(r) /\ ~ReadGoods(r)
    <3>1. GoesOn(p, q, r)
      BY <1>0, <2>1, <2>4, ContinueGoesOn
    <3>2. /\ q.op = p.op /\ q.truck = p.truck /\ q.courier = p.courier
          /\ q.op = "status" => q.order = p.order /\ q.to = p.to /\ q.given = p.given
      BY <1>2, <3>1 DEF GoesOn
    <3>3. \A x \in FleetItems :
             x \in {p.truck, p.courier} /\ x \in p.todo \ q.todo
               => Sharers(x) \subseteq {Own(p)}
      BY <1>0, <1>2, <2>4, LooksUpFleet
    <3>4. Plain(q)
      BY <1>0, <1>2, <2>4, <3>2, LooksUp DEF Plain
    <3>5. ASSUME NEW x \in FleetItems, NEW o \in Orders, WillCarry(q, o, x)
          PROVE  o \in May(x) \/ Sharers(x) \subseteq {o}
      <4>1. p.op = "status" /\ p.order = o /\ Own(p) = o
        BY <3>2, <3>5 DEF WillCarry, Own
      <4>2. CASE WillCarry(p, o, x)
        BY <4>2 DEF May
      <4>3. CASE ~WillCarry(p, o, x)
        BY <3>2, <3>3, <3>5, <4>1, <4>3 DEF WillCarry, Kept, Takes
      <4>. QED BY <4>2, <4>3
    <3>6. ASSUME NEW x \in FleetItems, FoundFree(q, x)
          PROVE  FoundFree(p, x) \/ Sharers(x) = {}
      <4>1. p.op = "create" /\ Own(p) = None /\ x \in {p.truck, p.courier}
        BY <3>2, <3>6 DEF FoundFree, Own
      <4>2. None \notin Sharers(x)
        BY NoneAssumption DEF Sharers
      <4>. QED BY <3>3, <3>6, <4>1, <4>2 DEF FoundFree
    <3>. QED BY <3>4, <3>5, <3>6
  <2>. QED BY <2>1, <2>2, <2>3, <2>4 DEF StepOf, Abort, EndDeadlock
<1>. QED BY <1>1, <1>2

(* Orders and requests are finitely many, and a status change is about one *)
(* order: those it is about are no more than the requests.                 *)
LEMMA OneOrderEach ==
  ASSUME NEW R, NEW M, NEW C \in SUBSET Requests,
         \A o \in M : \E s \in Requests : R[s].op = "status" /\ R[s].order = o,
         \A s \in C : R[s].op = "create"
  PROVE  Cardinality(M) + Cardinality(C) <= Cardinality(Requests)
<1> DEFINE S == {s \in Requests : R[s].op = "status" /\ R[s].order \in M}
           f == [s \in S |-> R[s].order]
<1>1. /\ IsFiniteSet(S) /\ Cardinality(S) \in Nat
      /\ IsFiniteSet(C) /\ Cardinality(C) \in Nat
  BY RequestsAssumption, FS_Subset, FS_CardinalityType
<1>2. f \in Surjection(S, M)
  BY DEF Surjection
<1> HIDE DEF f
<1>3. IsFiniteSet(M) /\ Cardinality(M) <= Cardinality(S) /\ Cardinality(M) \in Nat
  BY <1>1, <1>2, FS_Surjection, FS_CardinalityType
<1>4. S \cap C = {} /\ S \cup C \in SUBSET Requests
  OBVIOUS
<1> HIDE DEF S
<1>5. /\ IsFiniteSet(S \cup C)
      /\ Cardinality(S \cup C) = Cardinality(S) + Cardinality(C) - Cardinality(S \cap C)
  BY <1>1, FS_Union
<1>6. Cardinality(S \cap C) = 0
  BY <1>4, FS_EmptySet
<1>7. /\ Cardinality(S \cup C) <= Cardinality(Requests)
      /\ Cardinality(S \cup C) \in Nat /\ Cardinality(Requests) \in Nat
  BY <1>4, <1>5, RequestsAssumption, FS_Subset, FS_CardinalityType
<1>. QED BY <1>1, <1>3, <1>5, <1>6, <1>7

LEMMA CountsFinite ==
  ASSUME NEW x
  PROVE  /\ IsFiniteSet(May(x)) /\ Cardinality(May(x)) \in Nat
         /\ IsFiniteSet(Creating(x)) /\ Cardinality(Creating(x)) \in Nat
         /\ Cardinality(Requests) \in Nat
<1>1. May(x) \in SUBSET Orders /\ Creating(x) \in SUBSET Requests
  BY DEF May, Sharers, Creating
<1>. QED BY <1>1, QuantityAssumption, RequestsAssumption, FS_Subset,
            FS_CardinalityType

LEMMA StillCounted ==
  ASSUME NEW x, Counted(x), May(x)' \subseteq May(x),
         Creating(x)' \subseteq Creating(x)
  PROVE  Counted(x)'
<1>1. /\ Cardinality(May(x)') <= Cardinality(May(x))
      /\ Cardinality(May(x)') \in Nat
      /\ Cardinality(Creating(x)') <= Cardinality(Creating(x))
      /\ Cardinality(Creating(x)') \in Nat
  BY CountsFinite, FS_Subset, FS_CardinalityType
<1> DEFINE a == Cardinality(May(x)')
           b == Cardinality(Creating(x)')
<1>2. a + b <= Cardinality(Requests)
  <2>1. /\ Cardinality(May(x)) \in Nat /\ Cardinality(Creating(x)) \in Nat
        /\ Cardinality(Requests) \in Nat
        /\ Cardinality(May(x)) + Cardinality(Creating(x)) <= Cardinality(Requests)
    BY CountsFinite DEF Counted
  <2> HIDE DEF a, b
  <2>. QED BY <1>1, <2>1 DEF a, b
<1>. QED BY <1>2 DEF Counted

(* While no order changes, a request that finds x free leaves only orders  *)
(* of status changes in flight on it.                                      *)
LEMMA QuietCounted ==
  ASSUME PlainInv, "DELAYED" \notin OrderTargets, NEW r \in Requests, StepOf(r),
         UNCHANGED orderVars, NEW x \in FleetItems, Counted(x)
  PROVE  Counted(x)'
<1> DEFINE q == req'[r]
<1>0. TypeOK /\ \A s \in Requests \ {r} : req'[s] = req[s]
  BY OthersStay DEF PlainInv, ReservationInv
<1>1. /\ \A o \in Orders :
            WillCarry(q, o, x) => o \in May(x) \/ Sharers(x) \subseteq {o}
      /\ FoundFree(q, x) => FoundFree(req[r], x) \/ Sharers(x) = {}
  BY OwnCarries
<1>2. Sharers(x)' = Sharers(x)
  BY DEF orderVars, Sharers
<1>3. May(x)' = Sharers(x) \cup
                  {o \in Orders : \E s \in Requests : WillCarry(req'[s], o, x)}
  BY <1>2 DEF May, WillCarry, Kept, Takes, orderVars
<1>4. Creating(x)' = {s \in Requests : FoundFree(req'[s], x)}
  BY DEF Creating, FoundFree
<1>5. CASE /\ \A o \in Orders : WillCarry(q, o, x) => o \in May(x)
           /\ FoundFree(q, x) => FoundFree(req[r], x)
  <2>1. May(x)' \subseteq May(x)
    BY <1>0, <1>3, <1>5 DEF May
  <2>2. Creating(x)' \subseteq Creating(x)
    BY <1>0, <1>4, <1>5 DEF Creating
  <2>. QED BY <2>1, <2>2, StillCounted
<1>6. CASE ~(/\ \A o \in Orders : WillCarry(q, o, x) => o \in May(x)
             /\ FoundFree(q, x) => FoundFree(req[r], x))
  <2>1. \/ Sharers(x) = {}
        \/ \E o \in Orders : WillCarry(q, o, x) /\ Sharers(x) \subseteq {o}
    BY <1>1, <1>6
  <2>2. \A o \in May(x)' :
          \E s \in Requests : req'[s].op = "status" /\ req'[s].order = o
    BY <1>3, <2>1 DEF WillCarry
  <2>3. Creating(x)' \in SUBSET Requests
        /\ \A s \in Creating(x)' : req'[s].op = "create"
    BY <1>4 DEF FoundFree
  <2>4. Cardinality(May(x)') + Cardinality(Creating(x)') <= Cardinality(Requests)
    BY <2>2, <2>3, OneOrderEach
  <2>. QED BY <2>4 DEF Counted
<1>. QED BY <1>5, <1>6

(* A commit of an existing order writes what counted already.              *)
LEMMA CommitCounted ==
  ASSUME PlainInv, NEW r \in Requests, CommitOf(r), NEW x \in FleetItems,
         Counted(x)
  PROVE  Counted(x)'
<1> DEFINE q == req[r]
<1>0. /\ TypeOK /\ OrdersExist /\ Plain(q) /\ x # None
      /\ req'[r] = Idle /\ \A s \in Requests \ {r} : req'[s] = req[s]
  BY HoldersShrink, OthersStay, NoneAssumption
  DEF PlainInv, ReservationInv, StepOf, Continue, CommitOf, FleetItems
<1>1. Creating(x)' \subseteq Creating(x)
  BY <1>0 DEF Creating, FoundFree, Idle
<1>2. ASSUME NEW s \in Requests, NEW o, WillCarry(req[s], o, x)'
      PROVE  s # r /\ req'[s] = req[s]
  BY <1>0, <1>2 DEF WillCarry, Idle
<1>3. CASE CommitStatus(r)
  <2>1. /\ q.op = "status" /\ q.todo = {} /\ q.given \subseteq {q.truck, q.courier}
        /\ q \in StatusState /\ q.order \in Orders
    BY <1>0, <1>3, RequestByOp DEF CommitStatus, Plain, TypeOK, StatusState
  <2>2. /\ status' = [status EXCEPT ![q.order] = q.to]
        /\ \A o \in Orders \ {q.order} : truck'[o] = truck[o] /\ courier'[o] = courier[o]
        /\ truck'[q.order] = IF q.truck \in q.given THEN q.truck ELSE truck[q.order]
        /\ courier'[q.order]
             = IF q.courier \in q.given THEN q.courier ELSE courier[q.order]
    BY <1>0, <1>3, <2>1 DEF CommitStatus, TypeOK
  <2>3. x \in {truck'[q.order], courier'[q.order]} =>
          x \in q.given \/ Kept(q, q.order, x)
    BY <2>2 DEF Kept
  <2>4. WillCarry(q, q.order, x) => q.order \in May(x)
    BY <2>1 DEF May
  <2>5. Sharers(x)' \subseteq May(x)
    <3>1. ASSUME NEW o \in Sharers(x)' PROVE o \in May(x)
      <4>1. CASE o = q.order
        <5>1. status'[o] = q.to /\ q.to \in BusyStatus
              /\ x \in {truck'[o], courier'[o]}
          BY <1>0, <2>1, <2>2, <3>1, <4>1 DEF Sharers, TypeOK
        <5>. QED BY <2>1, <2>3, <2>4, <4>1, <5>1 DEF WillCarry
      <4>2. CASE o # q.order
        BY <1>0, <2>2, <3>1, <4>2 DEF Sharers, TypeOK, May
      <4>. QED BY <4>1, <4>2
    <3>. QED BY <3>1
  <2>6. ASSUME NEW s \in Requests, NEW o \in Orders, WillCarry(req[s], o, x)'
        PROVE  o \in May(x)
    <3>0. /\ req'[s] = req[s] /\ req[s].op = "status" /\ req[s].order = o
          /\ Takes(req[s], x) => x \notin req[s].todo
      BY <1>2, <2>6 DEF WillCarry, Takes
    <3>1. CASE WillCarry(req[s], o, x)
      BY <3>1 DEF May
    <3>2. CASE ~WillCarry(req[s], o, x)
      <4>1. ~Kept(req[s], o, x) /\ Kept(req[s], o, x)'
        BY <2>6, <3>0, <3>2 DEF WillCarry
      <4>2. o = q.order /\ x \in q.given
        BY <2>2, <3>0, <4>1 DEF Kept
      <4>. QED BY <2>1, <2>4, <4>2 DEF WillCarry
    <3>. QED BY <3>1, <3>2
  <2>7. May(x)' \subseteq May(x)
    BY <2>5, <2>6 DEF May
  <2>. QED BY <1>1, <2>7, StillCounted
<1>4. CASE CommitReceive(r) \/ CommitPod(r) \/ CommitGoods(r)
  <2>1. /\ UNCHANGED <<truck, courier>>
        /\ \A o \in Orders : status'[o] \in {status[o], "DELIVERED", "CONFIRMED"}
    BY <1>0, <1>4 DEF CommitReceive, CommitPod, CommitGoods, TypeOK
  <2>2. Sharers(x)' \subseteq Sharers(x)
    BY <2>1 DEF Sharers, BusyStatus
  <2>3. ASSUME NEW s \in Requests, NEW o, WillCarry(req[s], o, x)'
        PROVE  WillCarry(req[s], o, x)
    BY <1>2, <2>1, <2>3 DEF WillCarry, Kept, Takes
  <2>4. May(x)' \subseteq May(x)
    BY <2>2, <2>3 DEF May
  <2>. QED BY <1>1, <2>4, StillCounted
<1>. QED BY <1>3, <1>4 DEF CommitOf

(* A new order takes the place of its creation, which has found x free.    *)
LEMMA CreateCounted ==
  ASSUME PlainInv, NEW r \in Requests, NEW o \in Orders, CommitCreate(r, o),
         NEW x \in FleetItems, Counted(x)
  PROVE  Counted(x)'
<1> DEFINE q == req[r]
<1>0. /\ TypeOK /\ OrdersExist /\ x # None
      /\ req'[r] = Idle /\ \A s \in Requests \ {r} : req'[s] = req[s]
  BY FinishOne, NoneAssumption
  DEF PlainInv, ReservationInv, CommitCreate, FleetItems
<1>1. /\ q.op = "create" /\ q.todo = {} /\ o \notin Created
      /\ \A p \in Orders \ {o} : /\ status'[p] = status[p] /\ truck'[p] = truck[p]
                                 /\ courier'[p] = courier[p]
      /\ truck'[o] = q.truck /\ courier'[o] = q.courier
  BY <1>0 DEF CommitCreate, TypeOK, Created
<1>2. Creating(x)' \subseteq Creating(x) \ {r}
  BY <1>0 DEF Creating, FoundFree, Idle
<1>3. ASSUME NEW s \in Requests, NEW p, WillCarry(req[s], p, x)'
      PROVE  WillCarry(req[s], p, x)
  <2>1. req'[s] = req[s] /\ req[s].op = "status" /\ req[s].order = p
    BY <1>0, <1>3 DEF WillCarry, Idle
  <2>2. p \in Created /\ p \in Orders /\ p # o
    BY <1>0, <1>1, <2>1 DEF OrdersExist, Created
  <2>. QED BY <1>1, <1>3, <2>1, <2>2 DEF WillCarry, Kept, Takes
<1>4. CASE x \in {q.truck, q.courier}
  <2>1. r \in Creating(x)
    BY <1>1, <1>4 DEF Creating, FoundFree
  <2>2. May(x)' \subseteq May(x) \cup {o}
    BY <1>1, <1>3 DEF May, Sharers
  <2>3. Cardinality(May(x) \cup {o}) <= Cardinality(May(x)) + 1
        /\ IsFiniteSet(May(x) \cup {o})
    BY CountsFinite, FS_AddElement
  <2>4. Cardinality(Creating(x) \ {r}) = Cardinality(Creating(x)) - 1
        /\ IsFiniteSet(Creating(x) \ {r})
    BY <2>1, CountsFinite, FS_RemoveElement
  <2>5. /\ Cardinality(May(x)') <= Cardinality(May(x) \cup {o})
        /\ Cardinality(May(x)') \in Nat /\ Cardinality(May(x) \cup {o}) \in Nat
    BY <2>2, <2>3, FS_Subset, FS_CardinalityType
  <2>6. /\ Cardinality(Creating(x)') <= Cardinality(Creating(x) \ {r})
        /\ Cardinality(Creating(x)') \in Nat
    BY <1>2, <2>4, FS_Subset, FS_CardinalityType
  <2>7. /\ Cardinality(May(x)) \in Nat /\ Cardinality(Creating(x)) \in Nat
        /\ Cardinality(Requests) \in Nat
        /\ Cardinality(May(x)) + Cardinality(Creating(x)) <= Cardinality(Requests)
    BY CountsFinite DEF Counted
  <2>8. Cardinality(May(x)') + Cardinality(Creating(x)') <= Cardinality(Requests)
    BY <2>3, <2>4, <2>5, <2>6, <2>7
  <2>. QED BY <2>8 DEF Counted
<1>5. CASE x \notin {q.truck, q.courier}
  <2>1. May(x)' \subseteq May(x)
    BY <1>1, <1>3, <1>5 DEF May, Sharers
  <2>2. Creating(x)' \subseteq Creating(x)
    BY <1>2
  <2>. QED BY <2>1, <2>2, StillCounted
<1>. QED BY <1>4, <1>5

LEMMA StepPlain ==
  ASSUME PlainInv, "DELAYED" \notin OrderTargets, NEW r \in Requests, StepOf(r)
  PROVE  PlainInv'
<1>0. ReservationInv' /\ TypeOK /\ Plain(req[r])
  BY StepReserves DEF PlainInv, ReservationInv, Next, StepOf
<1>1. \A s \in Requests : Plain(req'[s])
  BY <1>0, OwnCarries, OthersStay DEF PlainInv
<1>2. \A o \in Orders : status'[o] # "DELAYED"
  <2>1. CASE UNCHANGED <<orderVars, goods>>
    BY <2>1 DEF orderVars, PlainInv
  <2>2. CASE CommitOf(r)
    BY <1>0, <2>2 DEF CommitOf, CommitStatus, CommitReceive, CommitPod,
                      CommitGoods, PlainInv, Plain, TypeOK
  <2>3. CASE \E o \in Orders : CommitCreate(r, o)
    BY <1>0, <2>3 DEF CommitCreate, PlainInv, TypeOK
  <2>. QED BY <2>1, <2>2, <2>3, QuietOrCommit
<1>. QED BY <1>0, <1>1, <1>2 DEF PlainInv, Plain

LEMMA StepSharing ==
  ASSUME "DELAYED" \notin OrderTargets, SharingInv, [Next]_vars
  PROVE  SharingInv'
<1>1. ASSUME NEW r \in Requests, StepOf(r) PROVE SharingInv'
  <2>1. PlainInv'
    BY <1>1, StepPlain DEF SharingInv
  <2>2. ASSUME NEW x \in FleetItems PROVE Counted(x)'
    <3>0. PlainInv /\ Counted(x)
      BY DEF SharingInv
    <3>1. CASE UNCHANGED <<orderVars, goods>>
      BY <1>1, <3>0, <3>1, QuietCounted
    <3>2. CASE CommitOf(r)
      BY <3>0, <3>2, CommitCounted
    <3>3. CASE \E o \in Orders : CommitCreate(r, o)
      BY <3>0, <3>3, CreateCounted
    <3>. QED BY <1>1, <3>1, <3>2, <3>3, QuietOrCommit
  <2>. QED BY <2>1, <2>2 DEF SharingInv, FleetItems
<1>2. CASE UNCHANGED vars
  <2>1. ReservationInv'
    BY StepReserves DEF SharingInv, PlainInv
  <2>2. PlainInv'
    BY <1>2, <2>1 DEF vars, SharingInv, PlainInv, Plain
  <2>3. ASSUME NEW x \in FleetItems PROVE Counted(x)'
    <3>1. May(x)' = May(x) /\ Creating(x)' = Creating(x)
      BY <1>2 DEF vars, May, Sharers, WillCarry, Kept, Takes, Creating, FoundFree
    <3>. QED BY <3>1 DEF SharingInv, Counted
  <2>. QED BY <2>2, <2>3 DEF SharingInv, FleetItems
<1>. QED BY <1>1, <1>2, NextIsStepOf

LEMMA InitSharing == Init => SharingInv
<1> SUFFICES ASSUME Init PROVE SharingInv
  OBVIOUS
<1>1. \A r \in Requests : req[r] = Idle
  BY DEF Init
<1>2. PlainInv
  BY <1>1, InitReserves DEF Init, PlainInv, Plain, Idle, NotCreated
<1>3. ASSUME NEW x \in FleetItems PROVE Counted(x)
  <2>1. May(x) = {} /\ Creating(x) = {}
    BY <1>1 DEF Init, May, Sharers, WillCarry, Creating, FoundFree, Idle,
                NotCreated, BusyStatus
  <2>. QED BY <2>1, FS_EmptySet, CountsFinite DEF Counted
<1>. QED BY <1>2, <1>3 DEF SharingInv

LEMMA SharingHolds ==
  ASSUME SharingInv
  PROVE  SharingBounded
<1> SUFFICES ASSUME NEW x \in FleetItems
             PROVE  Cardinality(Sharers(x)) <= Cardinality(Requests)
  BY DEF SharingBounded, FleetItems
<1>1. Sharers(x) \subseteq May(x)
  BY DEF May
<1>2. /\ Cardinality(Sharers(x)) <= Cardinality(May(x))
      /\ Cardinality(Sharers(x)) \in Nat
  BY <1>1, CountsFinite, FS_Subset, FS_CardinalityType
<1>. QED BY <1>2, CountsFinite DEF SharingInv, Counted

(* Where no client asks for DELAYED, no driver or vehicle is on more busy  *)
(* orders than there are requests at a time, however creations and status  *)
(* changes interleave.                                                     *)
THEOREM SharingAlwaysBounded ==
  ASSUME "DELAYED" \notin OrderTargets
  PROVE  Spec => []SharingBounded
<1>1. SharingInv /\ [Next]_vars => SharingInv'
  BY StepSharing
<1>2. SharingInv => SharingBounded
  BY SharingHolds
<1>. QED BY <1>1, <1>2, InitSharing, PTL DEF Spec

(* So with one request at a time too, "double assignment" is "prevented":  *)
(* concurrent requests and resumed orders are the only ways to one.        *)
THEOREM AloneNeverDoublyAssigned ==
  ASSUME \A r, s \in Requests : r = s, "DELAYED" \notin OrderTargets
  PROVE  Spec => []NoDoubleAssignment
<1>1. Cardinality(Requests) = 1
  <2>1. PICK r : Requests = {r}
    BY RequestsAssumption
  <2>. QED BY <2>1, FS_Singleton
<1>2. SharingInv => NoDoubleAssignment
  <2> SUFFICES ASSUME SharingInv, NEW o \in Orders, NEW p \in Orders, Clash(o, p)
               PROVE  FALSE
    BY DEF NoDoubleAssignment
  <2>0. TypeOK
    BY DEF SharingInv, PlainInv, ReservationInv
  <2>1. PICK x \in FleetItems : o \in Sharers(x) /\ p \in Sharers(x)
    BY <2>0 DEF Clash, Sharers, FleetItems, TypeOK
  <2>2. /\ IsFiniteSet(Sharers(x)) /\ Cardinality(Sharers(x)) \in Nat
        /\ Cardinality(Sharers(x)) <= 1
    <3>1. Sharers(x) \in SUBSET Orders
      BY DEF Sharers
    <3>2. IsFiniteSet(Sharers(x)) /\ Cardinality(Sharers(x)) \in Nat
      BY <3>1, QuantityAssumption, FS_Subset, FS_CardinalityType
    <3>. QED BY <1>1, <3>2, SharingHolds DEF SharingBounded, FleetItems
  <2>3. Sharers(x) = {} \/ \E y : Sharers(x) = {y}
    <3>1. Cardinality(Sharers(x)) = 0 \/ Cardinality(Sharers(x)) = 1
      BY <2>2
    <3>. QED BY <2>2, <3>1, FS_EmptySet, FS_Singleton
  <2>. QED BY <2>1, <2>3 DEF Clash
<1>3. SharingInv /\ [Next]_vars => SharingInv'
  BY StepSharing
<1>. QED BY <1>2, <1>3, InitSharing, PTL DEF Spec
=============================================================================
