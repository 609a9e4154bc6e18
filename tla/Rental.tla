------------------------------- MODULE Rental -------------------------------
(***************************************************************************)
(* Rented space and the goods registered for it: rentSpace and             *)
(* changeRentalWarehouse of warehouse.service.ts and create of             *)
(* goods.service.ts, as concurrent requests over one PostgreSQL database.  *)
(*                                                                         *)
(* A contract is an item of an invoice, and no handler cancels an invoice. *)
(* Registration locks the customer's row and compares what the customer    *)
(* has at the warehouse with what is rented there; the other two take no   *)
(* lock.  Each action is what one handler does between two moments another *)
(* request can be seen (READ COMMITTED, as in Logistics).                  *)
(*                                                                         *)
(* Abstracted: one customer, whose rows alone a request is about; volumes  *)
(* count the units the code rounds them to, weight is compared in the same *)
(* way; contracts have not expired and suit the goods' storage condition;  *)
(* the goods move through their life cycle (GoodsFlow) in steps of their   *)
(* own; destination addresses, prices and notifications decide nothing.    *)
(***************************************************************************)
EXTENDS OrderFlow, GoodsFlow, Integers, FiniteSets

CONSTANTS
  Contracts, Goods,   \* identities of the rows that may be created
  Space,              \* the volume each contract rents
  Volume,             \* the volume of each goods item
  Largest,            \* a bound on both
  Warehouses,
  None,               \* no row
  Requests,           \* HTTP requests handled at the same time
  InvoiceLimit, GoodsLimit, \* MAX_DEMO_INVOICES_LIMIT, MAX_DEMO_GOODS_LIMIT
  Fallback,           \* the default allocation of legacy records, 50 m3
  Roles               \* the roles of the clients

ASSUME RowsAssumption ==
  /\ IsFiniteSet(Contracts) /\ IsFiniteSet(Goods) /\ IsFiniteSet(Requests)
  /\ Largest \in Nat /\ Fallback \in Nat
  /\ Space \in [Contracts -> 1 .. Largest] /\ Volume \in [Goods -> 1 .. Largest]
  /\ None \notin Warehouses

VARIABLES
  site,      \* the warehouse the item of each contract names, or None
  home,      \* GoodsItem.warehouseId, or None
  goods,     \* GoodsItem.status
  req,       \* what each request in flight has read, decided and locked
  left,      \* history: warehouses contracts were moved away from
  fallback,  \* history: warehouses the default allocation let goods into
  mixed      \* history: a change of warehouse overlapped another request

vars == <<site, home, goods, req, left, fallback, mixed>>
tables == <<site, home, goods>>

Idle == [op |-> "idle"]

Rented(w) == {c \in Contracts : site[c] = w}
Registered(w) == {g \in Goods : home[g] = w}

(* The goods a registration counts: neither cancelled nor delivered.       *)
Active(w) == {g \in Registered(w) : goods[g] \notin {"CANCELLED", "DELIVERED"}}

(* The volume of a set of contracts, or of goods.                          *)
Pieces(size, S) == {p \in S \X (1 .. Largest) : p[2] <= size[p[1]]}
Rent(S) == Cardinality(Pieces(Space, S))
Load(S) == Cardinality(Pieces(Volume, S))

(* Goods that a change of warehouse takes along, and those that forbid it. *)
Movable == {"DRAFT", "PENDING_PICKUP"}
Operational ==
  {"INSPECTING", "STORED", "PENDING_DELIVERY", "IN_TRANSIT_OUTBOUND", "DELIVERED"}

MayCall(role) == role \in {"CUSTOMER", "ADMIN"}

(* SELECT ... FROM users FOR UPDATE: the customer's row.                   *)
HoldsCustomer(r) == req[r].op = "register" /\ req[r].stage # "counted"
CustomerUnlocked(r) == TRUE   \* mutant: no SELECT FOR UPDATE
CustomerFree(r) == \A s \in Requests \ {r} : ~HoldsCustomer(s)

Advance(r, state) == req' = [req EXCEPT ![r] = state]
Finish(r) == Advance(r, Idle)

(***************************************************************************)
(* POST /warehouses/rent                                                   *)
(***************************************************************************)
BeginRent(r) ==
  /\ req[r] = Idle
  /\ Cardinality({c \in Contracts : site[c] # None}) < InvoiceLimit
  /\ \E role \in Roles, w \in Warehouses :
       MayCall(role) /\ Advance(r, [op |-> "rent", site |-> w])
  /\ UNCHANGED <<tables, left, fallback>>

CommitRent(r, c) ==
  /\ req[r].op = "rent" /\ site[c] = None
  /\ site' = [site EXCEPT ![c] = req[r].site]
  /\ Finish(r)
  /\ UNCHANGED <<home, goods, left, fallback>>

(***************************************************************************)
(* POST /goods                                                             *)
(***************************************************************************)
BeginRegister(r) ==
  /\ req[r] = Idle
  /\ Cardinality({g \in Goods : home[g] # None}) < GoodsLimit
  /\ \E role \in Roles, w \in Warehouses, g \in Goods :
       /\ MayCall(role) /\ home[g] = None
       /\ Advance(r, [op |-> "register", stage |-> "counted", role |-> role,
                      site |-> w, item |-> g, rent |-> 0])
  /\ UNCHANGED <<tables, left, fallback>>

LockCustomer(r) ==
  LET q == req[r]
      rent == Rent(Rented(q.site))
  IN /\ q.op = "register" /\ q.stage = "counted"
     /\ CustomerFree(r)
     /\ Advance(r, [q EXCEPT !.stage = IF rent = 0 THEN "legacy" ELSE "space",
                             !.rent = rent])
     /\ UNCHANGED <<tables, left, fallback>>

(* Nothing is rented: an admin, or a customer who has any goods there,     *)
(* gets the default allocation.                                            *)
AnyoneFallsBack(q) == TRUE   \* mutant: the customer need not have goods there
MayFallBack(q) == q.role # "CUSTOMER" \/ Registered(q.site) # {}

FallBack(r) ==
  LET q == req[r]
  IN /\ q.op = "register" /\ q.stage = "legacy"
     /\ IF MayFallBack(q)
          THEN /\ Advance(r, [q EXCEPT !.stage = "space", !.rent = Fallback])
               /\ fallback' = fallback \cup {q.site}
          ELSE Finish(r) /\ UNCHANGED fallback
     /\ UNCHANGED <<tables, left>>

CheckSpace(r) ==
  LET q == req[r]
  IN /\ q.op = "register" /\ q.stage = "space"
     /\ IF Load(Active(q.site)) + Volume[q.item] <= q.rent
          THEN Advance(r, [q EXCEPT !.stage = "commit"])
          ELSE Finish(r)
     /\ UNCHANGED <<tables, left, fallback>>

CommitRegisterAs(r) ==   \* mutant: the status of another table's column
  LET q == req[r]
  IN /\ q.op = "register" /\ q.stage = "commit" /\ home[q.item] = None
     /\ home' = [home EXCEPT ![q.item] = q.site]
     /\ goods' = [goods EXCEPT ![q.item] = "PENDING"]
     /\ Finish(r)
     /\ UNCHANGED <<site, left, fallback>>
CommitRegister(r) ==
  LET q == req[r]
  IN /\ q.op = "register" /\ q.stage = "commit" /\ home[q.item] = None
     /\ home' = [home EXCEPT ![q.item] = q.site]
     /\ \E s \in {"DRAFT", "PENDING_PICKUP"} : goods' = [goods EXCEPT ![q.item] = s]
     /\ Finish(r)
     /\ UNCHANGED <<site, left, fallback>>

(***************************************************************************)
(* POST /warehouses/change-rental-warehouse                                *)
(***************************************************************************)
BeginChange(r) ==
  /\ req[r] = Idle
  /\ \E role \in Roles, from, to \in Warehouses :
       /\ MayCall(role) /\ from # to
       /\ \A g \in Registered(from) : goods[g] \notin Operational
       /\ Advance(r, [op |-> "change", stage |-> "goods", from |-> from,
                      site |-> to, contracts |-> {}, any |-> Registered(from) # {},
                      items |-> {g \in Registered(from) : goods[g] \in Movable}])
  /\ UNCHANGED <<tables, left, fallback>>

ReadContracts(r) ==
  LET q == req[r]
  IN /\ q.op = "change" /\ q.stage = "goods"
     /\ IF Rented(q.from) = {} /\ ~q.any
          THEN Finish(r)
          ELSE Advance(r, [q EXCEPT !.stage = "tx", !.contracts = Rented(q.from)])
     /\ UNCHANGED <<tables, left, fallback>>

(* The goods and contracts read are moved wherever they are by now.        *)
CommitChange(r) ==
  LET q == req[r]
  IN /\ q.op = "change" /\ q.stage = "tx"
     /\ home' = [g \in Goods |-> IF g \in q.items THEN q.site ELSE home[g]]
     /\ site' = [c \in Contracts |-> IF c \in q.contracts THEN q.site ELSE site[c]]
     /\ left' = left \cup {q.from}
                     \cup IF q.from \in left \cup fallback THEN {q.site} ELSE {}
     /\ Finish(r)
     /\ UNCHANGED <<goods, fallback>>

(* A request is dropped before its commit, and its transaction with it.    *)
Abort(r) ==
  /\ req[r] # Idle
  /\ Finish(r)
  /\ UNCHANGED <<tables, left, fallback>>

(* Whatever else happens to an item: the other handlers move it along.     *)
Progress(g) ==
  /\ home[g] # None
  /\ \E s \in AllowedGoodsTransitions(goods[g]) : goods' = [goods EXCEPT ![g] = s]
  /\ UNCHANGED <<site, home, req, left, fallback>>

Mixing ==
  \E r, s \in Requests : r # s /\ req[r].op = "change" /\ req[s] # Idle

Init ==
  /\ site = [c \in Contracts |-> None]
  /\ home = [g \in Goods |-> None]
  /\ goods = [g \in Goods |-> "DRAFT"]
  /\ req = [r \in Requests |-> Idle]
  /\ left = {} /\ fallback = {} /\ mixed = FALSE

Handle(r) ==
  \/ BeginRent(r) \/ BeginRegister(r) \/ LockCustomer(r) \/ FallBack(r)
  \/ CheckSpace(r) \/ CommitRegister(r)
  \/ BeginChange(r) \/ ReadContracts(r) \/ CommitChange(r) \/ Abort(r)
  \/ \E c \in Contracts : CommitRent(r, c)

Step == (\E r \in Requests : Handle(r)) \/ (\E g \in Goods : Progress(g))
Next == Step /\ mixed' = (mixed \/ Mixing')

Spec == Init /\ [][Next]_vars

(***************************************************************************)
(* Properties                                                              *)
(***************************************************************************)
RequestState ==
  {Idle} \cup [op: {"rent"}, site: Warehouses]
    \cup [op: {"register"}, stage: {"counted", "legacy", "space", "commit"},
          role: UserRole, site: Warehouses, item: Goods, rent: Nat]
    \cup [op: {"change"}, stage: {"goods", "tx"}, from: Warehouses,
          site: Warehouses, contracts: SUBSET Contracts, any: BOOLEAN,
          items: SUBSET Goods]

(* Every row holds a value of its column, every request a state of its     *)
(* handler.                                                                *)
TypeOK ==
  /\ site \in [Contracts -> Warehouses \cup {None}]
  /\ home \in [Goods -> Warehouses \cup {None}]
  /\ goods \in [Goods -> GoodsStatus]
  /\ req \in [Requests -> RequestState]
  /\ left \in SUBSET Warehouses /\ fallback \in SUBSET Warehouses
  /\ mixed \in BOOLEAN

(* However registrations, rentals and the goods' progress interleave, the  *)
(* goods at a warehouse fit the space rented there, also after rentals and *)
(* goods were moved to it.  Not covered: warehouses rentals were moved away*)
(* from (goods in transit stay behind) or the default allocation was used  *)
(* in, and changes that overlap another request, for they take no lock.    *)
WithinContract ==
  \A w \in Warehouses \ (left \cup fallback) :
    ~mixed => Load(Active(w)) <= Rent(Rented(w))

(* A customer gets the default allocation nowhere but at a warehouse the   *)
(* own rental was moved away from.                                         *)
FallbackOnlyWhereLeft == ~mixed => fallback \subseteq left
=============================================================================
