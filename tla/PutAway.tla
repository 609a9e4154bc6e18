------------------------------ MODULE PutAway ------------------------------
(***************************************************************************)
(* Rack slots: the put-away and status change of goods.service.ts, its     *)
(* rack transfer, the dock, the change of a rental's warehouse, the        *)
(* deletion of a customer and the sensor report of a slot, as concurrent   *)
(* requests over one PostgreSQL database.                                  *)
(*                                                                         *)
(* slot.usedM3 and warehouse.usedCapacityM3 are sums kept beside the goods *)
(* they sum.  Whoever moves an item recalculates them: it reads the goods, *)
(* its own write included, rounds their sum, then writes it and so locks   *)
(* the row.  Between the two, and between the fit check and the write of   *)
(* the item, other transactions commit (READ COMMITTED, as in Logistics).  *)
(*                                                                         *)
(* Volume counts 0.0001 m3 and weight 0.01 kg, the decimals of a goods     *)
(* item; the code rounds sums and availability to 0.01 m3 and 0.1 kg.      *)
(*                                                                         *)
(* Abstracted: slot.status is MAINTENANCE for the slots seeded so, which   *)
(* no handler changes, and otherwise OCCUPIED when usedM3 > 0; the rentals *)
(* a change of warehouse moves along are in Rental; temperatures decide    *)
(* nothing here; orders are left to Logistics.                             *)
(***************************************************************************)
EXTENDS GoodsFlow, Integers, FiniteSets, Sequences

CONSTANTS
  Goods, Slots, Warehouses, Customers,
  OwnerOf,       \* GoodsItem.customerId
  FirstHome,     \* the warehouse an item is registered at
  SiteOf,        \* StorageSlot.warehouseId
  Cold,          \* goods that require cold storage, and cold-storage slots
  Maintenance,   \* slots in maintenance
  Size,          \* volume and weight of each item
  Limit,         \* volume and weight a slot takes (50 kg per m3)
  Grain,         \* the units of volume and weight a sum is rounded to
  Largest,       \* a bound on every Size
  None,          \* SQL NULL: in no slot
  Requests,      \* HTTP requests the server handles at the same time
  Roles, Ops,    \* the roles and operations clients use
  GoodsTargets,  \* the statuses clients ask to give
  Arriving,      \* the statuses an arriving order finds its goods in
  InitialGoods   \* the goods statuses the database starts with

Measures == {"volume", "weight"}
Rows == Slots \cup Warehouses

ASSUME ItemsAssumption ==
  /\ IsFiniteSet(Goods) /\ IsFiniteSet(Requests) /\ Requests # {}
  /\ Largest \in Nat
  /\ Size \in [Goods -> [Measures -> 0 .. Largest]]
  /\ Grain \in [Measures -> Nat \ {0}]
  /\ Limit \in [Slots -> [Measures -> Nat]]
ASSUME PlacesAssumption ==
  /\ FirstHome \in [Goods -> Warehouses] /\ SiteOf \in [Slots -> Warehouses]
  /\ OwnerOf \in [Goods -> Customers]
  /\ Slots \cap Warehouses = {} /\ None \notin Rows
ASSUME StatusAssumption ==
  /\ GoodsTargets \subseteq GoodsStatus
  /\ Arriving \subseteq GoodsStatus \ {"CANCELLED"}
  /\ InitialGoods \subseteq GoodsStatus \ {"STORED"}

VARIABLES
  goods,       \* GoodsItem.status, or Deleted
  slotOf,      \* GoodsItem.slotId
  home,        \* GoodsItem.warehouseId
  used,        \* StorageSlot.usedM3 and Warehouse.usedCapacityM3
  req,         \* what each request in flight has read, decided and locked
  stale,       \* history: rows the dock took goods from since they were summed
  crowded,     \* history: warehouses of requests that met
  contested    \* history: goods moved and put away by requests at one time

vars == <<goods, slotOf, home, used, req, stale, crowded, contested>>
server == <<goods, slotOf, home, used, req, stale>>
tables == <<goods, slotOf, home, used, stale>>

Deleted == "DELETED"
Idle == [op |-> "idle"]

(***************************************************************************)
(* What the handlers compute from the goods they see.                      *)
(***************************************************************************)
(* STORED goods of a slot or a warehouse, by their status and slot.        *)
Occupants(st, at, row) ==
  {g \in Goods : st[g] = "STORED" /\ row \in {at[g], home[g]}}

Pieces(S, m) == {p \in S \X (1 .. Largest) : p[2] <= Size[p[1]][m]}
Load(S, m) == Cardinality(Pieces(S, m))

(* toFixed: a multiple of the grain nearest to n.  Which way a half goes   *)
(* is up to the binary fraction the decimal one became.                    *)
Rounded(n, m) ==
  {k \in n - Grain[m] .. n + Grain[m] :
     /\ k % Grain[m] = 0
     /\ 2 * (k - n) <= Grain[m] /\ 2 * (n - k) <= Grain[m]}

(* The fit check: what the others STORED in slot s leave to g, rounded and *)
(* never negative.  On a half it may come out either way.                  *)
LeftWhenEmpty(g, s, m) ==   \* mutant: what is stored already is not counted
  {Limit[s][m]}
Left(g, s, m) ==
  {IF k < 0 THEN 0 ELSE k :
     k \in Rounded(Limit[s][m] - Load(Occupants(goods, slotOf, s) \ {g}, m), m)}
MayFit(g, s) == \A m \in Measures : \E left \in Left(g, s, m) : Size[g][m] <= left
MayExceed(g, s) == \E m \in Measures : \E left \in Left(g, s, m) : Size[g][m] > left

(* The slot can take the item at all: site, maintenance and zone.          *)
SuitsBySite(g, s) ==   \* mutant: zone and maintenance are not looked at
  SiteOf[s] = home[g]
Suits(g, s) ==
  /\ SiteOf[s] = home[g] /\ s \notin Maintenance
  /\ g \in Cold => s \in Cold

(* The goods as the transaction of q sees them, its own write included: a  *)
(* transfer writes the slot only, all others status and slot.              *)
StatusAfter(q) ==
  [g \in Goods |-> IF g \in q.items /\ q.op # "transfer" THEN q.to ELSE goods[g]]
PlaceAfter(q) ==
  [g \in Goods |-> IF g \in q.items THEN q.slot ELSE slotOf[g]]

(* The slot a status change writes: cleared when the item leaves.          *)
SlotWith(to, slot) == IF to \in {"DELIVERED", "CANCELLED"} THEN None ELSE slot

(* The sums an update makes stale, in the order they are recalculated.     *)
FirstOnly(first, second, site) ==   \* mutant: the second slot is forgotten
  (IF first = None THEN <<>> ELSE <<first>>) \o <<site>>
RecountNull(first, second, site) ==   \* mutant: an item in no slot leaves one
  <<first, second, site>>
Recount(first, second, site) ==
  (IF first = None THEN <<>> ELSE <<first>>)
    \o (IF second \in {None, first} THEN <<>> ELSE <<second>>) \o <<site>>

Orderings(S) ==
  {f \in [1 .. Cardinality(S) -> S] : \A i, j \in DOMAIN f : i # j => f[i] # f[j]}

(***************************************************************************)
(* Row locks of the transactions in flight.                                *)
(***************************************************************************)
Writing(r) == req[r].op \in {"status", "transfer", "delete"}
HeldGoods(r) ==
  IF Writing(r) /\ req[r].stage \in {"sum", "row", "commit"}
    THEN req[r].items ELSE {}
HeldRows(r) ==
  CASE Writing(r) -> req[r].rows
    [] req[r].op = "report" /\ req[r].stage = "held" -> {req[r].slot}
    [] OTHER -> {}
GoodsFree(r, S) == \A s \in Requests \ {r} : HeldGoods(s) \cap S = {}
RowFree(r, row) == \A s \in Requests \ {r} : row \notin HeldRows(s)

Advance(r, state) == req' = [req EXCEPT ![r] = state]
Finish(r) == Advance(r, Idle)

WarehouseOfRow(row) == IF row \in Slots THEN SiteOf[row] ELSE row

(* What a writer keeps: its items, their new status and slot, the slot to  *)
(* check (None: no check), the rows left to recalculate, the sums read, the *)
(* rows written, and the warehouses it is about.                           *)
NewWriter(op, items, to, slot, checks, todo) ==
  [op |-> op, stage |-> IF checks = None THEN "write" ELSE "fit",
   items |-> items, to |-> to, slot |-> slot, todo |-> todo,
   sums |-> [row \in Rows |-> 0], rows |-> {},
   about |-> {WarehouseOfRow(todo[i]) : i \in DOMAIN todo}]

(***************************************************************************)
(* PATCH /goods/:id/status: put-away, and every other status change.       *)
(***************************************************************************)
BeginPutAway(r) ==
  /\ "status" \in Ops[r] /\ req[r] = Idle /\ "STORED" \in GoodsTargets
  /\ \E role \in Roles, g \in Goods, given \in Slots \cup {None} :
       LET target == IF given = None THEN slotOf[g] ELSE given
       IN /\ RoleMaySetGoods(role, "STORED")
          /\ MayPutAway(goods[g])
          /\ target # None /\ Suits(g, target)
          /\ Advance(r, NewWriter("status", {g}, "STORED", target, target,
                                  Recount(target, slotOf[g], home[g])))
  /\ UNCHANGED tables

BeginStatus(r) ==
  /\ "status" \in Ops[r] /\ req[r] = Idle
  /\ \E role \in Roles, g \in Goods, to \in GoodsTargets \ {"STORED"} :
       /\ RoleMaySetGoods(role, to)
       /\ goods[g] # Deleted /\ to \in AllowedGoodsTransitions(goods[g])
       /\ Advance(r, NewWriter("status", {g}, to, SlotWith(to, slotOf[g]), None,
                               Recount(slotOf[g], None, home[g])))
  /\ UNCHANGED tables

(***************************************************************************)
(* POST /goods/:id/transfer                                                *)
(***************************************************************************)
BeginTransfer(r) ==
  /\ "transfer" \in Ops[r] /\ req[r] = Idle /\ "ADMIN" \in Roles
  /\ \E g \in Goods, target \in Slots :
       /\ goods[g] = "STORED" /\ slotOf[g] \notin {None, target}
       /\ Suits(g, target)
       /\ Advance(r, NewWriter("transfer", {g}, "STORED", target, target,
                               Recount(slotOf[g], target, home[g])))
  /\ UNCHANGED tables

(***************************************************************************)
(* DELETE /users/:id: the goods of a customer and the slots they were read *)
(* in; each row goes with everything that names it.                        *)
(***************************************************************************)
Belongings(c) == {g \in Goods : OwnerOf[g] = c /\ goods[g] # Deleted}
SlotsRead(S) == {slotOf[g] : g \in S} \ {None}

BeginDelete(r) ==
  /\ "delete" \in Ops[r] /\ req[r] = Idle /\ "ADMIN" \in Roles
  /\ \E c \in Customers :
       LET S == Belongings(c)
       IN /\ S # {}
          /\ \E slots \in Orderings(SlotsRead(S)),
                homes \in Orderings({home[g] : g \in S}) :
               Advance(r, NewWriter("delete", S, Deleted, None, None,
                                    slots \o homes))
  /\ UNCHANGED tables

(***************************************************************************)
(* What the writers share.                                                 *)
(***************************************************************************)
(* The fit check: inside the transaction of a put-away, before that of a   *)
(* transfer, in both cases without a lock.                                 *)
CheckFitHangs(r) ==   \* mutant: an item that does not fit is waited for
  LET q == req[r]
  IN /\ Writing(r) /\ q.stage = "fit"
     /\ \A g \in q.items : MayFit(g, q.slot)
     /\ Advance(r, [q EXCEPT !.stage = "write"])
     /\ UNCHANGED tables
CheckFit(r) ==
  LET q == req[r]
  IN /\ Writing(r) /\ q.stage = "fit"
     /\ \/ /\ \A g \in q.items : MayFit(g, q.slot)
           /\ Advance(r, [q EXCEPT !.stage = "write"])
        \/ /\ \E g \in q.items : MayExceed(g, q.slot)
           /\ Finish(r)
     /\ UNCHANGED tables

(* The goods rows are written; an update of a row deleted since fails.     *)
WriteGoods(r) ==
  LET q == req[r]
  IN /\ Writing(r) /\ q.stage = "write"
     /\ GoodsFree(r, q.items)
     /\ IF q.op = "delete" \/ \A g \in q.items : goods[g] # Deleted
          THEN Advance(r, [q EXCEPT !.stage = "sum"])
          ELSE Finish(r)
     /\ UNCHANGED tables

(* recalculateSlotCapacity and recalculateWarehouseCapacity: the sum ...   *)
ReadSum(r) ==
  LET q == req[r]
  IN /\ Writing(r) /\ q.stage = "sum"
     /\ \E sum \in Rounded(Load(Occupants(StatusAfter(q), PlaceAfter(q),
                                         Head(q.todo)), "volume"), "volume") :
          Advance(r, [q EXCEPT !.stage = "row", !.sums[Head(q.todo)] = sum])
     /\ UNCHANGED tables

(* ... and the row, which stays locked to the end of the transaction.      *)
WriteSum(r) ==
  LET q == req[r]
      row == Head(q.todo)
  IN /\ Writing(r) /\ q.stage = "row"
     /\ RowFree(r, row)
     /\ Advance(r, [q EXCEPT !.stage = IF Len(q.todo) = 1 THEN "commit" ELSE "sum",
                             !.todo = Tail(@), !.rows = @ \cup {row}])
     /\ UNCHANGED tables

Commit(r) ==
  LET q == req[r]
  IN /\ Writing(r) /\ q.stage = "commit"
     /\ goods' = StatusAfter(q)
     /\ slotOf' = PlaceAfter(q)
     /\ used' = [row \in Rows |-> IF row \in q.rows THEN q.sums[row]
                                                      ELSE used[row]]
     /\ stale' = stale \ q.rows
     /\ Finish(r)
     /\ UNCHANGED home

(***************************************************************************)
(* POST /logistics/orders/:id/receive, for one item of the order: it is at *)
(* the dock, in the slot it may have had, and nothing is recalculated,     *)
(* also if it was stored in there.                                         *)
(***************************************************************************)
RowsOf(g) == {slotOf[g], home[g]} \ {None}

BeginReceive(r) ==
  /\ "receive" \in Ops[r] /\ req[r] = Idle /\ "ADMIN" \in Roles
  /\ \E g \in Goods :
       /\ goods[g] \in Arriving
       /\ Advance(r, [op |-> "receive", items |-> {g},
                      about |-> {WarehouseOfRow(row) : row \in RowsOf(g)}])
  /\ UNCHANGED tables

CommitReceive(r) ==
  LET S == req[r].items
  IN /\ req[r].op = "receive" /\ GoodsFree(r, S)
     /\ goods' = [g \in Goods |-> IF g \in S /\ goods[g] # Deleted
                                    THEN "INSPECTING" ELSE goods[g]]
     /\ stale' = stale \cup UNION {RowsOf(g) : g \in {h \in S : goods[h] = "STORED"}}
     /\ Finish(r)
     /\ UNCHANGED <<slotOf, home, used>>

(***************************************************************************)
(* POST /warehouses/rental/change-warehouse: the goods a customer has on   *)
(* the way to one warehouse are to go to another, unless some have entered *)
(* it.  They are moved by the ids read, whatever their status is by then.  *)
(***************************************************************************)
Operational ==
  {"INSPECTING", "STORED", "PENDING_DELIVERY", "IN_TRANSIT_OUTBOUND", "DELIVERED"}
Lodged(c, w) == {g \in Belongings(c) : home[g] = w}

BeginMove(r) ==
  /\ "move" \in Ops[r] /\ req[r] = Idle /\ "CUSTOMER" \in Roles
  /\ \E c \in Customers, from, to \in Warehouses :
       LET S == Lodged(c, from)
           moved == {g \in S : goods[g] \in {"DRAFT", "PENDING_PICKUP"}}
       IN /\ from # to /\ moved # {}
          /\ \A g \in S : goods[g] \notin Operational
          /\ Advance(r, [op |-> "move", items |-> moved, to |-> to,
                         about |-> {from, to}])
  /\ UNCHANGED tables

(* The trace of a move is written for every item: it fails if one is gone. *)
CommitMove(r) ==
  LET q == req[r]
  IN /\ q.op = "move" /\ GoodsFree(r, q.items)
     /\ home' = IF \E g \in q.items : goods[g] = Deleted
                  THEN home
                  ELSE [g \in Goods |-> IF g \in q.items THEN q.to ELSE home[g]]
     /\ Finish(r)
     /\ UNCHANGED <<goods, slotOf, used, stale>>

(***************************************************************************)
(* POST /telemetry: the slot's row first, then those of the goods in it,   *)
(* the reverse of a put-away.                                              *)
(***************************************************************************)
BeginReport(r) ==
  /\ "report" \in Ops[r] /\ req[r] = Idle
  /\ \E s \in Slots : Advance(r, [op |-> "report", stage |-> "row", slot |-> s])
  /\ UNCHANGED tables

ReportSlot(r) ==
  /\ req[r].op = "report" /\ req[r].stage = "row" /\ RowFree(r, req[r].slot)
  /\ Advance(r, [req[r] EXCEPT !.stage = "held"])
  /\ UNCHANGED tables

InSlot(s) == {g \in Goods : slotOf[g] = s}

CommitReport(r) ==
  /\ req[r].op = "report" /\ req[r].stage = "held"
  /\ GoodsFree(r, InSlot(req[r].slot))
  /\ Finish(r)
  /\ UNCHANGED tables

(***************************************************************************)
(* A request is dropped before its commit, and its transaction with it.    *)
(***************************************************************************)
Abort(r) ==
  /\ req[r] # Idle
  /\ Finish(r)
  /\ UNCHANGED tables

(* What request r waits for: rows another transaction holds.               *)
WaitsFor(r, s) ==
  LET q == req[r]
  IN /\ r # s
     /\ \/ Writing(r) /\ q.stage = "write" /\ HeldGoods(s) \cap q.items # {}
        \/ Writing(r) /\ q.stage = "row" /\ Head(q.todo) \in HeldRows(s)
        \/ /\ q.op = "report" /\ q.stage = "held"
           /\ HeldGoods(s) \cap InSlot(q.slot) # {}

(* PostgreSQL's deadlock detector ends one of a set of transactions that   *)
(* wait for each other.                                                    *)
EndDeadlock(r) ==
  /\ \E S \in SUBSET Requests :
       /\ r \in S
       /\ \A s \in S : \E t, u \in S : WaitsFor(s, t) /\ WaitsFor(u, s)
  /\ Finish(r)
  /\ UNCHANGED tables

Begin(r) ==
  \/ BeginPutAway(r) \/ BeginStatus(r) \/ BeginTransfer(r) \/ BeginDelete(r)
  \/ BeginReceive(r) \/ BeginMove(r) \/ BeginReport(r)

Continue(r) ==
  \/ CheckFit(r) \/ WriteGoods(r) \/ ReadSum(r) \/ WriteSum(r) \/ Commit(r)
  \/ CommitReceive(r) \/ CommitMove(r) \/ ReportSlot(r) \/ CommitReport(r)

(* What a request in flight is about: goods, and the warehouses they are   *)
(* and were read in.  Requests meet in a warehouse or over an item.        *)
ItemsOf(r) == IF req[r].op \in {"idle", "report"} THEN {} ELSE req[r].items
About(r) == IF req[r].op \in {"idle", "report"} THEN {} ELSE req[r].about
Meet(r, s) ==
  r # s /\ (About(r) \cap About(s) # {} \/ ItemsOf(r) \cap ItemsOf(s) # {})
Crowd == UNION {About(r) : r \in {s \in Requests : \E t \in Requests : Meet(s, t)}}

(* Goods a change of warehouse and a put-away or transfer are about.       *)
Storing(r) == Writing(r) /\ req[r].to = "STORED"
Contest ==
  {g \in Goods : \E r, s \in Requests :
     req[r].op = "move" /\ Storing(s) /\ g \in req[r].items \cap req[s].items}

Init ==
  /\ goods \in [Goods -> InitialGoods]
  /\ slotOf = [g \in Goods |-> None]
  /\ home = FirstHome
  /\ used = [row \in Rows |-> 0]
  /\ req = [r \in Requests |-> Idle]
  /\ stale = {} /\ crowded = {} /\ contested = {}

Step == \E r \in Requests : Begin(r) \/ Continue(r) \/ Abort(r) \/ EndDeadlock(r)
Watch ==
  crowded' = crowded \cup Crowd' /\ contested' = contested \cup Contest'
Next == Step /\ Watch

Spec == Init /\ [][Next]_vars

(* Node runs every handler it started, and PostgreSQL queues those who     *)
(* wait for a row; no handler is owed its client's next call.              *)
Fairness ==
  /\ \A r \in Requests : SF_server(Continue(r))
  /\ WF_server(\E r \in Requests : EndDeadlock(r))
FairSpec == Spec /\ Fairness

(***************************************************************************)
(* Properties                                                              *)
(***************************************************************************)
WriterState ==
  [op: {"status", "transfer", "delete"},
   stage: {"fit", "write", "sum", "row", "commit"}, items: SUBSET Goods,
   to: GoodsStatus \cup {Deleted}, slot: Slots \cup {None}, todo: Seq(Rows),
   sums: [Rows -> Int], rows: SUBSET Rows, about: SUBSET Warehouses]
RequestState ==
  {Idle} \cup WriterState
    \cup [op: {"receive"}, items: SUBSET Goods, about: SUBSET Warehouses]
    \cup [op: {"move"}, items: SUBSET Goods, to: Warehouses,
          about: SUBSET Warehouses]
    \cup [op: {"report"}, stage: {"row", "held"}, slot: Slots]

(* Every row holds a value of its column, every request a state of its     *)
(* handler.                                                                *)
TypeOK ==
  /\ goods \in [Goods -> GoodsStatus \cup {Deleted}]
  /\ slotOf \in [Goods -> Slots \cup {None}]
  /\ home \in [Goods -> Warehouses]
  /\ used \in [Rows -> Int]
  /\ req \in [Requests -> RequestState]
  /\ stale \in SUBSET Rows /\ crowded \in SUBSET Warehouses
  /\ contested \in SUBSET Goods

(* Put-away and transfer check the slot without a lock, against what is    *)
(* left rounded: put-aways that never met fill it by up to half a unit of  *)
(* the rounding more than it takes, by volume or by weight, and requests   *)
(* in flight together by up to one item more for each beside the first.    *)
Excess(w) == IF w \in crowded THEN (Cardinality(Requests) - 1) * Largest ELSE 0
OverfillBounded ==
  \A s \in Slots, m \in Measures :
    2 * Load(Occupants(goods, slotOf, s), m)
      <= 2 * (Limit[s][m] + Excess(SiteOf[s])) + Grain[m]

(* Whatever receives, deletes, moves or changes goods at the same time, a  *)
(* STORED item is in a slot, in none under maintenance, and cold goods are *)
(* in cold storage.  The slot is in the item's warehouse, unless that was  *)
(* being changed, for an item read before it came to the dock, during a    *)
(* put-away or transfer of it.                                             *)
StoredWhereItBelongs ==
  \A g \in Goods :
    goods[g] = "STORED" =>
      /\ slotOf[g] # None /\ slotOf[g] \notin Maintenance
      /\ g \in Cold => slotOf[g] \in Cold
      /\ g \in contested \/ SiteOf[slotOf[g]] = home[g]

(* usedM3 and usedCapacityM3 are the stored volume, rounded, after any     *)
(* sequence of put-aways, transfers, deletions, moves and status changes,  *)
(* in a warehouse no two that met were about, until the dock takes goods   *)
(* that are STORED from the row, which recalculates nothing.               *)
SumsCurrent ==
  \A row \in Rows \ stale :
    WarehouseOfRow(row) \notin crowded
      => used[row] \in Rounded(Load(Occupants(goods, slotOf, row), "volume"),
                               "volume")

(* Every request ends, also where a transfer and a put-away, or a put-away *)
(* and a sensor report, lock the same rows in opposite orders.             *)
RequestsFinish == \A r \in Requests : req[r] # Idle ~> req[r] = Idle
=============================================================================
