# TLA+ model of the warehouse management system

The system is a NestJS REST API (`src/backend`) over one PostgreSQL database
through Prisma, with a Next.js client (`src/frontend`).  The API keeps no state
between requests: everything lives in database rows, and everything hard about
it comes from handlers that run at the same time.  A handler reads rows,
validates what it read, then opens a transaction (READ COMMITTED) and writes
what it decided.  Between the read and the commit any other request may commit.

## Components

| component | state | operations | interaction | where |
| --- | --- | --- | --- | --- |
| orders | `DeliveryOrder`, `OrderItem` | create, status change, receive at the dock, proof of delivery (POD) | writes goods and vehicle status, notifies | `modules/logistics` |
| fleet | `Vehicle.status`, driver availability (derived from orders) | assign driver, compatibility checks | read by order creation and assignment | `modules/logistics`, `common/utils/fleet-compatibility.util.ts` |
| goods life cycle | `GoodsItem.status` | status change, put-away | put-away confirms inbound orders | `modules/goods` |
| rack slots, capacity | `StorageSlot`, `Warehouse.usedCapacityM3` | put-away, transfer, recalculation | written by goods, by account deletion | `modules/goods`, `modules/warehouse` |
| goods registration | `GoodsItem` | create within the rented volume | reads invoices | `modules/goods` |
| warehouse rental | `Invoice`, `InvoiceItem` | rent, change warehouse | moves goods and order addresses | `modules/warehouse` |
| billing | `Invoice`, `Payment` | pay, verify, reject, penalty | notifies | `modules/billing` |
| sessions | `RefreshToken`, `PasswordResetToken`, `User.passwordHash` | login, refresh, logout, change and reset password | client token refresh | `modules/auth` |
| accounts | `User` | update, delete with everything owned | deletes from all tables | `modules/users` |
| notifications | `SystemNotification`, `DeliveryOrderMessage` | create (deduplicated, at most 50 kept), mark read | called by every handler | `modules/notifications`, `modules/logistics` |
| telemetry | `TelemetryLog`, slot temperature | ingest, snapshot | writes slots and goods | `modules/telemetry` |
| analytics, health, file storage, guards | none | read-only or pure I/O | | |
| frontend | session store | pages, token refresh | calls the API | `src/frontend` |

What makes them correct: packages of a goods item are promised to one order
only; a driver or vehicle serves one order at a time; goods, orders and
vehicles agree on where the cargo is; only the dock lets inbound goods in; a
closed order stays closed; a slot holds no more than its capacity; an invoice
is paid once, by a verified payment; a session ends when its password or token
does; every request ends.  The behaviours that are hard to test are the
interleavings: they are listed, each at its line, under `hazards` in
`PROJECT.json`, with the property that covers it or the reason why none does.

## Modules

| module | models | used by |
| --- | --- | --- |
| `OrderFlow`, `GoodsFlow` | the transition tables, role rules and status lists of orders and goods, as sets and functions of a status | `Logistics`, `PutAway`, `Rental` |
| `Claims` | what the creation of orders promises about packages, abstractly | `Logistics`, which implements it |
| `Logistics` | orders, goods status and fleet under concurrent requests | `MCLogistics`, four proof modules |
| `PutAway` | rack slots, used capacity and the goods in them | `MCPutAway`, `PutAwayProofs` |
| `Settlement` | what billing promises of one invoice, abstractly | `Billing`, which implements it |
| `Billing` | invoices and payments as rows and handlers | `MCBilling`, `BillingProofs` |
| `Rental` | rented space, registration of goods, change of warehouse | `MCRental`, `RentalProofs` |
| `Rotation` | what refresh tokens promise of a session, abstractly | `Sessions`, which implements it |
| `Sessions` | refresh tokens on the server, calls and stored tokens in the browser, a network that loses messages | `MCSessions`, `SessionsProofs` |

Every module has the same form: constants with named assumptions, one function
`req` from the requests in flight to what each has read, decided and locked,
one action per stretch of a handler between two moments at which another
request matters, `Next`, `Spec`, and the properties.  Each `MC` module gives the
constants their values for TLC.  The modules meet in the goods' life cycle
(`GoodsFlow`): `Logistics` has its status and the orders, `PutAway` its slot,
`Rental` its registration and warehouse.  Each abstracts what the others have:
`PutAway` leaves out orders, `Rental` lets goods progress in steps of their own
(`Progress`, any move the table allows).

### How `Logistics` corresponds to the code

A handler is a sequence of actions of one request `r`; each is what the handler
does between two moments at which another request matters.

| handler | actions |
| --- | --- |
| `createOrder` | `BeginCreate` (demo limit), `ReadGoods` or `RefuseCreate`, `ValidateFleet`, then in the transaction `LockGoods` (SELECT FOR UPDATE, one row at a time), `CheckGoods` (active reservations), `CheckVehicle`, `CheckDriver`, `CommitCreate` |
| `updateOrderStatus` | `BeginStatus` (read, role, table), `ValidateFleet`, `CheckVehicle`, `CheckDriver`, `LockOrder` (order row written, goods read), `CommitStatus` (status, fleet, goods of a pickup) |
| `receiveInboundOrder` | `BeginReceive`, `CommitReceive` |
| `submitPod` | `BeginPod`, `CommitPod` |
| `assignDriver` | `BeginAssign`, `CommitAssign` |
| `GoodsService.updateStatus` | `BeginGoods`, `LockItem` (item and warehouse rows written, orders read), `CommitGoods` (and the automatic confirmation) |

Row locks are functions of `req`: `HeldGoods`, `HoldsOrder`, `WarehouseFree`.
The last one matters: every goods status change recalculates the used capacity
of its warehouse, so two of them in one warehouse wait for each other, and that
alone makes the automatic confirmation of put-away work under concurrency.

Behaviour that is not under `src/` and is modelled from how the code relies on
it: `Abort` (a request may be dropped, with its transaction, at any point before
its commit: process stop, lost connection, timeout, or a later check the model
abstracts), `WaitsFor` and `EndDeadlock` (PostgreSQL ends one of a set of
transactions that wait for each other).

`Claims` is the abstract specification of the reservation: an order claims its
packages in one step, only if they are left, holds them, and gives them up for
good.  There is no request in it, no lock and no check apart from the claim.
`ClaimStage` is the refinement mapping: an order that exists holds its claim while
it is in the set given, and has given it up otherwise.  `FirstClaimsAtomic` is
`Claims` with the reserving orders that no stale status change reopened,
`PromisesAtomic` with all reserving orders: the reservation check counts those,
but an order that is reopened comes back without one.

Simplifications.  One customer owns all goods and orders, so ownership checks
always succeed.  Vehicles fit all cargo and are never in maintenance, licences
are valid.  An order with its items and goods is read in one step, and
`ValidateFleet` looks at vehicle and driver in one step; both happen before the
transaction, where the code gives no guarantee between them.  The writes of
receiving, POD and confirmation are one step, their commit; row locks a commit
takes one by one are taken together.  The item's and the warehouse's row are
taken together by `LockItem`.  Slots, mutations, notifications, addresses and
POD details do not influence these variables and are left out.  Outbound goods
are eligible when STORED: `PutAway` shows that STORED goods are in a slot.

### How `PutAway` corresponds to the code

`goods`, `slotOf` and `home` are `GoodsItem.status`, `slotId` and `warehouseId`;
`used` is `StorageSlot.usedM3` and `Warehouse.usedCapacityM3`, sums the code keeps
beside the goods.  History: `crowded`, the warehouses of requests that met (two in
flight about one warehouse or one item); `contested`, goods a change of warehouse
was moving while a request put them away or transferred them; `stale`, rows the
dock took STORED goods from since they were summed.

| handler | actions |
| --- | --- |
| `GoodsService.updateStatus` to STORED | `BeginPutAway` (role, status, slot, zone), `CheckFit`, `WriteGoods`, then `ReadSum` and `WriteSum` for each row of `Recount`, `Commit` |
| `GoodsService.updateStatus`, others | `BeginStatus`, then the same without the fit check |
| `transferSlot` | `BeginTransfer`, then the same |
| `deleteUser` | `BeginDelete`, then the same for all goods of the customer |
| `receiveInboundOrder`, one item | `BeginReceive`, `CommitReceive` |
| `changeRentalWarehouse`, its goods | `BeginMove` (nothing has entered the warehouse), `CommitMove` (by the ids read) |
| `TelemetryService.ingest` | `BeginReport`, `ReportSlot` (slot row), `CommitReport` (goods rows) |

A sum is read with the transaction's own writes and other transactions' commits
(`StatusAfter`, `PlaceAfter`), and written later, when its row is free: between
the two another commit can be lost.  A writer is one record whatever the handler
(`NewWriter`): the handlers differ in what they check and in the rows they
recalculate, and share the code after it.  The status a put-away validated, the
slot and the warehouse it read are those of its beginning, as in the code.
`Abort`, `WaitsFor` and `EndDeadlock` are as in `Logistics`.

Volume and weight are natural numbers, in the decimals of a goods item (0.0001 m3,
0.01 kg).  The code rounds what it sums to 0.01 m3 and what a slot has left to
0.01 m3 and 0.1 kg (`toFixed`): `Rounded` is the set of multiples of `Grain` nearest
to a number, both of them on a half, since the binary fraction that stands for
the decimal one lies on either side of it.  A slot's load before rounding is the
size of the set of unit pieces of its goods (`Pieces`), so that sums need no
recursion and can be proved about.  The check in `transferSlot` is before its
transaction and the one of put-away inside it, in both cases without a lock: one
action models both.

### How `Billing` corresponds to the code

`invoice`, `due`, `total` are columns of `Invoice`, `payment` the rows of
`Payment`.  `disputed` is a history variable: invoices two requests were about at
one time, or that were decided with no payment under review.

| handler | actions |
| --- | --- |
| `rentSpace` (its invoice) | `BeginRent` (limit, due date), `CommitRent` |
| `payInvoice` | `BeginPay` (status, payments under review), `CheckAmount` (limit, the amount shown against the one payable now), `CommitPay` |
| `verifyPayment` | `BeginVerify` (the payment under review, if any), `CommitVerify` |
| `calculatePenalty` | `Payable`, `WeeksOverdue` |

Time (`now`, `Tick`) counts half days, so that a begun day differs from a whole
one.  A client shows the amount of any earlier instant and is refused when the
penalty has grown since.  `Settlement` is the abstract specification: an invoice
is open, in review, settled or disputed; nothing leads out of settled.  `Stage`
is the refinement mapping: in review means exactly one payment under review and
none verified, settled exactly one verified and none under review; any other
combination of rows maps to a stage `Settlement` does not have.

### How `Rental` corresponds to the code

`site` is the warehouse of each rented contract (an item of an invoice), `home`
and `goods` are `GoodsItem.warehouseId` and `status`.

| handler | actions |
| --- | --- |
| `rentSpace` | `BeginRent` (limit), `CommitRent` |
| `GoodsService.create` | `BeginRegister` (limit), `LockCustomer` (SELECT FOR UPDATE, rented volume), `FallBack` (default allocation), `CheckSpace`, `CommitRegister` |
| `changeRentalWarehouse` | `BeginChange` (goods under way forbid it), `ReadContracts`, `CommitChange` |

The history variables name what the code leaves open: `left`, warehouses
rentals were moved away from; `fallback`, those where the default allocation of
50 m3 for records without a rental was used; `mixed`, whether a change of
warehouse overlapped another request, for it takes no lock.

### How `Sessions` corresponds to the code

`row` is the `RefreshToken` row of each pair of tokens, `stored` the pair in
localStorage, `refreshing` the flag `isRefreshing` of each tab; `call` is a call
as its tab sees it and `req` the same call as the server sees it: a timeout
frees the first and not the second.

| code | actions |
| --- | --- |
| `login` | `ComparePassword`, `CreateLogin` |
| `refreshTokens` | `FindRefresh`, `RevokeRefresh`, `CreateRefresh`: three statements, no transaction |
| `logout` | `ServeLogout` |
| `changePassword` | `CheckPassword`, `RevokeAll` |
| any other call | `ServeOther` |
| `apiClient` | `Start`, `Receive`, `Denied` (401: refresh, or wait for the tab's refresh), `Refreshed` (all waiting calls are sent again), `RefreshRefused`, `RefreshBroken` (the network fails the refresh, or the call repeated after it), `CallBroken` (any other call), `Leaves` and `Unload` (the login page) |
| `logout`, `getCurrentUser` of the client's service | `KeptOn` |

External to `src/`: `Lose` (the network drops a request before or after the
server served it; the caller gives up), `Drop`, `Expire` (an access token's
fifteen minutes).  History: `session` (the first pair of the chain of rotations),
`ended` (sessions logged out of or revoked), `outlived` (those of them that a
refresh, or a logout with a token rotated before, went beside), `lost`,
`clashed` (sessions two refreshes of one token were under way in).

The client's router takes a tab to the login page and back at any time without
loading anything (`AuthGuard`, `use-auth.ts`, links), so a tab has no page in the
model: where `apiClient` looks whether it is under `/login`, both answers are
possible (`Leaves`).  A call repeated by the refresh that it began is "repeating",
for its network failure counts as the refresh's (`api-client.ts:316`, `335`); calls
that wait while that happens under `/login` are "stranded", and are still among those
the tab's next refresh wakes.

`Rotation` is the abstract specification of a session's tokens: a login opens a
session with a token of its own, a rotation replaces a token by a fresh one in
one step, an end takes them all, and a session without tokens is over, since
nothing opens it again.  Sessions in doubt promise less: an end may leave tokens,
a rotation the one it used.  The refinement mapping is `Valid`, the tokens a
session can still go on with (valid ones, and those a refresh has found valid and
not answered); in doubt are the `outlived` and the `clashed` sessions.

## Runs

Each cfg names every bound.  `CHECK_DEADLOCK FALSE` is there because the system
may rest: every order closed, all rows used up, a limit reached.

| run | specification | checks | shows |
| --- | --- | --- | --- |
| `reservation` | `Spec`, 2 requests, 4 orders, 1 item of 3 packages, limit 2 | `TypeOK`, `FirstClaimsFit`, `OvershootBounded`, `SharingBounded`, `FirstClaimsAtomic` | the row lock and the reservation check of `createOrder` hold under every interleaving, with stale status changes around them, and amount to claims in one step; creations in flight overshoot the demo limit by less than their number; busy orders that share a driver or vehicle are no more than the requests |
| `serial` | `SerialSpec`, 2 requests, 2 orders, both types | `NoOverReservation`, `PromisesAtomic`, `FollowsTable`, `DeliveredFreesVehicle` | what holds when no two requests are about one order |
| `trips` | `Spec`, 1 request, 2 orders, 2 items, both types | `StoredMeansConfirmed`, `ClashOnlyByResuming`, `CancelledGoodsStay` | what holds request after request, over all operations |
| `put_away` | `Spec`, 2 requests, 1 order, 2 items of one warehouse | `StoredMeansConfirmed` | concurrent put-away in one warehouse loses no confirmation |
| `unattended` | `FairSpec`, 2 requests of drivers and customers, 2 items | `InboundNeedsAdmin`, `RequestsFinish` | no admin, no inbound goods; and every request ends, deadlocks included |
| `slots` | `PutAway`, `FairSpec`, 2 requests, 2 items, 3 slots, 2 warehouses | `TypeOK`, `OverfillBounded`, `StoredWhereItBelongs`, `SumsCurrent`, `RequestsFinish` | how far rounded and unlocked fit checks overfill a slot; stored goods are where they may be, beside a change of their warehouse too; the kept sums are the rounded volumes where no two requests met; every request ends although handlers lock in opposite orders |
| `billing` | `Billing`, `Spec`, 2 requests, 2 invoices, 3 payments, instants 0, 2, 17 | `TypeOK`, `UnderReviewBounded`, `FeeMatchesDelay`, `PaidInFull`, `Settles` | payments under review are bounded; the penalty is that of the weeks begun; what is verified is the total; rows and handlers implement `Settlement` |
| `rental` | `Rental`, `Spec`, 2 requests of customers, 2 contracts, 2 items, 2 warehouses | `TypeOK`, `WithinContract`, `FallbackOnlyWhereLeft` | goods never outgrow the rented space, beyond the cases the code leaves open; a customer gets the default allocation only where the own rental was moved away |
| `sessions` | `Sessions`, `FairSpec`, 2 calls, 2 tabs, 3 pairs | `TypeOK`, `OneLiveToken`, `EndedStaysEnded`, `StoredIsLive`, `RotationAtomic`, `CallsSettle` | rotation leaves one valid token, in as good as one step; ended sessions stay ended; the browser keeps the token that is valid; no call waits forever for another's refresh, but those a network failure strands on the login page |
| `over_reservation` | `Spec` | `NoOverReservation` violated | the code does not keep what the comment at `logistics.service.ts:824` says |
| `double_assignment` | `Spec`, 1 request | `NoDoubleAssignment` violated | the code does not keep what the message at `logistics.service.ts:1166` says |
| `lost_confirmation` | `Spec`, 2 warehouses | `StoredMeansConfirmed` violated | the code does not keep what the comment at `goods.service.ts:743` says |

Runs without a module's name are of `Logistics`.

Why the bounds are enough for these questions.  Two requests are the smallest
number that interleave, and the checks of the code are pairwise: a request and
one that commits while it is in flight.  Two orders over one item of one or two
packages are the smallest case with a conflict, and with two packages also the
smallest without one; `reservation` has four orders, because the
limit of two lets a third one slip through, and what a bound allows must be less
than what there is.  Two items are needed for an order that is complete in
part, for packages split over two orders and for locks taken in opposite
orders.  `OrderTargets` and `GoodsTargets` limit the statuses clients ask for;
`serial` leaves out PICKED_UP and IN_TRANSIT, which differ from the statuses
around them only in how they drag goods along, and the way back to
PENDING_ASSIGNMENT; `trips` has them.  `trips`
leaves out an admin's PATCH to DELIVERED: the table allows it for inbound
orders too, past the dock, and put-away then has nothing to confirm.
Symmetry is used in safety runs only; orders, goods, requests, vehicles and
drivers are interchangeable, and so is the database they start from.

`slots`: the items weigh 3 and 6 and what a slot has left is rounded to 2.  The
first slot takes 8: one item after the other fits where 5 left become 6, which
overfills it without a meeting, and both at once where the checks miss each other.
The second takes either item.  Volumes of 1 are rounded to 3, so the sum of a slot
or warehouse and what it sums differ, by more than the rounding once commits are
lost.  One item is cold; the third slot is neither cold nor in service; the second
warehouse has no slots, so a change of warehouse beside a put-away separates an
item from its slot.  A put-away and a report take the rows of one slot and one item
in opposite orders.  One request changes statuses and receives, the other does the
rest: two put-aways in flight together are left to the proof, and so are goods
that are STORED when their order arrives (`stale` is empty in the run).  `billing`: the instants are the creation, the due date and two
weeks and a half day after it, so that rounding up matters; the
limits are 1 and 2, and the rows one more, as concurrent requests overshoot them.  `rental`: each contract
is filled by one item, so that one registration too many is visible; two
contracts allow a warehouse to have the space of a contract moved to it.
`sessions`: three pairs are a login and two rotations, or two rotations of one
token at the same time; two tabs share a stored pair, two calls of one tab share
its refresh.  An account with more pairs repeats this with the older ones
revoked.  Two calls do not reach a stranded call that a later refresh of its tab
wakes, nor two refreshes of one tab (the repeated call of the first fails while
the second is under way); the proofs of the safety properties cover both.

Fairness.  In `Logistics` and `PutAway`, `Continue(r)` is strongly fair for every request: Node runs every
handler it started, and PostgreSQL queues those who wait for a row, so a
handler that can go on again and again goes on.  `EndDeadlock` is weakly fair:
the detector runs whenever a wait lasts a second.  Clients owe no call, and
nothing has to abort.  In `Sessions` the server's statements, the browser's
handling of an answer and the loading of the login page are weakly fair; no
message has to arrive.  A message that is lost is noticed in the step that loses
it: by the timeout of `apiClient`, and for the refresh and the repeated calls, which
have none of their own, by the browser's network stack, which reports a broken
connection.  So `CallsSettle` says that calls do not wait for each other for
good, stranded ones apart; that a connection breaks is not owed, and the property
does not rest on it.

## Proofs

TLAPS checks the following for all values of the constants that satisfy the
`ASSUME`s of the modules: finite sets of rows and requests, sizes and limits that
are natural numbers, `None` distinct from the identities (and, in `Billing`, from
payment rows), client inputs of the right types.

`Logistics` (`LogisticsProofs`, extended by `ReservationProofs`, which `SerialProofs`
and `InboundProofs` extend):

* `TypeCorrect`: `Spec => []TypeOK`, one lemma per phase of a request.
* `FirstClaimsAlwaysFit`: `Spec => []FirstClaimsFit`.  `FirstClaimsFit` is not
  inductive: whether a commit keeps it depends on a check made several steps
  earlier.  `ReservationInv` adds what makes the check last: a creation has
  locked every item it has checked (`LocksHeld`), locks are exclusive
  (`LocksExclusive`), the packages of a checked item still fit beside those
  reserved (`CheckedFit`), and requests are about existing orders
  (`OrdersExist`), so that their commits only take orders out of the set that
  reserves, or mark them revived.  The counting is over sets of pairs of an
  order and a package number, with the cardinality theorems of the library.
* `OvershootAlwaysBounded`: `Spec => []OvershootBounded`.  A request that has
  counted the orders, or is creating one, may still add one, so `LimitInv` bounds
  the orders and those requests (`Pending`) together: a count starts only below
  the limit, when all requests could be pending; a commit turns one pending
  request into an order.
* `FirstClaimsAreAtomic`: `Spec => FirstClaimsAtomic`.  The invariant is
  `ReservationInv` with `TypeOK`; the step that claims is the commit, when
  `CheckedFit` says that what was checked item by item, several steps ago, is
  still left of all items at once.  Other commits take orders out of the mapping's
  set and add none (`RevivedKept`, `CommitGivesUp`): a reopened order is in
  `revived` from then on.
* `SerialPromisesAreAtomic`: `SerialSpec => PromisesAtomic`, from the theorem above
  and `revived = {}`, which makes the two mappings one (`PromisesAreFirstClaims`).
* `SharingAlwaysBounded`: `Spec => []SharingBounded` where clients set no order
  DELAYED (resuming a DELAYED order checks nothing: `ClashOnlyByResuming`).  The
  bound counts, for each driver or vehicle, the busy orders that have it, those a
  request past its check is about to give it (`May`), and the creations past it
  (`Creating`): together they are no more than the requests (`SharingInv`).  Whoever
  passes the check finds no busy order with it, so all that is counted is then
  about requests in flight, of which each accounts for one order (`OneOrderEach`);
  a commit turns what its request accounted for into a busy order, and nothing
  else makes an order busy that was not (`StillCounted`).
* `AloneNeverDoublyAssigned`: with a single request besides,
  `Spec => []NoDoubleAssignment`.  Resuming violates it with one request
  (`double_assignment`), concurrency without resuming: there is no third cause.
* `SerialNeverOverReserves`: `SerialSpec => []NoOverReservation`, and
  `SerialFollowsTable`: `SerialSpec => FollowsTable` (so no closed pickup order
  moves again).  Over `Spec` both are false (`over_reservation` violates the first).  `SerialInv` says
  that what a handler read before its transaction still stands when it commits
  (`Stands`): only one request is about the order, the other writer is a put-away,
  which turns a DELIVERED inbound order CONFIRMED, and the table leaves no other
  move from there.  So no order ever comes back to reserving (`revived = {}`),
  and the reservation check of `createOrder` covers all of them.
* `SerialFreesVehicle`: `SerialSpec => DeliveredFreesVehicle`.  The vehicle a
  request read is still its order's when it commits (`KnowsTruck`): only requests
  about the order change it.
* `DockNeedsAdmin`: without an admin among the `Roles`, and none of the goods past
  the dock at the start, `Spec => []InboundNeedsAdmin`.  `LayInv` follows what
  customers and drivers can ask for from the role check to the commit (`Lay`).
* `StoredOrdersConfirmed`: `Spec => []StoredMeansConfirmed` where all goods are of
  one warehouse and clients do not set orders DELIVERED themselves (the status
  change lets them, for inbound orders too; `lost_confirmation` shows why one
  warehouse).  A put-away in flight holds the only warehouse row (`OneLocked`), so
  until it commits no other item is stored and no order of its item received:
  every order that waits for its item alone is among those it confirms
  (`Confirming`).
* `CancelledGoodsEnd` and `OnlyResumingClashes`, of one request at a time
  (`Requests` a singleton, as in the run `trips`): `Spec => CancelledGoodsStay` and
  `Spec => ClashOnlyByResuming`.  What a handler is about to write is what it found
  not cancelled (`Spares`), and what it took off its list it found free
  (`Vetted`); the transition table leaves only DELAYED orders that become busy
  without an assignment.

`PutAway` (`PutAwayProofs`):

* `PutAwayTyped`: `TypeOK`, with the shape of a writer that `TypeOK` does not say
  (`WriterOK`: what a put-away or a transfer of which item to which slot is).
* `AlwaysStoredWhereItBelongs`: a put-away carries what it checked of its item
  and slot to its commit, and every other writer of a status leaves STORED.  The
  warehouse of an item changes only by a move, of goods that were not STORED when
  it read them: those it may find STORED, or being stored, are `contested` by then
  (`StoredInv`).
* `OverfillAlwaysBounded`: goods commit one by one, but what a slot will hold is
  decided at the fit checks, so the invariant (`Bounded`) bounds the goods
  stored in it together with those of writers past the check.  A
  check compares with what is left rounded, at most half a `Grain` too much, and
  may miss the items of the other requests in flight and no more, each at most
  `Largest`, and none where no two requests met.
* `SumsStayCurrent`: a request that meets no other recalculates every row its items
  leave or enter (`Effects`), the sums it has read are still those of its rows, and
  commits of others change only goods of warehouses they are about (`CurrentInv`).
  A receiving recalculates nothing: the rows it takes STORED goods from are
  `stale` until they are summed again.

`Billing` (`BillingProofs`):

* `BillingTyped`: `TypeOK`.
* `FeeAlwaysMatches`: the two roundings up amount to one, whatever the instants,
  and a payment in flight keeps the instant and the amount it was checked with.
* `UnderReviewAlwaysBounded`: payments under review of one invoice are bounded
  together with the requests that are paying it, which may each create one: such
  a request begins only when there is none under review.
* `AlwaysPaidInFull` and `BillingSettles`: of an undisputed invoice at most one
  request is in flight, so what it read is still so when it commits.  The
  invariant says which rows go together in each phase (open, review, paid) and
  what a request about the invoice implies of the phase; every action then maps
  to a step of `Settlement` or to none, and a dispute to `Dispute`.

`Sessions` (`SessionsProofs`), whatever the network loses:

* `SessionsTyped`: `TypeOK`.
* `AlwaysOneLiveToken`: a session's valid tokens and the refreshes that are
  to create one hold a single stake between them: a refresh past its revocation
  has taken it from the one token it found, unless two refreshes clashed in that
  session (`Unique`, session by session).
* `SessionsRotateAtomically`: `Spec => RotationAtomic`.  Of the three statements of
  `refreshTokens`, the creation is the step that rotates: until then the token it
  found counts among those the session can go on with, revoked or not, and
  afterwards it does not, for it is no longer valid (`Unique`) and no other refresh
  has found it, unless two clashed.  Logouts and password changes are ends, every
  other step is none or brings sessions into doubt.
* `SessionsStayEnded`: of `Rotation` it is an inductive invariant that sessions
  ended without doubt have no token (`RotationKeeps`); the refinement carries it
  over.
* `StoredStaysLive`: a refresh under way is waited for by its call, and the token
  its answer brings is valid, or of an ended session, and nobody else's; so what
  the browser stores is valid, or its refresh is under way, whatever tabs refresh
  it at the same time.

`Rental` (`RentalProofs`), over totals of volumes as cardinalities of sets of
pairs, whose lemmas come first (monotone, additive over disjoint sets, zero for
no rows only):

* `RentalTyped`: `TypeOK`.
* `AlwaysWithinContract`: what a registration found out lasts until it commits
  (`Backed`), since `OneHolder` of the customer's lock excludes other
  registrations, rentals only add space and goods only leave; what a change of
  warehouse has read is what it moves (`Moving`), since it is alone (`Alone`) or
  `mixed`, and moving disjoint contracts adds their volumes.
* `FallbackStaysWhereLeft`, where every client is a customer: goods at a warehouse
  imply a rental there (`Housed`), so a registration that found no rental finds no
  goods to take for a legacy record either.

Only model-checked: liveness (`RequestsFinish`, `CallsSettle`), which is out of
the prover's reach under fairness.  Every other property of a passing run is
proved, of `Logistics` under the assumptions named above.

## Known departures of the code

Besides the three violated runs, reading and checking the model showed these;
they are listed under `hazards`:

* `receiveInboundOrder` says "Ensure no goods are CANCELLED"
  (`logistics.service.ts:1442`) and checks it before its transaction: an item
  cancelled in between is set INSPECTING.
* `submitPod` leaves the delivered goods STORED, in their slots, and available
  to another delivery; the QA guide expects them DELIVERED and the slot freed
  (`docs/qa/MANUAL_QA_TEST_GUIDE.md:544`).  It looks at no order status either.
* The demo limit is counted outside the transaction that creates the order
  (`OvershootBounded` says by how much it may be exceeded).
* A vehicle may stay IN_SERVICE without an order (an order set back to
  PENDING_ASSIGNMENT, a vehicle replaced under way) or be freed while another
  order uses it.
* Two creations that name the same driver or vehicle may both succeed
  (`SharingBounded` says how many).
* Put-away and transfer check a slot without a lock: requests in flight together
  overfill it, and so do put-aways one after the other, for what is left is rounded
  up as well as down (`OverfillBounded` says by how much).
* A sum is read before its row is locked: of two requests in one warehouse the
  later may write a used volume without the other's item (`SumsCurrent` leaves
  crowded warehouses out).  Receiving an item that is still in a slot recalculates
  nothing.
* `payInvoice` and `verifyPayment` check outside their transactions: one invoice
  can have two payments under review, and a paid one can turn unpaid again.
  `verifyPayment` needs no payment at all.
* `changeRentalWarehouse` leaves goods in transit behind at a warehouse where
  nothing is rented any more, and registration then grants the default
  allocation of 50 m3 there.
* A logout whose access token has expired refreshes first and then revokes the
  token it had read before (`services/auth.service.ts:69`): the new one outlives
  the logout.  The same holds for a refresh that was under way when the password
  was changed.
* Two tabs that refresh one token at the same time end with two valid tokens, or
  with the browser expelled by the loser; a lost answer of a refresh ends the
  session.
* A failed refresh never wakes the calls that wait for it (`api-client.ts`): only
  leaving the page ends them, and a tab that is under `/login` by then is not left
  when the network fails the refresh (`api-client.ts:338`), so they stay, until
  another refresh of that tab succeeds.
* `changeRentalWarehouse` moves goods by the ids it read (`warehouse.service.ts:821`,
  `879`): an item that comes to the dock and is put away meanwhile ends STORED in a
  slot of the warehouse it was moved from.
* A wrong current password is answered 401 like an expired token, so the browser
  rotates its tokens and asks again.

## Not modelled

* Notifications and messages: no handler reads one to decide anything.
* Temperatures, anomalies and alerts of telemetry: they decide nothing about the
  modelled state; the row locks of a report are in `PutAway`.
* Password reset, registration of accounts, profile changes: single rows; a
  registration issues tokens as a login does.
* Volumes, prices and monthly fees: products rounded once, with no state; cargo
  fit, licences and maintenance of vehicles: pure checks, assumed to succeed.
* Expiry of contracts: registration counts the volume of expired ones too.
* Analytics, health, file storage, database wiring, guards and filters: no state
  of their own, or pure I/O.
* The pages of the client, most of the repository's lines: they show what the API
  returns; what they keep of their own, the session, is in `Sessions`.
* The maintenance scripts and `reconcileAllCapacity`, run on a quiet database.

## What is left

* Deletion of a customer in `Logistics` (orders and their goods together), and
  the addresses a change of warehouse rewrites.
* Notifications with their duplicate suppression, and fleet fit and prices
  against reference definitions.
