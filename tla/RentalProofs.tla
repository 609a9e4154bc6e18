----------------------------- MODULE RentalProofs -----------------------------
(***************************************************************************)
(* Proofs about Rental, for any contracts, goods, warehouses and requests: *)
(* types, goods within the space rented, and where the default allocation  *)
(* is used.                                                                *)
(***************************************************************************)
EXTENDS Rental, FiniteSetTheorems, TLAPS

(***************************************************************************)
(* Volumes of contracts and of goods.                                      *)
(***************************************************************************)
Sizes(X) == [X -> 1 .. Largest]
Total(size, S) == Cardinality(Pieces(size, S))

LEMMA TotalTyped ==
  ASSUME NEW X, IsFiniteSet(X), NEW S \in SUBSET X, NEW size
  PROVE  /\ IsFiniteSet(Pieces(size, S)) /\ Total(size, S) \in Nat
<1>1. IsFiniteSet(S) /\ IsFiniteSet(1 .. Largest)
  BY RowsAssumption, FS_Subset, FS_Interval
<1>2. IsFiniteSet(S \X (1 .. Largest))
  BY <1>1, FS_Product
<1>3. Pieces(size, S) \subseteq S \X (1 .. Largest)
  BY DEF Pieces
<1>4. IsFiniteSet(Pieces(size, S))
  BY <1>2, <1>3, FS_Subset
<1>. QED BY <1>4, FS_CardinalityType DEF Total

LEMMA TotalMonotone ==
  ASSUME NEW X, IsFiniteSet(X), NEW S, NEW T \in SUBSET X, S \subseteq T, NEW size
  PROVE  Total(size, S) <= Total(size, T)
<1>1. Pieces(size, S) \subseteq Pieces(size, T)
  BY DEF Pieces
<1>2. IsFiniteSet(Pieces(size, T))
  BY TotalTyped
<1>. QED BY <1>1, <1>2, FS_Subset DEF Total

LEMMA TotalUnion ==
  ASSUME NEW X, IsFiniteSet(X), NEW S \in SUBSET X, NEW T \in SUBSET X, NEW size
  PROVE  /\ Total(size, S \cup T) <= Total(size, S) + Total(size, T)
         /\ S \cap T = {} => Total(size, S \cup T) = Total(size, S) + Total(size, T)
<1> DEFINE P == Pieces(size, S)
           Q == Pieces(size, T)
           a == Cardinality(P)
           b == Cardinality(Q)
           c == Cardinality(P \cap Q)
           d == Cardinality(P \cup Q)
<1>1. Pieces(size, S \cup T) = P \cup Q
  BY DEF Pieces
<1>2. IsFiniteSet(P) /\ IsFiniteSet(Q) /\ a \in Nat /\ b \in Nat
  BY TotalTyped DEF Total
<1>3. c \in Nat /\ (S \cap T = {} => c = 0)
  <2>1. IsFiniteSet(P \cap Q)
    BY <1>2, FS_Intersection
  <2>2. S \cap T = {} => P \cap Q = {}
    BY DEF Pieces
  <2>. QED BY <2>1, <2>2, FS_CardinalityType, FS_EmptySet
<1>4. d = a + b - c
  BY <1>2, FS_Union
<1>5. Total(size, S \cup T) = d /\ Total(size, S) = a /\ Total(size, T) = b
  BY <1>1 DEF Total
<1> HIDE DEF P, Q, a, b, c, d
<1>. QED BY <1>2, <1>3, <1>4, <1>5

LEMMA TotalOne ==
  ASSUME NEW X, NEW size \in Sizes(X), NEW x \in X
  PROVE  Total(size, {x}) = size[x] /\ size[x] \in Nat /\ 1 <= size[x]
<1> DEFINE n == size[x]
<1>1. n \in 1 .. Largest /\ Largest \in Nat
  BY RowsAssumption DEF Sizes
<1>2. Pieces(size, {x}) = {x} \X (1 .. n)
  <2>1. \A i \in 1 .. Largest : i <= n <=> i \in 1 .. n
    BY <1>1
  <2>2. 1 .. n \subseteq 1 .. Largest
    BY <1>1
  <2>. QED BY <2>1, <2>2 DEF Pieces
<1>3. Cardinality({x}) = 1 /\ IsFiniteSet({x})
  BY FS_Singleton
<1>4. n \in Int /\ ~(1 > n) /\ n - 1 + 1 = n /\ 1 * n = n
  BY <1>1
<1>5. Total(size, {x}) = n
  <2> HIDE DEF n
  <2>1. Cardinality(1 .. n) = n /\ IsFiniteSet(1 .. n)
    BY <1>4, FS_Interval
  <2>2. Cardinality({x} \X (1 .. n)) = Cardinality({x}) * Cardinality(1 .. n)
    BY <1>3, <2>1, FS_Product
  <2>. QED BY <1>2, <1>3, <1>4, <2>1, <2>2 DEF Total
<1>. QED BY <1>1, <1>5

(* A total is zero for no rows only.                                       *)
LEMMA TotalZero ==
  ASSUME NEW X, IsFiniteSet(X), NEW size \in Sizes(X), NEW S \in SUBSET X
  PROVE  Total(size, S) = 0 <=> S = {}
<1>1. ASSUME NEW x \in S PROVE Total(size, S) # 0
  <2>1. Total(size, {x}) <= Total(size, S) /\ Total(size, {x}) \in Nat
        /\ Total(size, S) \in Nat
    BY TotalMonotone, TotalTyped
  <2>2. 1 <= Total(size, {x})
    BY TotalOne
  <2>. QED BY <2>1, <2>2
<1>2. Total(size, {}) = 0
  <2>1. Pieces(size, {}) = {}
    BY DEF Pieces
  <2>. QED BY <2>1, FS_EmptySet DEF Total
<1>. QED BY <1>1, <1>2

LEMMA Totals ==
  /\ IsFiniteSet(Contracts) /\ IsFiniteSet(Goods)
  /\ Space \in Sizes(Contracts) /\ Volume \in Sizes(Goods)
  /\ \A S : Rent(S) = Total(Space, S) /\ Load(S) = Total(Volume, S)
BY RowsAssumption DEF Sizes, Total, Rent, Load

(***************************************************************************)
(* Types                                                                   *)
(***************************************************************************)
RentState == [op: {"rent"}, site: Warehouses]
RegisterState ==
  [op: {"register"}, stage: {"counted", "legacy", "space", "commit"},
   role: UserRole, site: Warehouses, item: Goods, rent: Nat]
ChangeState ==
  [op: {"change"}, stage: {"goods", "tx"}, from: Warehouses, site: Warehouses,
   contracts: SUBSET Contracts, any: BOOLEAN, items: SUBSET Goods]

LEMMA StatesTyped ==
  ASSUME NEW q
  PROVE  /\ q = Idle => q \in RequestState /\ q.op = "idle"
         /\ q \in RentState => q \in RequestState /\ q.op = "rent"
         /\ q \in RegisterState => q \in RequestState /\ q.op = "register"
         /\ q \in ChangeState => q \in RequestState /\ q.op = "change"
         /\ q \in RequestState =>
              /\ q.op = "rent" => q \in RentState
              /\ q.op = "register" => q \in RegisterState
              /\ q.op = "change" => q \in ChangeState
BY DEF RequestState, RentState, RegisterState, ChangeState, Idle

LEMMA Advanced ==
  ASSUME req \in [Requests -> RequestState], NEW r \in Requests, NEW q, Advance(r, q)
  PROVE  /\ req'[r] = q /\ \A s \in Requests \ {r} : req'[s] = req[s]
         /\ q \in RequestState => req' \in [Requests -> RequestState]
BY DEF Advance

(* What the steps of a registration do to its record.                      *)
LEMMA LockStep ==
  ASSUME TypeOK, NEW r \in Requests, LockCustomer(r)
  PROVE  \E p \in RegisterState :
           /\ Advance(r, p) /\ p.item = req[r].item /\ p.site = req[r].site
           /\ p.role = req[r].role /\ p.rent = Rent(Rented(p.site))
           /\ p.stage = IF p.rent = 0 THEN "legacy" ELSE "space"
<1>1. PICK q : q = req[r]
  OBVIOUS
<1>2. q \in RegisterState
  BY <1>1, StatesTyped DEF LockCustomer, TypeOK
<1>3. PICK rent : rent = Rent(Rented(q.site))
  OBVIOUS
<1>4. rent \in Nat
  <2>1. Rented(q.site) \in SUBSET Contracts
    BY DEF Rented
  <2>. QED BY <1>3, <2>1, Totals, TotalTyped
<1>5. PICK p : p = [q EXCEPT !.stage = IF rent = 0 THEN "legacy" ELSE "space",
                             !.rent = rent]
  OBVIOUS
<1>6. Advance(r, p)
  BY <1>1, <1>3, <1>5 DEF LockCustomer
<1>7. /\ p \in RegisterState /\ p.item = q.item /\ p.site = q.site /\ p.role = q.role
      /\ p.rent = rent /\ p.stage = IF rent = 0 THEN "legacy" ELSE "space"
  BY <1>2, <1>4, <1>5 DEF RegisterState
<1>. QED BY <1>1, <1>3, <1>6, <1>7

LEMMA FallBackStep ==
  ASSUME TypeOK, NEW r \in Requests, FallBack(r)
  PROVE  /\ req[r] \in RegisterState /\ req[r].stage = "legacy"
         /\ \/ Finish(r) /\ UNCHANGED fallback
            \/ /\ MayFallBack(req[r]) /\ fallback' = fallback \cup {req[r].site}
               /\ \E p \in RegisterState :
                    /\ Advance(r, p) /\ p.item = req[r].item /\ p.site = req[r].site
                    /\ p.role = req[r].role /\ p.stage = "space"
<1>1. PICK q : q = req[r]
  OBVIOUS
<1>2. q \in RegisterState /\ q.stage = "legacy"
  BY <1>1, StatesTyped DEF FallBack, TypeOK
<1>3. PICK p : p = [q EXCEPT !.stage = "space", !.rent = Fallback]
  OBVIOUS
<1>4. /\ p \in RegisterState /\ p.item = q.item /\ p.site = q.site /\ p.role = q.role
      /\ p.stage = "space"
  BY <1>2, <1>3, RowsAssumption DEF RegisterState
<1>5. \/ Finish(r) /\ UNCHANGED fallback
      \/ /\ MayFallBack(q) /\ Advance(r, p) /\ fallback' = fallback \cup {q.site}
  BY <1>1, <1>3 DEF FallBack
<1>. QED BY <1>1, <1>2, <1>4, <1>5

LEMMA CheckStep ==
  ASSUME TypeOK, NEW r \in Requests, CheckSpace(r)
  PROVE  /\ req[r] \in RegisterState /\ req[r].stage = "space"
         /\ \/ Finish(r)
            \/ /\ Load(Active(req[r].site)) + Volume[req[r].item] <= req[r].rent
               /\ \E p \in RegisterState :
                    /\ Advance(r, p) /\ p.item = req[r].item /\ p.site = req[r].site
                    /\ p.role = req[r].role /\ p.stage = "commit"
<1>1. PICK q : q = req[r]
  OBVIOUS
<1>2. q \in RegisterState /\ q.stage = "space"
  BY <1>1, StatesTyped DEF CheckSpace, TypeOK
<1>3. PICK p : p = [q EXCEPT !.stage = "commit"]
  OBVIOUS
<1>4. /\ p \in RegisterState /\ p.item = q.item /\ p.site = q.site /\ p.role = q.role
      /\ p.stage = "commit"
  BY <1>2, <1>3 DEF RegisterState
<1>5. \/ Finish(r)
      \/ Advance(r, p) /\ Load(Active(q.site)) + Volume[q.item] <= q.rent
  BY <1>1, <1>3 DEF CheckSpace
<1>. QED BY <1>1, <1>2, <1>4, <1>5

LEMMA ReadStep ==
  ASSUME TypeOK, NEW r \in Requests, ReadContracts(r)
  PROVE  \/ Finish(r)
         \/ \E p \in ChangeState :
              /\ Advance(r, p) /\ p.from = req[r].from /\ p.site = req[r].site
              /\ p.items = req[r].items /\ p.contracts = Rented(p.from)
<1>1. PICK q : q = req[r]
  OBVIOUS
<1>2. q \in ChangeState
  BY <1>1, StatesTyped DEF ReadContracts, TypeOK
<1>3. PICK p : p = [q EXCEPT !.stage = "tx", !.contracts = Rented(q.from)]
  OBVIOUS
<1>4. /\ p \in ChangeState /\ p.from = q.from /\ p.site = q.site /\ p.items = q.items
      /\ p.contracts = Rented(p.from)
  BY <1>2, <1>3 DEF ChangeState, Rented
<1>5. Finish(r) \/ Advance(r, p)
  BY <1>1, <1>3 DEF ReadContracts
<1>. QED BY <1>1, <1>4, <1>5

(* The steps that leave the rows alone.                                    *)
Reads(r) ==
  \/ BeginRent(r) \/ BeginRegister(r) \/ LockCustomer(r) \/ FallBack(r)
  \/ CheckSpace(r) \/ BeginChange(r) \/ ReadContracts(r) \/ Abort(r)

LEMMA BeginStep ==
  ASSUME NEW r \in Requests, BeginRent(r) \/ BeginRegister(r) \/ BeginChange(r)
  PROVE  /\ req[r] = Idle
         /\ \/ \E p \in RentState : Advance(r, p)
            \/ \E p \in RegisterState :
                 Advance(r, p) /\ p.stage = "counted" /\ p.role \in Roles
            \/ \E p \in ChangeState :
                 /\ Advance(r, p) /\ p.from # p.site /\ p.stage = "goods"
                 /\ p.items \subseteq Registered(p.from)
<1>1. CASE BeginRent(r)
  <2>1. \A w \in Warehouses : [op |-> "rent", site |-> w] \in RentState
    BY DEF RentState
  <2>. QED BY <1>1, <2>1 DEF BeginRent
<1>2. CASE BeginRegister(r)
  <2>1. PICK role \in Roles, w \in Warehouses, g \in Goods :
          /\ MayCall(role)
          /\ Advance(r, [op |-> "register", stage |-> "counted", role |-> role,
                         site |-> w, item |-> g, rent |-> 0])
    BY <1>2 DEF BeginRegister
  <2>2. PICK p : p = [op |-> "register", stage |-> "counted", role |-> role,
                      site |-> w, item |-> g, rent |-> 0]
    OBVIOUS
  <2>3. p \in RegisterState /\ p.stage = "counted" /\ p.role \in Roles
    BY <2>1, <2>2 DEF RegisterState, MayCall, UserRole
  <2>. QED BY <1>2, <2>1, <2>2, <2>3 DEF BeginRegister
<1>3. CASE BeginChange(r)
  <2>1. PICK from \in Warehouses, to \in Warehouses :
          /\ from # to
          /\ Advance(r, [op |-> "change", stage |-> "goods", from |-> from,
                         site |-> to, contracts |-> {}, any |-> Registered(from) # {},
                         items |-> {g \in Registered(from) : goods[g] \in Movable}])
    BY <1>3 DEF BeginChange
  <2>2. PICK p : p = [op |-> "change", stage |-> "goods", from |-> from,
                      site |-> to, contracts |-> {}, any |-> Registered(from) # {},
                      items |-> {g \in Registered(from) : goods[g] \in Movable}]
    OBVIOUS
  <2>3. p \in ChangeState
    BY <2>1, <2>2 DEF ChangeState, Registered
  <2>4. p.from # p.site /\ p.stage = "goods" /\ p.items \subseteq Registered(p.from)
    BY <2>1, <2>2
  <2>. QED BY <1>3, <2>1, <2>2, <2>3, <2>4 DEF BeginChange
<1>. QED BY <1>1, <1>2, <1>3

LEMMA ReadsTyped ==
  ASSUME TypeOK, NEW r \in Requests, Reads(r)
  PROVE  /\ UNCHANGED <<tables, left>> /\ fallback' \in SUBSET Warehouses
         /\ fallback \subseteq fallback'
         /\ \E p \in RequestState : Advance(r, p)
<1>1. UNCHANGED <<tables, left>>
  BY DEF Reads, BeginRent, BeginRegister, LockCustomer, FallBack, CheckSpace,
         BeginChange, ReadContracts, Abort
<1>2. CASE FallBack(r)
  <2>1. req[r].site \in Warehouses
    BY <1>2, FallBackStep DEF RegisterState
  <2>2. Idle \in RequestState
    BY StatesTyped
  <2>. QED BY <1>1, <1>2, <2>1, <2>2, FallBackStep, StatesTyped DEF Finish, TypeOK
<1>3. CASE ~FallBack(r)
  <2>1. UNCHANGED fallback
    BY <1>3 DEF Reads, BeginRent, BeginRegister, LockCustomer, CheckSpace,
                BeginChange, ReadContracts, Abort
  <2>2. \E p \in RequestState : Advance(r, p)
    <3>1. Idle \in RequestState
      BY StatesTyped
    <3>2. CASE BeginRent(r) \/ BeginRegister(r) \/ BeginChange(r)
      BY <3>2, BeginStep, StatesTyped
    <3>3. CASE LockCustomer(r)
      BY <3>3, LockStep, StatesTyped
    <3>4. CASE CheckSpace(r)
      BY <3>1, <3>4, CheckStep, StatesTyped DEF Finish
    <3>5. CASE ReadContracts(r)
      BY <3>1, <3>5, ReadStep, StatesTyped DEF Finish
    <3>6. CASE Abort(r)
      BY <3>1, <3>6 DEF Abort, Finish
    <3>. QED BY <1>3, <3>2, <3>3, <3>4, <3>5, <3>6 DEF Reads
  <2>. QED BY <1>1, <2>1, <2>2 DEF TypeOK
<1>. QED BY <1>2, <1>3

(* However rentals, registrations, changes of warehouse and the goods'     *)
(* progress interleave, every row and request holds a value it can have.   *)
THEOREM RentalTyped == Spec => []TypeOK
<1>1. Init => TypeOK
  BY StatesTyped DEF Init, TypeOK, GoodsStatus
<1>2. TypeOK /\ [Next]_vars => TypeOK'
  <2> SUFFICES ASSUME TypeOK, [Next]_vars PROVE TypeOK'
    OBVIOUS
  <2>1. CASE Next
    <3>0. mixed' \in BOOLEAN
      BY <2>1 DEF Next
    <3>i. Idle \in RequestState
      BY StatesTyped
    <3>1. ASSUME NEW r \in Requests, Reads(r) PROVE TypeOK'
      BY <3>0, <3>1, ReadsTyped, Advanced DEF TypeOK, tables
    <3>2. ASSUME NEW r \in Requests, NEW c \in Contracts, CommitRent(r, c) PROVE TypeOK'
      <4>1. req[r] \in RentState /\ Finish(r)
        BY <3>2, StatesTyped DEF CommitRent, TypeOK
      <4>2. site' \in [Contracts -> Warehouses \cup {None}]
        BY <3>2, <4>1 DEF CommitRent, TypeOK, RentState
      <4>3. req' \in [Requests -> RequestState]
        BY <3>i, <4>1, Advanced DEF Finish, TypeOK
      <4>. QED BY <3>0, <3>2, <4>2, <4>3 DEF CommitRent, TypeOK
    <3>3. ASSUME NEW r \in Requests, CommitRegister(r) PROVE TypeOK'
      <4>1. req[r] \in RegisterState /\ Finish(r)
        BY <3>3, StatesTyped DEF CommitRegister, TypeOK
      <4>2. home' \in [Goods -> Warehouses \cup {None}]
        BY <3>3, <4>1 DEF CommitRegister, TypeOK, RegisterState
      <4>3. goods' \in [Goods -> GoodsStatus]
        BY <3>3, <4>1 DEF CommitRegister, TypeOK, RegisterState, GoodsStatus
      <4>4. req' \in [Requests -> RequestState]
        BY <3>i, <4>1, Advanced DEF Finish, TypeOK
      <4>. QED BY <3>0, <3>3, <4>2, <4>3, <4>4 DEF CommitRegister, TypeOK
    <3>4. ASSUME NEW r \in Requests, CommitChange(r) PROVE TypeOK'
      <4>1. req[r] \in ChangeState /\ Finish(r)
        BY <3>4, StatesTyped DEF CommitChange, TypeOK
      <4>2. /\ home' \in [Goods -> Warehouses \cup {None}]
            /\ site' \in [Contracts -> Warehouses \cup {None}]
        BY <3>4, <4>1 DEF CommitChange, TypeOK, ChangeState
      <4>3. left' \in SUBSET Warehouses
        BY <3>4, <4>1 DEF CommitChange, TypeOK, ChangeState
      <4>4. req' \in [Requests -> RequestState]
        BY <3>i, <4>1, Advanced DEF Finish, TypeOK
      <4>. QED BY <3>0, <3>4, <4>2, <4>3, <4>4 DEF CommitChange, TypeOK
    <3>5. ASSUME NEW g \in Goods, Progress(g) PROVE TypeOK'
      <4>1. goods[g] \in GoodsStatus
        BY DEF TypeOK
      <4>2. AllowedGoodsTransitions(goods[g]) \subseteq GoodsStatus
        BY <4>1 DEF AllowedGoodsTransitions, GoodsStatus
      <4>3. goods' \in [Goods -> GoodsStatus]
        BY <3>5, <4>2 DEF Progress, TypeOK
      <4>. QED BY <3>0, <3>5, <4>3 DEF Progress, TypeOK
    <3>. QED BY <2>1, <3>1, <3>2, <3>3, <3>4, <3>5 DEF Next, Step, Handle, Reads
  <2>2. CASE UNCHANGED vars
    BY <2>2 DEF vars, TypeOK
  <2>. QED BY <2>1, <2>2
<1>. QED BY <1>1, <1>2, PTL DEF Spec


(***************************************************************************)
(* Goods within the space rented.  A change of warehouse that overlaps no  *)
(* other request finds the goods and the contracts it read; registrations  *)
(* exclude one another by the customer's lock, so the space one has found  *)
(* free is free when it commits: rentals add to it, and goods only leave.  *)
(***************************************************************************)
Hired(w) == Rent(Rented(w))
Used(w) == Load(Active(w))
Open == Warehouses \ (left \cup fallback)

Alone == mixed \/ ~Mixing

OneHolder ==
  \A r, s \in Requests : HoldsCustomer(r) /\ HoldsCustomer(s) => r = s

(* What a registration has found out, at a warehouse in question.          *)
Backed(r, w) ==
  req[r].op = "register" /\ req[r].site = w =>
    /\ req[r].stage = "legacy" => Registered(w) = {}
    /\ req[r].stage = "space" => req[r].rent <= Hired(w)
    /\ req[r].stage = "commit" => Used(w) + Volume[req[r].item] <= Hired(w)

(* What a change of warehouse has read.                                    *)
Moving(r, w) ==
  req[r].op = "change" /\ req[r].from = w =>
    /\ req[r].site # w /\ req[r].items \subseteq Registered(w)
    /\ req[r].stage = "tx" => req[r].contracts = Rented(w)

Fitting == \A w \in Open : Used(w) <= Hired(w)
Housed == \A w \in Open : Registered(w) # {} => Rented(w) # {}
AllBacked == \A r \in Requests : \A w \in Open : Backed(r, w)
AllMoving == \A r \in Requests : \A w \in Warehouses : Moving(r, w)
Kept == Fitting /\ Housed /\ AllBacked /\ AllMoving

RentalInv == TypeOK /\ Alone /\ OneHolder /\ (mixed \/ Kept)

LEMMA Measured ==
  ASSUME NEW w
  PROVE  /\ Hired(w) \in Nat /\ Hired(w)' \in Nat
         /\ Used(w) \in Nat /\ Used(w)' \in Nat
         /\ Rented(w) \subseteq Rented(w)' => Hired(w) <= Hired(w)'
         /\ Active(w)' \subseteq Active(w) => Used(w)' <= Used(w)
         /\ Hired(w) = 0 <=> Rented(w) = {}
<1>1. /\ Rented(w) \in SUBSET Contracts /\ Rented(w)' \in SUBSET Contracts
      /\ Active(w) \in SUBSET Goods /\ Active(w)' \in SUBSET Goods
  BY DEF Rented, Active, Registered
<1>2. /\ Hired(w) = Total(Space, Rented(w)) /\ Hired(w)' = Total(Space, Rented(w)')
      /\ Used(w) = Total(Volume, Active(w)) /\ Used(w)' = Total(Volume, Active(w)')
  BY DEF Hired, Used, Rent, Load, Total
<1>. QED BY <1>1, <1>2, Totals, TotalTyped, TotalMonotone, TotalZero

(* No change of warehouse runs beside a step of another request.           *)
LEMMA NoOtherChange ==
  ASSUME NEW r \in Requests, TypeOK, Alone, ~mixed', mixed' = (mixed \/ Mixing'),
         req[r] # Idle \/ req'[r] # Idle,
         \A s \in Requests \ {r} : req'[s] = req[s]
  PROVE  /\ \A s \in Requests \ {r} : req'[s].op # "change"
         /\ req[r].op = "change" => \A s \in Requests \ {r} : req'[s] = Idle
<1>1. ~Mixing /\ ~Mixing'
  BY DEF Alone
<1>. QED BY <1>1 DEF Mixing

LEMMA OneHolderStep ==
  ASSUME NEW r \in Requests, OneHolder,
         \A s \in Requests \ {r} : req'[s] = req[s],
         HoldsCustomer(r)' => HoldsCustomer(r) \/ CustomerFree(r)
  PROVE  OneHolder'
BY DEF OneHolder, HoldsCustomer, CustomerFree

(* Space that only grows and goods that only leave invalidate nothing that *)
(* was found out.                                                          *)
LEMMA RowsKept ==
  ASSUME RentalInv, Kept, left \subseteq left', fallback \subseteq fallback',
         \A w \in Warehouses :
           /\ Rented(w) \subseteq Rented(w)' /\ Active(w)' \subseteq Active(w)
           /\ Registered(w)' = Registered(w)
  PROVE  /\ Fitting' /\ Housed'
         /\ \A s \in Requests : req'[s] = req[s] => \A w \in Open' : Backed(s, w)'
<1>1. Open' \subseteq Open /\ Open' \subseteq Warehouses
  BY DEF Open
<1>2. \A w \in Open' :
        /\ Used(w)' <= Used(w) /\ Hired(w) <= Hired(w)' /\ Registered(w)' = Registered(w)
        /\ Used(w) \in Nat /\ Used(w)' \in Nat /\ Hired(w) \in Nat /\ Hired(w)' \in Nat
  BY <1>1, Measured
<1>3. Fitting'
  <2> SUFFICES ASSUME NEW w \in Open' PROVE Used(w)' <= Hired(w)'
    BY DEF Fitting
  <2>1. Used(w) <= Hired(w)
    BY <1>1 DEF Kept, Fitting
  <2>. QED BY <1>2, <2>1
<1>4. Housed'
  BY <1>1 DEF Kept, Housed
<1>5. ASSUME NEW s \in Requests, req'[s] = req[s], NEW w \in Open' PROVE Backed(s, w)'
  <2>1. Backed(s, w)
    BY <1>1 DEF Kept, AllBacked
  <2>2. req[s].op = "register" => req[s].rent \in Nat /\ Volume[req[s].item] \in Nat
    <3>1. req[s].op = "register" => req[s] \in RegisterState
      BY StatesTyped DEF RentalInv, TypeOK
    <3>. QED BY <3>1, Totals, TotalOne DEF RegisterState
  <2>. QED BY <1>2, <1>5, <2>1, <2>2 DEF Backed
<1>. QED BY <1>3, <1>4, <1>5

(* A step of a request that is no commit of goods or of a change.          *)
LEMMA OthersKept ==
  ASSUME NEW r \in Requests, RentalInv, Kept, ~mixed', mixed' = (mixed \/ Mixing'),
         req[r] # Idle \/ req'[r] # Idle,
         \A s \in Requests \ {r} : req'[s] = req[s],
         left \subseteq left', fallback \subseteq fallback',
         \A w \in Warehouses :
           /\ Rented(w) \subseteq Rented(w)' /\ Active(w)' \subseteq Active(w)
           /\ Registered(w)' = Registered(w),
         \A w \in Open' : Backed(r, w)',
         \A w \in Warehouses : Moving(r, w)'
  PROVE  Kept'
<1>1. Fitting' /\ Housed'
  BY RowsKept
<1>2. AllBacked'
  BY RowsKept DEF AllBacked
<1>3. AllMoving'
  <2>1. \A s \in Requests \ {r} : req'[s].op # "change"
    BY NoOtherChange DEF RentalInv
  <2>. QED BY <2>1 DEF AllMoving, Moving
<1>. QED BY <1>1, <1>2, <1>3 DEF Kept

LEMMA SameRows ==
  ASSUME UNCHANGED tables, NEW w
  PROVE  /\ Rented(w)' = Rented(w) /\ Registered(w)' = Registered(w)
         /\ Active(w)' = Active(w) /\ Hired(w)' = Hired(w) /\ Used(w)' = Used(w)
<1>1. /\ Rented(w)' = Rented(w) /\ Registered(w)' = Registered(w)
      /\ Active(w)' = Active(w)
  BY DEF tables, Rented, Registered, Active
<1>. QED BY <1>1 DEF Hired, Used, Rent, Load

(* What a request knows after a step that reads.                           *)
LEMMA ReadsBacked ==
  ASSUME RentalInv, Kept, NEW r \in Requests, Reads(r)
  PROVE  /\ \A w \in Open' : Backed(r, w)'
         /\ \A w \in Warehouses : Moving(r, w)'
<1>0. TypeOK
  BY DEF RentalInv
<1>1. /\ Open' \subseteq Open /\ Open' \cap fallback' = {} /\ Open' \subseteq Warehouses
      /\ UNCHANGED tables
  BY <1>0, ReadsTyped DEF Open
<1>2. \A w : /\ Rented(w)' = Rented(w) /\ Registered(w)' = Registered(w)
             /\ Hired(w)' = Hired(w) /\ Used(w)' = Used(w)
  BY <1>1, SameRows
<1>3. ASSUME req'[r].op \notin {"register", "change"}
      PROVE  /\ \A w \in Open' : Backed(r, w)'
             /\ \A w \in Warehouses : Moving(r, w)'
  BY <1>3 DEF Backed, Moving
<1>4. Finish(r) => req'[r].op = "idle"
  BY <1>0, Advanced, StatesTyped DEF Finish, TypeOK
<1>5. ASSUME NEW q \in RegisterState, Advance(r, q)
      PROVE  req'[r] = q /\ q.op = "register" /\ \A w \in Warehouses : Moving(r, w)'
  <2>1. req'[r] = q /\ q.op = "register"
    BY <1>0, <1>5, Advanced, StatesTyped DEF TypeOK
  <2>. QED BY <2>1 DEF Moving
<1>6. ASSUME NEW q \in ChangeState, Advance(r, q)
      PROVE  req'[r] = q /\ q.op = "change" /\ \A w \in Open' : Backed(r, w)'
  <2>1. req'[r] = q /\ q.op = "change"
    BY <1>0, <1>6, Advanced, StatesTyped DEF TypeOK
  <2>. QED BY <2>1 DEF Backed
<1>7. CASE BeginRent(r) \/ BeginRegister(r) \/ BeginChange(r)
  <2>1. CASE \E p \in RentState : Advance(r, p)
    BY <1>0, <1>3, <2>1, Advanced, StatesTyped DEF TypeOK
  <2>2. CASE \E p \in RegisterState : Advance(r, p) /\ p.stage = "counted"
    <3>1. PICK p \in RegisterState : Advance(r, p) /\ p.stage = "counted"
      BY <2>2
    <3>2. req'[r] = p
      BY <1>5, <3>1
    <3>. QED BY <1>5, <3>1, <3>2 DEF Backed
  <2>3. CASE \E p \in ChangeState :
               /\ Advance(r, p) /\ p.from # p.site /\ p.stage = "goods"
               /\ p.items \subseteq Registered(p.from)
    <3>1. PICK p \in ChangeState :
            /\ Advance(r, p) /\ p.from # p.site /\ p.stage = "goods"
            /\ p.items \subseteq Registered(p.from)
      BY <2>3
    <3>2. req'[r] = p
      BY <1>6, <3>1
    <3>3. \A w \in Warehouses : Moving(r, w)'
      BY <1>2, <3>1, <3>2 DEF Moving
    <3>. QED BY <1>6, <3>1, <3>3
  <2>. QED BY <1>7, <2>1, <2>2, <2>3, BeginStep
<1>8. CASE LockCustomer(r)
  <2>1. PICK p \in RegisterState :
          /\ Advance(r, p) /\ p.rent = Rent(Rented(p.site))
          /\ p.stage = IF p.rent = 0 THEN "legacy" ELSE "space"
    BY <1>0, <1>8, LockStep
  <2>2. req'[r] = p /\ p.rent \in Nat
    BY <1>5, <2>1 DEF RegisterState
  <2>3. ASSUME NEW w \in Open', p.site = w PROVE Backed(r, w)'
    <3>1. p.rent = Hired(w)
      BY <2>1, <2>3 DEF Hired
    <3>2. p.rent = 0 => Registered(w)' = {}
      BY <1>1, <1>2, <2>3, <3>1, Measured DEF Kept, Housed
    <3>. QED BY <1>2, <2>1, <2>2, <3>1, <3>2 DEF Backed
  <2>4. \A w \in Open' : Backed(r, w)'
    BY <2>2, <2>3 DEF Backed
  <2>. QED BY <1>5, <2>1, <2>4
<1>9. CASE FallBack(r)
  <2>1. CASE Finish(r)
    BY <1>3, <1>4, <2>1
  <2>2. CASE /\ fallback' = fallback \cup {req[r].site}
             /\ \E p \in RegisterState : Advance(r, p) /\ p.site = req[r].site
    <3>1. PICK p \in RegisterState : Advance(r, p) /\ p.site = req[r].site
      BY <2>2
    <3>2. req'[r] = p /\ p.site \notin Open'
      BY <1>1, <1>5, <2>2, <3>1
    <3>. QED BY <1>5, <3>1, <3>2 DEF Backed
  <2>. QED BY <1>0, <1>9, <2>1, <2>2, FallBackStep
<1>10. CASE CheckSpace(r)
  <2>1. CASE Finish(r)
    BY <1>3, <1>4, <2>1
  <2>2. CASE /\ req[r] \in RegisterState /\ req[r].stage = "space"
             /\ Load(Active(req[r].site)) + Volume[req[r].item] <= req[r].rent
             /\ \E p \in RegisterState :
                  /\ Advance(r, p) /\ p.item = req[r].item /\ p.site = req[r].site
                  /\ p.stage = "commit"
    <3>1. PICK p \in RegisterState :
            /\ Advance(r, p) /\ p.item = req[r].item /\ p.site = req[r].site
            /\ p.stage = "commit"
      BY <2>2
    <3>2. req'[r] = p
      BY <1>5, <3>1
    <3>3. ASSUME NEW w \in Open', p.site = w PROVE Backed(r, w)'
      <4>1. Used(w) + Volume[req[r].item] <= req[r].rent
        BY <2>2, <3>1, <3>3 DEF Used
      <4>2. req[r].rent <= Hired(w)
        BY <1>1, <2>2, <3>1, <3>3, StatesTyped DEF Kept, AllBacked, Backed, RegisterState
      <4>3. req[r].rent \in Nat /\ Volume[req[r].item] \in Nat
        BY <2>2, Totals, TotalOne DEF RegisterState
      <4>4. Used(w) + Volume[req[r].item] <= Hired(w)
        BY <4>1, <4>2, <4>3, Measured
      <4>. QED BY <1>2, <3>1, <3>2, <4>4 DEF Backed
    <3>4. \A w \in Open' : Backed(r, w)'
      BY <3>2, <3>3 DEF Backed
    <3>. QED BY <1>5, <3>1, <3>4
  <2>. QED BY <1>0, <1>10, <2>1, <2>2, CheckStep
<1>11. CASE ReadContracts(r)
  <2>1. CASE Finish(r)
    BY <1>3, <1>4, <2>1
  <2>2. CASE \E p \in ChangeState :
               /\ Advance(r, p) /\ p.from = req[r].from /\ p.site = req[r].site
               /\ p.items = req[r].items /\ p.contracts = Rented(p.from)
    <3>1. PICK p \in ChangeState :
            /\ Advance(r, p) /\ p.from = req[r].from /\ p.site = req[r].site
            /\ p.items = req[r].items /\ p.contracts = Rented(p.from)
      BY <2>2
    <3>2. req'[r] = p /\ req[r].op = "change"
      BY <1>6, <1>11, <3>1 DEF ReadContracts
    <3>3. ASSUME NEW w \in Warehouses PROVE Moving(r, w)'
      <4>1. Moving(r, w)
        BY DEF Kept, AllMoving
      <4>. QED BY <1>2, <3>1, <3>2, <4>1 DEF Moving
    <3>. QED BY <1>6, <3>1, <3>3
  <2>. QED BY <1>0, <1>11, <2>1, <2>2, ReadStep
<1>12. CASE Abort(r)
  BY <1>3, <1>4, <1>12 DEF Abort
<1>. QED BY <1>7, <1>8, <1>9, <1>10, <1>11, <1>12 DEF Reads

LEMMA ReadsKept ==
  ASSUME NEW r \in Requests, RentalInv, Kept, ~mixed', mixed' = (mixed \/ Mixing'),
         Reads(r)
  PROVE  Kept'
<1>1. TypeOK
  BY DEF RentalInv
<1>2. PICK p \in RequestState : Advance(r, p)
  BY <1>1, ReadsTyped
<1>3. /\ UNCHANGED <<tables, left>> /\ fallback \subseteq fallback'
      /\ \A s \in Requests \ {r} : req'[s] = req[s]
  BY <1>1, <1>2, ReadsTyped, Advanced DEF TypeOK
<1>4. req[r] # Idle \/ req'[r] # Idle
  <2>1. CASE BeginRent(r) \/ BeginRegister(r) \/ BeginChange(r)
    <3>1. \E q : Advance(r, q) /\ q.op # "idle"
      BY <2>1, BeginStep, StatesTyped
    <3>. QED BY <1>1, <3>1, Advanced, StatesTyped DEF TypeOK
  <2>2. CASE LockCustomer(r) \/ FallBack(r) \/ CheckSpace(r) \/ ReadContracts(r)
    BY <2>2, StatesTyped DEF LockCustomer, FallBack, CheckSpace, ReadContracts
  <2>3. CASE Abort(r)
    BY <2>3 DEF Abort
  <2>. QED BY <2>1, <2>2, <2>3 DEF Reads
<1>5. \A w \in Warehouses :
        /\ Rented(w)' = Rented(w) /\ Active(w)' = Active(w)
        /\ Registered(w)' = Registered(w)
  BY <1>3, SameRows
<1>. QED BY <1>3, <1>4, <1>5, ReadsBacked, OthersKept

LEMMA FinishStep ==
  ASSUME TypeOK, NEW r \in Requests, Finish(r)
  PROVE  /\ req'[r] = Idle /\ \A s \in Requests \ {r} : req'[s] = req[s]
         /\ ~HoldsCustomer(r)'
         /\ \A w : Backed(r, w)' /\ Moving(r, w)'
<1>1. req'[r] = Idle /\ req'[r].op = "idle"
  BY Advanced, StatesTyped DEF Finish, TypeOK
<1>2. \A s \in Requests \ {r} : req'[s] = req[s]
  BY Advanced DEF Finish, TypeOK
<1>. QED BY <1>1, <1>2 DEF HoldsCustomer, Backed, Moving

LEMMA CommitRentKept ==
  ASSUME NEW r \in Requests, RentalInv, Kept, ~mixed', mixed' = (mixed \/ Mixing'),
         NEW c \in Contracts, CommitRent(r, c)
  PROVE  Kept'
<1>1. TypeOK
  BY DEF RentalInv
<1>2. /\ Finish(r) /\ UNCHANGED <<home, goods, left, fallback>> /\ req[r].op = "rent"
  BY DEF CommitRent
<1>3. req[r] # Idle
  BY <1>2, StatesTyped
<1>4. \A w \in Warehouses :
        /\ Rented(w) \subseteq Rented(w)'
        /\ Active(w)' = Active(w) /\ Registered(w)' = Registered(w)
  BY <1>1, RowsAssumption DEF CommitRent, Rented, Active, Registered, TypeOK
<1>. QED BY <1>1, <1>2, <1>3, <1>4, FinishStep, OthersKept

LEMMA ProgressKept ==
  ASSUME RentalInv, Kept, NEW g \in Goods, Progress(g)
  PROVE  Kept'
<1>1. PICK st \in AllowedGoodsTransitions(goods[g]) : goods' = [goods EXCEPT ![g] = st]
  BY DEF Progress
<1>2. goods[g] \in GoodsStatus /\ goods \in [Goods -> GoodsStatus]
  BY DEF RentalInv, TypeOK
<1>3. goods[g] \notin {"CANCELLED", "DELIVERED"}
  BY <1>1, <1>2 DEF AllowedGoodsTransitions, GoodsStatus
<1>4. \A w \in Warehouses :
        /\ Rented(w)' = Rented(w) /\ Registered(w)' = Registered(w)
        /\ Active(w)' \subseteq Active(w)
  BY <1>1, <1>2, <1>3 DEF Progress, Rented, Registered, Active
<1>5. UNCHANGED <<req, left, fallback>>
  BY DEF Progress
<1>6. Fitting' /\ Housed' /\ AllBacked'
  BY <1>4, <1>5, RowsKept DEF AllBacked
<1>7. AllMoving'
  <2> SUFFICES ASSUME NEW r \in Requests, NEW w \in Warehouses PROVE Moving(r, w)'
    BY DEF AllMoving
  <2>1. Moving(r, w)
    BY DEF Kept, AllMoving
  <2>. QED BY <1>4, <1>5, <2>1 DEF Moving
<1>. QED BY <1>6, <1>7 DEF Kept

(* Goods that join others take at most their own volume more.              *)
LEMMA Joined ==
  ASSUME NEW w, NEW T \in SUBSET Goods, Active(w)' \subseteq Active(w) \cup T
  PROVE  Used(w)' <= Used(w) + Total(Volume, T) /\ Total(Volume, T) \in Nat
<1>1. Active(w) \in SUBSET Goods /\ Active(w)' \in SUBSET Goods
  BY DEF Active, Registered
<1>2. Used(w) = Total(Volume, Active(w)) /\ Used(w)' = Total(Volume, Active(w)')
  BY DEF Used, Load, Total
<1>3. Total(Volume, Active(w)') <= Total(Volume, Active(w) \cup T)
  BY <1>1, Totals, TotalMonotone
<1>4. Total(Volume, Active(w) \cup T) <= Total(Volume, Active(w)) + Total(Volume, T)
  BY <1>1, Totals, TotalUnion
<1>5. /\ Total(Volume, T) \in Nat /\ Total(Volume, Active(w)) \in Nat
      /\ Total(Volume, Active(w)') \in Nat /\ Total(Volume, Active(w) \cup T) \in Nat
  BY <1>1, Totals, TotalTyped
<1>. QED BY <1>2, <1>3, <1>4, <1>5

LEMMA CommitRegisterKept ==
  ASSUME NEW r \in Requests, RentalInv, Kept, ~mixed', mixed' = (mixed \/ Mixing'),
         CommitRegister(r)
  PROVE  Kept'
<1>1. TypeOK /\ OneHolder
  BY DEF RentalInv
<1>2. /\ Finish(r) /\ UNCHANGED <<site, left, fallback>>
      /\ req[r].op = "register" /\ req[r].stage = "commit"
  BY DEF CommitRegister
<1>3. /\ \A s \in Requests \ {r} : req'[s] = req[s]
      /\ \A w : Backed(r, w)' /\ Moving(r, w)'
  BY <1>1, <1>2, FinishStep
<1>4. req[r] # Idle
  BY <1>2, StatesTyped
<1>5. req[r] \in RegisterState
  BY <1>1, <1>2, StatesTyped DEF TypeOK
<1>6. PICK g \in Goods, v \in Warehouses : g = req[r].item /\ v = req[r].site
  BY <1>5 DEF RegisterState
<1>7. home[g] = None /\ home' = [home EXCEPT ![g] = v]
      /\ \A h \in Goods \ {g} : goods'[h] = goods[h]
  BY <1>1, <1>6 DEF CommitRegister, TypeOK
<1>8. \A w \in Warehouses : Rented(w)' = Rented(w)
  BY <1>2 DEF Rented
<1>9. /\ Active(v)' \subseteq Active(v) \cup {g}
      /\ \A w \in Warehouses \ {v} :
           Active(w)' = Active(w) /\ Registered(w)' = Registered(w)
  BY <1>1, <1>7, RowsAssumption DEF Active, Registered, TypeOK
<1>10. Open' = Open
  BY <1>2 DEF Open
<1>11. ASSUME v \in Open
       PROVE  Used(v) + Volume[g] <= Hired(v) /\ Volume[g] \in Nat /\ 1 <= Volume[g]
  <2>1. Backed(r, v)
    BY <1>11 DEF Kept, AllBacked
  <2>. QED BY <1>2, <1>6, <2>1, Totals, TotalOne DEF Backed
<1>12. Fitting'
  <2> SUFFICES ASSUME NEW w \in Open PROVE Used(w)' <= Hired(w)'
    BY <1>10 DEF Fitting
  <2>1. Hired(w)' = Hired(w)
    BY <1>8 DEF Hired, Open, Rent
  <2>2. CASE w = v
    <3>1. Used(v)' <= Used(v) + Volume[g]
      BY <1>9, Joined, Totals, TotalOne
    <3>. QED BY <1>11, <2>1, <2>2, <3>1, Measured
  <2>3. CASE w # v
    <3>1. Used(w)' <= Used(w) /\ Used(w) <= Hired(w)
      BY <1>9, <2>3, Measured DEF Open, Kept, Fitting
    <3>. QED BY <2>1, <3>1, Measured
  <2>. QED BY <2>2, <2>3
<1>13. Housed'
  <2> SUFFICES ASSUME NEW w \in Open, Registered(w)' # {} PROVE Rented(w) # {}
    BY <1>8, <1>10 DEF Housed, Open
  <2>1. CASE w = v
    BY <1>11, <2>1, Measured
  <2>2. CASE w # v
    BY <1>9, <2>2 DEF Kept, Housed, Open
  <2>. QED BY <2>1, <2>2
<1>14. AllBacked'
  <2> SUFFICES ASSUME NEW s \in Requests \ {r}, NEW w \in Open' PROVE Backed(s, w)'
    BY <1>3 DEF AllBacked
  <2>1. HoldsCustomer(r) /\ ~HoldsCustomer(s)
    BY <1>1, <1>2 DEF OneHolder, HoldsCustomer
  <2>. QED BY <1>3, <2>1 DEF HoldsCustomer, Backed
<1>15. AllMoving'
  <2>1. \A s \in Requests \ {r} : req'[s].op # "change"
    BY <1>1, <1>3, <1>4, NoOtherChange DEF RentalInv
  <2>. QED BY <1>3, <2>1 DEF AllMoving, Moving
<1>. QED BY <1>12, <1>13, <1>14, <1>15 DEF Kept

LEMMA CommitChangeKept ==
  ASSUME NEW r \in Requests, RentalInv, Kept, ~mixed', mixed' = (mixed \/ Mixing'),
         CommitChange(r)
  PROVE  Kept'
<1>1. TypeOK
  BY DEF RentalInv
<1>2. /\ Finish(r) /\ UNCHANGED <<goods, fallback>>
      /\ req[r].op = "change" /\ req[r].stage = "tx"
  BY DEF CommitChange
<1>3. req[r] # Idle /\ req[r] \in ChangeState
  BY <1>1, <1>2, StatesTyped DEF TypeOK
<1>4. \A s \in Requests : req'[s] = Idle
  BY <1>1, <1>2, <1>3, FinishStep, NoOtherChange DEF RentalInv
<1>5. AllBacked' /\ AllMoving'
  BY <1>4, StatesTyped DEF AllBacked, AllMoving, Backed, Moving
<1>6. PICK from \in Warehouses, to \in Warehouses :
        from = req[r].from /\ to = req[r].site
  BY <1>3 DEF ChangeState
<1>7. PICK T \in SUBSET Goods, C \in SUBSET Contracts :
        T = req[r].items /\ C = req[r].contracts
  BY <1>3 DEF ChangeState
<1>8. from # to /\ T \subseteq Registered(from) /\ C = Rented(from)
  <2>1. Moving(r, from)
    BY DEF Kept, AllMoving
  <2>. QED BY <1>2, <1>6, <1>7, <2>1 DEF Moving
<1>9. /\ home' = [g \in Goods |-> IF g \in T THEN to ELSE home[g]]
      /\ site' = [c \in Contracts |-> IF c \in C THEN to ELSE site[c]]
  BY <1>6, <1>7 DEF CommitChange
<1>10. /\ Open' \subseteq Open /\ from \notin Open'
       /\ to \in Open' => from \in Open
  BY <1>6 DEF CommitChange, Open
<1>11. /\ Rented(to)' = Rented(to) \cup Rented(from)
       /\ Rented(to) \cap Rented(from) = {}
       /\ Registered(to)' = Registered(to) \cup T
       /\ Active(to)' \subseteq Active(to) \cup Active(from)
  <2>1. Rented(to)' = Rented(to) \cup Rented(from)
    BY <1>8, <1>9 DEF Rented
  <2>2. Rented(to) \cap Rented(from) = {}
    BY <1>8 DEF Rented
  <2>3. Registered(to)' = Registered(to) \cup T
    BY <1>8, <1>9 DEF Registered
  <2>4. Active(to)' \subseteq Active(to) \cup Active(from)
    BY <1>2, <1>8, <2>3 DEF Active
  <2>. QED BY <2>1, <2>2, <2>3, <2>4
<1>12. \A w \in Warehouses \ {from, to} :
         /\ Rented(w)' = Rented(w) /\ Registered(w)' = Registered(w)
         /\ Active(w)' = Active(w)
  BY <1>2, <1>8, <1>9 DEF Rented, Registered, Active
<1>13. Fitting'
  <2> SUFFICES ASSUME NEW w \in Open' PROVE Used(w)' <= Hired(w)'
    BY DEF Fitting
  <2>1. CASE w = to
    <3>1. Used(to) <= Hired(to) /\ Used(from) <= Hired(from)
      BY <1>10, <2>1 DEF Kept, Fitting
    <3>2. Used(to)' <= Used(to) + Used(from)
      <4>1. Active(from) \in SUBSET Goods
        BY DEF Active, Registered
      <4>2. Used(from) = Total(Volume, Active(from))
        BY DEF Used, Load, Total
      <4>. QED BY <1>11, <4>1, <4>2, Joined
    <3>3. Hired(to)' = Hired(to) + Hired(from)
      <4>1. Rented(to) \in SUBSET Contracts /\ Rented(from) \in SUBSET Contracts
        BY DEF Rented
      <4>2. /\ Hired(to) = Total(Space, Rented(to))
            /\ Hired(from) = Total(Space, Rented(from))
            /\ Hired(to)' = Total(Space, Rented(to)')
        BY DEF Hired, Rent, Total
      <4>3. Total(Space, Rented(to) \cup Rented(from))
              = Total(Space, Rented(to)) + Total(Space, Rented(from))
        BY <1>11, <4>1, Totals, TotalUnion
      <4>. QED BY <1>11, <4>2, <4>3
    <3>4. /\ Used(to) \in Nat /\ Used(from) \in Nat /\ Used(to)' \in Nat
          /\ Hired(to) \in Nat /\ Hired(from) \in Nat /\ Hired(to)' \in Nat
      BY Measured
    <3>5. Used(to)' <= Hired(to)'
      BY <3>1, <3>2, <3>3, <3>4
    <3>. QED BY <2>1, <3>5
  <2>2. CASE w # to
    <3>1. Used(w) <= Hired(w) /\ w \in Warehouses \ {from, to}
      BY <1>10, <2>2 DEF Kept, Fitting, Open
    <3>2. Used(w)' <= Used(w) /\ Hired(w) <= Hired(w)'
      BY <1>12, <3>1, Measured
    <3>. QED BY <3>1, <3>2, Measured
  <2>. QED BY <2>1, <2>2
<1>14. Housed'
  <2> SUFFICES ASSUME NEW w \in Open', Registered(w)' # {} PROVE Rented(w)' # {}
    BY DEF Housed
  <2>1. CASE w = to
    <3>1. Registered(to) # {} \/ Registered(from) # {}
      BY <1>8, <1>11, <2>1
    <3>2. Rented(to) # {} \/ Rented(from) # {}
      BY <1>10, <2>1, <3>1 DEF Kept, Housed
    <3>. QED BY <1>11, <2>1, <3>2
  <2>2. CASE w # to
    BY <1>10, <1>12, <2>2 DEF Kept, Housed, Open
  <2>. QED BY <2>1, <2>2
<1>. QED BY <1>5, <1>13, <1>14 DEF Kept

LEMMA HolderKept ==
  ASSUME NEW r \in Requests, TypeOK, OneHolder,
         Handle(r)
  PROVE  OneHolder'
<1>1. ASSUME Finish(r) PROVE OneHolder'
  BY <1>1, FinishStep, OneHolderStep
<1>2. ASSUME NEW q, Advance(r, q), q.op = "register" => q.stage = "counted"
      PROVE  OneHolder'
  <2>1. req'[r] = q /\ \A s \in Requests \ {r} : req'[s] = req[s]
    BY <1>2, Advanced DEF TypeOK
  <2>. QED BY <1>2, <2>1, OneHolderStep DEF HoldsCustomer
<1>3. ASSUME NEW q, Advance(r, q), HoldsCustomer(r) \/ CustomerFree(r)
      PROVE  OneHolder'
  <2>1. \A s \in Requests \ {r} : req'[s] = req[s]
    BY <1>3, Advanced DEF TypeOK
  <2>. QED BY <1>3, <2>1, OneHolderStep
<1>4. CASE BeginRent(r) \/ BeginRegister(r) \/ BeginChange(r)
  <2>1. \E q : Advance(r, q) /\ (q.op = "register" => q.stage = "counted")
    BY <1>4, BeginStep, StatesTyped
  <2>. QED BY <1>2, <2>1
<1>5. CASE LockCustomer(r)
  <2>1. CustomerFree(r)
    BY <1>5 DEF LockCustomer
  <2>. QED BY <1>3, <1>5, <2>1, LockStep
<1>6. CASE FallBack(r) \/ CheckSpace(r)
  <2>1. HoldsCustomer(r)
    BY <1>6 DEF FallBack, CheckSpace, HoldsCustomer
  <2>2. Finish(r) \/ \E q : Advance(r, q)
    BY <1>6, FallBackStep, CheckStep
  <2>. QED BY <1>1, <1>3, <2>1, <2>2
<1>7. CASE ReadContracts(r)
  <2>1. Finish(r) \/ \E q : Advance(r, q) /\ q.op = "change"
    BY <1>7, ReadStep, StatesTyped
  <2>. QED BY <1>1, <1>2, <2>1
<1>8. CASE CommitRegister(r) \/ CommitChange(r) \/ Abort(r)
             \/ \E c \in Contracts : CommitRent(r, c)
  BY <1>1, <1>8 DEF CommitRegister, CommitChange, Abort, CommitRent
<1>. QED BY <1>4, <1>5, <1>6, <1>7, <1>8 DEF Handle

LEMMA InitKept == Init => RentalInv
<1> SUFFICES ASSUME Init PROVE RentalInv
  OBVIOUS
<1>1. TypeOK
  BY StatesTyped DEF Init, TypeOK, GoodsStatus
<1>2. \A r \in Requests : req[r] = Idle /\ req[r].op = "idle"
  BY StatesTyped DEF Init
<1>3. \A w \in Warehouses : Rented(w) = {} /\ Registered(w) = {} /\ Active(w) = {}
  BY RowsAssumption DEF Init, Rented, Registered, Active
<1>4. Alone /\ OneHolder
  BY <1>2 DEF Alone, Mixing, OneHolder, HoldsCustomer
<1>5. Fitting
  <2> SUFFICES ASSUME NEW w \in Open PROVE Used(w) <= Hired(w)
    BY DEF Fitting
  <2>1. Used(w) = 0
    BY <1>3, Totals, TotalZero DEF Used, Load, Total, Open
  <2>. QED BY <2>1, Measured
<1>6. Housed /\ AllBacked /\ AllMoving
  BY <1>2, <1>3 DEF Housed, AllBacked, AllMoving, Backed, Moving, Open
<1>. QED BY <1>1, <1>4, <1>5, <1>6 DEF RentalInv, Kept

LEMMA NextKept ==
  ASSUME RentalInv, TypeOK', [Next]_vars
  PROVE  RentalInv'
<1>1. CASE UNCHANGED vars
  <2>1. UNCHANGED <<tables, req, left, fallback, mixed>>
    BY <1>1 DEF vars, tables
  <2>2. Alone' /\ OneHolder'
    BY <2>1 DEF RentalInv, Alone, Mixing, OneHolder, HoldsCustomer
  <2>3. ASSUME Kept PROVE Kept'
    <3>1. \A w : /\ Rented(w)' = Rented(w) /\ Registered(w)' = Registered(w)
                 /\ Active(w)' = Active(w)
      BY <2>1, SameRows
    <3>2. Fitting' /\ Housed' /\ AllBacked'
      BY <2>1, <2>3, <3>1, RowsKept DEF AllBacked
    <3>3. AllMoving'
      <4> SUFFICES ASSUME NEW r \in Requests, NEW w \in Warehouses PROVE Moving(r, w)'
        BY DEF AllMoving
      <4>1. Moving(r, w)
        BY <2>3 DEF Kept, AllMoving
      <4>. QED BY <2>1, <3>1, <4>1 DEF Moving
    <3>. QED BY <3>2, <3>3 DEF Kept
  <2>. QED BY <2>1, <2>2, <2>3 DEF RentalInv
<1>2. CASE Next
  <2>1. mixed' = (mixed \/ Mixing') /\ TypeOK /\ OneHolder
    BY <1>2 DEF Next, RentalInv
  <2>2. Alone'
    BY <2>1 DEF Alone
  <2>3. OneHolder'
    <3>1. CASE \E r \in Requests : Handle(r)
      BY <2>1, <3>1, HolderKept
    <3>2. CASE \E g \in Goods : Progress(g)
      <4>1. UNCHANGED req
        BY <3>2 DEF Progress
      <4>. QED BY <2>1, <4>1 DEF OneHolder, HoldsCustomer
    <3>. QED BY <1>2, <3>1, <3>2 DEF Next, Step
  <2>4. ASSUME ~mixed' PROVE Kept'
    <3>1. Kept
      BY <2>1, <2>4 DEF RentalInv
    <3>2. CASE \E g \in Goods : Progress(g)
      BY <3>1, <3>2, ProgressKept
    <3>3. ASSUME NEW r \in Requests, Handle(r) PROVE Kept'
      <4>1. CASE Reads(r)
        BY <2>1, <2>4, <3>1, <4>1, ReadsKept
      <4>2. CASE \E c \in Contracts : CommitRent(r, c)
        BY <2>1, <2>4, <3>1, <4>2, CommitRentKept
      <4>3. CASE CommitRegister(r)
        BY <2>1, <2>4, <3>1, <4>3, CommitRegisterKept
      <4>4. CASE CommitChange(r)
        BY <2>1, <2>4, <3>1, <4>4, CommitChangeKept
      <4>. QED BY <3>3, <4>1, <4>2, <4>3, <4>4 DEF Handle, Reads
    <3>. QED BY <1>2, <3>2, <3>3 DEF Next, Step
  <2>. QED BY <2>2, <2>3, <2>4 DEF RentalInv
<1>. QED BY <1>1, <1>2

LEMMA RentalInvariant == Spec => []RentalInv
<1>1. RentalInv /\ TypeOK' /\ [Next]_vars => RentalInv'
  BY NextKept
<1>. QED BY InitKept, <1>1, RentalTyped, PTL DEF Spec

(* The goods at a warehouse fit the space rented there, whatever           *)
(* registrations, rentals and goods that move along interleave, and also   *)
(* after a change of warehouse that overlapped no request.                 *)
THEOREM AlwaysWithinContract == Spec => []WithinContract
<1>1. RentalInv => WithinContract
  BY DEF RentalInv, Kept, Fitting, Used, Hired, Open, WithinContract
<1>. QED BY <1>1, RentalInvariant, PTL

(***************************************************************************)
(* Where the default allocation is used.  A registration that found nothing*)
(* rented at a warehouse in question finds no goods there either (Housed), *)
(* so that a customer is refused.                                          *)
(***************************************************************************)
RolesHeld == \A r \in Requests : req[r].op = "register" => req[r].role \in Roles

LEMMA RolesStep ==
  ASSUME TypeOK, RolesHeld, NEW r \in Requests, Handle(r)
  PROVE  RolesHeld'
<1>1. ASSUME NEW q, Advance(r, q),
             q.op = "register" =>
               q.role \in Roles \/ (req[r].op = "register" /\ q.role = req[r].role)
      PROVE  RolesHeld'
  <2>1. req'[r] = q /\ \A s \in Requests \ {r} : req'[s] = req[s]
    BY <1>1, Advanced DEF TypeOK
  <2>. QED BY <1>1, <2>1 DEF RolesHeld
<1>2. ASSUME Finish(r) PROVE RolesHeld'
  BY <1>1, <1>2, StatesTyped DEF Finish
<1>3. CASE BeginRent(r) \/ BeginRegister(r) \/ BeginChange(r)
  <2>1. \E q : Advance(r, q) /\ (q.op = "register" => q.role \in Roles)
    BY <1>3, BeginStep, StatesTyped
  <2>. QED BY <1>1, <2>1
<1>4. CASE LockCustomer(r) \/ FallBack(r) \/ CheckSpace(r)
  <2>1. req[r].op = "register"
    BY <1>4 DEF LockCustomer, FallBack, CheckSpace
  <2>2. Finish(r) \/ \E q : Advance(r, q) /\ q.role = req[r].role
    BY <1>4, LockStep, FallBackStep, CheckStep
  <2>. QED BY <1>1, <1>2, <2>1, <2>2
<1>5. CASE ReadContracts(r)
  <2>1. Finish(r) \/ \E q : Advance(r, q) /\ q.op = "change"
    BY <1>5, ReadStep, StatesTyped
  <2>. QED BY <1>1, <1>2, <2>1
<1>6. CASE CommitRegister(r) \/ CommitChange(r) \/ Abort(r)
             \/ \E c \in Contracts : CommitRent(r, c)
  BY <1>2, <1>6 DEF CommitRegister, CommitChange, Abort, CommitRent
<1>. QED BY <1>3, <1>4, <1>5, <1>6 DEF Handle

LEMMA FallBackWhereLeft ==
  ASSUME RentalInv, Kept, Roles = {"CUSTOMER"}, RolesHeld, fallback \subseteq left,
         NEW r \in Requests, FallBack(r)
  PROVE  fallback' \subseteq left'
<1>1. TypeOK /\ UNCHANGED left
  BY DEF RentalInv, FallBack
<1>2. CASE UNCHANGED fallback
  BY <1>1, <1>2
<1>3. CASE MayFallBack(req[r]) /\ fallback' = fallback \cup {req[r].site}
  <2>1. req[r] \in RegisterState /\ req[r].stage = "legacy"
    BY <1>1, FallBackStep
  <2>2. req[r].op = "register" /\ req[r].role = "CUSTOMER" /\ req[r].site \in Warehouses
    BY <2>1, StatesTyped DEF RolesHeld, RegisterState
  <2>3. PICK w \in Warehouses : w = req[r].site
    BY <2>2
  <2>4. Registered(w) # {}
    BY <1>3, <2>2, <2>3 DEF MayFallBack
  <2>5. w \notin Open
    BY <2>1, <2>2, <2>3, <2>4 DEF Kept, AllBacked, Backed
  <2>. QED BY <1>1, <1>3, <2>3, <2>5 DEF Open
<1>. QED BY <1>1, <1>2, <1>3, FallBackStep

LEMMA OnlyFallBack ==
  ASSUME Next, ~\E r \in Requests : FallBack(r)
  PROVE  UNCHANGED fallback /\ left \subseteq left'
<1>1. CASE \E r \in Requests : CommitChange(r)
  BY <1>1 DEF CommitChange
<1>2. CASE ~\E r \in Requests : CommitChange(r)
  BY <1>2 DEF Next, Step, Handle, BeginRent, BeginRegister, LockCustomer, CheckSpace,
              CommitRegister, BeginChange, ReadContracts, Abort, CommitRent, Progress
<1>. QED BY <1>1, <1>2

LEMMA FallbackNext ==
  ASSUME RentalInv, RentalInv', [Next]_vars, Roles = {"CUSTOMER"}, RolesHeld,
         FallbackOnlyWhereLeft
  PROVE  RolesHeld' /\ FallbackOnlyWhereLeft'
<1>1. CASE UNCHANGED vars
  BY <1>1 DEF vars, RolesHeld, FallbackOnlyWhereLeft
<1>2. CASE Next
  <2>1. TypeOK /\ mixed' = (mixed \/ Mixing')
    BY <1>2 DEF Next, RentalInv
  <2>2. RolesHeld'
    <3>1. CASE \E r \in Requests : Handle(r)
      BY <2>1, <3>1, RolesStep
    <3>2. CASE \E g \in Goods : Progress(g)
      <4>1. UNCHANGED req
        BY <3>2 DEF Progress
      <4>. QED BY <4>1 DEF RolesHeld
    <3>. QED BY <1>2, <3>1, <3>2 DEF Next, Step
  <2>3. ASSUME ~mixed' PROVE fallback' \subseteq left'
    <3>1. Kept /\ fallback \subseteq left
      BY <2>1, <2>3 DEF RentalInv, FallbackOnlyWhereLeft
    <3>2. CASE \E r \in Requests : FallBack(r)
      BY <3>1, <3>2, FallBackWhereLeft
    <3>3. CASE ~\E r \in Requests : FallBack(r)
      BY <1>2, <3>1, <3>3, OnlyFallBack
    <3>. QED BY <3>2, <3>3
  <2>. QED BY <2>2, <2>3 DEF FallbackOnlyWhereLeft
<1>. QED BY <1>1, <1>2

(* Where every client is a customer, nobody gets the default allocation but*)
(* at a warehouse rentals were moved away from: a customer without a rental*)
(* has no goods there to pass for a legacy record.                         *)
THEOREM FallbackStaysWhereLeft ==
  ASSUME Roles = {"CUSTOMER"}
  PROVE  Spec => []FallbackOnlyWhereLeft
<1>1. Init => RolesHeld /\ FallbackOnlyWhereLeft
  BY StatesTyped DEF Init, RolesHeld, FallbackOnlyWhereLeft
<1>2. RentalInv /\ RentalInv' /\ [Next]_vars /\ RolesHeld /\ FallbackOnlyWhereLeft
        => RolesHeld' /\ FallbackOnlyWhereLeft'
  BY FallbackNext
<1>. QED BY <1>1, <1>2, RentalInvariant, PTL DEF Spec
=============================================================================
