---------------------------- MODULE PutAwayProofs ----------------------------
(***************************************************************************)
(* Proofs about PutAway, for any goods, slots, warehouses, customers and   *)
(* requests: types, where STORED goods are, how far the rounding and       *)
(* requests in flight together overfill a slot, and that the sums kept     *)
(* beside the goods are the rounded stored volume where no two requests    *)
(* met and the dock took nothing.                                          *)
(***************************************************************************)
EXTENDS PutAway, FiniteSetTheorems, SequenceTheorems, TLAPS

(***************************************************************************)
(* Loads                                                                   *)
(***************************************************************************)
LEMMA LoadTyped ==
  ASSUME NEW S \in SUBSET Goods, NEW m \in Measures
  PROVE  /\ IsFiniteSet(Pieces(S, m)) /\ Load(S, m) \in Nat
         /\ Load(S, m) <= Cardinality(S) * Largest
<1>1. IsFiniteSet(S) /\ IsFiniteSet(1 .. Largest) /\ Cardinality(1 .. Largest) = Largest
  <2>1. Largest \in Nat /\ Largest - 1 + 1 = Largest /\ (1 > Largest => Largest = 0)
    BY ItemsAssumption
  <2>2. IsFiniteSet(S)
    BY ItemsAssumption, FS_Subset
  <2>. QED BY <2>1, <2>2, FS_Interval
<1>2. /\ IsFiniteSet(S \X (1 .. Largest))
      /\ Cardinality(S \X (1 .. Largest)) = Cardinality(S) * Largest
  BY <1>1, FS_Product
<1>3. Pieces(S, m) \subseteq S \X (1 .. Largest)
  BY DEF Pieces
<1>4. IsFiniteSet(Pieces(S, m))
      /\ Cardinality(Pieces(S, m)) <= Cardinality(S \X (1 .. Largest))
  BY <1>2, <1>3, FS_Subset
<1>. QED BY <1>2, <1>4, FS_CardinalityType DEF Load

LEMMA LoadMonotone ==
  ASSUME NEW S, NEW T \in SUBSET Goods, S \subseteq T, NEW m \in Measures
  PROVE  Load(S, m) <= Load(T, m)
<1>1. Pieces(S, m) \subseteq Pieces(T, m)
  BY DEF Pieces
<1>. QED BY <1>1, LoadTyped, FS_Subset DEF Load

LEMMA LoadUnion ==
  ASSUME NEW S \in SUBSET Goods, NEW T \in SUBSET Goods, NEW m \in Measures
  PROVE  Load(S \cup T, m) <= Load(S, m) + Load(T, m)
<1>1. Pieces(S \cup T, m) = Pieces(S, m) \cup Pieces(T, m)
  BY DEF Pieces
<1>2. Cardinality(Pieces(S, m) \cap Pieces(T, m)) \in Nat
  <2>1. IsFiniteSet(Pieces(S, m) \cap Pieces(T, m))
    BY LoadTyped, FS_Intersection
  <2>. QED BY <2>1, FS_CardinalityType
<1>3. Cardinality(Pieces(S, m) \cup Pieces(T, m)) =
        Cardinality(Pieces(S, m)) + Cardinality(Pieces(T, m))
          - Cardinality(Pieces(S, m) \cap Pieces(T, m))
  BY LoadTyped, FS_Union
<1>4. Cardinality(Pieces(S, m)) \in Nat /\ Cardinality(Pieces(T, m)) \in Nat
  BY LoadTyped DEF Load
<1> DEFINE a == Cardinality(Pieces(S, m))
           b == Cardinality(Pieces(T, m))
           c == Cardinality(Pieces(S, m) \cap Pieces(T, m))
           d == Cardinality(Pieces(S, m) \cup Pieces(T, m))
<1>5. a \in Nat /\ b \in Nat /\ c \in Nat /\ d = a + b - c
  BY <1>2, <1>3, <1>4
<1>6. Load(S \cup T, m) = d /\ Load(S, m) = a /\ Load(T, m) = b
  BY <1>1 DEF Load
<1> HIDE DEF a, b, c, d
<1>. QED BY <1>5, <1>6

LEMMA LoadOne ==
  ASSUME NEW g \in Goods, NEW m \in Measures
  PROVE  Load({g}, m) = Size[g][m] /\ Size[g][m] \in 0 .. Largest
<1>1. Size[g][m] \in 0 .. Largest /\ Largest \in Nat
  BY ItemsAssumption
<1>2. Pieces({g}, m) = {g} \X (1 .. Size[g][m])
  <2>1. \A i \in 1 .. Largest : i <= Size[g][m] <=> i \in 1 .. Size[g][m]
    BY <1>1
  <2>2. 1 .. Size[g][m] \subseteq 1 .. Largest
    BY <1>1
  <2>. QED BY <2>1, <2>2 DEF Pieces
<1>3. Cardinality({g}) = 1 /\ IsFiniteSet({g})
  BY FS_Singleton
<1> DEFINE n == Size[g][m]
<1>4. n \in Nat /\ n - 1 + 1 = n /\ 1 * n = n /\ (1 > n => n = 0)
  BY <1>1
<1> HIDE DEF n
<1>5. Cardinality(1 .. n) = n /\ IsFiniteSet(1 .. n)
  BY <1>4, FS_Interval
<1>6. Cardinality({g} \X (1 .. n)) = 1 * n
  <2>1. Cardinality({g} \X (1 .. n)) = Cardinality({g}) * Cardinality(1 .. n)
    BY <1>3, <1>5, FS_Product
  <2>. QED BY <1>3, <1>5, <2>1
<1>. QED BY <1>1, <1>2, <1>4, <1>6 DEF Load, n

LEMMA LoadNothing ==
  ASSUME NEW m
  PROVE  Load({}, m) = 0
<1>1. Pieces({}, m) = {}
  BY DEF Pieces
<1>. QED BY <1>1, FS_EmptySet DEF Load

LEMMA RoundedTyped ==
  ASSUME NEW n \in Int, NEW m \in Measures, NEW k \in Rounded(n, m)
  PROVE  k \in Int /\ 2 * (k - n) <= Grain[m] /\ Grain[m] \in Nat
<1>1. Grain[m] \in Nat
  BY ItemsAssumption
<1>. QED BY <1>1 DEF Rounded

LEMMA RoundedNothing ==
  ASSUME NEW m \in Measures
  PROVE  0 \in Rounded(0, m)
<1>1. Grain[m] \in Nat \ {0}
  BY ItemsAssumption
<1>2. 0 \in 0 - Grain[m] .. 0 + Grain[m] /\ 2 * (0 - 0) <= Grain[m]
  BY <1>1
<1>3. 0 % Grain[m] = 0
  BY <1>1
<1>. QED BY <1>2, <1>3 DEF Rounded

(***************************************************************************)
(* The rows a writer recalculates                                          *)
(***************************************************************************)
LEMMA ConcatNonEmpty ==
  ASSUME NEW S, NEW s \in Seq(S), NEW t \in Seq(S), t # <<>>
  PROVE  s \o t \in Seq(S) /\ s \o t # <<>>
BY ConcatProperties, ConcatEqualIffEmpty

LEMMA RecountTyped ==
  ASSUME NEW first \in Slots \cup {None}, NEW second \in Slots \cup {None},
         NEW site \in Warehouses
  PROVE  /\ Recount(first, second, site) \in Seq(Rows)
         /\ Recount(first, second, site) # <<>>
<1> DEFINE a == IF first = None THEN <<>> ELSE <<first>>
           b == IF second \in {None, first} THEN <<>> ELSE <<second>>
<1>1. a \in Seq(Rows) /\ b \in Seq(Rows) /\ <<site>> \in Seq(Rows) /\ <<site>> # <<>>
  <2>1. \A x \in Rows : <<x>> \in Seq(Rows) /\ <<x>> # <<>>
    OBVIOUS
  <2>2. <<>> \in Seq(Rows)
    OBVIOUS
  <2>3. site \in Rows /\ (first # None => first \in Rows)
        /\ (second # None => second \in Rows)
    BY DEF Rows
  <2>4. a = <<>> \/ (first # None /\ a = <<first>>)
    OBVIOUS
  <2>5. b = <<>> \/ (second # None /\ b = <<second>>)
    OBVIOUS
  <2> HIDE DEF a, b
  <2>. QED BY <2>1, <2>2, <2>3, <2>4, <2>5
<1>2. a \o b \in Seq(Rows)
  BY <1>1, ConcatProperties
<1>3. Recount(first, second, site) = a \o b \o <<site>>
  BY DEF Recount
<1> HIDE DEF a, b
<1>. QED BY <1>1, <1>2, <1>3, ConcatNonEmpty

LEMMA OrderingTyped ==
  ASSUME NEW S, IsFiniteSet(S), NEW f \in Orderings(S)
  PROVE  f \in Seq(S) /\ (S # {} => f # <<>>)
<1>1. Cardinality(S) \in Nat /\ (S # {} => Cardinality(S) # 0)
  <2>1. Cardinality(S) \in Nat
    BY FS_CardinalityType
  <2>2. Cardinality(S) = 0 <=> S = {}
    BY FS_EmptySet
  <2>. QED BY <2>1, <2>2
<1>2. f \in [1 .. Cardinality(S) -> S]
  BY DEF Orderings
<1>3. f \in Seq(S) /\ Len(f) = Cardinality(S)
  BY <1>1, <1>2
<1>. QED BY <1>1, <1>3, EmptySeq

Members(s) == {s[i] : i \in 1 .. Len(s)}

LEMMA MembersNext ==
  ASSUME NEW s \in Seq(Rows), s # <<>>
  PROVE  /\ Members(s) = {Head(s)} \cup Members(Tail(s))
         /\ Len(s) = 1 => Tail(s) = <<>>
<1>1. /\ Len(s) \in Nat \ {0} /\ Len(Tail(s)) = Len(s) - 1 /\ Tail(s) \in Seq(Rows)
      /\ \A i \in 1 .. Len(Tail(s)) : Tail(s)[i] = s[i + 1]
  BY HeadTailProperties, EmptySeq
<1>2. Head(s) = s[1]
  OBVIOUS
<1>3. ASSUME NEW i \in 1 .. Len(s), i # 1
      PROVE  \E j \in 1 .. Len(Tail(s)) : Tail(s)[j] = s[i]
  <2>1. i - 1 \in 1 .. Len(Tail(s)) /\ (i - 1) + 1 = i
    BY <1>1, <1>3
  <2>. QED BY <1>1, <2>1
<1>4. ASSUME NEW i \in 1 .. Len(Tail(s))
      PROVE  \E j \in 1 .. Len(s) : s[j] = Tail(s)[i]
  <2>1. i + 1 \in 1 .. Len(s)
    BY <1>1
  <2>. QED BY <1>1, <2>1
<1>5. 1 \in 1 .. Len(s)
  BY <1>1
<1>6. Len(s) = 1 => Tail(s) = <<>>
  <2>1. Tail(s) # <<>> => Len(Tail(s)) \in Nat \ {0}
    BY <1>1, EmptySeq
  <2>. QED BY <1>1, <2>1
<1> DEFINE A == {s[i] : i \in 1 .. Len(s)}
           B == {Tail(s)[i] : i \in 1 .. Len(Tail(s))}
<1>7. A \subseteq {Head(s)} \cup B
  BY <1>2, <1>3
<1>8. B \subseteq A /\ Head(s) \in A
  BY <1>2, <1>4, <1>5
<1>. QED BY <1>6, <1>7, <1>8 DEF Members

LEMMA ConcatMembers ==
  ASSUME NEW s \in Seq(Rows), NEW t \in Seq(Rows)
  PROVE  Members(s \o t) = Members(s) \cup Members(t)
<1> DEFINE u == s \o t
<1>1. /\ Len(s) \in Nat /\ Len(t) \in Nat /\ Len(u) = Len(s) + Len(t)
      /\ \A i \in 1 .. Len(s) + Len(t) :
           u[i] = IF i <= Len(s) THEN s[i] ELSE t[i - Len(s)]
  BY ConcatProperties, LenProperties
<1> HIDE DEF u
<1>2. ASSUME NEW i \in 1 .. Len(u) PROVE u[i] \in Members(s) \cup Members(t)
  <2>1. CASE i <= Len(s)
    <3>1. i \in 1 .. Len(s) /\ u[i] = s[i]
      BY <1>1, <2>1
    <3>. QED BY <3>1 DEF Members
  <2>2. CASE ~(i <= Len(s))
    <3>1. i - Len(s) \in 1 .. Len(t) /\ u[i] = t[i - Len(s)]
      BY <1>1, <2>2
    <3>. QED BY <3>1 DEF Members
  <2>. QED BY <2>1, <2>2
<1>3. ASSUME NEW i \in 1 .. Len(s) PROVE s[i] \in Members(u)
  <2>1. i \in 1 .. Len(u) /\ u[i] = s[i]
    BY <1>1
  <2>. QED BY <2>1 DEF Members
<1>4. ASSUME NEW i \in 1 .. Len(t) PROVE t[i] \in Members(u)
  <2>1. i + Len(s) \in 1 .. Len(u) /\ u[i + Len(s)] = t[i]
    BY <1>1
  <2>. QED BY <2>1 DEF Members
<1>5. Members(u) \subseteq Members(s) \cup Members(t)
  BY <1>2 DEF Members
<1>6. Members(s) \subseteq Members(u) /\ Members(t) \subseteq Members(u)
  BY <1>3, <1>4 DEF Members
<1>. QED BY <1>5, <1>6 DEF u

LEMMA RecountMembers ==
  ASSUME NEW first \in Slots \cup {None}, NEW second \in Slots \cup {None},
         NEW site \in Warehouses
  PROVE  Members(Recount(first, second, site)) = ({first, second} \ {None}) \cup {site}
<1> DEFINE a == IF first = None THEN <<>> ELSE <<first>>
           b == IF second \in {None, first} THEN <<>> ELSE <<second>>
<1>1. \A x : Members(<<x>>) = {x}
  BY DEF Members
<1>2. Members(<<>>) = {}
  BY DEF Members
<1>3. Members(a) = {first} \ {None}
  BY <1>1, <1>2
<1>4. Members(b) = {second} \ {None, first}
  BY <1>1, <1>2
<1>5. a \in Seq(Rows) /\ b \in Seq(Rows) /\ <<site>> \in Seq(Rows)
  <2>1. \A x \in Rows : <<x>> \in Seq(Rows)
    OBVIOUS
  <2>2. <<>> \in Seq(Rows)
    OBVIOUS
  <2>3. site \in Rows /\ (first # None => first \in Rows)
        /\ (second # None => second \in Rows)
    BY DEF Rows
  <2>. QED BY <2>1, <2>2, <2>3
<1>6. Recount(first, second, site) = a \o b \o <<site>>
  BY DEF Recount
<1> HIDE DEF a, b
<1>7. a \o b \in Seq(Rows) /\ Members(a \o b) = Members(a) \cup Members(b)
  BY <1>5, ConcatMembers, ConcatProperties
<1>8. Members(a \o b \o <<site>>) = Members(a \o b) \cup {site}
  <2> DEFINE p == a \o b
             l == <<site>>
  <2>1. p \in Seq(Rows) /\ l \in Seq(Rows) /\ Members(l) = {site}
    BY <1>1, <1>5, <1>7
  <2> HIDE DEF p, l
  <2>2. Members(p \o l) = Members(p) \cup Members(l)
    BY <2>1, ConcatMembers
  <2>. QED BY <2>1, <2>2 DEF p, l
<1>. QED BY <1>3, <1>4, <1>6, <1>7, <1>8

LEMMA OrderingMembers ==
  ASSUME NEW S, IsFiniteSet(S), NEW f \in Orderings(S)
  PROVE  Members(f) = S
<1> DEFINE n == Cardinality(S)
           D == 1 .. n
<1>1. n \in Nat /\ f \in [D -> S] /\ Len(f) = n
  <2>1. n \in Nat
    BY FS_CardinalityType
  <2>2. f \in [D -> S]
    BY DEF Orderings
  <2>. QED BY <2>1, <2>2
<1>2. IsFiniteSet(D) /\ Cardinality(D) = n
  BY <1>1, FS_Interval
<1>3. f \in Injection(D, S)
  BY <1>1 DEF Orderings, Injection, IsInjective
<1>4. f \in Surjection(D, S)
  BY <1>2, <1>3, FS_Injection
<1>5. Members(f) = {f[i] : i \in D}
  BY <1>1 DEF Members
<1>. QED BY <1>1, <1>4, <1>5 DEF Surjection

(***************************************************************************)
(* Types, and what a writer keeps from its first read to its commit: the   *)
(* rows it recalculates are those of the warehouses it is about, and the   *)
(* slot it stores in is one of them.                                       *)
(***************************************************************************)
Stages == {"fit", "write", "sum", "row", "commit"}
WriteOps == {"status", "transfer", "delete"}

Touched(q) == q.rows \cup Members(q.todo)
Zoned(g, s) == s \notin Maintenance /\ (g \in Cold => s \in Cold)

WriterOK(q) ==
  /\ q.stage = "commit" <=> q.todo = <<>>
  /\ q.op # "delete" => \E g \in Goods : q.items = {g}
  /\ q.op = "delete" => q.to = Deleted
  /\ q.op = "transfer" => q.to = "STORED"
  /\ q.to = "STORED" =>
       /\ q.slot \in Slots /\ q.op # "delete" /\ q.slot \in Touched(q)
       /\ \A g \in q.items : Zoned(g, q.slot)
  /\ q.stage = "fit" => q.to = "STORED"
  /\ q.slot # None => SiteOf[q.slot] \in q.about
  /\ \A row \in Touched(q) : WarehouseOfRow(row) \in q.about
TypeInv == TypeOK /\ \A r \in Requests : Writing(r) => WriterOK(req[r])

LEMMA RequestShape ==
  ASSUME NEW q \in RequestState
  PROVE  /\ q.op \in WriteOps => q \in WriterState
         /\ q.op \in {"receive", "move"} =>
              q.items \in SUBSET Goods /\ q.about \in SUBSET Warehouses
         /\ q.op = "move" => q.to \in Warehouses
         /\ q.op = "report" => q.slot \in Slots
         /\ q.op \in WriteOps \cup {"idle", "receive", "move", "report"}
         /\ q.op = "idle" => q = Idle
BY DEF RequestState, WriterState, Idle, WriteOps

LEMMA WriterTyped ==
  ASSUME TypeInv, NEW r \in Requests, Writing(r)
  PROVE  /\ req[r] \in WriterState /\ WriterOK(req[r]) /\ req[r].op \in WriteOps
         /\ req[r].items \in SUBSET Goods /\ req[r].todo \in Seq(Rows)
BY RequestShape DEF TypeInv, TypeOK, Writing, WriteOps, WriterState

LEMMA AboutTyped ==
  ASSUME NEW q \in RequestState, NEW A,
         A = IF q.op \in {"idle", "report"} THEN {} ELSE q.about
  PROVE  A \in SUBSET Warehouses
BY RequestShape DEF WriterState, WriteOps

LEMMA Watched ==
  ASSUME Watch, req' \in [Requests -> RequestState],
         crowded \in SUBSET Warehouses, contested \in SUBSET Goods
  PROVE  crowded' \in SUBSET Warehouses /\ contested' \in SUBSET Goods
<1>1. \A r \in Requests : About(r)' \in SUBSET Warehouses
  BY AboutTyped DEF About
<1>2. Crowd' \in SUBSET Warehouses
  BY <1>1 DEF Crowd
<1>3. Contest' \in SUBSET Goods
  BY DEF Contest
<1>. QED BY <1>2, <1>3 DEF Watch

LEMMA Advanced ==
  ASSUME TypeInv, NEW r \in Requests, NEW q, Advance(r, q)
  PROVE  /\ req'[r] = q /\ \A s \in Requests \ {r} : req'[s] = req[s]
         /\ q \in RequestState => req' \in [Requests -> RequestState]
BY DEF TypeInv, TypeOK, Advance

(* A step of one request that leaves the tables alone.                     *)
LEMMA AdvanceTyped ==
  ASSUME TypeInv, NEW r \in Requests, NEW q \in RequestState, Advance(r, q),
         q.op \in WriteOps => WriterOK(q),
         UNCHANGED tables, Watch
  PROVE  TypeInv'
<1>1. /\ req'[r] = q /\ \A s \in Requests \ {r} : req'[s] = req[s]
      /\ req' \in [Requests -> RequestState]
  BY Advanced
<1>2. TypeOK'
  BY <1>1, Watched DEF TypeInv, TypeOK, tables
<1>3. \A s \in Requests : Writing(s)' => WriterOK(req'[s])
  BY <1>1 DEF TypeInv, Writing, WriteOps
<1>. QED BY <1>2, <1>3 DEF TypeInv

LEMMA FinishTyped ==
  ASSUME TypeInv, NEW r \in Requests, Finish(r), UNCHANGED tables, Watch
  PROVE  TypeInv'
<1>1. Idle \in RequestState /\ Idle.op \notin WriteOps
  BY DEF RequestState, Idle, WriteOps
<1>. QED BY <1>1, AdvanceTyped DEF Finish

(* A handler that begins, with all it has read before its transaction: it  *)
(* recalculates every row its items are in, and the slot they go to.       *)
NewTodo(items, to, slot, todo) ==
  /\ todo # <<>>
  /\ \A g \in items : RowsOf(g) \subseteq Members(todo)
  /\ slot # None => slot \in Members(todo)
  /\ to = "STORED" => slot # None /\ \A g \in items : Suits(g, slot)
Begun(r) ==
  \E op \in WriteOps, items \in SUBSET Goods, to \in GoodsStatus \cup {Deleted},
     slot \in Slots \cup {None}, checks \in Slots \cup {None}, todo \in Seq(Rows) :
    /\ Advance(r, NewWriter(op, items, to, slot, checks, todo))
    /\ to = "STORED" <=> checks # None
    /\ op # "delete" => \E g \in Goods : items = {g}
    /\ op = "delete" => to = Deleted
    /\ op = "transfer" => to = "STORED"
    /\ NewTodo(items, to, slot, todo)

LEMMA NewWriterOK ==
  ASSUME NEW op \in WriteOps, NEW items \in SUBSET Goods,
         NEW to \in GoodsStatus \cup {Deleted}, NEW slot \in Slots \cup {None},
         NEW checks, NEW todo \in Seq(Rows),
         op # "delete" => \E g \in Goods : items = {g},
         op = "delete" => to = Deleted, op = "transfer" => to = "STORED",
         checks # None => to = "STORED",
         NewTodo(items, to, slot, todo)
  PROVE  /\ NewWriter(op, items, to, slot, checks, todo) \in WriterState
         /\ WriterOK(NewWriter(op, items, to, slot, checks, todo))
<1> DEFINE q == NewWriter(op, items, to, slot, checks, todo)
           A == {WarehouseOfRow(todo[i]) : i \in DOMAIN todo}
<1>1. /\ q.op = op /\ q.items = items /\ q.to = to /\ q.slot = slot /\ q.todo = todo
      /\ q.rows = {} /\ q.stage = IF checks = None THEN "write" ELSE "fit"
      /\ q.about = A
  BY DEF NewWriter
<1>2. \A row \in Members(todo) : WarehouseOfRow(row) \in A
  <2>1. DOMAIN todo = 1 .. Len(todo)
    OBVIOUS
  <2>. QED BY <2>1 DEF Members
<1>3. A \in SUBSET Warehouses
  <2>1. \A row \in Rows : WarehouseOfRow(row) \in Warehouses
    BY PlacesAssumption DEF WarehouseOfRow, Rows
  <2>2. \A i \in DOMAIN todo : todo[i] \in Rows
    OBVIOUS
  <2>. QED BY <2>1, <2>2
<1>4. q \in WriterState
  <2> HIDE DEF A
  <2>1. q = [op |-> op, stage |-> IF checks = None THEN "write" ELSE "fit",
             items |-> items, to |-> to, slot |-> slot, todo |-> todo,
             sums |-> [row \in Rows |-> 0], rows |-> {}, about |-> A]
    BY DEF NewWriter, A
  <2> HIDE DEF q
  <2>. QED BY <1>3, <2>1 DEF WriterState, WriteOps
<1> HIDE DEF q, A
<1>5. Touched(q) = Members(todo)
  BY <1>1 DEF Touched
<1>6. slot # None => SiteOf[slot] \in A
  BY <1>2 DEF NewTodo, WarehouseOfRow
<1>7. to = "STORED" => /\ slot \in Slots /\ op # "delete" /\ slot \in Members(todo)
                       /\ \A g \in items : Zoned(g, slot)
  BY DEF NewTodo, Suits, Zoned, Deleted
<1>8. WriterOK(q)
  BY <1>1, <1>2, <1>5, <1>6, <1>7 DEF WriterOK, NewTodo
<1>. QED BY <1>4, <1>8 DEF q

(* Recount covers an item's slot and warehouse, and the slot it goes to.   *)
LEMMA RecountTodo ==
  ASSUME TypeInv, NEW g \in Goods, NEW to \in GoodsStatus \cup {Deleted}, NEW slot \in Slots \cup {None},
         NEW first \in Slots \cup {None}, NEW second \in Slots \cup {None},
         slotOf[g] = first \/ slotOf[g] = second,
         slot = None \/ slot = first \/ slot = second,
         to = "STORED" => slot # None /\ Suits(g, slot)
  PROVE  /\ Recount(first, second, home[g]) \in Seq(Rows)
         /\ NewTodo({g}, to, slot, Recount(first, second, home[g]))
<1>1. PICK site \in Warehouses : site = home[g]
  BY DEF TypeInv, TypeOK
<1>2. PICK todo : todo = Recount(first, second, site)
  OBVIOUS
<1>3. /\ todo \in Seq(Rows) /\ todo # <<>>
      /\ Members(todo) = ({first, second} \ {None}) \cup {site}
  <2>1. todo \in Seq(Rows) /\ todo # <<>>
    BY <1>2, RecountTyped
  <2>2. Members(Recount(first, second, site)) = ({first, second} \ {None}) \cup {site}
    BY RecountMembers
  <2>. QED BY <1>2, <2>1, <2>2
<1>4. RowsOf(g) \subseteq Members(todo)
  BY <1>1, <1>3 DEF RowsOf
<1>5. NewTodo({g}, to, slot, todo)
  BY <1>3, <1>4 DEF NewTodo
<1>. QED BY <1>1, <1>2, <1>3, <1>5

LEMMA PutAwayBegun ==
  ASSUME TypeInv, NEW r \in Requests, BeginPutAway(r)
  PROVE  Begun(r)
<1>1. PICK g \in Goods, given \in Slots \cup {None} :
        LET target == IF given = None THEN slotOf[g] ELSE given
        IN /\ target # None /\ Suits(g, target)
           /\ Advance(r, NewWriter("status", {g}, "STORED", target, target,
                                   Recount(target, slotOf[g], home[g])))
  BY DEF BeginPutAway
<1>2. slotOf[g] \in Slots \cup {None}
  BY DEF TypeInv, TypeOK
<1>3. PICK t \in Slots \cup {None} :
        /\ t # None /\ Suits(g, t)
        /\ Advance(r, NewWriter("status", {g}, "STORED", t, t,
                                Recount(t, slotOf[g], home[g])))
  BY <1>1, <1>2
<1>4. PICK todo : todo = Recount(t, slotOf[g], home[g])
  OBVIOUS
<1>5. todo \in Seq(Rows) /\ NewTodo({g}, "STORED", t, todo)
  <2>1. "STORED" \in GoodsStatus \cup {Deleted}
    BY DEF GoodsStatus
  <2>. QED BY <1>2, <1>3, <1>4, <2>1, RecountTodo
<1>6. "status" \in WriteOps /\ {g} \in SUBSET Goods /\ "STORED" \in GoodsStatus \cup {Deleted}
  BY DEF WriteOps, GoodsStatus
<1>. QED BY <1>3, <1>4, <1>5, <1>6 DEF Begun

LEMMA StatusBegun ==
  ASSUME TypeInv, NEW r \in Requests, BeginStatus(r)
  PROVE  Begun(r)
<1>1. PICK g \in Goods, to \in GoodsTargets \ {"STORED"} :
        Advance(r, NewWriter("status", {g}, to, SlotWith(to, slotOf[g]), None,
                             Recount(slotOf[g], None, home[g])))
  BY DEF BeginStatus
<1>2. slotOf[g] \in Slots \cup {None}
  BY DEF TypeInv, TypeOK
<1>3. PICK slot \in Slots \cup {None} :
        slot = SlotWith(to, slotOf[g]) /\ slot \in {slotOf[g], None}
  BY <1>2 DEF SlotWith
<1>4. PICK todo : todo = Recount(slotOf[g], None, home[g])
  OBVIOUS
<1>5. todo \in Seq(Rows) /\ NewTodo({g}, to, slot, todo)
  <2>1. PICK none \in Slots \cup {None} : none = None
    OBVIOUS
  <2>2. slot = None \/ slot = slotOf[g]
    BY <1>3
  <2>3. to = "STORED" => slot # None /\ Suits(g, slot)
    OBVIOUS
  <2>4. todo = Recount(slotOf[g], none, home[g])
    BY <1>4, <2>1
  <2>5. to \in GoodsStatus \cup {Deleted}
    BY StatusAssumption
  <2>. QED BY <1>2, <2>2, <2>3, <2>4, <2>5, RecountTodo
<1>6. /\ "status" \in WriteOps /\ {g} \in SUBSET Goods
      /\ to \in GoodsStatus \cup {Deleted} /\ to # "STORED"
  BY StatusAssumption DEF WriteOps
<1>. QED BY <1>1, <1>3, <1>4, <1>5, <1>6 DEF Begun

LEMMA TransferBegun ==
  ASSUME TypeInv, NEW r \in Requests, BeginTransfer(r)
  PROVE  Begun(r)
<1>1. PICK g \in Goods, t \in Slots :
        /\ Suits(g, t)
        /\ Advance(r, NewWriter("transfer", {g}, "STORED", t, t,
                                Recount(slotOf[g], t, home[g])))
  BY DEF BeginTransfer
<1>2. slotOf[g] \in Slots \cup {None} /\ t \in Slots \cup {None} /\ t # None
  BY PlacesAssumption DEF TypeInv, TypeOK, Rows
<1>3. PICK todo : todo = Recount(slotOf[g], t, home[g])
  OBVIOUS
<1>4. todo \in Seq(Rows) /\ NewTodo({g}, "STORED", t, todo)
  <2>1. "STORED" \in GoodsStatus \cup {Deleted}
    BY DEF GoodsStatus
  <2>. QED BY <1>1, <1>2, <1>3, <2>1, RecountTodo
<1>5. "transfer" \in WriteOps /\ {g} \in SUBSET Goods
      /\ "STORED" \in GoodsStatus \cup {Deleted}
  BY DEF WriteOps, GoodsStatus
<1>. QED BY <1>1, <1>2, <1>3, <1>4, <1>5 DEF Begun

LEMMA DeleteBegun ==
  ASSUME TypeInv, NEW r \in Requests, BeginDelete(r)
  PROVE  Begun(r)
<1>1. PICK S : /\ S \in SUBSET Goods /\ S # {}
               /\ \E slots \in Orderings(SlotsRead(S)),
                     homes \in Orderings({home[g] : g \in S}) :
                    Advance(r, NewWriter("delete", S, Deleted, None, None,
                                         slots \o homes))
  BY DEF BeginDelete, Belongings
<1> DEFINE H == {home[g] : g \in S}
           P == SlotsRead(S)
<1>2. PICK slots \in Orderings(P), homes \in Orderings(H) :
        Advance(r, NewWriter("delete", S, Deleted, None, None, slots \o homes))
  BY <1>1
<1>3. IsFiniteSet(S)
  BY <1>1, ItemsAssumption, FS_Subset
<1>4. H \subseteq Rows /\ H # {} /\ IsFiniteSet(H)
  <2>1. H \subseteq Rows /\ H # {}
    BY <1>1 DEF Rows, TypeInv, TypeOK
  <2>2. [g \in S |-> home[g]] \in Surjection(S, H)
    BY DEF Surjection
  <2>. QED BY <1>3, <2>1, <2>2, FS_Surjection
<1>5. P \subseteq Rows /\ IsFiniteSet(P)
  <2> DEFINE T == {slotOf[g] : g \in S}
  <2>1. T \subseteq Slots \cup {None}
    BY <1>1 DEF TypeInv, TypeOK
  <2>2. [g \in S |-> slotOf[g]] \in Surjection(S, T)
    BY DEF Surjection
  <2>3. IsFiniteSet(T)
    BY <1>3, <2>2, FS_Surjection
  <2>4. P \subseteq T /\ P \subseteq Rows
    BY <2>1 DEF SlotsRead, Rows
  <2>. QED BY <2>3, <2>4, FS_Subset
<1>6. ASSUME NEW X, X \subseteq Rows, IsFiniteSet(X), NEW f \in Orderings(X)
      PROVE  f \in Seq(Rows) /\ Members(f) = X /\ (X # {} => f # <<>>)
  <2>1. f \in Seq(X) /\ (X # {} => f # <<>>)
    BY <1>6, OrderingTyped
  <2>. QED BY <1>6, <2>1, OrderingMembers, SeqMonotonic
<1>7. \A g \in S : RowsOf(g) \subseteq P \cup H
  BY DEF RowsOf, SlotsRead
<1> HIDE DEF H, P
<1>8. /\ slots \in Seq(Rows) /\ Members(slots) = P
      /\ homes \in Seq(Rows) /\ Members(homes) = H /\ homes # <<>>
  BY <1>2, <1>4, <1>5, <1>6
<1>9. PICK todo : todo = slots \o homes
  OBVIOUS
<1>10. todo \in Seq(Rows) /\ todo # <<>> /\ Members(todo) = P \cup H
  BY <1>8, <1>9, ConcatNonEmpty, ConcatMembers
<1>11. /\ "delete" \in WriteOps /\ None \in Slots \cup {None}
       /\ Deleted \in GoodsStatus \cup {Deleted} /\ Deleted # "STORED"
  BY DEF WriteOps, Deleted
<1>12. NewTodo(S, Deleted, None, todo)
  BY <1>7, <1>10, <1>11 DEF NewTodo
<1>. QED BY <1>1, <1>2, <1>9, <1>10, <1>11, <1>12 DEF Begun

(* A handler that begins keeps a record of its own, a writer of the above. *)
LEMMA Begins ==
  ASSUME TypeInv, NEW r \in Requests, Begin(r)
  PROVE  /\ UNCHANGED tables
         /\ \/ Begun(r)
            \/ BeginReceive(r) \/ BeginMove(r) \/ BeginReport(r)
<1>1. UNCHANGED tables
  BY DEF Begin, BeginPutAway, BeginStatus, BeginTransfer, BeginDelete, BeginReceive,
         BeginMove, BeginReport
<1>. QED
  BY <1>1, PutAwayBegun, StatusBegun, TransferBegun, DeleteBegun DEF Begin

(* The record of a request that receives, moves goods or reports.          *)
LEMMA OthersBegun ==
  ASSUME TypeInv, NEW r \in Requests,
         BeginReceive(r) \/ BeginMove(r) \/ BeginReport(r)
  PROVE  \E q \in RequestState :
           /\ Advance(r, q) /\ q.op \in {"receive", "move", "report"}
           /\ q.op = "receive" =>
                \A g \in q.items : \A row \in RowsOf(g) : WarehouseOfRow(row) \in q.about
           /\ q.op = "move" =>
                /\ q.to \in q.about
                /\ \A g \in q.items : home[g] \in q.about /\ goods[g] # "STORED"
<1>1. CASE BeginReceive(r)
  <2>1. PICK g \in Goods :
          Advance(r, [op |-> "receive", items |-> {g},
                      about |-> {WarehouseOfRow(row) : row \in RowsOf(g)}])
    BY <1>1 DEF BeginReceive
  <2>2. PICK A : A = {WarehouseOfRow(row) : row \in RowsOf(g)}
    OBVIOUS
  <2>3. A \in SUBSET Warehouses
    BY <2>2, PlacesAssumption DEF RowsOf, WarehouseOfRow, Rows, TypeInv, TypeOK
  <2>4. PICK q : q = [op |-> "receive", items |-> {g}, about |-> A]
    OBVIOUS
  <2>5. q \in RequestState /\ q.op = "receive" /\ q.items = {g} /\ q.about = A
    BY <2>3, <2>4 DEF RequestState
  <2>6. Advance(r, q)
    BY <2>1, <2>2, <2>4
  <2>. QED BY <2>2, <2>5, <2>6
<1>2. CASE BeginMove(r)
  <2>1. PICK c \in Customers, from \in Warehouses, to \in Warehouses :
          LET S == Lodged(c, from)
              moved == {g \in S : goods[g] \in {"DRAFT", "PENDING_PICKUP"}}
          IN Advance(r, [op |-> "move", items |-> moved, to |-> to,
                         about |-> {from, to}])
    BY <1>2 DEF BeginMove
  <2>2. PICK M : M = {g \in Lodged(c, from) : goods[g] \in {"DRAFT", "PENDING_PICKUP"}}
    OBVIOUS
  <2>3. M \in SUBSET Goods /\ \A g \in M : home[g] = from /\ goods[g] # "STORED"
    BY <2>2 DEF Lodged, Belongings
  <2>4. PICK q : q = [op |-> "move", items |-> M, to |-> to, about |-> {from, to}]
    OBVIOUS
  <2>5. /\ q \in RequestState /\ q.op = "move" /\ q.items = M /\ q.to = to
        /\ q.about = {from, to}
    BY <2>3, <2>4 DEF RequestState
  <2>6. Advance(r, q)
    BY <2>1, <2>2, <2>4
  <2>. QED BY <2>3, <2>5, <2>6
<1>3. CASE BeginReport(r)
  <2>1. PICK s \in Slots : Advance(r, [op |-> "report", stage |-> "row", slot |-> s])
    BY <1>3 DEF BeginReport
  <2>2. PICK q : q = [op |-> "report", stage |-> "row", slot |-> s]
    OBVIOUS
  <2>3. q \in RequestState /\ q.op = "report"
    BY <2>2 DEF RequestState
  <2>. QED BY <2>1, <2>2, <2>3
<1>. QED BY <1>1, <1>2, <1>3

LEMMA BegunWriter ==
  ASSUME NEW r \in Requests, Begun(r)
  PROVE  \E q \in WriterState :
           /\ Advance(r, q) /\ WriterOK(q) /\ q.op \in WriteOps /\ q.rows = {}
           /\ q.stage = IF q.to = "STORED" THEN "fit" ELSE "write"
           /\ \A g \in q.items : RowsOf(g) \subseteq Touched(q)
           /\ q.to = "STORED" => \A g \in q.items : Suits(g, q.slot)
<1>1. PICK op \in WriteOps, items \in SUBSET Goods, to \in GoodsStatus \cup {Deleted},
           slot \in Slots \cup {None}, checks \in Slots \cup {None}, todo \in Seq(Rows) :
        /\ Advance(r, NewWriter(op, items, to, slot, checks, todo))
        /\ to = "STORED" <=> checks # None
        /\ op # "delete" => \E g \in Goods : items = {g}
        /\ op = "delete" => to = Deleted
        /\ op = "transfer" => to = "STORED"
        /\ NewTodo(items, to, slot, todo)
  BY DEF Begun
<1>2. PICK q : q = NewWriter(op, items, to, slot, checks, todo)
  OBVIOUS
<1>3. q \in WriterState /\ WriterOK(q) /\ Advance(r, q)
  BY <1>1, <1>2, NewWriterOK
<1>4. /\ q.op = op /\ q.items = items /\ q.to = to /\ q.slot = slot /\ q.todo = todo
      /\ q.rows = {} /\ q.stage = IF checks = None THEN "write" ELSE "fit"
  BY <1>2 DEF NewWriter
<1>5. Touched(q) = Members(todo)
  BY <1>4 DEF Touched
<1>. QED BY <1>1, <1>3, <1>4, <1>5 DEF NewTodo

(***************************************************************************)
(* A writer that goes on: what it is about stays, and a sum it has read is *)
(* the one it had or the one it just read.                                 *)
(***************************************************************************)
Seen(q, row) == row \in q.rows \/ (q.stage = "row" /\ row = Head(q.todo))
Own(q, row) == Occupants(StatusAfter(q), PlaceAfter(q), row)

GoesOn(q, p) ==
  /\ p.op = q.op /\ p.items = q.items /\ p.to = q.to /\ p.slot = q.slot
  /\ p.about = q.about /\ Touched(p) = Touched(q) /\ p.stage # "fit"
  /\ \A row \in Rows :
       Seen(p, row) =>
         \/ Seen(q, row) /\ p.sums[row] = q.sums[row]
         \/ p.sums[row] \in Rounded(Load(Own(q, row), "volume"), "volume")

LEMMA SetStage ==
  ASSUME NEW q \in WriterState, NEW st \in Stages
  PROVE  LET p == [q EXCEPT !.stage = st]
         IN  /\ p \in WriterState /\ p.stage = st
             /\ p.op = q.op /\ p.items = q.items /\ p.to = q.to /\ p.slot = q.slot
             /\ p.todo = q.todo /\ p.sums = q.sums /\ p.rows = q.rows
             /\ p.about = q.about
BY DEF WriterState, Stages

LEMMA OccupantsTyped ==
  ASSUME NEW st, NEW at, NEW row
  PROVE  Occupants(st, at, row) \in SUBSET Goods
BY DEF Occupants

LEMMA WriterStep ==
  ASSUME TypeInv, NEW r \in Requests,
         CheckFit(r) \/ WriteGoods(r) \/ ReadSum(r) \/ WriteSum(r)
  PROVE  /\ Writing(r) /\ UNCHANGED tables
         /\ \/ Finish(r)
            \/ \E p \in WriterState :
                 Advance(r, p) /\ WriterOK(p) /\ GoesOn(req[r], p)
<1> DEFINE q == req[r]
<1>w. Writing(r) /\ UNCHANGED tables
  BY DEF CheckFit, WriteGoods, ReadSum, WriteSum
<1>t. q \in WriterState /\ WriterOK(q) /\ q.todo \in Seq(Rows) /\ q.items \in SUBSET Goods
  BY <1>w, WriterTyped
<1>k. ASSUME NEW p, GoesOn(q, p), p.stage = "commit" <=> p.todo = <<>>
      PROVE  WriterOK(p)
  <2> HIDE DEF q
  <2>. QED BY <1>t, <1>k DEF GoesOn, WriterOK
<1>1. CASE CheckFit(r) \/ WriteGoods(r)
  <2>1. q.stage # "commit" /\ (\/ Finish(r)
           \/ Advance(r, [q EXCEPT !.stage = "write"])
           \/ Advance(r, [q EXCEPT !.stage = "sum"]))
    BY <1>1 DEF CheckFit, WriteGoods
  <2>2. ASSUME NEW st \in {"write", "sum"}, Advance(r, [q EXCEPT !.stage = st])
        PROVE  \E p \in WriterState : Advance(r, p) /\ WriterOK(p) /\ GoesOn(q, p)
    <3>1. st \in Stages
      BY DEF Stages
    <3>2. PICK p : p = [q EXCEPT !.stage = st]
      OBVIOUS
    <3>3. /\ p \in WriterState /\ p.stage = st /\ p.op = q.op /\ p.items = q.items
          /\ p.to = q.to /\ p.slot = q.slot /\ p.todo = q.todo /\ p.sums = q.sums
          /\ p.rows = q.rows /\ p.about = q.about
      BY <1>t, <3>1, <3>2, SetStage
    <3>4. Advance(r, p)
      BY <2>2, <3>2
    <3> HIDE DEF q
    <3>5. Touched(p) = Touched(q) /\ p.stage \notin {"fit", "row", "commit"}
      BY <3>3 DEF Touched
    <3>6. \A row : Seen(p, row) => Seen(q, row) /\ p.sums[row] = q.sums[row]
      BY <3>3, <3>5 DEF Seen
    <3>7. GoesOn(q, p)
      BY <3>3, <3>5, <3>6 DEF GoesOn
    <3>8. WriterOK(p)
      BY <1>t, <1>k, <2>1, <3>3, <3>5, <3>7 DEF WriterOK, q
    <3>. QED BY <3>3, <3>4, <3>7, <3>8
  <2>. QED BY <1>w, <2>1, <2>2
<1>2. CASE ReadSum(r)
  <2>1. PICK row : row = Head(q.todo)
    OBVIOUS
  <2>2. /\ q.stage = "sum"
        /\ \E sum \in Rounded(Load(Own(q, row), "volume"), "volume") :
             Advance(r, [q EXCEPT !.stage = "row", !.sums[row] = sum])
    BY <1>2, <2>1 DEF ReadSum, Own
  <2>3. PICK n \in Rounded(Load(Own(q, row), "volume"), "volume") :
          Advance(r, [q EXCEPT !.stage = "row", !.sums[row] = n])
    BY <2>2
  <2>4. n \in Int
    <3>1. Own(q, row) \in SUBSET Goods /\ "volume" \in Measures
      BY OccupantsTyped DEF Own, Measures
    <3>2. Load(Own(q, row), "volume") \in Int
      BY <3>1, LoadTyped
    <3>. QED BY <3>1, <3>2, RoundedTyped
  <2>5. q.todo # <<>> /\ row \in Rows
    BY <1>t, <2>1, <2>2, HeadTailProperties DEF WriterOK
  <2>6. PICK p : p = [q EXCEPT !.stage = "row", !.sums[row] = n]
    OBVIOUS
  <2>7. Advance(r, p)
    BY <2>3, <2>6
  <2>8. n \in Rounded(Load(Own(q, row), "volume"), "volume")
    OBVIOUS
  <2> HIDE DEF q
  <2>9. /\ p \in WriterState /\ p.stage = "row" /\ p.op = q.op /\ p.items = q.items
        /\ p.to = q.to /\ p.slot = q.slot /\ p.todo = q.todo /\ p.rows = q.rows
        /\ p.about = q.about /\ p.sums = [q.sums EXCEPT ![row] = n]
    BY <1>t, <2>4, <2>5, <2>6 DEF WriterState
  <2>10. q.sums \in [Rows -> Int]
    BY <1>t DEF WriterState
  <2>11. ASSUME NEW x \in Rows, Seen(p, x)
         PROVE  \/ Seen(q, x) /\ p.sums[x] = q.sums[x]
                \/ p.sums[x] \in Rounded(Load(Own(q, x), "volume"), "volume")
    <3>1. CASE x = row
      BY <2>5, <2>8, <2>9, <2>10, <3>1
    <3>2. CASE x # row
      BY <2>1, <2>9, <2>10, <2>11, <3>2 DEF Seen
    <3>. QED BY <3>1, <3>2
  <2>12. Touched(p) = Touched(q)
    BY <2>9 DEF Touched
  <2>13. GoesOn(q, p)
    BY <2>9, <2>11, <2>12 DEF GoesOn
  <2>14. WriterOK(p)
    BY <1>k, <2>5, <2>9, <2>13 DEF q
  <2>. QED BY <1>w, <2>7, <2>9, <2>13, <2>14 DEF q
<1>3. CASE WriteSum(r)
  <2>0. PICK st, row :
          st = (IF Len(q.todo) = 1 THEN "commit" ELSE "sum") /\ row = Head(q.todo)
    OBVIOUS
  <2>1. PICK p : p = [q EXCEPT !.stage = st, !.todo = Tail(@), !.rows = @ \cup {row}]
    OBVIOUS
  <2>2. q.stage = "row" /\ Advance(r, p)
    BY <1>3, <2>0, <2>1 DEF WriteSum
  <2>3. q.todo # <<>> /\ row \in Rows /\ st \in Stages /\ st \notin {"fit", "row"}
    BY <1>t, <2>0, <2>2, HeadTailProperties DEF WriterOK, Stages
  <2>4. Tail(q.todo) \in Seq(Rows) /\ (st = "commit" <=> Tail(q.todo) = <<>>)
        /\ Members(q.todo) = {row} \cup Members(Tail(q.todo))
    <3>1. /\ Tail(q.todo) \in Seq(Rows) /\ Len(q.todo) \in Nat
          /\ Len(Tail(q.todo)) = Len(q.todo) - 1
      BY <1>t, <2>3, HeadTailProperties, LenProperties
    <3>2. Tail(q.todo) = <<>> <=> Len(Tail(q.todo)) = 0
      BY <3>1, EmptySeq
    <3>3. Tail(q.todo) = <<>> <=> Len(q.todo) = 1
      BY <3>1, <3>2
    <3>. QED BY <1>t, <2>0, <2>3, <3>1, <3>3, MembersNext
  <2> HIDE DEF q
  <2>5. /\ p \in WriterState /\ p.stage = st /\ p.op = q.op /\ p.items = q.items
        /\ p.to = q.to /\ p.slot = q.slot /\ p.todo = Tail(q.todo)
        /\ p.sums = q.sums /\ p.rows = q.rows \cup {row} /\ p.about = q.about
    BY <1>t, <2>1, <2>3, <2>4 DEF WriterState, Stages
  <2>6. Touched(p) = Touched(q)
    BY <2>4, <2>5 DEF Touched
  <2>7. \A x : Seen(p, x) => Seen(q, x) /\ p.sums[x] = q.sums[x]
    BY <2>0, <2>2, <2>3, <2>5 DEF Seen, q
  <2>8. GoesOn(q, p)
    BY <2>3, <2>5, <2>6, <2>7 DEF GoesOn
  <2>9. WriterOK(p)
    BY <1>k, <2>4, <2>5, <2>8 DEF q
  <2>. QED BY <1>w, <2>2, <2>5, <2>8, <2>9 DEF q
<1>. QED BY <1>1, <1>2, <1>3

(* A request that ends with a write to the tables.                         *)
LEMMA EndTyped ==
  ASSUME TypeInv, NEW r \in Requests, Finish(r), Watch,
         goods' \in [Goods -> GoodsStatus \cup {Deleted}],
         slotOf' \in [Goods -> Slots \cup {None}], home' \in [Goods -> Warehouses],
         used' \in [Rows -> Int], stale' \in SUBSET Rows
  PROVE  TypeInv'
<1>1. /\ req'[r] = Idle /\ \A s \in Requests \ {r} : req'[s] = req[s]
      /\ req' \in [Requests -> RequestState]
  BY Advanced DEF Finish, RequestState
<1>2. \A s \in Requests : Writing(s)' => WriterOK(req'[s])
  BY <1>1 DEF TypeInv, Writing, Idle
<1>3. TypeOK'
  BY <1>1, Watched DEF TypeInv, TypeOK
<1>. QED BY <1>2, <1>3 DEF TypeInv

LEMMA CommitTyped ==
  ASSUME TypeInv, NEW r \in Requests, Commit(r), Watch
  PROVE  TypeInv'
<1> DEFINE q == req[r]
<1>1. TypeOK /\ q \in WriterState /\ Finish(r)
  BY WriterTyped DEF Commit, TypeInv
<1>2. goods' \in [Goods -> GoodsStatus \cup {Deleted}]
  BY <1>1 DEF Commit, StatusAfter, WriterState, TypeOK
<1>3. slotOf' \in [Goods -> Slots \cup {None}]
  BY <1>1 DEF Commit, PlaceAfter, WriterState, TypeOK
<1>4. used' \in [Rows -> Int]
  BY <1>1 DEF Commit, WriterState, TypeOK
<1>5. home' \in [Goods -> Warehouses] /\ stale' \in SUBSET Rows
  BY <1>1 DEF Commit, TypeOK
<1>. QED BY <1>1, <1>2, <1>3, <1>4, <1>5, EndTyped

LEMMA ReceiveTyped ==
  ASSUME TypeInv, NEW r \in Requests, CommitReceive(r), Watch
  PROVE  TypeInv'
<1>1. TypeOK /\ req[r].items \in SUBSET Goods /\ Finish(r)
  BY RequestShape DEF CommitReceive, TypeInv, TypeOK
<1>2. goods' \in [Goods -> GoodsStatus \cup {Deleted}]
  BY <1>1 DEF CommitReceive, TypeOK, GoodsStatus
<1>3. \A g \in Goods : RowsOf(g) \subseteq Rows
  BY <1>1 DEF RowsOf, Rows, TypeOK
<1>4. stale' \in SUBSET Rows
  BY <1>1, <1>3 DEF CommitReceive, TypeOK
<1>5. slotOf' = slotOf /\ home' = home /\ used' = used
  BY DEF CommitReceive
<1>. QED BY <1>1, <1>2, <1>4, <1>5, EndTyped DEF TypeOK

LEMMA MoveTyped ==
  ASSUME TypeInv, NEW r \in Requests, CommitMove(r), Watch
  PROVE  TypeInv'
<1>1. TypeOK /\ req[r].to \in Warehouses /\ Finish(r)
  BY RequestShape DEF CommitMove, TypeInv, TypeOK
<1>2. home' \in [Goods -> Warehouses]
  BY <1>1 DEF CommitMove, TypeOK
<1>3. goods' = goods /\ slotOf' = slotOf /\ used' = used /\ stale' = stale
  BY DEF CommitMove
<1>. QED BY <1>1, <1>2, <1>3, EndTyped DEF TypeOK

LEMMA ReportHeld ==
  ASSUME TypeInv, NEW r \in Requests, ReportSlot(r)
  PROVE  \E p \in RequestState : p.op = "report" /\ Advance(r, p)
<1>1. PICK q : q = req[r]
  OBVIOUS
<1>2. q \in RequestState /\ q.op = "report" /\ Advance(r, [q EXCEPT !.stage = "held"])
  BY <1>1 DEF ReportSlot, TypeInv, TypeOK
<1>3. q \in [op: {"report"}, stage: {"row", "held"}, slot: Slots]
  BY <1>2 DEF RequestState, WriterState, Idle
<1>4. PICK p : p = [q EXCEPT !.stage = "held"]
  OBVIOUS
<1>5. p \in RequestState /\ p.op = "report"
  BY <1>3, <1>4 DEF RequestState
<1>. QED BY <1>2, <1>4, <1>5

LEMMA TypeInvariant == Spec => []TypeInv
<1>1. Init => TypeInv
  <2> SUFFICES ASSUME Init PROVE TypeInv
    OBVIOUS
  <2>1. TypeOK
    <3>1. FirstHome \in [Goods -> Warehouses]
      BY PlacesAssumption
    <3>. QED BY <3>1, StatusAssumption DEF Init, TypeOK, RequestState
  <2>. QED BY <2>1 DEF Init, TypeInv, Writing, Idle
<1>2. TypeInv /\ [Next]_vars => TypeInv'
  <2> SUFFICES ASSUME TypeInv, [Next]_vars PROVE TypeInv'
    OBVIOUS
  <2>1. CASE Next
    <3>0. Watch
      BY <2>1 DEF Next
    <3>1. PICK r \in Requests : Begin(r) \/ Continue(r) \/ Abort(r) \/ EndDeadlock(r)
      BY <2>1 DEF Next, Step
    <3>w. WriterState \subseteq RequestState
      BY DEF RequestState
    <3>2. CASE Begin(r)
      <4>1. CASE Begun(r)
        BY <3>0, <3>2, <3>w, <4>1, Begins, BegunWriter, AdvanceTyped
      <4>2. CASE BeginReceive(r) \/ BeginMove(r) \/ BeginReport(r)
        <5>1. PICK q \in RequestState :
                Advance(r, q) /\ q.op \in {"receive", "move", "report"}
          BY <4>2, OthersBegun
        <5>2. q.op \notin WriteOps
          BY <5>1 DEF WriteOps
        <5>. QED BY <3>0, <3>2, <5>1, <5>2, Begins, AdvanceTyped
      <4>. QED BY <3>2, <4>1, <4>2, Begins
    <3>3. CASE CheckFit(r) \/ WriteGoods(r) \/ ReadSum(r) \/ WriteSum(r)
      BY <3>0, <3>3, <3>w, WriterStep, FinishTyped, AdvanceTyped
    <3>4. CASE Commit(r)
      BY <3>0, <3>4, CommitTyped
    <3>5. CASE CommitReceive(r)
      BY <3>0, <3>5, ReceiveTyped
    <3>6. CASE CommitMove(r)
      BY <3>0, <3>6, MoveTyped
    <3>7. CASE ReportSlot(r)
      <4>1. PICK p \in RequestState : p.op = "report" /\ Advance(r, p)
        BY <3>7, ReportHeld
      <4>2. p.op \notin WriteOps /\ UNCHANGED tables
        BY <3>7, <4>1 DEF WriteOps, ReportSlot
      <4>. QED BY <3>0, <4>1, <4>2, AdvanceTyped
    <3>8. CASE CommitReport(r) \/ Abort(r) \/ EndDeadlock(r)
      BY <3>0, <3>8, FinishTyped DEF CommitReport, Abort, EndDeadlock
    <3>. QED
      BY <3>1, <3>2, <3>3, <3>4, <3>5, <3>6, <3>7, <3>8 DEF Continue
  <2>2. CASE UNCHANGED vars
    BY <2>2 DEF vars, TypeInv, TypeOK, Writing
  <2>. QED BY <2>1, <2>2
<1>. QED BY <1>1, <1>2, PTL DEF Spec

(* However put-aways, transfers, deletions, arrivals, moves and sensor     *)
(* reports interleave, every row and request holds a value it can have.    *)
THEOREM PutAwayTyped == Spec => []TypeOK
BY TypeInvariant, PTL DEF TypeInv

(***************************************************************************)
(* Where STORED goods are.  A put-away or transfer goes to a slot of the   *)
(* item's warehouse, and a change of warehouse is about goods that are not *)
(* STORED, unless the two were in flight together.                         *)
(***************************************************************************)
StoredInv ==
  /\ TypeInv /\ StoredWhereItBelongs /\ Contest \subseteq contested
  /\ \A r \in Requests : Storing(r) =>
       \A g \in req[r].items : g \in contested \/ SiteOf[req[r].slot] = home[g]
  /\ \A r \in Requests : req[r].op = "move" =>
       \A g \in req[r].items : g \in contested \/ goods[g] # "STORED"

LEMMA ContestGrows ==
  ASSUME Watch
  PROVE  contested \subseteq contested' /\ Contest' \subseteq contested'
BY DEF Watch

(* A step of one request that leaves the tables alone.                     *)
LEMMA CalmStored ==
  ASSUME StoredInv, TypeInv', NEW r \in Requests, NEW p, Advance(r, p),
         UNCHANGED tables, Watch,
         p.op \in WriteOps /\ p.to = "STORED" =>
           \A g \in p.items : g \in contested \/ SiteOf[p.slot] = home[g],
         p.op = "move" => \A g \in p.items : g \in contested \/ goods[g] # "STORED"
  PROVE  StoredInv'
<1>1. req'[r] = p /\ \A s \in Requests \ {r} : req'[s] = req[s]
  BY Advanced DEF StoredInv
<1>2. UNCHANGED <<goods, slotOf, home>> /\ contested \subseteq contested'
      /\ (Contest \subseteq contested)'
  BY ContestGrows DEF tables
<1>3. StoredWhereItBelongs'
  BY <1>2 DEF StoredInv, StoredWhereItBelongs
<1>4. ASSUME NEW s \in Requests, Storing(s)', NEW g \in req'[s].items
      PROVE  g \in contested' \/ SiteOf[req'[s].slot] = home'[g]
  <2>1. CASE s = r
    BY <1>1, <1>2, <1>4, <2>1 DEF Storing, Writing, WriteOps
  <2>2. CASE s # r
    BY <1>1, <1>2, <1>4, <2>2 DEF StoredInv, Storing, Writing
  <2>. QED BY <2>1, <2>2
<1>5. ASSUME NEW s \in Requests, req'[s].op = "move", NEW g \in req'[s].items
      PROVE  g \in contested' \/ goods'[g] # "STORED"
  <2>1. CASE s = r
    BY <1>1, <1>2, <1>5, <2>1
  <2>2. CASE s # r
    BY <1>1, <1>2, <1>5, <2>2 DEF StoredInv
  <2>. QED BY <2>1, <2>2
<1>. QED BY <1>2, <1>3, <1>4, <1>5 DEF StoredInv

LEMMA FinishStored ==
  ASSUME StoredInv, TypeInv', NEW r \in Requests, Finish(r), UNCHANGED tables, Watch
  PROVE  StoredInv'
<1>1. Idle.op \notin WriteOps \cup {"move"}
  BY DEF Idle, WriteOps
<1>. QED BY <1>1, CalmStored DEF Finish

LEMMA BeginStored ==
  ASSUME StoredInv, TypeInv', NEW r \in Requests, Begin(r), Watch
  PROVE  StoredInv'
<1>1. TypeInv /\ UNCHANGED tables
  BY Begins DEF StoredInv
<1>2. CASE Begun(r)
  <2>1. PICK q \in WriterState :
          /\ Advance(r, q) /\ q.op \in WriteOps
          /\ q.to = "STORED" => \A g \in q.items : Suits(g, q.slot)
    BY <1>2, BegunWriter
  <2>2. q.op # "move" /\ (q.to = "STORED" => \A g \in q.items : SiteOf[q.slot] = home[g])
    BY <2>1 DEF WriteOps, Suits
  <2>. QED BY <1>1, <2>1, <2>2, CalmStored
<1>3. CASE BeginReceive(r) \/ BeginMove(r) \/ BeginReport(r)
  <2>1. PICK q \in RequestState :
          /\ Advance(r, q) /\ q.op \in {"receive", "move", "report"}
          /\ q.op = "move" => \A g \in q.items : goods[g] # "STORED"
    BY <1>1, <1>3, OthersBegun
  <2>2. q.op \notin WriteOps
    BY <2>1 DEF WriteOps
  <2>. QED BY <1>1, <2>1, <2>2, CalmStored
<1>. QED BY <1>1, <1>2, <1>3, Begins

LEMMA WriterStored ==
  ASSUME StoredInv, TypeInv', NEW r \in Requests, Watch,
         CheckFit(r) \/ WriteGoods(r) \/ ReadSum(r) \/ WriteSum(r)
  PROVE  StoredInv'
<1>1. Writing(r) /\ UNCHANGED tables
  BY WriterStep DEF StoredInv
<1>2. ASSUME NEW p, Advance(r, p), GoesOn(req[r], p) PROVE StoredInv'
  <2>1. /\ p.op = req[r].op /\ p.items = req[r].items /\ p.to = req[r].to
        /\ p.slot = req[r].slot
    BY <1>2 DEF GoesOn
  <2>2. p.op # "move" /\ (p.to = "STORED" => Storing(r))
    BY <1>1, <2>1 DEF Writing, Storing
  <2>3. p.to = "STORED" =>
          \A g \in p.items : g \in contested \/ SiteOf[p.slot] = home[g]
    BY <2>1, <2>2 DEF StoredInv
  <2>. QED BY <1>1, <1>2, <2>2, <2>3, CalmStored
<1>. QED BY <1>1, <1>2, WriterStep, FinishStored DEF StoredInv

(* A request that ends with a write to the tables.                         *)
LEMMA EndStored ==
  ASSUME StoredInv, TypeInv', NEW r \in Requests, Finish(r), Watch, StoredWhereItBelongs',
         \A s \in Requests \ {r} : Storing(s) =>
           \A g \in req[s].items : g \in contested \/ home'[g] = home[g],
         \A s \in Requests \ {r} : req[s].op = "move" =>
           \A g \in req[s].items :
             g \in contested \/ goods'[g] = goods[g] \/ goods'[g] # "STORED"
  PROVE  StoredInv'
<1>1. req'[r] = Idle /\ \A s \in Requests \ {r} : req'[s] = req[s]
  BY Advanced DEF Finish, StoredInv
<1>2. contested \subseteq contested' /\ (Contest \subseteq contested)'
  BY ContestGrows
<1>3. ASSUME NEW s \in Requests, Storing(s)', NEW g \in req'[s].items
      PROVE  g \in contested' \/ SiteOf[req'[s].slot] = home'[g]
  <2>1. s # r
    BY <1>1, <1>3 DEF Storing, Writing, Idle
  <2>. QED BY <1>1, <1>2, <1>3, <2>1 DEF StoredInv, Storing, Writing
<1>4. ASSUME NEW s \in Requests, req'[s].op = "move", NEW g \in req'[s].items
      PROVE  g \in contested' \/ goods'[g] # "STORED"
  <2>1. s # r
    BY <1>1, <1>4 DEF Idle
  <2>. QED BY <1>1, <1>2, <1>4, <2>1 DEF StoredInv
<1>. QED BY <1>2, <1>3, <1>4 DEF StoredInv

LEMMA CommitStored ==
  ASSUME StoredInv, TypeInv', NEW r \in Requests, Commit(r), Watch
  PROVE  StoredInv'
<1>1. PICK q : q = req[r]
  OBVIOUS
<1>2. /\ Writing(r) /\ Finish(r) /\ home' = home
      /\ goods' = StatusAfter(q) /\ slotOf' = PlaceAfter(q)
  BY <1>1 DEF Commit
<1>3. q \in WriterState /\ WriterOK(q) /\ q.items \in SUBSET Goods
  BY <1>1, <1>2, WriterTyped DEF StoredInv
<1>4. \A g \in Goods \ q.items : goods'[g] = goods[g] /\ slotOf'[g] = slotOf[g]
  BY <1>2 DEF StatusAfter, PlaceAfter
<1>5. \A g \in q.items : slotOf'[g] = q.slot /\ (goods'[g] = "STORED" => q.to = "STORED")
  BY <1>2, <1>3 DEF StatusAfter, PlaceAfter, WriterOK
<1>6. StoredWhereItBelongs'
  <2> SUFFICES ASSUME NEW g \in Goods, goods'[g] = "STORED"
               PROVE  /\ slotOf'[g] # None /\ slotOf'[g] \notin Maintenance
                      /\ g \in Cold => slotOf'[g] \in Cold
                      /\ g \in contested' \/ SiteOf[slotOf'[g]] = home'[g]
    BY DEF StoredWhereItBelongs
  <2>0. contested \subseteq contested'
    BY ContestGrows
  <2>1. CASE g \in q.items
    <3>1. slotOf'[g] = q.slot /\ q.to = "STORED" /\ q.slot \in Slots /\ Zoned(g, q.slot)
      BY <1>3, <1>5, <2>1 DEF WriterOK
    <3>2. Storing(r)
      BY <1>1, <1>2, <3>1 DEF Storing
    <3>3. g \in contested \/ SiteOf[q.slot] = home[g]
      BY <1>1, <2>1, <3>2 DEF StoredInv
    <3>. QED BY <1>2, <2>0, <3>1, <3>3, PlacesAssumption DEF Zoned, Rows
  <2>2. CASE g \notin q.items
    <3>1. goods[g] = "STORED" /\ slotOf'[g] = slotOf[g]
      BY <1>4, <2>2
    <3>. QED BY <1>2, <2>0, <3>1 DEF StoredInv, StoredWhereItBelongs
  <2>. QED BY <2>1, <2>2
<1>7. ASSUME NEW s \in Requests \ {r}, req[s].op = "move", NEW g \in req[s].items
      PROVE  g \in contested \/ goods'[g] = goods[g] \/ goods'[g] # "STORED"
  <2>1. g \in Goods
    BY <1>7, RequestShape DEF StoredInv, TypeInv, TypeOK
  <2>2. CASE g \in q.items /\ goods'[g] = "STORED"
    <3>1. Storing(r)
      BY <1>1, <1>2, <1>5, <2>2 DEF Storing
    <3>2. g \in Contest
      BY <1>1, <1>7, <2>1, <2>2, <3>1 DEF Contest
    <3>. QED BY <3>2 DEF StoredInv
  <2>. QED BY <1>4, <2>1, <2>2
<1>. QED BY <1>2, <1>6, <1>7, EndStored

LEMMA ReceiveStored ==
  ASSUME StoredInv, TypeInv', NEW r \in Requests, CommitReceive(r), Watch
  PROVE  StoredInv'
<1>1. /\ Finish(r) /\ slotOf' = slotOf /\ home' = home
      /\ \A g \in Goods : goods'[g] = "STORED" => goods[g] = "STORED"
  BY DEF CommitReceive
<1>2. StoredWhereItBelongs'
  BY <1>1, ContestGrows DEF StoredInv, StoredWhereItBelongs
<1>3. ASSUME NEW s \in Requests \ {r}, req[s].op = "move", NEW g \in req[s].items
      PROVE  goods'[g] = goods[g] \/ goods'[g] # "STORED"
  <2>1. g \in Goods
    BY <1>3, RequestShape DEF StoredInv, TypeInv, TypeOK
  <2>. QED BY <1>1, <2>1
<1>. QED BY <1>1, <1>2, <1>3, EndStored

LEMMA MoveStored ==
  ASSUME StoredInv, TypeInv', NEW r \in Requests, CommitMove(r), Watch
  PROVE  StoredInv'
<1>1. /\ req[r].op = "move" /\ Finish(r) /\ slotOf' = slotOf /\ goods' = goods
      /\ \A g \in Goods \ req[r].items : home'[g] = home[g]
  BY DEF CommitMove, StoredInv, TypeInv, TypeOK
<1>2. StoredWhereItBelongs'
  <2> SUFFICES ASSUME NEW g \in Goods, goods'[g] = "STORED"
               PROVE  /\ slotOf'[g] # None /\ slotOf'[g] \notin Maintenance
                      /\ g \in Cold => slotOf'[g] \in Cold
                      /\ g \in contested' \/ SiteOf[slotOf'[g]] = home'[g]
    BY DEF StoredWhereItBelongs
  <2>1. contested \subseteq contested'
    BY ContestGrows
  <2>2. CASE g \in req[r].items
    <3>1. g \in contested
      BY <1>1, <2>2 DEF StoredInv
    <3>. QED BY <1>1, <2>1, <3>1 DEF StoredInv, StoredWhereItBelongs
  <2>3. CASE g \notin req[r].items
    BY <1>1, <2>1, <2>3 DEF StoredInv, StoredWhereItBelongs
  <2>. QED BY <2>2, <2>3
<1>3. ASSUME NEW s \in Requests \ {r}, Storing(s), NEW g \in req[s].items
      PROVE  g \in contested \/ home'[g] = home[g]
  <2>1. g \in Goods
    BY <1>3, WriterTyped DEF Storing, StoredInv
  <2>2. CASE g \in req[r].items
    <3>1. g \in Contest
      BY <1>1, <1>3, <2>1, <2>2 DEF Contest
    <3>. QED BY <3>1 DEF StoredInv
  <2>3. CASE g \notin req[r].items
    BY <1>1, <2>1, <2>3
  <2>. QED BY <2>2, <2>3
<1>. QED BY <1>1, <1>2, <1>3, EndStored

LEMMA StoredInvariant == Spec => []StoredInv
<1>1. Init /\ TypeInv => StoredInv
  <2> SUFFICES ASSUME Init, TypeInv PROVE StoredInv
    OBVIOUS
  <2>1. \A g \in Goods : goods[g] # "STORED"
    BY StatusAssumption DEF Init
  <2>2. \A r \in Requests : ~Storing(r) /\ req[r].op # "move"
    BY DEF Init, Storing, Writing, Idle
  <2>3. Contest = {}
    BY <2>2 DEF Contest
  <2>. QED BY <2>1, <2>2, <2>3 DEF StoredInv, StoredWhereItBelongs
<1>2. StoredInv /\ TypeInv' /\ [Next]_vars => StoredInv'
  <2> SUFFICES ASSUME StoredInv, TypeInv', [Next]_vars PROVE StoredInv'
    OBVIOUS
  <2>1. CASE Next
    <3>0. Watch
      BY <2>1 DEF Next
    <3>1. PICK r \in Requests : Begin(r) \/ Continue(r) \/ Abort(r) \/ EndDeadlock(r)
      BY <2>1 DEF Next, Step
    <3>2. CASE Begin(r)
      BY <3>0, <3>2, BeginStored
    <3>3. CASE CheckFit(r) \/ WriteGoods(r) \/ ReadSum(r) \/ WriteSum(r)
      BY <3>0, <3>3, WriterStored
    <3>4. CASE Commit(r)
      BY <3>0, <3>4, CommitStored
    <3>5. CASE CommitReceive(r)
      BY <3>0, <3>5, ReceiveStored
    <3>6. CASE CommitMove(r)
      BY <3>0, <3>6, MoveStored
    <3>7. CASE ReportSlot(r)
      <4>1. PICK p \in RequestState : p.op = "report" /\ Advance(r, p)
        BY <3>7, ReportHeld DEF StoredInv
      <4>2. p.op \notin WriteOps \cup {"move"} /\ UNCHANGED tables
        BY <3>7, <4>1 DEF WriteOps, ReportSlot
      <4>. QED BY <3>0, <4>1, <4>2, CalmStored
    <3>8. CASE CommitReport(r) \/ Abort(r) \/ EndDeadlock(r)
      BY <3>0, <3>8, FinishStored DEF CommitReport, Abort, EndDeadlock
    <3>. QED
      BY <3>1, <3>2, <3>3, <3>4, <3>5, <3>6, <3>7, <3>8 DEF Continue
  <2>2. CASE UNCHANGED vars
    <3>1. UNCHANGED <<goods, slotOf, home, req, contested>>
      BY <2>2 DEF vars
    <3>2. StoredWhereItBelongs' /\ (Contest \subseteq contested)'
      BY <3>1 DEF StoredInv, StoredWhereItBelongs, Contest, Storing, Writing
    <3>. QED BY <3>1, <3>2 DEF StoredInv, Storing, Writing
  <2>. QED BY <2>1, <2>2
<1>. QED BY <1>1, <1>2, TypeInvariant, PTL DEF Spec

(* However requests interleave, a STORED item is in a slot, in none under  *)
(* maintenance, and cold goods are in cold storage; and in one of its own  *)
(* warehouse, unless the warehouse was being changed, for an item that was *)
(* read before it came to the dock, during a put-away or transfer of it.   *)
THEOREM AlwaysStoredWhereItBelongs == Spec => []StoredWhereItBelongs
<1>1. StoredInv => StoredWhereItBelongs
  BY DEF StoredInv
<1>. QED BY <1>1, StoredInvariant, PTL

(***************************************************************************)
(* How far a slot is filled: what is stored in it and what has passed the  *)
(* fit check for it.                                                       *)
(***************************************************************************)
Filling(r, s) == Storing(r) /\ req[r].slot = s /\ req[r].stage # "fit"
Coming(s) == {g \in Goods : \E r \in Requests : Filling(r, s) /\ g \in req[r].items}
Ahead(s) == Occupants(goods, slotOf, s) \cup Coming(s)
Within(load, s, m) == 2 * load <= 2 * (Limit[s][m] + Excess(SiteOf[s])) + Grain[m]
Bounded == \A s \in Slots, m \in Measures : Within(Load(Ahead(s), m), s, m)

LEMMA MeasuresTyped ==
  ASSUME NEW s \in Slots, NEW m \in Measures
  PROVE  Limit[s][m] \in Nat /\ Grain[m] \in Nat
BY ItemsAssumption

LEMMA SlotOccupants ==
  ASSUME TypeInv, NEW st, NEW at, NEW s \in Slots
  PROVE  Occupants(st, at, s) = {g \in Goods : st[g] = "STORED" /\ at[g] = s}
BY PlacesAssumption DEF Occupants, TypeInv, TypeOK

LEMMA AheadTyped ==
  ASSUME NEW s
  PROVE  Ahead(s) \in SUBSET Goods /\ Coming(s) \in SUBSET Goods
         /\ Occupants(goods, slotOf, s) \in SUBSET Goods
BY DEF Ahead, Coming, Occupants

LEMMA ProductMonotone ==
  ASSUME NEW a \in Nat, NEW b \in Nat, NEW c \in Nat, a <= b
  PROVE  a * c <= b * c /\ a * c \in Nat
OBVIOUS

LEMMA OtherRequests ==
  ASSUME NEW r \in Requests
  PROVE  /\ IsFiniteSet(Requests \ {r})
         /\ Cardinality(Requests \ {r}) = Cardinality(Requests) - 1
         /\ Cardinality(Requests) - 1 \in Nat
<1>1. IsFiniteSet(Requests)
  BY ItemsAssumption
<1>2. IsFiniteSet(Requests \ {r})
      /\ Cardinality(Requests \ {r}) = Cardinality(Requests) - 1
  BY <1>1, FS_RemoveElement
<1>. QED BY <1>2, FS_CardinalityType

LEMMA ExcessTyped ==
  ASSUME NEW w
  PROVE  Excess(w) \in Nat /\ (w \in crowded => Excess(w) = (Cardinality(Requests) - 1) * Largest)
<1>1. Cardinality(Requests) - 1 \in Nat
  BY ItemsAssumption, OtherRequests
<1>2. (Cardinality(Requests) - 1) * Largest \in Nat
  BY <1>1, ItemsAssumption, ProductMonotone
<1>. QED BY <1>2 DEF Excess

LEMMA ExcessGrows ==
  ASSUME crowded \subseteq crowded', NEW w
  PROVE  Excess(w)' \in Nat /\ Excess(w) <= Excess(w)'
<1>1. Excess(w) \in Nat /\ Excess(w)' \in Nat
  <2>1. (Cardinality(Requests) - 1) * Largest \in Nat
    <3>1. Cardinality(Requests) - 1 \in Nat
      BY ItemsAssumption, OtherRequests
    <3>. QED BY <3>1, ItemsAssumption, ProductMonotone
  <2>. QED BY <2>1 DEF Excess
<1>. QED BY <1>1 DEF Excess

(* A slot that gets no fuller is within its bound, which only grows.       *)
LEMMA LessWithin ==
  ASSUME NEW s \in Slots, NEW m \in Measures, NEW S \in SUBSET Goods,
         NEW T \in SUBSET Goods, S \subseteq T, Within(Load(T, m), s, m),
         crowded \subseteq crowded'
  PROVE  Within(Load(S, m), s, m)'
<1> DEFINE a == Load(S, m)
           b == Load(T, m)
           e == Excess(SiteOf[s])
           f == Excess(SiteOf[s])'
           lim == Limit[s][m]
           gr == Grain[m]
<1>1. a <= b /\ a \in Nat /\ b \in Nat
  BY LoadMonotone, LoadTyped
<1>2. e \in Nat /\ f \in Nat /\ e <= f /\ lim \in Nat /\ gr \in Nat
  BY ExcessTyped, ExcessGrows, MeasuresTyped
<1>3. 2 * b <= 2 * (lim + e) + gr
  BY DEF Within
<1>4. 2 * a <= 2 * (lim + f) + gr
  <2> HIDE DEF a, b, e, f, lim, gr
  <2>. QED BY <1>1, <1>2, <1>3
<1>. QED BY <1>4 DEF Within

(* A step in which no slot gets anything to come.                          *)
LEMMA NothingNew ==
  ASSUME Bounded, crowded \subseteq crowded',
         \A s \in Slots : Ahead(s)' \subseteq Ahead(s)
  PROVE  Bounded'
<1> SUFFICES ASSUME NEW s \in Slots, NEW m \in Measures
             PROVE  Within(Load(Ahead(s), m), s, m)'
  BY DEF Bounded
<1>1. PICK S, T : S = Ahead(s)' /\ T = Ahead(s)
  OBVIOUS
<1>2. S \in SUBSET Goods /\ T \in SUBSET Goods /\ S \subseteq T
  BY <1>1, AheadTyped
<1>3. Within(Load(T, m), s, m)
  BY <1>1 DEF Bounded
<1>4. Within(Load(S, m), s, m)'
  BY <1>2, <1>3, LessWithin
<1>. QED BY <1>1, <1>4

(* What the other requests are about to put into a slot is one item each;  *)
(* with none of them it is nothing.                                        *)
LEMMA OthersBring ==
  ASSUME TypeInv, NEW r \in Requests, NEW s, ~Filling(r, s), NEW m \in Measures
  PROVE  /\ Load(Coming(s), m) <= (Cardinality(Requests) - 1) * Largest
         /\ Load(Coming(s), m) \in Nat
         /\ (\A o \in Requests : ~Filling(o, s)) => Load(Coming(s), m) = 0
<1> DEFINE F == {o \in Requests : Filling(o, s)}
           f == [o \in F |-> CHOOSE g \in Goods : req[o].items = {g}]
<1>1. \A o \in F : f[o] \in Goods /\ req[o].items = {f[o]}
  <2> SUFFICES ASSUME NEW o \in F
               PROVE  \E g \in Goods : req[o].items = {g}
    OBVIOUS
  <2>1. WriterOK(req[o]) /\ req[o].to = "STORED"
    BY WriterTyped DEF Filling, Storing
  <2>. QED BY <2>1 DEF WriterOK
<1>2. Coming(s) = {f[o] : o \in F}
  <2> HIDE DEF f
  <2>. QED BY <1>1 DEF Coming
<1>3. f \in Surjection(F, Coming(s))
  <2>1. f \in [F -> Coming(s)]
    BY <1>2
  <2> HIDE DEF f, F
  <2>. QED BY <1>2, <2>1 DEF Surjection
<1>4. F \subseteq Requests \ {r}
  OBVIOUS
<1> HIDE DEF F, f
<1>5. IsFiniteSet(F) /\ Cardinality(F) <= Cardinality(Requests \ {r})
  BY <1>4, OtherRequests, FS_Subset
<1>6. IsFiniteSet(Coming(s)) /\ Cardinality(Coming(s)) <= Cardinality(F)
  BY <1>3, <1>5, FS_Surjection
<1>7. Cardinality(Coming(s)) \in Nat /\ Cardinality(F) \in Nat
  BY <1>5, <1>6, FS_CardinalityType
<1>8. Cardinality(Coming(s)) <= Cardinality(Requests) - 1
      /\ Cardinality(Requests) - 1 \in Nat
  <2> DEFINE x == Cardinality(Coming(s))
             y == Cardinality(F)
             z == Cardinality(Requests) - 1
  <2>1. x \in Nat /\ y \in Nat /\ z \in Nat /\ x <= y /\ y <= z
    BY <1>5, <1>6, <1>7, OtherRequests
  <2> HIDE DEF x, y, z
  <2>2. x <= z /\ z \in Nat
    BY <2>1
  <2>. QED BY <2>2 DEF x, z
<1> DEFINE a == Cardinality(Coming(s))
           b == Cardinality(Requests) - 1
           l == Load(Coming(s), m)
<1>9. l \in Nat /\ l <= a * Largest /\ a \in Nat /\ b \in Nat /\ a <= b
  BY <1>7, <1>8, AheadTyped, LoadTyped
<1>10. a * Largest <= b * Largest /\ a * Largest \in Nat /\ b * Largest \in Nat
  <2> HIDE DEF a, b
  <2>. QED BY <1>9, ItemsAssumption, ProductMonotone
<1>11. l <= b * Largest
  <2> DEFINE x == a * Largest
             y == b * Largest
  <2> HIDE DEF a, b, l
  <2>1. x \in Nat /\ y \in Nat /\ x <= y /\ l <= x /\ l \in Nat
    BY <1>9, <1>10
  <2> HIDE DEF x, y
  <2>2. l <= y
    BY <2>1
  <2>. QED BY <2>2 DEF y
<1>12. (\A o \in Requests : ~Filling(o, s)) => l = 0
  <2> SUFFICES ASSUME \A o \in Requests : ~Filling(o, s) PROVE l = 0
    OBVIOUS
  <2>1. Pieces(Coming(s), m) = {}
    BY DEF Coming, Pieces
  <2>. QED BY <2>1, FS_EmptySet DEF Load
<1>. QED BY <1>9, <1>11, <1>12

(* The rounding of what is left lets an item in that is up to half a grain *)
(* too large.                                                              *)
LEMMA RoundedFits ==
  ASSUME NEW a \in Nat, NEW o \in Nat, NEW z \in Nat, NEW c \in Nat, NEW e \in Nat,
         NEW lim \in Nat, NEW gr \in Nat, NEW k \in Int,
         z <= k, 2 * (k - (lim - o)) <= gr, a <= o + (z + c), c <= e
  PROVE  2 * a <= 2 * (lim + e) + gr
OBVIOUS

(* If other requests are about to fill the slot, its warehouse is crowded: *)
(* what they bring is within the excess.                                   *)
LEMMA FillersMeet ==
  ASSUME TypeInv, NEW r \in Requests, Storing(r), req[r].stage = "fit",
         Writing(r)', req'[r].about = req[r].about,
         \A o \in Requests \ {r} : req'[o] = req[o], Watch, NEW m \in Measures,
         NEW s, s = req[r].slot
  PROVE  Load(Coming(s), m) \in Nat /\ Load(Coming(s), m) <= Excess(SiteOf[s])'
<1> DEFINE w == SiteOf[s]
           c == Load(Coming(s), m)
           e == Excess(w)'
<1>1. ~Filling(r, s)
  BY DEF Filling
<1>2. e \in Nat
  BY ExcessGrows DEF Watch
<1>3. CASE \A o \in Requests : ~Filling(o, s)
  <2>1. c = 0
    BY <1>1, <1>3, OthersBring
  <2>. QED BY <1>2, <2>1
<1>4. CASE \E o \in Requests : Filling(o, s)
  <2>1. PICK o \in Requests : Filling(o, s)
    BY <1>4
  <2>2. o # r /\ req'[o] = req[o] /\ Writing(o) /\ Writing(o)' /\ Writing(r)
    BY <1>1, <2>1 DEF Filling, Storing, Writing
  <2>3. req[o].slot = s /\ req[o].to = "STORED" /\ req[r].to = "STORED"
    BY <2>1 DEF Filling, Storing
  <2>4. s \in Slots /\ w \in req[r].about /\ w \in req[o].about
    BY <2>2, <2>3, WriterTyped, PlacesAssumption DEF WriterOK, Rows
  <2>5. About(r)' = req[r].about /\ About(o)' = req[o].about
    BY <2>2 DEF About, Writing
  <2>6. Meet(r, o)'
    BY <2>2, <2>4, <2>5 DEF Meet
  <2>7. w \in crowded'
    BY <2>4, <2>5, <2>6 DEF Crowd, Watch
  <2>8. e = (Cardinality(Requests) - 1) * Largest
    BY <2>7 DEF Excess
  <2>9. c \in Nat /\ c <= (Cardinality(Requests) - 1) * Largest
    BY <1>1, OthersBring
  <2>. QED BY <1>2, <2>8, <2>9
<1>. QED BY <1>3, <1>4

(* A fit check that succeeds.                                              *)
LEMMA FitBounded ==
  ASSUME TypeInv, Bounded, NEW r \in Requests, CheckFit(r), Writing(r)',
         req'[r].stage # "fit", req'[r].items = req[r].items, req'[r].to = req[r].to,
         req'[r].slot = req[r].slot, req'[r].about = req[r].about,
         \A o \in Requests \ {r} : req'[o] = req[o], Watch, NEW m \in Measures,
         NEW s, s = req[r].slot
  PROVE  Within(Load(Ahead(s), m), s, m)'
<1>0. Writing(r) /\ req[r].stage = "fit" /\ UNCHANGED <<goods, slotOf, home>>
  BY DEF CheckFit, tables
<1>1. WriterOK(req[r]) /\ req[r].to = "STORED" /\ Storing(r) /\ s \in Slots
  BY <1>0, WriterTyped DEF WriterOK, Storing
<1>2. PICK g \in Goods : req[r].items = {g}
  BY <1>1 DEF WriterOK
<1>3. MayFit(g, s)
  <2>1. CASE Finish(r)
    <3>1. req'[r] = Idle
      BY <2>1, Advanced DEF Finish, RequestState
    <3>. QED BY <3>1 DEF Writing, Idle
  <2>2. CASE \A x \in req[r].items : MayFit(x, s)
    BY <1>2, <2>2
  <2>. QED BY <2>1, <2>2 DEF CheckFit
<1> DEFINE O == Occupants(goods, slotOf, s)
           lim == Limit[s][m]
           gr == Grain[m]
           o1 == Load(O \ {g}, m)
           sz == Size[g][m]
           c == Load(Coming(s), m)
           a == Load(Ahead(s)', m)
           e == Excess(SiteOf[s])'
<1>4. lim \in Nat /\ gr \in Nat /\ o1 \in Nat /\ sz \in Nat
  <2>1. O \ {g} \in SUBSET Goods
    BY OccupantsTyped
  <2>2. o1 \in Nat
    BY <2>1, LoadTyped
  <2>3. sz \in Nat
    BY ItemsAssumption
  <2>. QED BY <1>1, <2>2, <2>3, MeasuresTyped
<1>5. c \in Nat /\ c <= e /\ e \in Nat
  <2>1. e \in Nat
    BY ExcessGrows DEF Watch
  <2>. QED BY <1>0, <1>1, <2>1, FillersMeet DEF Writing
<1>6. Occupants(goods, slotOf, s)' = O /\ Coming(s)' = {g} \cup Coming(s)
  <2>1. Occupants(goods, slotOf, s)' = O
    BY <1>0 DEF Occupants
  <2>2. \A o \in Requests \ {r} : Filling(o, s)' <=> Filling(o, s)
    BY DEF Filling, Storing, Writing
  <2>3. Filling(r, s)' /\ ~Filling(r, s) /\ req'[r].items = {g}
    BY <1>0, <1>1, <1>2 DEF Filling, Storing
  <2>. QED BY <1>2, <2>1, <2>2, <2>3 DEF Coming
<1>7. CASE sz = 0
  <2>1. PICK A, B : A = Ahead(s)' /\ B = Ahead(s)
    OBVIOUS
  <2>2. /\ A = B \cup {g} /\ A \in SUBSET Goods /\ B \in SUBSET Goods
        /\ {g} \in SUBSET Goods
    BY <1>6, <2>1, AheadTyped DEF Ahead
  <2> DEFINE x == Load(A, m)
             y == Load(B, m)
  <2>3. x <= y + Load({g}, m) /\ Load({g}, m) = 0
    BY <1>7, <2>2, LoadUnion, LoadOne
  <2>4. x \in Nat /\ y \in Nat
    BY <2>2, LoadTyped
  <2> DEFINE f == Excess(SiteOf[s])
  <2>5. f \in Nat /\ f <= e
    BY ExcessTyped, ExcessGrows DEF Watch
  <2>6. 2 * y <= 2 * (lim + f) + gr
    BY <1>1, <2>1 DEF Bounded, Within
  <2>7. 2 * x <= 2 * (lim + e) + gr
    <3>1. x <= y
      <4> HIDE DEF x, y
      <4>. QED BY <2>3, <2>4
    <3> HIDE DEF x, y, lim, gr, e, f
    <3>. QED BY <1>4, <1>5, <2>4, <2>5, <2>6, <3>1
  <2>. QED BY <1>1, <2>1, <2>7 DEF Within
<1>8. CASE sz # 0
  <2>1. PICK left \in Left(g, s, m) : sz <= left
    BY <1>3 DEF MayFit
  <2>2. PICK k \in Rounded(lim - o1, m) : left = IF k < 0 THEN 0 ELSE k
    BY <2>1 DEF Left
  <2>3. k \in Int /\ 2 * (k - (lim - o1)) <= gr
    <3>1. lim - o1 \in Int
      BY <1>4
    <3>. QED BY <2>2, <3>1, RoundedTyped
  <2>4. sz <= k
    <3> HIDE DEF sz, lim, o1
    <3>. QED BY <1>4, <1>8, <2>1, <2>2, <2>3
  <2>5. a <= o1 + (sz + c) /\ a \in Nat
    <3>1. O \ {g} \in SUBSET Goods /\ {g} \in SUBSET Goods /\ Coming(s) \in SUBSET Goods
      BY OccupantsTyped, AheadTyped
    <3>2. Ahead(s)' = (O \ {g}) \cup ({g} \cup Coming(s))
      BY <1>6 DEF Ahead
    <3>3. {g} \cup Coming(s) \in SUBSET Goods /\ Ahead(s)' \in SUBSET Goods
      BY <3>1, <3>2
    <3> DEFINE x == Load({g} \cup Coming(s), m)
               y == Load({g}, m)
    <3>4. a <= o1 + x
      BY <3>1, <3>2, <3>3, LoadUnion
    <3>5. x <= y + c /\ y = sz
      BY <3>1, LoadUnion, LoadOne
    <3>6. x \in Nat /\ a \in Nat
      BY <3>1, <3>3, LoadTyped
    <3> HIDE DEF x, y, a, o1, sz, c
    <3>. QED BY <1>4, <1>5, <3>4, <3>5, <3>6
  <2>6. 2 * a <= 2 * (lim + e) + gr
    <3> HIDE DEF a, o1, sz, c, e, lim, gr
    <3>. QED BY <1>4, <1>5, <2>3, <2>4, <2>5, RoundedFits
  <2>. QED BY <1>1, <2>6 DEF Within
<1>. QED BY <1>7, <1>8

LEMMA NoMore ==
  ASSUME UNCHANGED <<goods, slotOf, home>>, NEW r \in Requests, NEW s,
         \A o \in Requests \ {r} : req'[o] = req[o],
         Filling(r, s)' => Filling(r, s) /\ req'[r].items = req[r].items
  PROVE  Ahead(s)' \subseteq Ahead(s)
<1>1. Occupants(goods, slotOf, s)' = Occupants(goods, slotOf, s)
  BY DEF Occupants
<1>2. ASSUME NEW o \in Requests, Filling(o, s)'
      PROVE  Filling(o, s) /\ req'[o].items = req[o].items
  <2>1. CASE o = r
    BY <1>2, <2>1
  <2>2. CASE o # r
    BY <1>2, <2>2 DEF Filling, Storing, Writing
  <2>. QED BY <2>1, <2>2
<1>3. Coming(s)' \subseteq Coming(s)
  BY <1>2 DEF Coming
<1>. QED BY <1>1, <1>3 DEF Ahead

(* A step that leaves the tables alone and brings a request to nothing it  *)
(* would fill, or to no fit check passed.                                  *)
LEMMA CalmBounded ==
  ASSUME TypeInv, Bounded, NEW r \in Requests, NEW p, Advance(r, p), UNCHANGED tables,
         Watch, p.op \notin WriteOps \/ p.to # "STORED" \/ p.stage = "fit"
  PROVE  Bounded'
<1>1. req'[r] = p /\ \A o \in Requests \ {r} : req'[o] = req[o]
  BY Advanced
<1>2. \A s : ~Filling(r, s)'
  BY <1>1 DEF Filling, Storing, Writing, WriteOps
<1>. QED BY <1>1, <1>2, NoMore, NothingNew DEF tables, Watch

LEMMA FinishBounded ==
  ASSUME TypeInv, Bounded, NEW r \in Requests, Finish(r), UNCHANGED tables, Watch
  PROVE  Bounded'
<1>1. Idle.op \notin WriteOps
  BY DEF Idle, WriteOps
<1>. QED BY <1>1, CalmBounded DEF Finish

LEMMA BeginBounded ==
  ASSUME TypeInv, Bounded, NEW r \in Requests, Begin(r), Watch
  PROVE  Bounded'
<1>1. UNCHANGED tables
  BY Begins
<1>2. CASE Begun(r)
  <2>1. PICK q \in WriterState :
          Advance(r, q) /\ q.stage = IF q.to = "STORED" THEN "fit" ELSE "write"
    BY <1>2, BegunWriter
  <2>2. q.to # "STORED" \/ q.stage = "fit"
    BY <2>1
  <2>. QED BY <1>1, <2>1, <2>2, CalmBounded
<1>3. CASE BeginReceive(r) \/ BeginMove(r) \/ BeginReport(r)
  <2>1. PICK q \in RequestState : Advance(r, q) /\ q.op \in {"receive", "move", "report"}
    BY <1>3, OthersBegun
  <2>2. q.op \notin WriteOps
    BY <2>1 DEF WriteOps
  <2>. QED BY <1>1, <2>1, <2>2, CalmBounded
<1>. QED BY <1>2, <1>3, Begins

LEMMA WriterBounded ==
  ASSUME TypeInv, Bounded, NEW r \in Requests,
         CheckFit(r) \/ WriteGoods(r) \/ ReadSum(r) \/ WriteSum(r), Watch
  PROVE  Bounded'
<1>1. Writing(r) /\ UNCHANGED <<goods, slotOf, home>> /\ UNCHANGED tables
      /\ crowded \subseteq crowded'
  BY WriterStep DEF tables, Watch
<1>2. CASE Finish(r)
  BY <1>1, <1>2, FinishBounded
<1>3. ASSUME NEW p \in WriterState, Advance(r, p), GoesOn(req[r], p)
      PROVE  Bounded'
  <2>1. req'[r] = p /\ \A o \in Requests \ {r} : req'[o] = req[o]
    BY <1>3, Advanced
  <2>2. /\ Writing(r)' /\ req'[r].items = req[r].items /\ req'[r].to = req[r].to
        /\ req'[r].slot = req[r].slot /\ req'[r].about = req[r].about
        /\ req'[r].stage # "fit"
    BY <1>1, <1>3, <2>1 DEF Writing, GoesOn
  <2>3. CASE req[r].stage # "fit"
    <3>1. \A s : Filling(r, s)' => Filling(r, s)
      BY <1>1, <2>2, <2>3 DEF Filling, Storing
    <3>. QED BY <1>1, <2>1, <2>2, <3>1, NoMore, NothingNew
  <2>4. CASE req[r].stage = "fit"
    <3>1. CheckFit(r)
      BY <2>4 DEF WriteGoods, ReadSum, WriteSum
    <3>2. ASSUME NEW s \in Slots, NEW m \in Measures
          PROVE  Within(Load(Ahead(s), m), s, m)'
      <4>1. CASE s = req[r].slot
        BY <2>1, <2>2, <3>1, <4>1, FitBounded
      <4>2. CASE s # req[r].slot
        <5>1. ~Filling(r, s)'
          BY <2>2, <4>2 DEF Filling
        <5>2. PICK S, T : S = Ahead(s)' /\ T = Ahead(s)
          OBVIOUS
        <5>3. S \subseteq T /\ T \in SUBSET Goods
          BY <1>1, <2>1, <5>1, <5>2, NoMore, AheadTyped
        <5>4. Within(Load(T, m), s, m)
          BY <5>2 DEF Bounded
        <5>5. Within(Load(S, m), s, m)'
          BY <1>1, <5>3, <5>4, LessWithin
        <5>. QED BY <5>2, <5>5
      <4>. QED BY <4>1, <4>2
    <3>. QED BY <3>2 DEF Bounded
  <2>. QED BY <2>3, <2>4
<1>. QED BY <1>2, <1>3, WriterStep

(* A request that ends with a write to the tables.                         *)
LEMMA EndBounded ==
  ASSUME TypeInv, TypeInv', Bounded, NEW r \in Requests, Finish(r), Watch,
         \A s \in Slots, g \in Goods :
           goods'[g] = "STORED" /\ slotOf'[g] = s => g \in Ahead(s)
  PROVE  Bounded'
<1>1. req'[r] = Idle /\ \A o \in Requests \ {r} : req'[o] = req[o]
  BY Advanced DEF Finish
<1>2. ASSUME NEW s \in Slots PROVE Ahead(s)' \subseteq Ahead(s)
  <2>1. \A o \in Requests : Filling(o, s)' => Filling(o, s) /\ req'[o] = req[o]
    BY <1>1 DEF Filling, Storing, Writing, Idle
  <2>2. Coming(s)' \subseteq Coming(s)
    BY <2>1 DEF Coming
  <2>3. Occupants(goods, slotOf, s)' = {g \in Goods : goods'[g] = "STORED" /\ slotOf'[g] = s}
    BY PlacesAssumption DEF Occupants, TypeInv, TypeOK
  <2>. QED BY <2>2, <2>3 DEF Ahead
<1>. QED BY <1>2, NothingNew DEF Watch

LEMMA CommitBounded ==
  ASSUME TypeInv, TypeInv', Bounded, NEW r \in Requests, Commit(r), Watch
  PROVE  Bounded'
<1>1. PICK q : q = req[r]
  OBVIOUS
<1>2. /\ Writing(r) /\ q.stage = "commit" /\ Finish(r)
      /\ goods' = StatusAfter(q) /\ slotOf' = PlaceAfter(q)
  BY <1>1 DEF Commit
<1>3. WriterOK(q)
  BY <1>1, <1>2, WriterTyped
<1>4. ASSUME NEW s \in Slots, NEW g \in Goods, goods'[g] = "STORED", slotOf'[g] = s
      PROVE  g \in Ahead(s)
  <2>1. CASE g \in q.items
    <3>1. q.to = "STORED" /\ q.slot = s
      BY <1>2, <1>3, <1>4, <2>1 DEF StatusAfter, PlaceAfter, WriterOK
    <3>2. Filling(r, s)
      BY <1>1, <1>2, <3>1 DEF Filling, Storing
    <3>. QED BY <1>1, <2>1, <3>2 DEF Ahead, Coming
  <2>2. CASE g \notin q.items
    <3>1. goods[g] = "STORED" /\ slotOf[g] = s
      BY <1>2, <1>4, <2>2 DEF StatusAfter, PlaceAfter
    <3>. QED BY <3>1, SlotOccupants DEF Ahead
  <2>. QED BY <2>1, <2>2
<1>. QED BY <1>2, <1>4, EndBounded

LEMMA OtherEndsBounded ==
  ASSUME TypeInv, TypeInv', Bounded, NEW r \in Requests,
         CommitReceive(r) \/ CommitMove(r), Watch
  PROVE  Bounded'
<1>1. /\ Finish(r) /\ slotOf' = slotOf
      /\ \A g \in Goods : goods'[g] = "STORED" => goods[g] = "STORED"
  BY DEF CommitReceive, CommitMove
<1>2. \A s \in Slots, g \in Goods :
        goods'[g] = "STORED" /\ slotOf'[g] = s => g \in Ahead(s)
  BY <1>1, SlotOccupants DEF Ahead
<1>. QED BY <1>1, <1>2, EndBounded

LEMMA BoundedInvariant == Spec => []Bounded
<1>1. Init /\ TypeInv => Bounded
  <2> SUFFICES ASSUME Init, NEW s \in Slots, NEW m \in Measures
               PROVE  Within(Load(Ahead(s), m), s, m)
    BY DEF Bounded
  <2>1. Ahead(s) = {}
    BY StatusAssumption
       DEF Init, Ahead, Coming, Filling, Storing, Writing, Idle, Occupants
  <2>2. Load(Ahead(s), m) = 0
    BY <2>1, LoadNothing
  <2>3. Limit[s][m] \in Nat /\ Excess(SiteOf[s]) \in Nat /\ Grain[m] \in Nat
    BY MeasuresTyped, ExcessTyped
  <2>. QED BY <2>2, <2>3 DEF Within
<1>2. Bounded /\ TypeInv /\ TypeInv' /\ [Next]_vars => Bounded'
  <2> SUFFICES ASSUME Bounded, TypeInv, TypeInv', [Next]_vars PROVE Bounded'
    OBVIOUS
  <2>1. CASE Next
    <3>0. Watch
      BY <2>1 DEF Next
    <3>1. PICK r \in Requests : Begin(r) \/ Continue(r) \/ Abort(r) \/ EndDeadlock(r)
      BY <2>1 DEF Next, Step
    <3>2. CASE Begin(r)
      BY <3>0, <3>2, BeginBounded
    <3>3. CASE CheckFit(r) \/ WriteGoods(r) \/ ReadSum(r) \/ WriteSum(r)
      BY <3>0, <3>3, WriterBounded
    <3>4. CASE Commit(r)
      BY <3>0, <3>4, CommitBounded
    <3>5. CASE CommitReceive(r) \/ CommitMove(r)
      BY <3>0, <3>5, OtherEndsBounded
    <3>6. CASE ReportSlot(r)
      <4>1. PICK p \in RequestState : p.op = "report" /\ Advance(r, p)
        BY <3>6, ReportHeld
      <4>2. p.op \notin WriteOps /\ UNCHANGED tables
        BY <3>6, <4>1 DEF WriteOps, ReportSlot
      <4>. QED BY <3>0, <4>1, <4>2, CalmBounded
    <3>7. CASE CommitReport(r) \/ Abort(r) \/ EndDeadlock(r)
      BY <3>0, <3>7, FinishBounded DEF CommitReport, Abort, EndDeadlock
    <3>. QED
      BY <3>1, <3>2, <3>3, <3>4, <3>5, <3>6, <3>7 DEF Continue
  <2>2. CASE UNCHANGED vars
    <3>1. \A s : Ahead(s)' = Ahead(s)
      BY <2>2 DEF vars, Ahead, Coming, Filling, Storing, Writing, Occupants
    <3>. QED BY <2>2, <3>1, NothingNew DEF vars
  <2>. QED BY <2>1, <2>2
<1>. QED BY <1>1, <1>2, TypeInvariant, PTL DEF Spec

(* Put-aways and transfers fill a slot by at most half a unit of the       *)
(* rounding more than it takes where no two requests ever met in its       *)
(* warehouse, and elsewhere by at most one item more for each request      *)
(* beside the first.                                                       *)
THEOREM OverfillAlwaysBounded == Spec => []OverfillBounded
<1>1. Bounded => OverfillBounded
  <2> SUFFICES ASSUME Bounded, NEW s \in Slots, NEW m \in Measures
               PROVE  2 * Load(Occupants(goods, slotOf, s), m)
                        <= 2 * (Limit[s][m] + Excess(SiteOf[s])) + Grain[m]
    BY DEF OverfillBounded
  <2> DEFINE a == Load(Occupants(goods, slotOf, s), m)
             b == Load(Ahead(s), m)
             e == Excess(SiteOf[s])
             lim == Limit[s][m]
             gr == Grain[m]
  <2>1. a <= b /\ a \in Nat /\ b \in Nat
    <3>1. Occupants(goods, slotOf, s) \subseteq Ahead(s)
      BY DEF Ahead
    <3>. QED BY <3>1, AheadTyped, LoadMonotone, LoadTyped
  <2>2. 2 * b <= 2 * (lim + e) + gr
    BY DEF Bounded, Within
  <2>3. lim \in Nat /\ e \in Nat /\ gr \in Nat
    BY MeasuresTyped, ExcessTyped
  <2> HIDE DEF a, b, e, lim, gr
  <2>4. 2 * a <= 2 * (lim + e) + gr
    BY <2>1, <2>2, <2>3
  <2>. QED BY <2>4 DEF a, e, lim, gr
<1>. QED BY <1>1, BoundedInvariant, PTL

(***************************************************************************)
(* The sums kept beside the goods.  In a warehouse no two requests that    *)
(* met were about, the one request about it writes the sum of every row    *)
(* its items leave or enter, from goods nobody else changes.               *)
(***************************************************************************)
Sum(S) == Rounded(Load(S, "volume"), "volume")

(* What a writer has read is so, where it is alone.                        *)
Current(q) ==
  /\ \A g \in q.items : \A row \in RowsOf(g) :
       WarehouseOfRow(row) \notin crowded => row \in Touched(q)
  /\ \A row \in Rows :
       WarehouseOfRow(row) \notin crowded /\ Seen(q, row) => q.sums[row] \in Sum(Own(q, row))

Alone(q) ==
  /\ q.op \in WriteOps => Current(q)
  /\ q.op = "receive" =>
       \A g \in q.items : \A row \in RowsOf(g) : WarehouseOfRow(row) \in q.about \cup crowded
  /\ q.op = "move" =>
       /\ q.to \in q.about
       /\ \A g \in q.items : /\ home[g] \in q.about \cup crowded
                             /\ goods[g] = "STORED" => q.about \subseteq crowded

CurrentInv ==
  /\ TypeInv /\ Crowd \subseteq crowded
  /\ \A r \in Requests : Alone(req[r])
  /\ SumsCurrent

LEMMA CrowdGrows ==
  ASSUME Watch
  PROVE  crowded \subseteq crowded' /\ Crowd' \subseteq crowded'
BY DEF Watch

LEMMA OccupantsMember ==
  ASSUME NEW st, NEW at, NEW row, NEW g \in Goods
  PROVE  g \in Occupants(st, at, row)
           <=> st[g] = "STORED" /\ (row = at[g] \/ row = home[g])
BY DEF Occupants

(* A row the writer does not recalculate has the occupants it had.         *)
LEMMA OthersKeep ==
  ASSUME NEW q \in WriterState, Current(q), WriterOK(q), NEW row \in Rows,
         WarehouseOfRow(row) \notin crowded, row \notin Touched(q)
  PROVE  Own(q, row) = Occupants(goods, slotOf, row)
<1>1. row # None
  BY PlacesAssumption
<1>2. ASSUME NEW g \in Goods PROVE g \in Own(q, row) <=> g \in Occupants(goods, slotOf, row)
  <2>1. CASE g \notin q.items
    BY <2>1 DEF Own, Occupants, StatusAfter, PlaceAfter
  <2>2. CASE g \in q.items
    <3>1. row \notin RowsOf(g)
      BY <2>2 DEF Current
    <3>2. row # slotOf[g] /\ row # home[g]
      BY <1>1, <3>1 DEF RowsOf
    <3>3. g \notin Own(q, row)
      <4>1. SUFFICES ASSUME g \in Own(q, row) PROVE FALSE
        OBVIOUS
      <4>2. row = q.slot /\ StatusAfter(q)[g] = "STORED"
        BY <2>2, <3>2, <4>1 DEF Own, Occupants, PlaceAfter
      <4>3. q.to = "STORED"
        BY <2>2, <4>2 DEF StatusAfter, WriterOK
      <4>. QED BY <4>2, <4>3 DEF WriterOK
    <3>. QED BY <3>2, <3>3, OccupantsMember
  <2>. QED BY <2>1, <2>2
<1>3. Own(q, row) \subseteq Goods /\ Occupants(goods, slotOf, row) \subseteq Goods
  BY OccupantsTyped DEF Own
<1>. QED BY <1>2, <1>3

LEMMA OwnSame ==
  ASSUME NEW q, NEW p, p.op = q.op, p.items = q.items, p.to = q.to, p.slot = q.slot,
         NEW row
  PROVE  Own(p, row) = Own(q, row)
<1>1. StatusAfter(p) = StatusAfter(q)
  BY DEF StatusAfter
<1>2. PlaceAfter(p) = PlaceAfter(q)
  BY DEF PlaceAfter
<1>. QED BY <1>1, <1>2 DEF Own

LEMMA StillAlone ==
  ASSUME NEW q, q.op \in WriteOps, NEW p, GoesOn(q, p), Alone(q)
  PROVE  Alone(p)
<1>1. Current(q)
  BY DEF Alone
<1>2. \A row : Own(p, row) = Own(q, row)
  BY OwnSame DEF GoesOn
<1>3. ASSUME NEW row \in Rows, WarehouseOfRow(row) \notin crowded, Seen(p, row)
      PROVE  p.sums[row] \in Sum(Own(p, row))
  BY <1>1, <1>2, <1>3 DEF Current, GoesOn, Sum
<1>4. Current(p)
  BY <1>1, <1>3 DEF Current, GoesOn
<1>5. p.op \notin {"receive", "move"}
  BY DEF WriteOps, GoesOn
<1>. QED BY <1>4, <1>5 DEF Alone

LEMMA AloneLasts ==
  ASSUME NEW x, Alone(x), UNCHANGED tables, crowded \subseteq crowded'
  PROVE  Alone(x)'
<1>1. \A row : Own(x, row)' = Own(x, row)
  BY DEF tables, Own, Occupants, StatusAfter, PlaceAfter
<1>2. \A g : RowsOf(g)' = RowsOf(g)
  BY DEF tables, RowsOf
<1>3. Current(x) => Current(x)'
  BY <1>1, <1>2 DEF Current
<1>. QED BY <1>2, <1>3 DEF Alone, tables

(* A step of one request that leaves the tables alone.                     *)
LEMMA CalmCurrent ==
  ASSUME CurrentInv, TypeInv', NEW r \in Requests, NEW p, Advance(r, p), Alone(p),
         UNCHANGED tables, Watch
  PROVE  CurrentInv'
<1>1. req'[r] = p /\ \A s \in Requests \ {r} : req'[s] = req[s]
  BY Advanced DEF CurrentInv
<1>2. ASSUME NEW s \in Requests PROVE Alone(req[s])'
  <2>1. PICK x : x = req'[s]
    OBVIOUS
  <2>2. Alone(x)
    BY <1>1, <2>1 DEF CurrentInv
  <2>3. Alone(x)'
    BY <2>2, AloneLasts, CrowdGrows
  <2>. QED BY <2>1, <2>3
<1>3. SumsCurrent'
  <2>1. \A row : Occupants(goods, slotOf, row)' = Occupants(goods, slotOf, row)
    BY DEF Occupants, tables
  <2>. QED BY <2>1, CrowdGrows DEF CurrentInv, SumsCurrent, tables
<1>. QED BY <1>2, <1>3, CrowdGrows DEF CurrentInv

LEMMA FinishCurrent ==
  ASSUME CurrentInv, TypeInv', NEW r \in Requests, Finish(r), UNCHANGED tables, Watch
  PROVE  CurrentInv'
<1>1. Alone(Idle)
  BY DEF Alone, Idle, WriteOps
<1>. QED BY <1>1, CalmCurrent DEF Finish

LEMMA BeginCurrent ==
  ASSUME CurrentInv, TypeInv', NEW r \in Requests, Begin(r), Watch
  PROVE  CurrentInv'
<1>1. TypeInv /\ UNCHANGED tables
  BY Begins DEF CurrentInv
<1>2. CASE Begun(r)
  <2>1. PICK q \in WriterState :
          /\ Advance(r, q) /\ q.op \in WriteOps /\ q.rows = {}
          /\ q.stage = IF q.to = "STORED" THEN "fit" ELSE "write"
          /\ \A g \in q.items : RowsOf(g) \subseteq Touched(q)
    BY <1>2, BegunWriter
  <2>2. \A row : ~Seen(q, row)
    BY <2>1 DEF Seen
  <2>3. q.op \notin {"receive", "move"}
    BY <2>1 DEF WriteOps
  <2>4. Alone(q)
    BY <2>1, <2>2, <2>3 DEF Alone, Current
  <2>. QED BY <1>1, <2>1, <2>4, CalmCurrent
<1>3. CASE BeginReceive(r) \/ BeginMove(r) \/ BeginReport(r)
  <2>1. PICK q \in RequestState :
           /\ Advance(r, q) /\ q.op \in {"receive", "move", "report"}
           /\ q.op = "receive" =>
                \A g \in q.items : \A row \in RowsOf(g) : WarehouseOfRow(row) \in q.about
           /\ q.op = "move" =>
                /\ q.to \in q.about
                /\ \A g \in q.items : home[g] \in q.about /\ goods[g] # "STORED"
    BY <1>1, <1>3, OthersBegun
  <2>2. Alone(q)
    BY <2>1 DEF Alone, WriteOps
  <2>. QED BY <1>1, <2>1, <2>2, CalmCurrent
<1>. QED BY <1>1, <1>2, <1>3, Begins

LEMMA WriterCurrent ==
  ASSUME CurrentInv, TypeInv', NEW r \in Requests,
         CheckFit(r) \/ WriteGoods(r) \/ ReadSum(r) \/ WriteSum(r), Watch
  PROVE  CurrentInv'
<1>1. TypeInv /\ Alone(req[r])
  BY DEF CurrentInv
<1>2. Writing(r) /\ UNCHANGED tables
  BY <1>1, WriterStep
<1>3. req[r].op \in WriteOps
  BY <1>1, <1>2, WriterTyped
<1>4. ASSUME NEW p, Advance(r, p), GoesOn(req[r], p) PROVE CurrentInv'
  <2>1. Alone(p)
    BY <1>1, <1>3, <1>4, StillAlone
  <2>. QED BY <1>2, <1>4, <2>1, CalmCurrent
<1>. QED BY <1>1, <1>2, <1>4, WriterStep, FinishCurrent

(***************************************************************************)
(* A request that ends with a write to the tables changes its items only,  *)
(* and of the rows' occupants those of the warehouses it is about, unless  *)
(* they are crowded.                                                       *)
(***************************************************************************)
Effects(r) ==
  /\ \A g \in Goods \ ItemsOf(r) :
       goods'[g] = goods[g] /\ slotOf'[g] = slotOf[g] /\ home'[g] = home[g]
  /\ \A g \in ItemsOf(r) :
       /\ home'[g] = home[g] \/ home'[g] \in About(r)
       /\ \A row \in RowsOf(g)' :
            row \in RowsOf(g) \/ WarehouseOfRow(row) \in About(r)
  /\ \A row \in Rows :
       WarehouseOfRow(row) \notin About(r) \cup crowded =>
         Occupants(goods, slotOf, row)' = Occupants(goods, slotOf, row)

LEMMA ItemsTyped ==
  ASSUME TypeInv, NEW r \in Requests
  PROVE  ItemsOf(r) \in SUBSET Goods
<1>1. PICK q : q = req[r] /\ q \in RequestState
  BY DEF TypeInv, TypeOK
<1>2. q.op \in {"idle", "report"} \/ q.items \in SUBSET Goods
  BY <1>1, RequestShape DEF WriterState, WriteOps
<1>. QED BY <1>1, <1>2 DEF ItemsOf

LEMMA SeenTouched ==
  ASSUME NEW q \in WriterState, WriterOK(q), NEW row, Seen(q, row)
  PROVE  row \in Touched(q)
<1>1. CASE row \in q.rows
  BY <1>1 DEF Touched
<1>2. CASE row \notin q.rows
  <2>1. q.stage = "row" /\ row = Head(q.todo)
    BY <1>2 DEF Seen
  <2>2. q.todo \in Seq(Rows) /\ q.todo # <<>>
    BY <2>1 DEF WriterOK, WriterState
  <2>3. row \in Members(q.todo)
    BY <2>1, <2>2, MembersNext
  <2>. QED BY <2>3 DEF Touched
<1>. QED BY <1>1, <1>2

LEMMA MetCrowded ==
  ASSUME CurrentInv, NEW r \in Requests, NEW o \in Requests \ {r}
  PROVE  /\ \A w \in About(o) : w \in About(r) => w \in crowded
         /\ \A g \in ItemsOf(o) : g \in ItemsOf(r) =>
              About(o) \subseteq crowded /\ About(r) \subseteq crowded
<1>1. Meet(r, o) \/ Meet(o, r) => About(o) \subseteq crowded /\ About(r) \subseteq crowded
  <2> SUFFICES ASSUME Meet(r, o) \/ Meet(o, r)
               PROVE  About(o) \subseteq Crowd /\ About(r) \subseteq Crowd
    BY DEF CurrentInv
  <2>1. Meet(r, o) /\ Meet(o, r)
    BY DEF Meet
  <2>. QED BY <2>1 DEF Crowd
<1>. QED BY <1>1 DEF Meet

LEMMA OthersCurrent ==
  ASSUME CurrentInv, Watch, NEW r \in Requests, NEW o \in Requests \ {r}, Effects(r),
         NEW x, x = req[o]
  PROVE  Alone(x)'
<1>1. Alone(x) /\ TypeInv /\ x \in RequestState
  BY DEF CurrentInv, TypeInv, TypeOK
<1>2. crowded \subseteq crowded'
  BY CrowdGrows
<1>3. ASSUME NEW g \in ItemsOf(o), About(o) \subseteq crowded => FALSE
      PROVE  /\ goods'[g] = goods[g] /\ slotOf'[g] = slotOf[g] /\ home'[g] = home[g]
             /\ RowsOf(g)' = RowsOf(g)
  <2>1. g \in Goods \ ItemsOf(r)
    BY <1>1, <1>3, MetCrowded, ItemsTyped
  <2>2. goods'[g] = goods[g] /\ slotOf'[g] = slotOf[g] /\ home'[g] = home[g]
    BY <2>1 DEF Effects
  <2>. QED BY <2>2 DEF RowsOf
<1>4. ASSUME NEW g \in ItemsOf(o), NEW row \in RowsOf(g)'
      PROVE  row \in RowsOf(g) \/ WarehouseOfRow(row) \in crowded
  <2>1. CASE g \in ItemsOf(r)
    <3>1. About(r) \subseteq crowded
      BY <2>1, MetCrowded
    <3>. QED BY <1>4, <2>1, <3>1 DEF Effects
  <2>2. CASE g \notin ItemsOf(r)
    <3>1. g \in Goods
      BY <1>1, ItemsTyped
    <3>2. RowsOf(g)' = RowsOf(g)
      BY <2>2, <3>1 DEF Effects, RowsOf
    <3>. QED BY <1>4, <3>2
  <2>. QED BY <2>1, <2>2
<1>5. CASE x.op \in WriteOps
  <2>1. x \in WriterState /\ WriterOK(x) /\ Current(x) /\ x.items \in SUBSET Goods
    BY <1>1, <1>5, WriterTyped DEF Alone, Writing, WriteOps
  <2>2. About(o) = x.about /\ ItemsOf(o) = x.items /\ x.op \notin {"receive", "move"}
    BY <1>5 DEF About, ItemsOf, WriteOps
  <2>3. \A g \in x.items : \A row \in RowsOf(g)' :
          WarehouseOfRow(row) \notin crowded' => row \in Touched(x)
    BY <1>2, <1>4, <2>1, <2>2 DEF Current
  <2>4. ASSUME NEW row \in Rows, WarehouseOfRow(row) \notin crowded', Seen(x, row)
        PROVE  x.sums[row] \in Sum(Own(x, row)')
    <3>1. WarehouseOfRow(row) \notin crowded /\ WarehouseOfRow(row) \in x.about
      BY <1>2, <2>1, <2>4, SeenTouched DEF WriterOK
    <3>2. WarehouseOfRow(row) \notin About(r) \cup crowded
      BY <2>2, <3>1, MetCrowded
    <3>3. \A g \in x.items :
            goods'[g] = goods[g] /\ slotOf'[g] = slotOf[g] /\ home'[g] = home[g]
      BY <1>3, <2>2, <3>1
    <3>4. \A g \in Goods : g \in Occupants(goods, slotOf, row)'
                             <=> g \in Occupants(goods, slotOf, row)
      BY <3>2 DEF Effects
    <3>5. ASSUME NEW g \in Goods PROVE g \in Own(x, row)' <=> g \in Own(x, row)
      <4>1. CASE g \in x.items
        BY <3>3, <4>1 DEF Own, Occupants, StatusAfter, PlaceAfter
      <4>2. CASE g \notin x.items
        <5>1. g \in Own(x, row) <=> g \in Occupants(goods, slotOf, row)
          BY <4>2 DEF Own, Occupants, StatusAfter, PlaceAfter
        <5>2. g \in Own(x, row)' <=> g \in Occupants(goods, slotOf, row)'
          BY <4>2 DEF Own, Occupants, StatusAfter, PlaceAfter
        <5>. QED BY <3>4, <5>1, <5>2
      <4>. QED BY <4>1, <4>2
    <3>6. Own(x, row)' \subseteq Goods /\ Own(x, row) \subseteq Goods
      BY DEF Own, Occupants
    <3>7. Own(x, row)' = Own(x, row)
      BY <3>5, <3>6
    <3>. QED BY <2>1, <2>4, <3>1, <3>7 DEF Current
  <2>5. Current(x)'
    BY <2>3, <2>4 DEF Current
  <2>. QED BY <2>2, <2>5 DEF Alone
<1>6. CASE x.op = "receive"
  <2>1. ItemsOf(o) = x.items
    BY <1>6 DEF ItemsOf
  <2>2. \A g \in x.items : \A row \in RowsOf(g)' :
          WarehouseOfRow(row) \in x.about \cup crowded'
    BY <1>1, <1>2, <1>4, <1>6, <2>1 DEF Alone
  <2>. QED BY <1>6, <2>2 DEF Alone, WriteOps
<1>7. CASE x.op = "move"
  <2>1. ItemsOf(o) = x.items /\ About(o) = x.about
    BY <1>7 DEF ItemsOf, About
  <2>2. ASSUME NEW g \in x.items
        PROVE  /\ home'[g] \in x.about \cup crowded'
               /\ goods'[g] = "STORED" => x.about \subseteq crowded'
    <3>0. g \in Goods /\ home[g] \in x.about \cup crowded
          /\ (goods[g] = "STORED" => x.about \subseteq crowded)
      BY <1>1, <1>7, <2>1, ItemsTyped DEF Alone
    <3>1. CASE g \in ItemsOf(r)
      <4>1. About(r) \subseteq crowded /\ x.about \subseteq crowded
        BY <2>1, <3>1, MetCrowded
      <4>2. home'[g] = home[g] \/ home'[g] \in About(r)
        BY <3>1 DEF Effects
      <4>. QED BY <1>2, <3>0, <4>1, <4>2
    <3>2. CASE g \notin ItemsOf(r)
      <4>1. goods'[g] = goods[g] /\ home'[g] = home[g]
        BY <3>0, <3>2 DEF Effects
      <4>. QED BY <1>2, <3>0, <4>1
    <3>. QED BY <3>1, <3>2
  <2>. QED BY <1>1, <1>7, <2>2 DEF Alone, WriteOps
<1>8. CASE x.op \notin WriteOps \cup {"receive", "move"}
  BY <1>8 DEF Alone
<1>. QED BY <1>5, <1>6, <1>7, <1>8

LEMMA EndCurrent ==
  ASSUME CurrentInv, TypeInv', SumsCurrent', NEW r \in Requests, Finish(r), Effects(r), Watch
  PROVE  CurrentInv'
<1>1. req'[r] = Idle /\ \A o \in Requests \ {r} : req'[o] = req[o]
  BY Advanced DEF Finish, CurrentInv
<1>2. ASSUME NEW o \in Requests PROVE Alone(req[o])'
  <2>1. PICK x : x = req'[o]
    OBVIOUS
  <2>2. CASE o = r
    <3>1. Alone(x)'
      BY <1>1, <2>1, <2>2 DEF Alone, Idle, WriteOps
    <3>. QED BY <2>1, <3>1
  <2>3. CASE o # r
    <3>1. x = req[o]
      BY <1>1, <2>1, <2>3
    <3>2. Alone(x)'
      BY <2>3, <3>1, OthersCurrent
    <3>. QED BY <2>1, <3>2
  <2>. QED BY <2>2, <2>3
<1>. QED BY <1>2, CrowdGrows DEF CurrentInv

LEMMA CommitCurrent ==
  ASSUME CurrentInv, TypeInv', NEW r \in Requests, Commit(r), Watch
  PROVE  CurrentInv'
<1>1. PICK q : q = req[r]
  OBVIOUS
<1>2. /\ Writing(r) /\ q.stage = "commit" /\ Finish(r) /\ home' = home
      /\ goods' = StatusAfter(q) /\ slotOf' = PlaceAfter(q) /\ stale' = stale \ q.rows
      /\ used' = [row \in Rows |-> IF row \in q.rows THEN q.sums[row] ELSE used[row]]
  BY <1>1 DEF Commit
<1>3. /\ q \in WriterState /\ WriterOK(q) /\ q.op \in WriteOps /\ q.items \in SUBSET Goods
      /\ Current(q) /\ SumsCurrent
  BY <1>1, <1>2, WriterTyped DEF CurrentInv, Alone
<1>4. Touched(q) = q.rows
  <2>1. q.todo = <<>>
    BY <1>2, <1>3 DEF WriterOK
  <2>2. Members(<<>>) = {}
    BY DEF Members
  <2>. QED BY <2>1, <2>2 DEF Touched
<1>5. About(r) = q.about /\ ItemsOf(r) = q.items
  BY <1>1, <1>2 DEF About, ItemsOf, Writing
<1>6. \A row : Occupants(goods, slotOf, row)' = Own(q, row)
  BY <1>2 DEF Own, Occupants
<1>7. Effects(r)
  <2>1. \A g \in Goods \ ItemsOf(r) :
          goods'[g] = goods[g] /\ slotOf'[g] = slotOf[g] /\ home'[g] = home[g]
    BY <1>2, <1>5 DEF StatusAfter, PlaceAfter
  <2>2. ASSUME NEW g \in ItemsOf(r), NEW row \in RowsOf(g)'
        PROVE  row \in RowsOf(g) \/ WarehouseOfRow(row) \in About(r)
    <3>1. g \in q.items /\ g \in Goods
      BY <1>3, <1>5
    <3>2. slotOf'[g] = q.slot
      BY <1>2, <3>1 DEF PlaceAfter
    <3>3. CASE row = q.slot
      <4>1. q.slot # None /\ SiteOf[q.slot] \in q.about /\ q.slot \in Slots
        BY <1>3, <2>2, <3>3 DEF RowsOf, WriterOK, WriterState
      <4>. QED BY <1>5, <3>3, <4>1 DEF WarehouseOfRow
    <3>4. CASE row # q.slot
      BY <1>2, <2>2, <3>2, <3>4 DEF RowsOf
    <3>. QED BY <3>3, <3>4
  <2>3. ASSUME NEW row \in Rows, WarehouseOfRow(row) \notin About(r) \cup crowded
        PROVE  Occupants(goods, slotOf, row)' = Occupants(goods, slotOf, row)
    <3>1. row \notin Touched(q)
      BY <1>3, <1>5, <2>3 DEF WriterOK
    <3>. QED BY <1>3, <1>6, <2>3, <3>1, OthersKeep
  <2>. QED BY <1>2, <2>1, <2>2, <2>3 DEF Effects
<1>8. ASSUME NEW row \in Rows \ stale', WarehouseOfRow(row) \notin crowded'
      PROVE  used'[row] \in Sum(Occupants(goods, slotOf, row)')
  <2>1. WarehouseOfRow(row) \notin crowded /\ row \in Rows
    BY <1>8, CrowdGrows
  <2>2. CASE row \in q.rows
    <3>1. q.sums[row] \in Sum(Own(q, row))
      BY <1>3, <2>1, <2>2 DEF Current, Seen
    <3>. QED BY <1>2, <1>6, <2>1, <2>2, <3>1
  <2>3. CASE row \notin q.rows
    <3>1. Own(q, row) = Occupants(goods, slotOf, row)
      BY <1>3, <1>4, <2>1, <2>3, OthersKeep
    <3>2. used[row] \in Sum(Occupants(goods, slotOf, row))
      BY <1>2, <1>3, <1>8, <2>1, <2>3 DEF SumsCurrent, Sum
    <3>. QED BY <1>2, <1>6, <2>1, <2>3, <3>1, <3>2
  <2>. QED BY <2>2, <2>3
<1>9. SumsCurrent'
  BY <1>8 DEF SumsCurrent, Sum
<1>. QED BY <1>2, <1>7, <1>9, EndCurrent

(* A sum that was current stays so while its row keeps its occupants.      *)
LEMMA SumsLast ==
  ASSUME SumsCurrent, used' = used, stale \subseteq stale', crowded \subseteq crowded',
         \A row \in Rows \ stale' : WarehouseOfRow(row) \notin crowded =>
           Occupants(goods, slotOf, row)' = Occupants(goods, slotOf, row)
  PROVE  SumsCurrent'
<1> SUFFICES ASSUME NEW row \in Rows \ stale', WarehouseOfRow(row) \notin crowded'
             PROVE  used'[row] \in Sum(Occupants(goods, slotOf, row)')
  BY DEF SumsCurrent, Sum
<1>1. row \in Rows \ stale /\ WarehouseOfRow(row) \notin crowded
  OBVIOUS
<1>2. used[row] \in Sum(Occupants(goods, slotOf, row))
  BY <1>1 DEF SumsCurrent, Sum
<1>. QED BY <1>1, <1>2

LEMMA ReceiveCurrent ==
  ASSUME CurrentInv, TypeInv', NEW r \in Requests, CommitReceive(r), Watch
  PROVE  CurrentInv'
<1>1. PICK q : q = req[r]
  OBVIOUS
<1>2. /\ q.op = "receive" /\ Finish(r) /\ slotOf' = slotOf /\ home' = home /\ used' = used
      /\ goods' = [g \in Goods |-> IF g \in q.items /\ goods[g] # Deleted
                                     THEN "INSPECTING" ELSE goods[g]]
      /\ stale' = stale \cup UNION {RowsOf(g) : g \in {h \in q.items : goods[h] = "STORED"}}
  BY <1>1 DEF CommitReceive
<1>3. q.items \in SUBSET Goods /\ Alone(q) /\ SumsCurrent
  BY <1>1, <1>2, RequestShape DEF CurrentInv, TypeInv, TypeOK
<1>4. About(r) = q.about /\ ItemsOf(r) = q.items
  BY <1>1, <1>2 DEF About, ItemsOf
<1>5. \A g \in q.items : goods'[g] # "STORED"
  BY <1>2, <1>3 DEF Deleted
<1>6. ASSUME NEW row \in Rows, \A g \in q.items : goods[g] = "STORED" => row \notin RowsOf(g)
      PROVE  Occupants(goods, slotOf, row)' = Occupants(goods, slotOf, row)
  <2>1. row # None
    BY PlacesAssumption
  <2>2. ASSUME NEW g \in Goods
        PROVE  g \in Occupants(goods, slotOf, row)' <=> g \in Occupants(goods, slotOf, row)
    <3>1. CASE g \in q.items
      <4>1. g \notin Occupants(goods, slotOf, row)'
        BY <1>5, <3>1 DEF Occupants
      <4>2. g \notin Occupants(goods, slotOf, row)
        BY <1>6, <2>1, <3>1 DEF Occupants, RowsOf
      <4>. QED BY <4>1, <4>2
    <3>2. CASE g \notin q.items
      BY <1>2, <3>2 DEF Occupants
    <3>. QED BY <3>1, <3>2
  <2>3. /\ Occupants(goods, slotOf, row)' \subseteq Goods
        /\ Occupants(goods, slotOf, row) \subseteq Goods
    BY DEF Occupants
  <2>. QED BY <2>2, <2>3
<1>7. Effects(r)
  <2>1. \A g \in Goods \ ItemsOf(r) :
          goods'[g] = goods[g] /\ slotOf'[g] = slotOf[g] /\ home'[g] = home[g]
    BY <1>2, <1>4
  <2>2. \A g : RowsOf(g)' = RowsOf(g)
    BY <1>2 DEF RowsOf
  <2>3. ASSUME NEW row \in Rows, WarehouseOfRow(row) \notin About(r) \cup crowded
        PROVE  Occupants(goods, slotOf, row)' = Occupants(goods, slotOf, row)
    BY <1>2, <1>3, <1>4, <1>6, <2>3 DEF Alone
  <2>. QED BY <1>2, <2>1, <2>2, <2>3 DEF Effects
<1>8. SumsCurrent'
  <2>1. \A row \in Rows \ stale' :
          Occupants(goods, slotOf, row)' = Occupants(goods, slotOf, row)
    BY <1>2, <1>6
  <2>2. stale \subseteq stale'
    BY <1>2
  <2>. QED BY <1>2, <1>3, <2>1, <2>2, SumsLast, CrowdGrows
<1>. QED BY <1>2, <1>7, <1>8, EndCurrent

LEMMA MoveCurrent ==
  ASSUME CurrentInv, TypeInv', NEW r \in Requests, CommitMove(r), Watch
  PROVE  CurrentInv'
<1>1. PICK q : q = req[r]
  OBVIOUS
<1>2. /\ q.op = "move" /\ Finish(r) /\ goods' = goods /\ slotOf' = slotOf
      /\ used' = used /\ stale' = stale
      /\ home' = IF \E g \in q.items : goods[g] = Deleted
                   THEN home
                   ELSE [g \in Goods |-> IF g \in q.items THEN q.to ELSE home[g]]
  BY <1>1 DEF CommitMove
<1>3. /\ q.items \in SUBSET Goods /\ q.to \in Warehouses /\ Alone(q) /\ SumsCurrent
      /\ home \in [Goods -> Warehouses]
  BY <1>1, <1>2, RequestShape DEF CurrentInv, TypeInv, TypeOK
<1>4. About(r) = q.about /\ ItemsOf(r) = q.items
  BY <1>1, <1>2 DEF About, ItemsOf
<1>5. /\ \A g \in Goods \ q.items : home'[g] = home[g]
      /\ \A g \in q.items : home'[g] = home[g] \/ home'[g] = q.to
  BY <1>2, <1>3
<1>6. /\ q.to \in q.about
      /\ \A g \in q.items : /\ home[g] \in q.about \cup crowded
                            /\ goods[g] = "STORED" => q.about \subseteq crowded
  BY <1>2, <1>3 DEF Alone
<1>7. \A w \in Warehouses : WarehouseOfRow(w) = w
  BY PlacesAssumption DEF WarehouseOfRow
<1>8. ASSUME NEW row \in Rows, NEW A, WarehouseOfRow(row) \notin A,
             \A g \in q.items : goods[g] = "STORED" => q.to \in A /\ home[g] \in A
      PROVE  Occupants(goods, slotOf, row)' = Occupants(goods, slotOf, row)
  <2>1. ASSUME NEW g \in Goods
        PROVE  g \in Occupants(goods, slotOf, row)' <=> g \in Occupants(goods, slotOf, row)
    <3>1. CASE g \in q.items /\ goods[g] = "STORED"
      <4>1. row # home[g] /\ row # q.to
        BY <1>3, <1>7, <1>8, <3>1
      <4>2. row # home'[g]
        BY <1>5, <3>1, <4>1
      <4>. QED BY <1>2, <4>1, <4>2 DEF Occupants
    <3>2. CASE ~(g \in q.items /\ goods[g] = "STORED")
      BY <1>2, <1>5, <3>2 DEF Occupants
    <3>. QED BY <3>1, <3>2
  <2>2. /\ Occupants(goods, slotOf, row)' \subseteq Goods
        /\ Occupants(goods, slotOf, row) \subseteq Goods
    BY DEF Occupants
  <2>. QED BY <2>1, <2>2
<1>9. ASSUME NEW row \in Rows, WarehouseOfRow(row) \notin crowded
      PROVE  Occupants(goods, slotOf, row)' = Occupants(goods, slotOf, row)
  BY <1>6, <1>8, <1>9
<1>10. Effects(r)
  <2>1. \A g \in Goods \ ItemsOf(r) :
          goods'[g] = goods[g] /\ slotOf'[g] = slotOf[g] /\ home'[g] = home[g]
    BY <1>2, <1>4, <1>5
  <2>2. ASSUME NEW g \in ItemsOf(r), NEW row \in RowsOf(g)'
        PROVE  row \in RowsOf(g) \/ WarehouseOfRow(row) \in About(r)
    <3>1. row = slotOf[g] \/ row = home'[g]
      BY <1>2, <2>2 DEF RowsOf
    <3>2. row # None
      BY <2>2 DEF RowsOf
    <3>3. CASE row = q.to
      BY <1>3, <1>4, <1>6, <1>7, <3>3
    <3>4. CASE row # q.to
      BY <1>4, <1>5, <3>1, <3>2, <3>4 DEF RowsOf
    <3>. QED BY <3>3, <3>4
  <2>3. \A g \in ItemsOf(r) : home'[g] = home[g] \/ home'[g] \in About(r)
    BY <1>4, <1>5, <1>6
  <2>. QED BY <1>9, <2>1, <2>2, <2>3 DEF Effects
<1>11. SumsCurrent'
  BY <1>2, <1>3, <1>9, SumsLast, CrowdGrows
<1>. QED BY <1>2, <1>10, <1>11, EndCurrent

LEMMA CurrentInvariant == Spec => []CurrentInv
<1>1. Init /\ TypeInv => CurrentInv
  <2> SUFFICES ASSUME Init, TypeInv PROVE CurrentInv
    OBVIOUS
  <2>1. Crowd = {}
    <3>1. \A r \in Requests : About(r) = {}
      BY DEF Init, About, Idle
    <3>. QED BY <3>1 DEF Crowd
  <2>2. \A r \in Requests : Alone(req[r])
    BY DEF Init, Alone, Idle, WriteOps
  <2>3. SumsCurrent
    <3>1. \A row : Occupants(goods, slotOf, row) = {}
      BY StatusAssumption DEF Init, Occupants
    <3>2. 0 \in Rounded(Load({}, "volume"), "volume")
      BY LoadNothing, RoundedNothing DEF Measures
    <3>. QED BY <3>1, <3>2 DEF Init, SumsCurrent
  <2>. QED BY <2>1, <2>2, <2>3 DEF CurrentInv
<1>2. CurrentInv /\ TypeInv' /\ [Next]_vars => CurrentInv'
  <2> SUFFICES ASSUME CurrentInv, TypeInv', [Next]_vars PROVE CurrentInv'
    OBVIOUS
  <2>1. CASE Next
    <3>0. Watch
      BY <2>1 DEF Next
    <3>1. PICK r \in Requests : Begin(r) \/ Continue(r) \/ Abort(r) \/ EndDeadlock(r)
      BY <2>1 DEF Next, Step
    <3>2. CASE Begin(r)
      BY <3>0, <3>2, BeginCurrent
    <3>3. CASE CheckFit(r) \/ WriteGoods(r) \/ ReadSum(r) \/ WriteSum(r)
      BY <3>0, <3>3, WriterCurrent
    <3>4. CASE Commit(r)
      BY <3>0, <3>4, CommitCurrent
    <3>5. CASE CommitReceive(r)
      BY <3>0, <3>5, ReceiveCurrent
    <3>6. CASE CommitMove(r)
      BY <3>0, <3>6, MoveCurrent
    <3>7. CASE ReportSlot(r)
      <4>1. PICK p \in RequestState : p.op = "report" /\ Advance(r, p)
        BY <3>7, ReportHeld DEF CurrentInv
      <4>2. Alone(p) /\ UNCHANGED tables
        BY <3>7, <4>1 DEF Alone, WriteOps, ReportSlot
      <4>. QED BY <3>0, <4>1, <4>2, CalmCurrent
    <3>8. CASE CommitReport(r) \/ Abort(r) \/ EndDeadlock(r)
      BY <3>0, <3>8, FinishCurrent DEF CommitReport, Abort, EndDeadlock
    <3>. QED
      BY <3>1, <3>2, <3>3, <3>4, <3>5, <3>6, <3>7, <3>8 DEF Continue
  <2>2. CASE UNCHANGED vars
    <3>1. UNCHANGED tables /\ req' = req /\ crowded' = crowded
      BY <2>2 DEF vars, tables
    <3>2. \A r \in Requests : Alone(req[r])'
      <4> TAKE r \in Requests
      <4>1. PICK x : x = req[r]
        OBVIOUS
      <4>2. Alone(x)'
        BY <3>1, <4>1, AloneLasts DEF CurrentInv
      <4>. QED BY <3>1, <4>1, <4>2
    <3>3. (Crowd \subseteq crowded)'
      BY <3>1 DEF CurrentInv, Crowd, Meet, About, ItemsOf
    <3>4. SumsCurrent'
      BY <3>1 DEF CurrentInv, SumsCurrent, Occupants, tables
    <3>. QED BY <3>2, <3>3, <3>4 DEF CurrentInv
  <2>. QED BY <2>1, <2>2
<1>. QED BY <1>1, <1>2, TypeInvariant, PTL DEF Spec

(* usedM3 and usedCapacityM3 are the stored volume, rounded, wherever no   *)
(* two requests that met were about, after any put-aways, transfers,       *)
(* deletions, moves and status changes, until the dock takes goods that    *)
(* are STORED from the row.                                                *)
THEOREM SumsStayCurrent == Spec => []SumsCurrent
<1>1. CurrentInv => SumsCurrent
  BY DEF CurrentInv
<1>. QED BY <1>1, CurrentInvariant, PTL
=============================================================================
