--------------------------- MODULE BillingProofs ---------------------------
(***************************************************************************)
(* Proofs about Billing, for any number of invoices, payments and requests *)
(* and any instants: the types of all rows and requests, the bound on the  *)
(* payments under review, and the penalty of every payment.                *)
(***************************************************************************)
EXTENDS Billing, FiniteSetTheorems, TLAPS

(***************************************************************************)
(* Types                                                                   *)
(***************************************************************************)
RentState == [op: {"rent"}, due: Nat]
ReadState == [op: {"pay"}, stage: {"read"}, invoice: Invoices]
TxState ==
  [op: {"pay"}, stage: {"tx"}, invoice: Invoices, amount: Nat, at: Nat]
VerifyState ==
  [op: {"verify"}, invoice: Invoices, payment: Payments \cup {None},
   verdict: {"VERIFIED", "REJECTED"}, at: Nat]

LEMMA RequestByOp ==
  ASSUME NEW q \in RequestState
  PROVE  /\ q = Idle \/ q \in RentState \cup ReadState \cup TxState \cup VerifyState
         /\ q.op = "rent" => q \in RentState
         /\ q.op = "pay" => q \in ReadState \cup TxState
         /\ q.op = "pay" /\ q.stage = "read" => q \in ReadState
         /\ q.op = "pay" /\ q.stage = "tx" => q \in TxState
         /\ q.op = "verify" => q \in VerifyState
BY DEF RequestState, RentState, ReadState, TxState, VerifyState, Idle

LEMMA StatesAreRequests ==
  {Idle} \cup RentState \cup ReadState \cup TxState \cup VerifyState = RequestState
BY DEF RequestState, RentState, ReadState, TxState, VerifyState

LEMMA AdvanceTyped ==
  ASSUME req \in [Requests -> RequestState], NEW r \in Requests,
         NEW q \in RequestState, Advance(r, q)
  PROVE  req' \in [Requests -> RequestState]
BY DEF Advance

LEMMA PayableNat ==
  ASSUME TypeOK, NEW i \in Invoices, NEW t \in Nat
  PROVE  Payable(i, t) \in Nat
<1>1. due[i] \in Nat
  BY DEF TypeOK
<1>2. CASE t <= due[i]
  BY <1>2 DEF Payable
<1>3. CASE ~(t <= due[i])
  <2>1. t - due[i] \in Nat
    BY <1>1, <1>3
  <2>2. \A a \in Nat : CeilDiv(a, 2) \in Nat /\ CeilDiv(a, 7) \in Nat
    BY DEF CeilDiv
  <2>3. WeeksOverdue(t - due[i]) \in Nat
    BY <2>1, <2>2 DEF WeeksOverdue
  <2>. QED BY <1>3, <2>3 DEF Payable
<1>. QED BY <1>2, <1>3

(* A verification never names a payment that is not there.                 *)
DecidedPresent ==
  \A r \in Requests :
    req[r].op = "verify" /\ req[r].payment \in Payments =>
      payment[req[r].payment] \in PaymentRow

LEMMA StepTyped ==
  ASSUME TypeOK, DecidedPresent, Step
  PROVE  /\ now' \in Instants
         /\ invoice' \in [Invoices -> InvoiceStatus \cup {NotCreated}]
         /\ due' \in [Invoices -> Nat] /\ total' \in [Invoices -> Nat]
         /\ payment' \in [Payments -> PaymentRow \cup {None}]
         /\ req' \in [Requests -> RequestState]
<1> USE DEF TypeOK, tables
<1>nat. now \in Nat
  BY TimeAssumption
<1>idle. Idle \in RequestState
  BY StatesAreRequests
<1>1. CASE Tick
  BY <1>1 DEF Tick
<1>2. ASSUME NEW r \in Requests, Handle(r)
      PROVE  /\ now' \in Instants
             /\ invoice' \in [Invoices -> InvoiceStatus \cup {NotCreated}]
             /\ due' \in [Invoices -> Nat] /\ total' \in [Invoices -> Nat]
             /\ payment' \in [Payments -> PaymentRow \cup {None}]
             /\ req' \in [Requests -> RequestState]
  <2>q. req[r] \in RequestState
    BY <1>2
  <2>1. CASE BeginRent(r)
    <3>1. [op |-> "rent", due |-> now + Grace] \in RequestState
      BY <1>nat, TimeAssumption, StatesAreRequests DEF RentState
    <3>. QED BY <2>1, <3>1, AdvanceTyped DEF BeginRent
  <2>2. CASE BeginPay(r)
    <3>1. PICK i \in Issued :
            Advance(r, [op |-> "pay", stage |-> "read", invoice |-> i])
      BY <2>2 DEF BeginPay
    <3>2. [op |-> "pay", stage |-> "read", invoice |-> i] \in RequestState
      BY StatesAreRequests DEF Issued, ReadState
    <3>. QED BY <2>2, <3>1, <3>2, AdvanceTyped DEF BeginPay
  <2>3. CASE CheckAmount(r)
    <3> DEFINE i == req[r].invoice
               q == [op |-> "pay", stage |-> "tx", invoice |-> i,
                     amount |-> Payable(i, now), at |-> now]
    <3>1. i \in Invoices
      BY <2>3, <2>q, RequestByOp DEF CheckAmount, ReadState
    <3>2. q \in TxState
      BY <3>1, <1>nat, PayableNat DEF TxState
    <3>3. q \in RequestState
      BY <3>2, StatesAreRequests
    <3>4. Advance(r, q) \/ Advance(r, Idle)
      BY <2>3 DEF CheckAmount, Finish
    <3>5. UNCHANGED <<now, invoice, due, total, payment>>
      BY <2>3 DEF CheckAmount
    <3>6. req' \in [Requests -> RequestState]
      BY <3>3, <3>4, <1>idle, AdvanceTyped
    <3>. QED BY <3>5, <3>6
  <2>4. CASE BeginVerify(r)
    <3>1. PICK i \in Issued, verdict \in {"VERIFIED", "REJECTED"},
               p \in Payments \cup {None} :
            Advance(r, [op |-> "verify", invoice |-> i, payment |-> p,
                        verdict |-> verdict, at |-> now])
      BY <2>4 DEF BeginVerify, UnderReview, PaymentsOf, Submitted
    <3>2. [op |-> "verify", invoice |-> i, payment |-> p,
           verdict |-> verdict, at |-> now] \in VerifyState
      BY <1>nat DEF Issued, VerifyState
    <3>3. req' \in [Requests -> RequestState]
      BY <3>1, <3>2, StatesAreRequests, AdvanceTyped
    <3>. QED BY <2>4, <3>3 DEF BeginVerify
  <2>5. CASE CommitVerify(r)
    <3>1. req[r] \in VerifyState
      BY <2>5, <2>q, RequestByOp DEF CommitVerify
    <3>2. Verdict(req[r].verdict, req[r].invoice, req[r].at) \in InvoiceStatus
      BY DEF Verdict, InvoiceStatus
    <3>3. invoice' \in [Invoices -> InvoiceStatus \cup {NotCreated}]
      BY <2>5, <3>1, <3>2 DEF CommitVerify, VerifyState
    <3>4. payment' \in [Payments -> PaymentRow \cup {None}]
      <4>1. ASSUME NEW p \in Payments, p = req[r].payment
            PROVE  [payment[p] EXCEPT !.status = req[r].verdict] \in PaymentRow
        <5>1. payment[p] \in PaymentRow
          BY <2>5, <4>1 DEF DecidedPresent, CommitVerify
        <5>2. req[r].verdict \in PaymentStatus
          BY <3>1 DEF VerifyState, PaymentStatus
        <5>. QED BY <5>1, <5>2 DEF PaymentRow
      <4>. QED BY <4>1, <2>5 DEF CommitVerify
    <3>5. req' \in [Requests -> RequestState]
      BY <2>5, <1>idle, AdvanceTyped DEF CommitVerify, Finish
    <3>. QED BY <2>5, <3>3, <3>4, <3>5 DEF CommitVerify
  <2>6. CASE Abort(r)
    BY <2>6, <1>idle, AdvanceTyped DEF Abort, Finish
  <2>7. ASSUME NEW i \in Invoices, CommitRent(r, i)
        PROVE  /\ invoice' \in [Invoices -> InvoiceStatus \cup {NotCreated}]
               /\ due' \in [Invoices -> Nat] /\ total' \in [Invoices -> Nat]
               /\ req' \in [Requests -> RequestState]
               /\ UNCHANGED <<now, payment>>
    <3>1. req[r].due \in Nat
      BY <2>7, <2>q, RequestByOp DEF CommitRent, RentState
    <3>2. req' \in [Requests -> RequestState]
      BY <2>7, <1>idle, AdvanceTyped DEF CommitRent, Finish
    <3>. QED BY <2>7, <3>1, <3>2 DEF CommitRent, InvoiceStatus
  <2>8. ASSUME NEW p \in Payments, CommitPay(r, p)
        PROVE  /\ invoice' \in [Invoices -> InvoiceStatus \cup {NotCreated}]
               /\ total' \in [Invoices -> Nat]
               /\ payment' \in [Payments -> PaymentRow \cup {None}]
               /\ req' \in [Requests -> RequestState]
               /\ UNCHANGED <<now, due>>
    <3>1. req[r] \in TxState
      BY <2>8, <2>q, RequestByOp DEF CommitPay
    <3>2. [invoice |-> req[r].invoice, status |-> "UNDER_REVIEW",
           amount |-> req[r].amount, at |-> req[r].at] \in PaymentRow
      BY <3>1 DEF TxState, PaymentRow, PaymentStatus
    <3>3. req' \in [Requests -> RequestState]
      BY <2>8, <1>idle, AdvanceTyped DEF CommitPay, Finish
    <3>4. payment' \in [Payments -> PaymentRow \cup {None}]
      BY <2>8, <3>2 DEF CommitPay
    <3>. QED BY <2>8, <3>1, <3>3, <3>4 DEF CommitPay, TxState, InvoiceStatus
  <2>. QED
    BY <1>2, <2>1, <2>2, <2>3, <2>4, <2>5, <2>6, <2>7, <2>8 DEF Handle
<1>. QED BY <1>1, <1>2 DEF Step

(* Only the request that is handled changes.                               *)
LEMMA OthersStay ==
  ASSUME req \in [Requests -> RequestState], NEW r \in Requests, Handle(r)
  PROVE  \A s \in Requests \ {r} : req'[s] = req[s]
<1>1. (\E q : Advance(r, q)) => \A s \in Requests \ {r} : req'[s] = req[s]
  BY DEF Advance
<1>2. \E q : Advance(r, q)
  <2>1. CASE CheckAmount(r)
    BY <2>1 DEF CheckAmount, Finish
  <2>2. CASE BeginRent(r) \/ BeginPay(r) \/ BeginVerify(r)
    BY <2>2 DEF BeginRent, BeginPay, BeginVerify
  <2>3. CASE CommitVerify(r) \/ Abort(r)
    BY <2>3 DEF CommitVerify, Abort, Finish
  <2>4. CASE \E i \in Invoices : CommitRent(r, i)
    BY <2>4 DEF CommitRent, Finish
  <2>5. CASE \E p \in Payments : CommitPay(r, p)
    BY <2>5 DEF CommitPay, Finish
  <2>. QED BY <2>1, <2>2, <2>3, <2>4, <2>5 DEF Handle
<1>. QED BY <1>1, <1>2

(* What becomes of the request that is handled.                            *)
Starts(r) ==
  BeginRent(r) /\ req'[r] = [op |-> "rent", due |-> now + Grace]
Reads(r) ==
  \E i \in Issued :
    /\ BeginPay(r) /\ MayPay(i)
    /\ req'[r] = [op |-> "pay", stage |-> "read", invoice |-> i]
Enters(r) ==
  /\ CheckAmount(r)
  /\ req'[r] = [op |-> "pay", stage |-> "tx", invoice |-> req[r].invoice,
                amount |-> Payable(req[r].invoice, now), at |-> now]
Decides(r) ==
  \E i \in Issued, v \in {"VERIFIED", "REJECTED"}, p \in Payments \cup {None} :
    /\ BeginVerify(r)
    /\ IF p = None THEN UnderReview(i) = {} ELSE p \in UnderReview(i)
    /\ req'[r] = [op |-> "verify", invoice |-> i, payment |-> p,
                  verdict |-> v, at |-> now]

LEMMA RequestAfter ==
  ASSUME TypeOK, NEW r \in Requests, Handle(r)
  PROVE  req'[r] = Idle \/ Starts(r) \/ Reads(r) \/ Enters(r) \/ Decides(r)
<1>t. req \in [Requests -> RequestState]
  BY DEF TypeOK
<1>a. \A q : Advance(r, q) => req'[r] = q
  BY <1>t DEF Advance
<1>1. CASE Finish(r)
  BY <1>1, <1>a DEF Finish
<1>2. CASE BeginRent(r)
  BY <1>2, <1>a DEF BeginRent, Starts
<1>3. CASE BeginPay(r)
  BY <1>3, <1>a DEF BeginPay, Reads
<1>4. CASE CheckAmount(r)
  BY <1>4, <1>a, <1>1 DEF CheckAmount, Enters
<1>5. CASE BeginVerify(r)
  <2>1. PICK i \in Issued, v \in {"VERIFIED", "REJECTED"} :
          \E p \in IF UnderReview(i) = {} THEN {None} ELSE UnderReview(i) :
            Advance(r, [op |-> "verify", invoice |-> i, payment |-> p,
                        verdict |-> v, at |-> now])
    BY <1>5 DEF BeginVerify
  <2>2. PICK p \in IF UnderReview(i) = {} THEN {None} ELSE UnderReview(i) :
            Advance(r, [op |-> "verify", invoice |-> i, payment |-> p,
                        verdict |-> v, at |-> now])
    BY <2>1
  <2>3. req'[r] = [op |-> "verify", invoice |-> i, payment |-> p,
                   verdict |-> v, at |-> now]
    BY <2>2, <1>a
  <2>u. UnderReview(i) \subseteq Payments /\ None \notin UnderReview(i)
    BY RowsAssumption DEF UnderReview, PaymentsOf, Submitted
  <2>4. p \in Payments \cup {None} /\ (p # None => p \in UnderReview(i))
    BY <2>2, <2>u
  <2>5. p = None => UnderReview(i) = {}
    BY <2>2, <2>u
  <2>. QED BY <1>5, <2>3, <2>4, <2>5 DEF Decides
<1>6. CASE CommitVerify(r)
  BY <1>6, <1>1 DEF CommitVerify
<1>7. CASE Abort(r)
  BY <1>7, <1>1 DEF Abort
<1>8. CASE \E i \in Invoices : CommitRent(r, i)
  BY <1>8, <1>1 DEF CommitRent
<1>9. CASE \E p \in Payments : CommitPay(r, p)
  BY <1>9, <1>1 DEF CommitPay
<1>. QED
  BY <1>2, <1>3, <1>4, <1>5, <1>6, <1>7, <1>8, <1>9, Zenon DEF Handle

LEMMA OpAfter ==
  ASSUME NEW r \in Requests
  PROVE  /\ req'[r] = Idle => req'[r].op = "idle"
         /\ Starts(r) => req'[r].op = "rent"
         /\ Reads(r) => req'[r].op = "pay" /\ req'[r].stage = "read"
         /\ Enters(r) => req'[r].op = "pay" /\ req'[r].stage = "tx"
         /\ Decides(r) => req'[r].op = "verify"
<1>1. req'[r] = Idle => req'[r].op = "idle"
  BY DEF Idle
<1>2. Starts(r) => req'[r].op = "rent"
  BY DEF Starts
<1>3. Reads(r) => req'[r].op = "pay" /\ req'[r].stage = "read"
  BY DEF Reads
<1>4. Enters(r) => req'[r].op = "pay" /\ req'[r].stage = "tx"
  BY DEF Enters
<1>5. Decides(r) => req'[r].op = "verify"
  BY DEF Decides
<1>. QED BY <1>1, <1>2, <1>3, <1>4, <1>5

(* A payment that is there keeps its invoice, amount and time, and a       *)
(* decided one never comes back under review.                              *)
LEMMA RowsStay ==
  ASSUME TypeOK, DecidedPresent, Step, NEW p \in Submitted
  PROVE  /\ payment[p] \in PaymentRow /\ payment'[p] \in PaymentRow
         /\ payment'[p].invoice = payment[p].invoice
         /\ payment'[p].amount = payment[p].amount
         /\ payment'[p].at = payment[p].at
         /\ payment[p].status # "UNDER_REVIEW" => payment'[p].status # "UNDER_REVIEW"
<1>0. p \in Payments /\ payment[p] # None /\ payment[p] \in PaymentRow
  BY DEF Submitted, TypeOK
<1> SUFFICES ASSUME payment'[p] # payment[p]
             PROVE  /\ payment'[p] \in PaymentRow
                    /\ payment'[p].invoice = payment[p].invoice
                    /\ payment'[p].amount = payment[p].amount
                    /\ payment'[p].at = payment[p].at
                    /\ payment'[p].status # "UNDER_REVIEW"
  BY <1>0
<1>1. PICK r \in Requests : Handle(r)
  BY DEF Step, Tick, tables
<1>2. CASE CommitVerify(r)
  <2>1. req[r] \in VerifyState
    BY <1>2, RequestByOp DEF CommitVerify, TypeOK
  <2>2. payment'[p] = [payment[p] EXCEPT !.status = req[r].verdict]
    BY <1>2, <1>0 DEF CommitVerify
  <2>3. req[r].verdict \in {"VERIFIED", "REJECTED"}
    BY <2>1 DEF VerifyState
  <2>. QED BY <1>0, <2>2, <2>3 DEF PaymentRow, PaymentStatus
<1>3. CASE \E q \in Payments : CommitPay(r, q)
  BY <1>3, <1>0 DEF CommitPay, TypeOK
<1>4. CASE UNCHANGED payment
  BY <1>4
<1>. QED
  BY <1>1, <1>2, <1>3, <1>4 DEF Handle, BeginRent, BeginPay, CheckAmount, BeginVerify,
     Abort, CommitRent, tables

(* A payment that was not there is the one of the request that commits it. *)
LEMMA NewRows ==
  ASSUME TypeOK, DecidedPresent, Step,
         NEW p \in Payments, payment[p] = None, payment'[p] # None
  PROVE  \E r \in Requests : CommitPay(r, p)
<1>1. PICK r \in Requests : Handle(r)
  BY DEF Step, Tick, tables
<1>2. CASE CommitVerify(r)
  <2>1. p # req[r].payment
    BY <1>2, NoneAssumption DEF CommitVerify, DecidedPresent
  <2>. QED BY <1>2, <2>1 DEF CommitVerify
<1>3. ASSUME NEW q \in Payments, CommitPay(r, q)
      PROVE  CommitPay(r, p)
  BY <1>3 DEF CommitPay, TypeOK
<1>. QED
  BY <1>1, <1>2, <1>3 DEF Handle, BeginRent, BeginPay, CheckAmount, BeginVerify,
     Abort, CommitRent, tables

LEMMA StepPresent ==
  ASSUME TypeOK, DecidedPresent, Step
  PROVE  DecidedPresent'
<1>t. req \in [Requests -> RequestState] /\ payment \in [Payments -> PaymentRow \cup {None}]
  BY DEF TypeOK
<1> SUFFICES ASSUME NEW r \in Requests, req'[r].op = "verify",
                    req'[r].payment \in Payments
             PROVE  payment'[req'[r].payment] \in PaymentRow
  BY DEF DecidedPresent
<1> DEFINE p == req'[r].payment
<1>1. p \in Submitted => payment'[p] \in PaymentRow
  BY RowsStay
<1>2. CASE req'[r] = req[r]
  BY <1>2, <1>1, NoneAssumption DEF DecidedPresent, Submitted
<1>3. CASE req'[r] # req[r]
  <2>1. Handle(r)
    BY <1>3, <1>t, OthersStay DEF Step, Tick
  <2>2. PICK i \in Issued : p \in UnderReview(i)
    <3>0. Decides(r)
      BY <2>1, RequestAfter, OpAfter
    <3>1. PICK i \in Issued, v \in {"VERIFIED", "REJECTED"}, q \in Payments \cup {None} :
            /\ IF q = None THEN UnderReview(i) = {} ELSE q \in UnderReview(i)
            /\ req'[r] = [op |-> "verify", invoice |-> i, payment |-> q,
                          verdict |-> v, at |-> now]
      BY <3>0 DEF Decides
    <3>2. p = q /\ q # None
      BY <3>1, RowsAssumption
    <3>. QED BY <3>1, <3>2
  <2>. QED BY <2>2, <1>1 DEF UnderReview, PaymentsOf
<1>. QED BY <1>2, <1>3

BillingInv == TypeOK /\ DecidedPresent

LEMMA BillingInvariant == Spec => []BillingInv
<1>1. Init => BillingInv
  <2> SUFFICES ASSUME Init PROVE BillingInv
    OBVIOUS
  <2>1. Idle \in RequestState
    BY StatesAreRequests
  <2>2. TypeOK
    BY <2>1, TimeAssumption DEF Init, TypeOK
  <2>3. DecidedPresent
    BY DEF Init, DecidedPresent, Idle
  <2>. QED BY <2>2, <2>3 DEF BillingInv
<1>2. BillingInv /\ [Next]_vars => BillingInv'
  <2> SUFFICES ASSUME BillingInv, [Next]_vars PROVE BillingInv'
    OBVIOUS
  <2>1. CASE Step
    <3>1. disputed' \in SUBSET Invoices
      BY DEF BillingInv, TypeOK, Next, Disputable, vars
    <3>2. TypeOK'
      BY <2>1, <3>1, StepTyped DEF BillingInv, TypeOK
    <3>. QED BY <2>1, <3>2, StepPresent DEF BillingInv
  <2>2. CASE UNCHANGED vars
    BY <2>2 DEF vars, BillingInv, TypeOK, DecidedPresent
  <2>. QED BY <2>1, <2>2 DEF Next
<1>. QED BY <1>1, <1>2, PTL DEF Spec

(* Whatever requests are interleaved, every row holds a value of its       *)
(* column and every request a state of its handler.                        *)
THEOREM BillingTyped == Spec => []TypeOK
BY BillingInvariant, PTL DEF BillingInv

(***************************************************************************)
(* The penalty                                                             *)
(***************************************************************************)
Fee(d, t) == IF t <= d THEN 100 ELSE 100 + 5 * WeeksOverdue(t - d)

(* Rounding up to days and then to weeks counts the weeks that had begun.  *)
LEMMA FeeCountsWeeks ==
  ASSUME NEW d \in Nat, NEW t \in Nat
  PROVE  Fee(d, t) = 100 + 5 * Cardinality({w \in 0 .. t : d + 14 * w < t})
<1> DEFINE weeks == {w \in 0 .. t : d + 14 * w < t}
<1>1. CASE t <= d
  <2>1. weeks = {}
    BY <1>1
  <2>2. Cardinality(weeks) = 0
    BY <2>1, FS_EmptySet
  <2>. QED BY <1>1, <2>2 DEF Fee
<1>2. CASE ~(t <= d)
  <2> DEFINE late == t - d
             c == (late + 1) \div 2
             k == (c + 6) \div 7
  <2>1. late \in Nat /\ late >= 1
    BY <1>2
  <2> HIDE DEF late
  <2>2. c \in Nat /\ 2 * c <= late + 1 /\ late < 2 * c + 1 /\ c >= 1
    BY <2>1
  <2> HIDE DEF c
  <2>3. k \in Nat /\ 7 * k <= c + 6 /\ c + 6 < 7 * k + 7 /\ k >= 1
    BY <2>2
  <2> HIDE DEF k
  <2>4. \A w \in Int : w \in 0 .. t /\ 14 * w < late <=> w \in 0 .. (k - 1)
    <3>1. late <= t
      BY <1>2 DEF late
    <3>. QED BY <2>1, <2>2, <2>3, <3>1
  <2>5. weeks = 0 .. (k - 1)
    BY <2>4 DEF late
  <2>6. Cardinality(weeks) = k
    <3>1. 0 \in Int /\ k - 1 \in Int
      BY <2>3
    <3>2. Cardinality(0 .. (k - 1)) = IF 0 > k - 1 THEN 0 ELSE (k - 1) - 0 + 1
      BY <3>1, FS_Interval
    <3>3. Cardinality(0 .. (k - 1)) = k
      BY <2>3, <3>2
    <3>. QED BY <2>5, <3>3
  <2>7. WeeksOverdue(late) = k
    BY <2>1, <2>2 DEF WeeksOverdue, CeilDiv, k, c
  <2>. QED BY <1>2, <2>6, <2>7 DEF Fee, late
<1>. QED BY <1>1, <1>2

(* An issued invoice stays, with its due date.                             *)
LEMMA IssuedStay ==
  ASSUME TypeOK, Step, NEW i \in Issued
  PROVE  invoice'[i] # NotCreated /\ due'[i] = due[i] /\ i \in Issued'
<1>0. i \in Invoices /\ invoice[i] # NotCreated
  BY DEF Issued
<1> SUFFICES invoice'[i] # NotCreated /\ due'[i] = due[i]
  BY <1>0 DEF Issued
<1>1. CASE Tick
  BY <1>0, <1>1 DEF Tick, tables
<1>2. ASSUME NEW r \in Requests, Handle(r)
      PROVE  invoice'[i] # NotCreated /\ due'[i] = due[i]
  <2>1. CASE UNCHANGED <<invoice, due>>
    BY <2>1, <1>0
  <2>2. ASSUME NEW j \in Invoices, CommitRent(r, j)
        PROVE  invoice'[i] # NotCreated /\ due'[i] = due[i]
    BY <2>2, <1>0 DEF CommitRent, TypeOK
  <2>3. ASSUME NEW p \in Payments, CommitPay(r, p)
        PROVE  invoice'[i] # NotCreated /\ due'[i] = due[i]
    BY <2>3, <1>0 DEF CommitPay, TypeOK, NotCreated
  <2>4. CASE CommitVerify(r)
    BY <2>4, <1>0 DEF CommitVerify, TypeOK, NotCreated, Verdict
  <2>. QED
    BY <1>2, <2>1, <2>2, <2>3, <2>4 DEF Handle, BeginRent, BeginPay, CheckAmount,
       BeginVerify, Abort, tables
<1>. QED BY <1>1, <1>2 DEF Step

(* Every amount, in a request or in a row, is the one of its time, and no  *)
(* request or payment is about an invoice that does not exist.             *)
RequestFair(r) ==
  /\ About(r) \subseteq Issued
  /\ req[r].op = "pay" /\ req[r].stage = "tx" =>
       req[r].amount = Fee(due[req[r].invoice], req[r].at)
PaymentFair(p) ==
  /\ payment[p].invoice \in Issued
  /\ payment[p].amount = Fee(due[payment[p].invoice], payment[p].at)
FeeInv ==
  /\ BillingInv
  /\ \A r \in Requests : RequestFair(r)
  /\ \A p \in Submitted : PaymentFair(p)

LEMMA StepRequestFair ==
  ASSUME FeeInv, Step, NEW r \in Requests
  PROVE  RequestFair(r)'
<1>t. TypeOK /\ req \in [Requests -> RequestState] /\ RequestFair(r) /\ now \in Nat
  BY TimeAssumption DEF FeeInv, BillingInv, TypeOK
<1>1. CASE req'[r] = req[r]
  <2>1. About(r) \subseteq Issued'
    BY <1>t, IssuedStay DEF RequestFair
  <2>2. ASSUME req[r].op = "pay"
        PROVE  due'[req[r].invoice] = due[req[r].invoice]
    BY <1>t, <2>2, IssuedStay DEF RequestFair, About
  <2>. QED BY <1>1, <1>t, <2>1, <2>2 DEF RequestFair, About
<1>2. CASE req'[r] # req[r]
  <2>1. Handle(r)
    BY <1>2, <1>t, OthersStay DEF Step, Tick
  <2>2. CASE req'[r] = Idle \/ Starts(r)
    BY <2>2, OpAfter DEF RequestFair, About
  <2>3. CASE Reads(r)
    <3>1. PICK i \in Issued :
            req'[r] = [op |-> "pay", stage |-> "read", invoice |-> i]
      BY <2>3 DEF Reads
    <3>2. i \in Issued'
      BY <1>t, IssuedStay
    <3>. QED BY <3>1, <3>2 DEF RequestFair, About
  <2>4. CASE Decides(r)
    <3>1. PICK i \in Issued : req'[r].op = "verify" /\ req'[r].invoice = i
      BY <2>4 DEF Decides
    <3>2. i \in Issued'
      BY <1>t, IssuedStay
    <3>. QED BY <3>1, <3>2 DEF RequestFair, About
  <2>5. CASE Enters(r)
    <3> DEFINE i == req[r].invoice
    <3>1. i \in Issued
      BY <2>5, <1>t DEF Enters, CheckAmount, RequestFair, About
    <3>2. i \in Issued' /\ due'[i] = due[i]
      BY <3>1, <1>t, IssuedStay
    <3>3. Payable(i, now) = Fee(due[i], now)
      BY DEF Payable, Fee
    <3>4. /\ req'[r].op = "pay" /\ req'[r].invoice = i
          /\ req'[r].amount = Fee(due[i], now) /\ req'[r].at = now
      BY <2>5, <3>3 DEF Enters
    <3>. QED BY <3>2, <3>4 DEF RequestFair, About
  <2>. QED BY <1>t, <2>1, <2>2, <2>3, <2>4, <2>5, RequestAfter
<1>. QED BY <1>1, <1>2

LEMMA StepPaymentFair ==
  ASSUME FeeInv, Step, NEW p \in Submitted'
  PROVE  PaymentFair(p)'
<1>t. TypeOK /\ DecidedPresent /\ req \in [Requests -> RequestState]
  BY DEF FeeInv, BillingInv, TypeOK
<1>p. p \in Payments /\ payment'[p] # None
  BY DEF Submitted
<1>1. CASE payment[p] # None
  <2>1. p \in Submitted
    BY <1>1, <1>p DEF Submitted
  <2>2. PaymentFair(p)
    BY <2>1 DEF FeeInv
  <2>. QED BY <1>t, <2>1, <2>2, RowsStay, IssuedStay DEF PaymentFair
<1>2. CASE payment[p] = None
  <2>1. PICK r \in Requests : CommitPay(r, p)
    BY <1>t, <1>p, <1>2, NewRows
  <2>2. /\ payment'[p].invoice = req[r].invoice
        /\ payment'[p].amount = req[r].amount /\ payment'[p].at = req[r].at
    BY <2>1, <1>p, <1>t DEF CommitPay, TypeOK
  <2>3. /\ req[r].invoice \in Issued
        /\ req[r].amount = Fee(due[req[r].invoice], req[r].at)
    BY <2>1 DEF CommitPay, FeeInv, RequestFair, About
  <2>. QED BY <1>t, <2>2, <2>3, IssuedStay DEF PaymentFair
<1>. QED BY <1>1, <1>2

LEMMA FeeInvariant == Spec => []FeeInv
<1>1. Init => FeeInv
  <2> SUFFICES ASSUME Init PROVE FeeInv
    OBVIOUS
  <2>1. Idle \in RequestState
    BY StatesAreRequests
  <2>2. BillingInv
    BY <2>1, TimeAssumption DEF Init, BillingInv, TypeOK, DecidedPresent, Idle
  <2>3. \A r \in Requests : RequestFair(r)
    BY DEF Init, RequestFair, About, Idle
  <2>4. Submitted = {}
    BY DEF Init, Submitted
  <2>. QED BY <2>2, <2>3, <2>4 DEF FeeInv
<1>2. FeeInv /\ BillingInv' /\ [Next]_vars => FeeInv'
  <2> SUFFICES ASSUME FeeInv, BillingInv', [Next]_vars PROVE FeeInv'
    OBVIOUS
  <2>1. CASE Step
    BY <2>1, StepRequestFair, StepPaymentFair DEF FeeInv
  <2>2. CASE UNCHANGED vars
    BY <2>2 DEF vars, FeeInv, RequestFair, PaymentFair, About, Issued, Submitted
  <2>. QED BY <2>1, <2>2 DEF Next
<1>. QED BY <1>1, <1>2, BillingInvariant, PTL DEF Spec

(* A payment is charged 5% more for every week that had begun, after the   *)
(* due date, when it was submitted, whatever requests are interleaved.     *)
THEOREM FeeAlwaysMatches == Spec => []FeeMatchesDelay
<1>1. FeeInv => FeeMatchesDelay
  <2> SUFFICES ASSUME FeeInv, NEW p \in Submitted
               PROVE  payment[p].amount = 100 + 5 * Cardinality(
                        {w \in 0 .. payment[p].at :
                           due[payment[p].invoice] + 14 * w < payment[p].at})
    BY DEF FeeMatchesDelay
  <2>1. payment[p] \in PaymentRow /\ PaymentFair(p)
    BY DEF FeeInv, BillingInv, TypeOK, Submitted
  <2>2. due[payment[p].invoice] \in Nat /\ payment[p].at \in Nat
    BY <2>1 DEF FeeInv, BillingInv, TypeOK, PaymentRow
  <2>. QED BY <2>1, <2>2, FeeCountsWeeks DEF PaymentFair
<1>. QED BY <1>1, FeeInvariant, PTL

(***************************************************************************)
(* The payments under review.  payInvoice finds none before its            *)
(* transaction, so those that are there and those still being paid are     *)
(* together no more than the requests that were about the invoice then.    *)
(***************************************************************************)
Paying(i) == {r \in Requests : req[r].op = "pay" /\ req[r].invoice = i}
ReviewInv ==
  /\ BillingInv
  /\ \A i \in Invoices :
       Cardinality(UnderReview(i)) + Cardinality(Paying(i)) <= Cardinality(Requests)

LEMMA FiniteSides ==
  ASSUME NEW i \in Invoices
  PROVE  /\ IsFiniteSet(UnderReview(i)) /\ Cardinality(UnderReview(i)) \in Nat
         /\ IsFiniteSet(Paying(i)) /\ Cardinality(Paying(i)) \in Nat
         /\ Cardinality(Paying(i)) <= Cardinality(Requests)
         /\ Cardinality(Requests) \in Nat
<1>1. UnderReview(i) \subseteq Payments /\ Paying(i) \subseteq Requests
  BY DEF UnderReview, PaymentsOf, Submitted, Paying
<1>2. IsFiniteSet(UnderReview(i)) /\ IsFiniteSet(Paying(i))
      /\ Cardinality(Paying(i)) <= Cardinality(Requests)
  BY <1>1, FS_Subset, RowsAssumption, RequestsAssumption
<1>. QED BY <1>2, FS_CardinalityType, RequestsAssumption

LEMMA ReviewAfter ==
  ASSUME TypeOK, DecidedPresent, Step, NEW i \in Invoices
  PROVE  \/ UnderReview(i)' \subseteq UnderReview(i)
         \/ \E r \in Paying(i), p \in Payments :
              /\ CommitPay(r, p)
              /\ UnderReview(i)' = UnderReview(i) \cup {p}
<1>1. ASSUME NEW p \in UnderReview(i)', p \in Submitted
      PROVE  p \in UnderReview(i)
  <2>1. payment'[p].invoice = i /\ payment'[p].status = "UNDER_REVIEW"
    BY <1>1 DEF UnderReview, PaymentsOf
  <2>. QED BY <1>1, <2>1, RowsStay DEF UnderReview, PaymentsOf
<1>2. ASSUME NEW p \in UnderReview(i)', p \notin Submitted
      PROVE  \E r \in Paying(i) :
               CommitPay(r, p) /\ UnderReview(i)' = UnderReview(i) \cup {p}
  <2>1. p \in Payments /\ payment[p] = None /\ payment'[p] # None
        /\ payment'[p].invoice = i
    BY <1>2 DEF UnderReview, PaymentsOf, Submitted
  <2>2. PICK r \in Requests : CommitPay(r, p)
    BY <2>1, NewRows
  <2>3. payment'[p].invoice = req[r].invoice
    BY <2>1, <2>2 DEF CommitPay, TypeOK
  <2>4. r \in Paying(i)
    BY <2>1, <2>2, <2>3 DEF Paying, CommitPay
  <2>5. \A x \in Payments \ {p} : payment'[x] = payment[x]
    BY <2>2 DEF CommitPay, TypeOK
  <2>6. p \notin UnderReview(i)
    BY <1>2 DEF UnderReview, PaymentsOf
  <2>7. UnderReview(i)' = UnderReview(i) \cup {p}
    BY <1>2, <2>5, <2>6 DEF UnderReview, PaymentsOf, Submitted
  <2>. QED BY <2>2, <2>4, <2>7
<1>. QED BY <1>1, <1>2 DEF UnderReview, PaymentsOf, Submitted

LEMMA PayingAfter ==
  ASSUME TypeOK, Step, NEW i \in Invoices, NEW r \in Paying(i)' \ Paying(i)
  PROVE  UnderReview(i) = {} /\ UNCHANGED payment
<1>t. req \in [Requests -> RequestState]
  BY DEF TypeOK
<1>1. r \in Requests /\ req'[r] # req[r]
  BY DEF Paying
<1>2. Handle(r)
  BY <1>1, <1>t, OthersStay DEF Step, Tick
<1>3. req'[r].op = "pay" /\ req'[r].invoice = i
  BY DEF Paying
<1>4. ~Enters(r)
  <2>1. Enters(r) => req[r].op = "pay" /\ req'[r].invoice = req[r].invoice
    BY DEF Enters, CheckAmount
  <2>. QED BY <1>1, <1>3, <2>1 DEF Paying
<1>5. Reads(r)
  BY <1>1, <1>2, <1>3, <1>4, RequestAfter, OpAfter
<1>6. BeginPay(r) /\ MayPay(i)
  BY <1>3, <1>5 DEF Reads
<1>. QED BY <1>6 DEF BeginPay, MayPay, tables

LEMMA StepReview ==
  ASSUME ReviewInv, Step, NEW i \in Invoices
  PROVE  Cardinality(UnderReview(i))' + Cardinality(Paying(i))'
           <= Cardinality(Requests)
<1>t. TypeOK /\ DecidedPresent /\ req \in [Requests -> RequestState]
  BY DEF ReviewInv, BillingInv, TypeOK
<1>f. Cardinality(UnderReview(i)) + Cardinality(Paying(i)) <= Cardinality(Requests)
  BY DEF ReviewInv
<1>g. IsFiniteSet(UnderReview(i)) /\ IsFiniteSet(Paying(i))
      /\ Cardinality(UnderReview(i)) \in Nat /\ Cardinality(Paying(i)) \in Nat
      /\ Cardinality(Requests) \in Nat
  BY FiniteSides
<1>h. Paying(i)' \subseteq Requests
  BY DEF Paying
<1>i. IsFiniteSet(Paying(i)') /\ Cardinality(Paying(i)') <= Cardinality(Requests)
      /\ Cardinality(Paying(i)') \in Nat
  BY <1>h, FS_Subset, FS_CardinalityType, RequestsAssumption
<1>1. CASE Paying(i)' \subseteq Paying(i)
  <2>1. CASE UnderReview(i)' \subseteq UnderReview(i)
    <3>1. /\ Cardinality(UnderReview(i)') <= Cardinality(UnderReview(i))
          /\ Cardinality(UnderReview(i)') \in Nat
      BY <2>1, <1>g, FS_Subset, FS_CardinalityType
    <3>2. Cardinality(Paying(i)') <= Cardinality(Paying(i))
      BY <1>1, <1>g, FS_Subset
    <3>. QED BY <3>1, <3>2, <1>f, <1>g, <1>i
  <2>2. ASSUME NEW r \in Paying(i), NEW p \in Payments, CommitPay(r, p),
               UnderReview(i)' = UnderReview(i) \cup {p}
        PROVE  Cardinality(UnderReview(i)') + Cardinality(Paying(i)')
                 <= Cardinality(Requests)
    <3>1. /\ Cardinality(UnderReview(i)') <= Cardinality(UnderReview(i)) + 1
          /\ Cardinality(UnderReview(i)') \in Nat
      <4> DEFINE U == UnderReview(i) \cup {p}
      <4>1. /\ IsFiniteSet(U)
            /\ Cardinality(U) = IF p \in UnderReview(i) THEN Cardinality(UnderReview(i))
                                ELSE Cardinality(UnderReview(i)) + 1
        BY <1>g, FS_AddElement
      <4>2. Cardinality(U) <= Cardinality(UnderReview(i)) + 1 /\ Cardinality(U) \in Nat
        BY <4>1, <1>g
      <4>. QED BY <2>2, <4>2
    <3>2. req'[r] = Idle
      BY <2>2, <1>t DEF CommitPay, Finish, Advance, Paying
    <3>3. Paying(i)' \subseteq Paying(i) \ {r}
      BY <1>1, <3>2 DEF Paying, Idle
    <3>4. /\ IsFiniteSet(Paying(i) \ {r})
          /\ Cardinality(Paying(i) \ {r}) = Cardinality(Paying(i)) - 1
      BY <2>2, <1>g, FS_RemoveElement
    <3>5. Cardinality(Paying(i)') <= Cardinality(Paying(i)) - 1
      BY <3>3, <3>4, FS_Subset
    <3>. QED BY <3>1, <3>5, <1>f, <1>g, <1>i
  <2>. QED BY <2>1, <2>2, <1>t, ReviewAfter
<1>2. CASE ~(Paying(i)' \subseteq Paying(i))
  <2>1. UnderReview(i) = {} /\ UNCHANGED payment
    BY <1>2, <1>t, PayingAfter
  <2>2. UnderReview(i)' = {}
    BY <2>1 DEF UnderReview, PaymentsOf, Submitted
  <2>3. Cardinality(UnderReview(i)') = 0
    BY <2>2, FS_EmptySet
  <2>. QED BY <2>3, <1>i, <1>g
<1>. QED BY <1>1, <1>2

LEMMA ReviewInvariant == Spec => []ReviewInv
<1>1. Init => ReviewInv
  <2> SUFFICES ASSUME Init PROVE ReviewInv
    OBVIOUS
  <2>1. Idle \in RequestState
    BY StatesAreRequests
  <2>2. BillingInv
    BY <2>1, TimeAssumption DEF Init, BillingInv, TypeOK, DecidedPresent, Idle
  <2>3. ASSUME NEW i \in Invoices
        PROVE  Cardinality(UnderReview(i)) + Cardinality(Paying(i))
                 <= Cardinality(Requests)
    <3>1. UnderReview(i) = {}
      BY DEF Init, UnderReview, PaymentsOf, Submitted
    <3>2. Cardinality(UnderReview(i)) = 0
      BY <3>1, FS_EmptySet
    <3>. QED BY <3>2, FiniteSides
  <2>. QED BY <2>2, <2>3 DEF ReviewInv
<1>2. ReviewInv /\ BillingInv' /\ [Next]_vars => ReviewInv'
  <2> SUFFICES ASSUME ReviewInv, BillingInv', [Next]_vars PROVE ReviewInv'
    OBVIOUS
  <2>1. CASE Step
    BY <2>1, StepReview DEF ReviewInv
  <2>2. CASE UNCHANGED vars
    <3>1. UNCHANGED <<payment, req>>
      BY <2>2 DEF vars
    <3>2. ASSUME NEW i \in Invoices
          PROVE  UnderReview(i)' = UnderReview(i) /\ Paying(i)' = Paying(i)
      BY <3>1 DEF UnderReview, PaymentsOf, Submitted, Paying
    <3>. QED BY <3>2 DEF ReviewInv
  <2>. QED BY <2>1, <2>2 DEF Next
<1>. QED BY <1>1, <1>2, BillingInvariant, PTL DEF Spec

(* Of one invoice there are never more payments under review than requests *)
(* handled at a time, for any number of them.                              *)
THEOREM UnderReviewAlwaysBounded == Spec => []UnderReviewBounded
<1>1. ReviewInv => UnderReviewBounded
  BY FiniteSides DEF ReviewInv, UnderReviewBounded
<1>. QED BY <1>1, ReviewInvariant, PTL

(***************************************************************************)
(* The refinement of Settlement.  An undisputed invoice is in one of three *)
(* phases, and at most one request is about it.                            *)
(***************************************************************************)
Accepted(i) == PaymentsOf(i, "VERIFIED")
OpenPhase(i) ==
  /\ invoice[i] \in {"UNPAID", "OVERDUE"}
  /\ UnderReview(i) = {} /\ Accepted(i) = {}
  /\ \A r \in Requests : i \in About(r) => req[r].op = "pay"
ReviewPhase(i, p) ==
  /\ invoice[i] = "PENDING_PAYMENT"
  /\ UnderReview(i) = {p} /\ Accepted(i) = {}
  /\ payment[p].amount = total[i]
  /\ \A r \in Requests : i \in About(r) => req[r].op = "verify" /\ req[r].payment = p
PaidPhase(i, p) ==
  /\ invoice[i] = "PAID"
  /\ UnderReview(i) = {} /\ Accepted(i) = {p}
  /\ payment[p].amount = total[i]
  /\ \A r \in Requests : i \notin About(r)
Phase(i) ==
  OpenPhase(i) \/ \E p \in Payments : ReviewPhase(i, p) \/ PaidPhase(i, p)

(* A verification writes a payment of its own invoice.                     *)
DecidesOwn(r) ==
  req[r].op = "verify" /\ req[r].payment \in Payments =>
    payment[req[r].payment].invoice = req[r].invoice

SettleInv ==
  /\ FeeInv
  /\ Disputable \subseteq disputed /\ disputed \subseteq Issued
  /\ \A r \in Requests : DecidesOwn(r)
  /\ \A i \in Issued \ disputed : Phase(i)

LEMMA AboutAfter ==
  ASSUME TypeOK, NEW r \in Requests, Handle(r)
  PROVE  /\ req'[r] = Idle => About(r)' = {}
         /\ Starts(r) => About(r)' = {}
         /\ Enters(r) => About(r)' = About(r)
         /\ Reads(r) \/ Decides(r) => About(r) = {}
<1>1. (req'[r] = Idle \/ Starts(r)) => About(r)' = {}
  BY OpAfter DEF About
<1>2. Enters(r) => About(r)' = About(r)
  BY DEF Enters, CheckAmount, About
<1>3. (Reads(r) \/ Decides(r)) => About(r) = {}
  <2>1. Reads(r) => req[r] = Idle
    BY DEF Reads, BeginPay
  <2>2. Decides(r) => req[r] = Idle
    BY DEF Decides, BeginVerify
  <2>3. req[r] = Idle => About(r) = {}
    BY DEF About, Idle
  <2>. QED BY <2>1, <2>2, <2>3
<1>. QED BY <1>1, <1>2, <1>3

(* An invoice that the handled request is not about keeps its rows.        *)
LEMMA Frame ==
  ASSUME SettleInv, NEW r \in Requests, Handle(r),
         NEW i \in Issued, i \notin About(r)
  PROVE  /\ invoice'[i] = invoice[i] /\ total'[i] = total[i]
         /\ UnderReview(i)' = UnderReview(i) /\ Accepted(i)' = Accepted(i)
         /\ \A p \in UnderReview(i) \cup Accepted(i) : payment'[p] = payment[p]
<1>t. TypeOK /\ DecidedPresent /\ i \in Invoices /\ invoice[i] # NotCreated
  BY DEF SettleInv, FeeInv, BillingInv, Issued
<1> DEFINE Foreign(p) == /\ payment[p] # None => payment[p].invoice # i
                         /\ payment'[p] # None => payment'[p].invoice # i
<1>r. \A p \in Payments : payment'[p] = payment[p] \/ Foreign(p)
  <2>1. CASE CommitVerify(r)
    <3>1. req[r] \in VerifyState
      BY <2>1, <1>t, RequestByOp DEF CommitVerify, TypeOK
    <3> SUFFICES ASSUME NEW p \in Payments, p = req[r].payment
                 PROVE  payment[p].invoice # i /\ payment'[p].invoice # i
      BY <2>1 DEF CommitVerify
    <3>2. payment[p] \in PaymentRow /\ payment[p].invoice = req[r].invoice
      BY <2>1, <1>t DEF DecidedPresent, SettleInv, DecidesOwn, CommitVerify
    <3>3. req[r].invoice # i
      BY <2>1 DEF About, CommitVerify
    <3>4. payment'[p] = [payment[p] EXCEPT !.status = req[r].verdict]
      BY <2>1 DEF CommitVerify
    <3>5. payment'[p].invoice = payment[p].invoice
      BY <3>2, <3>4 DEF PaymentRow
    <3>. QED BY <3>2, <3>3, <3>5
  <2>2. ASSUME NEW q \in Payments, CommitPay(r, q)
        PROVE  \A p \in Payments : payment'[p] = payment[p] \/ Foreign(p)
    BY <2>2, <1>t DEF CommitPay, About, TypeOK
  <2>3. CASE UNCHANGED payment
    BY <2>3
  <2>. QED
    BY <2>1, <2>2, <2>3 DEF Handle, BeginRent, BeginPay, CheckAmount, BeginVerify,
       Abort, CommitRent, tables
<1>1. UnderReview(i)' = UnderReview(i) /\ Accepted(i)' = Accepted(i)
  BY <1>r DEF UnderReview, Accepted, PaymentsOf, Submitted
<1>2. \A p \in UnderReview(i) \cup Accepted(i) : payment'[p] = payment[p]
  BY <1>r DEF UnderReview, Accepted, PaymentsOf, Submitted
<1>3. invoice'[i] = invoice[i] /\ total'[i] = total[i]
  <2>1. ASSUME NEW j \in Invoices, CommitRent(r, j)
        PROVE  invoice'[i] = invoice[i] /\ total'[i] = total[i]
    BY <2>1, <1>t DEF CommitRent, TypeOK
  <2>2. ASSUME NEW q \in Payments, CommitPay(r, q)
        PROVE  invoice'[i] = invoice[i] /\ total'[i] = total[i]
    BY <2>2, <1>t DEF CommitPay, About, TypeOK
  <2>3. CASE CommitVerify(r)
    BY <2>3, <1>t DEF CommitVerify, About, TypeOK
  <2>4. CASE UNCHANGED <<invoice, total>>
    BY <2>4
  <2>. QED
    BY <2>1, <2>2, <2>3, <2>4 DEF Handle, BeginRent, BeginPay, CheckAmount,
       BeginVerify, Abort, tables
<1>. QED BY <1>1, <1>2, <1>3

(* Who else is about an invoice that is not disputed.                      *)
LEMMA NoRival ==
  ASSUME SettleInv, NEW r \in Requests, Handle(r), NEW i \in Issued \ disputed
  PROVE  /\ \A s \in Requests \ {r} : req'[s] = req[s] /\ About(s)' = About(s)
         /\ i \in About(r) => \A s \in Requests \ {r} : i \notin About(s)
<1>1. \A s \in Requests \ {r} : req'[s] = req[s]
  BY OthersStay DEF SettleInv, FeeInv, BillingInv, TypeOK
<1>2. \A s \in Requests \ {r} : About(s)' = About(s)
  BY <1>1 DEF About
<1>3. i \notin Disputable /\ i \in Invoices
  BY DEF SettleInv, Issued
<1>4. i \in About(r) => \A s \in Requests \ {r} : i \notin About(s)
  BY <1>3 DEF Disputable
<1>. QED BY <1>1, <1>2, <1>4

(* What one step does to the phase of an undisputed invoice.               *)
PhaseMoves(i) ==
  /\ OpenPhase(i) => OpenPhase(i)' \/ \E p \in Payments : ReviewPhase(i, p)'
  /\ \A p \in Payments : ReviewPhase(i, p) =>
       OpenPhase(i)' \/ ReviewPhase(i, p)' \/ PaidPhase(i, p)'
  /\ \A p \in Payments : PaidPhase(i, p) => PaidPhase(i, p)'

PhaseStays(i) ==
  /\ OpenPhase(i) => OpenPhase(i)'
  /\ \A p \in Payments : ReviewPhase(i, p) => ReviewPhase(i, p)'
  /\ \A p \in Payments : PaidPhase(i, p) => PaidPhase(i, p)'

LEMMA PhaseOfOthers ==
  ASSUME SettleInv, NEW r \in Requests, Handle(r), NEW i \in Issued \ disputed,
         i \notin About(r), i \notin About(r)'
  PROVE  PhaseStays(i)
<1>1. /\ invoice'[i] = invoice[i] /\ total'[i] = total[i]
      /\ UnderReview(i)' = UnderReview(i) /\ Accepted(i)' = Accepted(i)
      /\ \A p \in UnderReview(i) \cup Accepted(i) : payment'[p] = payment[p]
  BY Frame
<1>2. \A s \in Requests : i \in About(s)' => req'[s] = req[s] /\ i \in About(s)
  BY NoRival
<1>3. OpenPhase(i) => OpenPhase(i)'
  BY <1>1, <1>2 DEF OpenPhase
<1>4. \A p \in Payments : ReviewPhase(i, p) => ReviewPhase(i, p)'
  BY <1>1, <1>2 DEF ReviewPhase
<1>5. \A p \in Payments : PaidPhase(i, p) => PaidPhase(i, p)'
  BY <1>1, <1>2 DEF PaidPhase
<1>. QED BY <1>3, <1>4, <1>5 DEF PhaseStays

LEMMA PhaseWhenRead ==
  ASSUME SettleInv, NEW r \in Requests, Handle(r), NEW i \in Issued \ disputed,
         i \notin Disputable', i \notin About(r), i \in About(r)'
  PROVE  PhaseMoves(i)
<1>1. /\ invoice'[i] = invoice[i] /\ total'[i] = total[i]
      /\ UnderReview(i)' = UnderReview(i) /\ Accepted(i)' = Accepted(i)
      /\ \A p \in UnderReview(i) \cup Accepted(i) : payment'[p] = payment[p]
  BY Frame
<1>2. \A s \in Requests \ {r} : i \in About(s)' => req'[s] = req[s] /\ i \in About(s)
  BY NoRival
<1>3. Reads(r) \/ Decides(r)
  BY RequestAfter, AboutAfter DEF SettleInv, FeeInv, BillingInv
<1>4. CASE Reads(r)
  <2>1. MayPay(i) /\ req'[r].op = "pay"
    BY <1>4 DEF Reads, About
  <2>2. OpenPhase(i) => OpenPhase(i)'
    BY <1>1, <1>2, <2>1 DEF OpenPhase
  <2>3. ASSUME NEW p \in Payments PROVE ~ReviewPhase(i, p) /\ ~PaidPhase(i, p)
    BY <2>1 DEF MayPay, ReviewPhase, PaidPhase
  <2>. QED BY <2>2, <2>3 DEF PhaseMoves
<1>5. CASE Decides(r)
  <2>1. PICK p \in Payments \cup {None} :
          /\ IF p = None THEN UnderReview(i) = {} ELSE p \in UnderReview(i)
          /\ req'[r].op = "verify" /\ req'[r].payment = p
    BY <1>5 DEF Decides, About
  <2>2. p # None
    <3>1. i \in Invoices
      BY DEF Issued
    <3>. QED BY <2>1, <3>1 DEF Disputable
  <2>3. p \in UnderReview(i)
    BY <2>1, <2>2
  <2>4. ~OpenPhase(i) /\ \A q \in Payments : ~PaidPhase(i, q)
    BY <2>3 DEF OpenPhase, PaidPhase
  <2>5. ASSUME NEW q \in Payments, ReviewPhase(i, q) PROVE ReviewPhase(i, q)'
    <3>1. p = q
      BY <2>3, <2>5 DEF ReviewPhase
    <3>. QED BY <1>1, <1>2, <2>1, <2>5, <3>1 DEF ReviewPhase
  <2>. QED BY <2>4, <2>5 DEF PhaseMoves
<1>. QED BY <1>3, <1>4, <1>5

LEMMA PhaseWhenPaid ==
  ASSUME SettleInv, NEW r \in Requests, NEW i \in Issued \ disputed, i \in About(r),
         NEW p \in Payments, CommitPay(r, p), Handle(r)
  PROVE  PhaseMoves(i)
<1>t. TypeOK /\ req \in [Requests -> RequestState]
  BY DEF SettleInv, FeeInv, BillingInv, TypeOK
<1>1. req[r].op = "pay" /\ req[r].invoice = i /\ req'[r] = Idle
  BY <1>t DEF CommitPay, About, Finish, Advance
<1>2. \A s \in Requests : i \notin About(s)'
  BY <1>1, <1>t, NoRival, AboutAfter
<1>3. ASSUME NEW q \in Payments PROVE ~ReviewPhase(i, q) /\ ~PaidPhase(i, q)
  BY <1>1 DEF ReviewPhase, PaidPhase
<1>4. ASSUME OpenPhase(i) PROVE ReviewPhase(i, p)'
  <2>1. /\ payment[p] = None
        /\ \A q \in Payments \ {p} : payment'[q] = payment[q]
        /\ payment'[p] = [invoice |-> i, status |-> "UNDER_REVIEW",
                          amount |-> req[r].amount, at |-> req[r].at]
    BY <1>1, <1>t DEF CommitPay, TypeOK
  <2>2. payment'[p] \in PaymentRow
    <3>1. req[r] \in TxState
      BY <1>t, RequestByOp DEF CommitPay
    <3>. QED BY <1>1, <2>1, <3>1 DEF TxState, PaymentRow, PaymentStatus
  <2>3. payment'[p] # None
    BY <2>2, NoneAssumption
  <2>4. UnderReview(i)' = {p}
    BY <1>4, <2>1, <2>3 DEF OpenPhase, UnderReview, PaymentsOf, Submitted
  <2>5. Accepted(i)' = {}
    BY <1>4, <2>1, <2>3 DEF OpenPhase, Accepted, PaymentsOf, Submitted
  <2>6. /\ invoice'[i] = "PENDING_PAYMENT" /\ total'[i] = req[r].amount
        /\ payment'[p].amount = req[r].amount
    BY <1>1, <1>t, <2>1 DEF CommitPay, TypeOK, Issued
  <2>. QED BY <1>2, <2>4, <2>5, <2>6 DEF ReviewPhase
<1>. QED BY <1>3, <1>4 DEF PhaseMoves

LEMMA PhaseWhenDecided ==
  ASSUME SettleInv, NEW r \in Requests, NEW i \in Issued \ disputed, i \in About(r),
         CommitVerify(r), Handle(r)
  PROVE  PhaseMoves(i)
<1>t. TypeOK /\ req \in [Requests -> RequestState] /\ i \in Invoices
  BY DEF SettleInv, FeeInv, BillingInv, TypeOK, Issued
<1>1. req[r].op = "verify" /\ req[r].invoice = i /\ req'[r] = Idle
  BY <1>t DEF CommitVerify, About, Finish, Advance
<1>2. \A s \in Requests : i \notin About(s)'
  BY <1>1, <1>t, NoRival, AboutAfter
<1>3. ~OpenPhase(i) /\ \A q \in Payments : ~PaidPhase(i, q)
  BY <1>1 DEF OpenPhase, PaidPhase
<1>4. ASSUME NEW p \in Payments, ReviewPhase(i, p)
      PROVE  OpenPhase(i)' \/ PaidPhase(i, p)'
  <2>1. req[r].payment = p /\ UnderReview(i) = {p} /\ Accepted(i) = {}
    BY <1>1, <1>4 DEF ReviewPhase
  <2>2. payment[p] \in PaymentRow /\ payment[p].invoice = i
    BY <2>1, <1>t DEF UnderReview, PaymentsOf, Submitted, TypeOK
  <2>3. /\ payment'[p] = [payment[p] EXCEPT !.status = req[r].verdict]
        /\ \A q \in Payments \ {p} : payment'[q] = payment[q]
    BY <2>1 DEF CommitVerify
  <2>4. req[r].verdict \in {"VERIFIED", "REJECTED"}
    BY <1>1, <1>t, RequestByOp DEF VerifyState
  <2>5. /\ payment'[p] \in PaymentRow /\ payment'[p].invoice = i
        /\ payment'[p].amount = payment[p].amount
        /\ payment'[p].status = req[r].verdict
    BY <2>2, <2>3, <2>4 DEF PaymentRow, PaymentStatus
  <2>6. payment'[p] # None
    BY <2>5, NoneAssumption
  <2>o. \A q \in Payments \ {p} : q \notin UnderReview(i)' /\ q \notin Accepted(i)'
    <3>1. \A q \in Payments \ {p} : q \notin UnderReview(i) /\ q \notin Accepted(i)
      BY <2>1
    <3>. QED BY <2>3, <3>1 DEF UnderReview, Accepted, PaymentsOf, Submitted
  <2>7. UnderReview(i)' = {}
    <3>1. p \notin UnderReview(i)'
      BY <2>4, <2>5 DEF UnderReview, PaymentsOf
    <3>2. UnderReview(i)' \subseteq Payments
      BY DEF UnderReview, PaymentsOf, Submitted
    <3>. QED BY <2>o, <3>1, <3>2
  <2>8. invoice'[i] = Verdict(req[r].verdict, i, req[r].at) /\ total'[i] = total[i]
    BY <1>1, <1>t DEF CommitVerify, TypeOK
  <2>9. CASE req[r].verdict = "VERIFIED"
    <3>1. Accepted(i)' = {p}
      <4>1. p \in Accepted(i)'
        BY <2>5, <2>6, <2>9 DEF Accepted, PaymentsOf, Submitted
      <4>2. Accepted(i)' \subseteq Payments
        BY DEF Accepted, PaymentsOf, Submitted
      <4>. QED BY <2>o, <4>1, <4>2
    <3>2. invoice'[i] = "PAID"
      BY <2>8, <2>9 DEF Verdict
    <3>. QED BY <1>2, <1>4, <2>5, <2>7, <2>8, <3>1, <3>2 DEF PaidPhase, ReviewPhase
  <2>10. CASE req[r].verdict = "REJECTED"
    <3>1. Accepted(i)' = {}
      <4>1. p \notin Accepted(i)'
        BY <2>5, <2>10 DEF Accepted, PaymentsOf
      <4>2. Accepted(i)' \subseteq Payments
        BY DEF Accepted, PaymentsOf, Submitted
      <4>. QED BY <2>o, <4>1, <4>2
    <3>2. invoice'[i] \in {"UNPAID", "OVERDUE"}
      BY <2>8, <2>10 DEF Verdict
    <3>. QED BY <1>2, <2>7, <3>1, <3>2 DEF OpenPhase
  <2>. QED BY <2>4, <2>9, <2>10
<1>. QED BY <1>3, <1>4 DEF PhaseMoves

LEMMA PhaseStep ==
  ASSUME SettleInv, NEW r \in Requests, Handle(r), NEW i \in Issued \ disputed,
         i \notin Disputable'
  PROVE  PhaseMoves(i)
<1>t. TypeOK
  BY DEF SettleInv, FeeInv, BillingInv
<1>1. CASE i \notin About(r)
  BY <1>1, PhaseOfOthers, PhaseWhenRead DEF PhaseStays, PhaseMoves
<1>2. CASE i \in About(r)
  <2>1. req[r].op \in {"pay", "verify"} /\ req[r] # Idle
    BY <1>2 DEF About, Idle
  <2>2. CASE CheckAmount(r) \/ Abort(r)
    <3>1. UNCHANGED <<invoice, total, payment>>
      BY <2>2 DEF CheckAmount, Abort, tables
    <3>2. UnderReview(i)' = UnderReview(i) /\ Accepted(i)' = Accepted(i)
      BY <3>1 DEF UnderReview, Accepted, PaymentsOf, Submitted
    <3>3. req'[r] = Idle \/ Enters(r)
      <4>1. ~Starts(r)
        BY <2>1 DEF Starts, BeginRent
      <4>2. ~Reads(r) /\ ~Decides(r)
        BY <1>2, <1>t, AboutAfter
      <4>. QED BY <1>t, <4>1, <4>2, RequestAfter
    <3>4. \A s \in Requests : i \in About(s)' => i \in About(s) /\ req'[s].op = req[s].op
            /\ (req[s].op = "verify" => req'[s] = req[s])
      <4>1. \A s \in Requests \ {r} : i \notin About(s)'
        BY <1>2, NoRival
      <4>2. CASE req'[r] = Idle
        BY <4>1, <4>2, <1>t, AboutAfter
      <4>3. CASE Enters(r)
        BY <4>1, <4>3, <1>2, OpAfter DEF Enters, CheckAmount
      <4>. QED BY <3>3, <4>2, <4>3
    <3>5. OpenPhase(i) => OpenPhase(i)'
      BY <3>1, <3>2, <3>4 DEF OpenPhase
    <3>6. \A p \in Payments : ReviewPhase(i, p) => ReviewPhase(i, p)'
      BY <3>1, <3>2, <3>4 DEF ReviewPhase
    <3>7. \A p \in Payments : PaidPhase(i, p) => PaidPhase(i, p)'
      BY <3>1, <3>2, <3>4 DEF PaidPhase
    <3>. QED BY <3>5, <3>6, <3>7 DEF PhaseMoves
  <2>3. CASE CommitVerify(r)
    BY <1>2, <2>3, PhaseWhenDecided
  <2>4. ASSUME NEW p \in Payments, CommitPay(r, p)
        PROVE  PhaseMoves(i)
    BY <1>2, <2>4, PhaseWhenPaid
  <2>5. ~BeginRent(r) /\ ~BeginPay(r) /\ ~BeginVerify(r)
    BY <2>1 DEF BeginRent, BeginPay, BeginVerify
  <2>6. \A j \in Invoices : ~CommitRent(r, j)
    BY <2>1 DEF CommitRent
  <2>. QED BY <2>2, <2>3, <2>4, <2>5, <2>6 DEF Handle
<1>. QED BY <1>1, <1>2

LEMMA NewInvoice ==
  ASSUME FeeInv, NEW r \in Requests, Handle(r),
         NEW i \in Invoices, invoice[i] = NotCreated, invoice'[i] # NotCreated
  PROVE  CommitRent(r, i) /\ \A j \in Invoices \ {i} : ~CommitRent(r, j)
<1>t. TypeOK /\ RequestFair(r) /\ i \notin Issued
  BY DEF FeeInv, BillingInv, Issued
<1>1. ASSUME NEW j \in Invoices, CommitRent(r, j) PROVE j = i
  BY <1>1, <1>t DEF CommitRent, TypeOK
<1>2. ~CommitVerify(r)
  BY <1>t DEF CommitVerify, RequestFair, About, TypeOK
<1>3. \A p \in Payments : ~CommitPay(r, p)
  BY <1>t DEF CommitPay, RequestFair, About, TypeOK
<1>4. invoice' # invoice
  OBVIOUS
<1>5. \E j \in Invoices : CommitRent(r, j)
  BY <1>2, <1>3, <1>4 DEF Handle, BeginRent, BeginPay, CheckAmount, BeginVerify, Abort,
     tables
<1>. QED BY <1>1, <1>5

LEMMA PhaseWhenIssued ==
  ASSUME SettleInv, NEW r \in Requests, Handle(r), NEW i \in Invoices, CommitRent(r, i)
  PROVE  OpenPhase(i)' /\ i \notin Disputable'
<1>t. TypeOK /\ FeeInv /\ req \in [Requests -> RequestState]
  BY DEF SettleInv, FeeInv, BillingInv, TypeOK
<1>1. i \notin Issued /\ invoice'[i] = "UNPAID" /\ UNCHANGED payment /\ req'[r] = Idle
  BY <1>t DEF CommitRent, Issued, TypeOK, Finish, Advance
<1>2. UnderReview(i)' = {} /\ Accepted(i)' = {}
  <2>1. \A p \in Submitted : payment[p].invoice # i
    BY <1>t, <1>1 DEF FeeInv, PaymentFair
  <2>. QED BY <1>1, <2>1 DEF UnderReview, Accepted, PaymentsOf, Submitted
<1>3. \A s \in Requests : i \notin About(s)'
  <2>1. \A s \in Requests \ {r} : About(s)' = About(s)
    BY <1>t, OthersStay DEF About
  <2>2. \A s \in Requests : i \notin About(s)
    BY <1>t, <1>1 DEF FeeInv, RequestFair
  <2>. QED BY <2>1, <2>2, <1>t, <1>1, AboutAfter
<1>4. i \notin Disputable'
  BY <1>3 DEF Disputable
<1>. QED BY <1>1, <1>2, <1>3, <1>4 DEF OpenPhase

LEMMA StepDecidesOwn ==
  ASSUME SettleInv, Step, NEW r \in Requests
  PROVE  DecidesOwn(r)'
<1>t. TypeOK /\ DecidedPresent /\ req \in [Requests -> RequestState] /\ DecidesOwn(r)
  BY DEF SettleInv, FeeInv, BillingInv, TypeOK
<1> SUFFICES ASSUME req'[r].op = "verify", req'[r].payment \in Payments
             PROVE  payment'[req'[r].payment].invoice = req'[r].invoice
  BY DEF DecidesOwn
<1> DEFINE p == req'[r].payment
<1>1. CASE req'[r] = req[r]
  <2>1. p \in Submitted /\ payment[p].invoice = req[r].invoice
    BY <1>1, <1>t, NoneAssumption DEF DecidedPresent, Submitted, DecidesOwn
  <2>. QED BY <1>1, <1>t, <2>1, RowsStay
<1>2. CASE req'[r] # req[r]
  <2>1. Handle(r)
    BY <1>2, <1>t, OthersStay DEF Step, Tick
  <2>2. Decides(r)
    BY <2>1, <1>t, RequestAfter, OpAfter
  <2>3. PICK i \in Issued, q \in Payments \cup {None} :
          /\ IF q = None THEN UnderReview(i) = {} ELSE q \in UnderReview(i)
          /\ req'[r].invoice = i /\ req'[r].payment = q
    BY <2>2 DEF Decides
  <2>4. p \in UnderReview(i)
    BY <2>3, RowsAssumption
  <2>5. p \in Submitted /\ payment[p].invoice = i
    BY <2>4 DEF UnderReview, PaymentsOf
  <2>. QED BY <2>3, <2>5, <1>t, RowsStay
<1>. QED BY <1>1, <1>2

LEMMA StepPhase ==
  ASSUME SettleInv, Step, disputed' = disputed \cup Disputable',
         NEW i \in Issued' \ disputed'
  PROVE  Phase(i)'
<1>i. i \in Invoices /\ i \notin disputed /\ i \notin Disputable'
      /\ invoice'[i] # NotCreated
  BY DEF Issued
<1>1. CASE Tick
  <2>1. UNCHANGED <<invoice, total, payment, req>>
    BY <1>1 DEF Tick, tables
  <2>2. i \in Issued /\ Phase(i)
    BY <1>i, <2>1 DEF Issued, SettleInv
  <2>3. UnderReview(i)' = UnderReview(i) /\ Accepted(i)' = Accepted(i)
        /\ \A r \in Requests : About(r)' = About(r)
    BY <2>1 DEF UnderReview, Accepted, PaymentsOf, Submitted, About
  <2>4. OpenPhase(i) => OpenPhase(i)'
    BY <2>1, <2>3 DEF OpenPhase
  <2>5. \A p \in Payments : ReviewPhase(i, p) => ReviewPhase(i, p)'
    BY <2>1, <2>3 DEF ReviewPhase
  <2>6. \A p \in Payments : PaidPhase(i, p) => PaidPhase(i, p)'
    BY <2>1, <2>3 DEF PaidPhase
  <2>. QED BY <2>2, <2>4, <2>5, <2>6 DEF Phase
<1>2. ASSUME NEW r \in Requests, Handle(r)
      PROVE  Phase(i)'
  <2>1. CASE invoice[i] = NotCreated
    <3>1. CommitRent(r, i)
      BY <1>i, <1>2, <2>1, NewInvoice DEF SettleInv
    <3>. QED BY <1>i, <1>2, <3>1, PhaseWhenIssued DEF Phase
  <2>2. CASE invoice[i] # NotCreated
    <3>1. i \in Issued \ disputed
      BY <1>i, <2>2 DEF Issued
    <3>2. Phase(i) /\ PhaseMoves(i)
      BY <1>i, <1>2, <3>1, PhaseStep DEF SettleInv
    <3>. QED BY <3>2 DEF Phase, PhaseMoves
  <2>. QED BY <2>1, <2>2
<1>. QED BY <1>1, <1>2 DEF Step

LEMMA DisputedIssued ==
  ASSUME FeeInv
  PROVE  Disputable \subseteq Issued
<1>1. \A r \in Requests : About(r) \subseteq Issued
  BY DEF FeeInv, RequestFair
<1>. QED BY <1>1 DEF Disputable

LEMMA SettleInvariant == Spec => []SettleInv
<1>1. Init /\ FeeInv => SettleInv
  <2> SUFFICES ASSUME Init, FeeInv PROVE SettleInv
    OBVIOUS
  <2>1. Issued = {} /\ disputed = {}
    BY DEF Init, Issued
  <2>2. Disputable = {}
    BY <2>1, DisputedIssued
  <2>3. \A r \in Requests : DecidesOwn(r)
    BY DEF Init, DecidesOwn, Idle
  <2>. QED BY <2>1, <2>2, <2>3 DEF SettleInv
<1>3. FeeInv => Disputable \subseteq Issued
  BY DisputedIssued
<1>4. SettleInv /\ FeeInv' /\ (Disputable \subseteq Issued)' /\ [Next]_vars => SettleInv'
  <2> SUFFICES ASSUME SettleInv, FeeInv', (Disputable \subseteq Issued)', [Next]_vars
               PROVE  SettleInv'
    OBVIOUS
  <2>1. CASE Step /\ disputed' = disputed \cup Disputable'
    <3>1. disputed' \subseteq Issued'
      BY <2>1, IssuedStay DEF SettleInv, FeeInv, BillingInv
    <3>2. \A r \in Requests : DecidesOwn(r)'
      BY <2>1, StepDecidesOwn
    <3>3. \A i \in Issued' \ disputed' : Phase(i)'
      BY <2>1, StepPhase
    <3>. QED BY <2>1, <3>1, <3>2, <3>3 DEF SettleInv
  <2>2. CASE UNCHANGED vars
    <3>1. UNCHANGED <<invoice, total, payment, req, disputed>>
      BY <2>2 DEF vars
    <3>2. Issued' = Issued /\ Disputable' = Disputable
      BY <3>1 DEF Issued, Disputable, About
    <3>3. ASSUME NEW r \in Requests PROVE DecidesOwn(r)'
      BY <3>1 DEF SettleInv, DecidesOwn
    <3>4. ASSUME NEW i \in Issued \ disputed PROVE Phase(i)'
      <4>1. UnderReview(i)' = UnderReview(i) /\ Accepted(i)' = Accepted(i)
            /\ \A r \in Requests : About(r)' = About(r)
        BY <3>1 DEF UnderReview, Accepted, PaymentsOf, Submitted, About
      <4>2. OpenPhase(i) => OpenPhase(i)'
        BY <3>1, <4>1 DEF OpenPhase
      <4>3. \A p \in Payments : ReviewPhase(i, p) => ReviewPhase(i, p)'
        BY <3>1, <4>1 DEF ReviewPhase
      <4>4. \A p \in Payments : PaidPhase(i, p) => PaidPhase(i, p)'
        BY <3>1, <4>1 DEF PaidPhase
      <4>. QED BY <4>2, <4>3, <4>4 DEF Phase, SettleInv
    <3>. QED BY <3>1, <3>2, <3>3, <3>4 DEF SettleInv
  <2>. QED BY <2>1, <2>2 DEF Next
<1>. QED BY <1>1, <1>3, <1>4, FeeInvariant, PTL DEF Spec

(* What is under review or verified is the total of an undisputed invoice, *)
(* penalty included, after any number of refused payments.                 *)
THEOREM AlwaysPaidInFull == Spec => []PaidInFull
<1>1. SettleInv => PaidInFull
  BY DEF SettleInv, PaidInFull, Phase, OpenPhase, ReviewPhase, PaidPhase, Accepted
<1>. QED BY <1>1, SettleInvariant, PTL

(* The stage each phase stands for.                                        *)
StageIs(i) ==
  /\ i \notin Issued => Stage(i) = "none"
  /\ i \in disputed => Stage(i) = "disputed"
  /\ i \in Issued \ disputed =>
       /\ OpenPhase(i) => Stage(i) = "open"
       /\ \A p \in Payments : ReviewPhase(i, p) => Stage(i) = "review"
       /\ \A p \in Payments : PaidPhase(i, p) => Stage(i) = "settled"
StageFacts == \A i \in Invoices : StageIs(i)

LEMMA PhaseStage ==
  ASSUME SettleInv
  PROVE  StageFacts
<1> SUFFICES ASSUME NEW i \in Invoices PROVE StageIs(i)
  BY DEF StageFacts
<1>1. i \notin Issued => Stage(i) = "none"
  BY DEF Stage, Issued, SettleInv
<1>2. i \in disputed => Stage(i) = "disputed"
  BY DEF Stage, Issued, SettleInv
<1>3. ASSUME i \in Issued \ disputed
      PROVE  /\ OpenPhase(i) => Stage(i) = "open"
             /\ \A p \in Payments : ReviewPhase(i, p) => Stage(i) = "review"
             /\ \A p \in Payments : PaidPhase(i, p) => Stage(i) = "settled"
  <2>1. invoice[i] # NotCreated /\ i \notin disputed
    BY <1>3 DEF Issued
  <2>2. \A p : Cardinality({p}) = 1
    BY FS_Singleton
  <2>3. OpenPhase(i) => Stage(i) = "open"
    BY <2>1 DEF OpenPhase, Accepted, Stage, NotCreated
  <2>4. \A p \in Payments : ReviewPhase(i, p) => Stage(i) = "review"
    BY <2>1, <2>2 DEF ReviewPhase, Accepted, Stage, NotCreated
  <2>5. \A p \in Payments : PaidPhase(i, p) => Stage(i) = "settled"
    BY <2>1, <2>2 DEF PaidPhase, Accepted, Stage, NotCreated
  <2>. QED BY <2>3, <2>4, <2>5
<1>. QED BY <1>1, <1>2, <1>3 DEF StageIs

(* One request moves one invoice.                                          *)
LEMMA OneInvoice ==
  ASSUME FeeInv, NEW r \in Requests, Handle(r)
  PROVE  \E i : \A j \in Invoices \ {i} :
           j \notin About(r) /\ j \notin About(r)' /\ ~CommitRent(r, j)
<1>t. TypeOK
  BY DEF FeeInv, BillingInv
<1>1. About(r) \subseteq {req[r].invoice} /\ About(r)' \subseteq {req'[r].invoice}
  BY DEF About
<1>2. ASSUME NEW i \in Invoices, CommitRent(r, i)
      PROVE  \A j \in Invoices \ {i} :
               j \notin About(r) /\ j \notin About(r)' /\ ~CommitRent(r, j)
  <2>1. About(r) = {} /\ About(r)' = {}
    BY <1>2, <1>t, AboutAfter DEF CommitRent, About, Finish, Advance, TypeOK
  <2>2. invoice[i] = NotCreated /\ invoice'[i] # NotCreated
    BY <1>2, <1>t DEF CommitRent, TypeOK, NotCreated
  <2>. QED BY <2>1, <2>2, NewInvoice
<1>3. CASE \A i \in Invoices : ~CommitRent(r, i)
  <2>1. About(r) = {} \/ About(r)' = {} \/ About(r)' = About(r)
    BY <1>t, RequestAfter, AboutAfter
  <2>. QED BY <1>1, <1>3, <2>1
<1>. QED BY <1>2, <1>3

LEMMA StageStays ==
  ASSUME SettleInv, StageFacts, StageFacts', NEW r \in Requests, Handle(r),
         disputed' = disputed \cup Disputable',
         NEW j \in Invoices, j \notin About(r), j \notin About(r)', ~CommitRent(r, j)
  PROVE  Stage(j)' = Stage(j)
<1>t. FeeInv /\ TypeOK /\ req \in [Requests -> RequestState]
  BY DEF SettleInv, FeeInv, BillingInv, TypeOK
<1>s. StageIs(j) /\ StageIs(j)'
  BY DEF StageFacts
<1>1. CASE j \notin Issued
  <2>1. j \notin Issued'
    BY <1>1, <1>t, NewInvoice DEF Issued
  <2>. QED BY <1>1, <1>s, <2>1 DEF StageIs
<1>2. CASE j \in disputed
  BY <1>2, <1>s DEF StageIs
<1>3. CASE j \in Issued \ disputed
  <2>1. \A s \in Requests : j \in About(s)' => s # r /\ req'[s] = req[s] /\ j \in About(s)
    BY <1>3, NoRival
  <2>2. j \notin Disputable
    BY <1>3 DEF SettleInv
  <2>3. j \notin Disputable'
    <3>1. \A s, u \in Requests : s # u => ~(j \in About(s)' /\ j \in About(u)')
      BY <2>1, <2>2 DEF Disputable
    <3>2. \A s \in Requests :
            ~(j \in About(s)' /\ req'[s].op = "verify" /\ req'[s].payment = None)
      BY <2>1, <2>2 DEF Disputable
    <3>. QED BY <3>1, <3>2 DEF Disputable
  <2>4. j \in Issued' /\ j \notin disputed'
    BY <1>3, <1>t, <2>3, IssuedStay DEF Step
  <2>5. Phase(j) /\ PhaseStays(j)
    BY <1>3, PhaseOfOthers DEF SettleInv
  <2>. QED BY <1>3, <1>s, <2>4, <2>5 DEF StageIs, Phase, PhaseStays
<1>. QED BY <1>1, <1>2, <1>3

(* The moves of the abstract invoice.                                      *)
StageMoves(i) ==
  \/ Stage(i)' = Stage(i)
  \/ Stage(i) = "none" /\ Stage(i)' = "open"
  \/ Stage(i) = "open" /\ Stage(i)' = "review"
  \/ Stage(i) = "review" /\ Stage(i)' \in {"open", "settled"}
  \/ Stage(i) \in {"open", "review", "settled"} /\ Stage(i)' = "disputed"

LEMMA StageStep ==
  ASSUME SettleInv, StageFacts, StageFacts', NEW r \in Requests, Handle(r),
         disputed' = disputed \cup Disputable', NEW i \in Invoices
  PROVE  StageMoves(i)
<1>t. FeeInv /\ TypeOK /\ disputed \subseteq Issued
  BY DEF SettleInv, FeeInv, BillingInv
<1>s. StageIs(i) /\ StageIs(i)'
  BY DEF StageFacts
<1>1. CASE i \notin Issued
  <2>1. CASE i \notin Issued'
    BY <1>1, <2>1, <1>s DEF StageIs, StageMoves
  <2>2. CASE i \in Issued'
    <3>1. CommitRent(r, i)
      BY <1>1, <2>2, <1>t, NewInvoice DEF Issued
    <3>2. OpenPhase(i)' /\ i \notin disputed'
      BY <1>1, <1>t, <3>1, PhaseWhenIssued
    <3>. QED BY <1>1, <2>2, <3>2, <1>s DEF StageIs, StageMoves
  <2>. QED BY <2>1, <2>2
<1>2. CASE i \in disputed
  BY <1>2, <1>s DEF StageIs, StageMoves
<1>3. CASE i \in Issued \ disputed
  <2>1. Phase(i) /\ i \in Issued'
    BY <1>3, <1>t, IssuedStay DEF SettleInv, Step
  <2>2. CASE i \in disputed'
    <3>1. Stage(i) \in {"open", "review", "settled"}
      BY <1>3, <1>s, <2>1 DEF StageIs, Phase
    <3>. QED BY <2>2, <3>1, <1>s DEF StageIs, StageMoves
  <2>3. CASE i \notin disputed'
    <3>1. PhaseMoves(i)
      BY <1>3, <2>3, PhaseStep
    <3>2. CASE OpenPhase(i)
      BY <1>3, <1>s, <2>1, <2>3, <3>1, <3>2 DEF StageIs, StageMoves, PhaseMoves
    <3>3. ASSUME NEW p \in Payments, ReviewPhase(i, p)
          PROVE  StageMoves(i)
      BY <1>3, <1>s, <2>1, <2>3, <3>1, <3>3 DEF StageIs, StageMoves, PhaseMoves
    <3>4. ASSUME NEW p \in Payments, PaidPhase(i, p)
          PROVE  StageMoves(i)
      BY <1>3, <1>s, <2>1, <2>3, <3>1, <3>4 DEF StageIs, StageMoves, PhaseMoves
    <3>. QED BY <2>1, <3>2, <3>3, <3>4 DEF Phase
  <2>. QED BY <2>2, <2>3
<1>. QED BY <1>1, <1>2, <1>3

Stages == [i \in Invoices |-> Stage(i)]

LEMMA StepSettles ==
  ASSUME SettleInv, StageFacts, StageFacts', [Next]_vars
  PROVE  [Abstract!Next]_Stages
<1>1. CASE Stages' = Stages
  BY <1>1
<1>2. ASSUME NEW r \in Requests, Handle(r), disputed' = disputed \cup Disputable'
      PROVE  [Abstract!Next]_Stages
  <2>1. PICK i : \A j \in Invoices \ {i} :
          j \notin About(r) /\ j \notin About(r)' /\ ~CommitRent(r, j)
    BY <1>2, OneInvoice DEF SettleInv
  <2>2. \A j \in Invoices \ {i} : Stage(j)' = Stage(j)
    BY <1>2, <2>1, StageStays
  <2>3. CASE i \notin Invoices
    BY <2>2, <2>3 DEF Stages
  <2>4. CASE i \in Invoices
    <3>1. StageMoves(i)
      BY <1>2, <2>4, StageStep
    <3>2. Stages' = [Stages EXCEPT ![i] = Stage(i)']
      BY <2>2, <2>4 DEF Stages
    <3>3. Stages[i] = Stage(i)
      BY <2>4 DEF Stages
    <3>4. CASE Stage(i)' = Stage(i)
      BY <3>2, <3>3, <3>4 DEF Stages
    <3>5. CASE Stage(i)' # Stage(i)
      <4>1. \/ Abstract!Moves(i, "none", "open")
            \/ Abstract!Moves(i, "open", "review")
            \/ Abstract!Moves(i, "review", "open")
            \/ Abstract!Moves(i, "review", "settled")
            \/ \E from \in {"open", "review", "settled"} :
                 Abstract!Moves(i, from, "disputed")
        BY <3>1, <3>2, <3>3, <3>5 DEF StageMoves, Abstract!Moves, Stages
      <4>2. Abstract!Next
        BY <2>4, <4>1 DEF Abstract!Next, Abstract!Issue, Abstract!Submit,
           Abstract!Refuse, Abstract!Accept, Abstract!Dispute, Abstract!Stages
      <4>. QED BY <4>2
    <3>. QED BY <3>4, <3>5
  <2>. QED BY <2>3, <2>4
<1>3. CASE Tick /\ disputed' = disputed \cup Disputable'
  <2>1. UNCHANGED <<invoice, payment, req>>
    BY <1>3 DEF Tick, tables
  <2>2. Disputable' = Disputable
    BY <2>1 DEF Disputable, About
  <2>3. disputed' = disputed
    BY <1>3, <2>2 DEF SettleInv
  <2>4. Stages' = Stages
    BY <2>1, <2>3 DEF Stages, Stage, UnderReview, PaymentsOf, Submitted
  <2>. QED BY <2>4
<1>4. CASE UNCHANGED vars
  <2>1. Stages' = Stages
    BY <1>4 DEF vars, Stages, Stage, UnderReview, PaymentsOf, Submitted
  <2>. QED BY <2>1
<1>. QED BY <1>2, <1>3, <1>4 DEF Next, Step

(* Billing implements Settlement: whatever requests are interleaved, an    *)
(* invoice no two of them are about at one time is issued, paid for, and   *)
(* accepted once or refused, and stays settled.                            *)
THEOREM BillingSettles == Spec => Settles
<1>1. Init => Abstract!Init
  BY DEF Init, Abstract!Init, Stage
<1>2. SettleInv => StageFacts
  BY PhaseStage
<1>3. SettleInv /\ StageFacts /\ StageFacts' /\ [Next]_vars
        => [Abstract!Next]_Stages
  BY StepSettles
<1>. QED
  BY <1>1, <1>2, <1>3, SettleInvariant, PTL DEF Spec, Settles, Abstract!Spec, Stages

=============================================================================
