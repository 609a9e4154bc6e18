------------------------------ MODULE Billing ------------------------------
(***************************************************************************)
(* Invoices and payments: rentSpace of warehouse.service.ts, which issues  *)
(* an invoice, and payInvoice and verifyPayment of billing.service.ts, as  *)
(* concurrent requests over one PostgreSQL database.                       *)
(*                                                                         *)
(* A handler reads the invoice with its payments, decides, and writes in a *)
(* transaction that checks nothing again; the actions below are what one   *)
(* handler does between two moments another request can be seen.           *)
(*                                                                         *)
(* Abstracted: time counts in half days, so that a started day is not a    *)
(* whole one; amounts in percent of the subtotal; the latest of several    *)
(* payments under review is any of them; proofs, receipts, notifications   *)
(* and the rented volume (Rental) decide nothing here.                     *)
(***************************************************************************)
EXTENDS Integers, FiniteSets

CONSTANTS
  Invoices, Payments,         \* identities of the rows that may be created
  None,                       \* no row
  Requests,                   \* HTTP requests handled at the same time
  InvoiceLimit, PaymentLimit, \* MAX_DEMO_INVOICES_LIMIT, MAX_DEMO_PAYMENTS_LIMIT
  Grace,                      \* INVOICE_PAYMENT_GRACE_DAYS, in half days
  Instants                    \* the times the clock is looked at

ASSUME RowsAssumption ==
  /\ IsFiniteSet(Invoices) /\ IsFiniteSet(Payments)
  /\ None \notin Invoices \cup Payments
ASSUME RequestsAssumption ==
  /\ IsFiniteSet(Requests) /\ Requests # {}
  /\ InvoiceLimit \in Nat /\ PaymentLimit \in Nat
ASSUME TimeAssumption == Grace \in Nat /\ Instants \subseteq Nat /\ 0 \in Instants

VARIABLES
  now,       \* the clock
  invoice,   \* Invoice.status, or NotCreated
  due,       \* Invoice.dueDate
  total,     \* Invoice.totalAmount
  payment,   \* the rows of Payment, or None
  req,       \* what each request in flight has read and decided
  disputed   \* history: invoices two requests were about at one time, or
             \* that were decided with no payment under review

vars == <<now, invoice, due, total, payment, req, disputed>>
tables == <<invoice, due, total, payment>>

NotCreated == "NOT_CREATED"
InvoiceStatus == {"UNPAID", "PENDING_PAYMENT", "PAID", "OVERDUE", "CANCELLED"}
PaymentStatus == {"UNDER_REVIEW", "VERIFIED", "REJECTED"}
Idle == [op |-> "idle"]

(***************************************************************************)
(* calculatePenalty: 5% of the subtotal for every week, or part of one,    *)
(* after the due date; days are rounded up first, then weeks.              *)
(***************************************************************************)
CeilDiv(a, b) == (a + b - 1) \div b
WholeWeeks(late) == (late \div 2) \div 7   \* mutant: rounded down
WeeksOverdue(late) == CeilDiv(CeilDiv(late, 2), 7)
Payable(i, t) ==
  IF t <= due[i] THEN 100 ELSE 100 + 5 * WeeksOverdue(t - due[i])

Issued == {i \in Invoices : invoice[i] # NotCreated}
Submitted == {p \in Payments : payment[p] # None}
PaymentsOf(i, s) == {p \in Submitted : payment[p].invoice = i /\ payment[p].status = s}
UnderReview(i) == PaymentsOf(i, "UNDER_REVIEW")

(* The checks of payInvoice on the invoice and the payments it read.       *)
MayPayUnlessPaid(i) == invoice[i] \notin {"PAID", "CANCELLED"}   \* mutant
MayPay(i) ==
  /\ invoice[i] \notin {"PAID", "CANCELLED", "PENDING_PAYMENT"}
  /\ UnderReview(i) = {}

(* Both demo limits are counted before anything else is looked at.         *)
BelowInvoiceLimit == Cardinality(Issued) < InvoiceLimit
BelowPaymentLimit == Cardinality(Submitted) < PaymentLimit

Advance(r, state) == req' = [req EXCEPT ![r] = state]
Finish(r) == Advance(r, Idle)

(***************************************************************************)
(* POST /warehouses/rent                                                   *)
(***************************************************************************)
BeginRent(r) ==
  /\ req[r] = Idle /\ BelowInvoiceLimit
  /\ Advance(r, [op |-> "rent", due |-> now + Grace])
  /\ UNCHANGED <<now, tables>>

CommitRent(r, i) ==
  /\ req[r].op = "rent" /\ invoice[i] = NotCreated
  /\ invoice' = [invoice EXCEPT ![i] = "UNPAID"]
  /\ due' = [due EXCEPT ![i] = req[r].due]
  /\ total' = [total EXCEPT ![i] = 100]
  /\ Finish(r)
  /\ UNCHANGED <<now, payment>>

(***************************************************************************)
(* POST /billing/invoices/:id/pay                                          *)
(***************************************************************************)
BeginPay(r) ==
  /\ req[r] = Idle
  /\ \E i \in Issued :
       MayPay(i) /\ Advance(r, [op |-> "pay", stage |-> "read", invoice |-> i])
  /\ UNCHANGED <<now, tables>>

(* The limit, and the amount, which must be what is payable now: a client  *)
(* that shows an older one is refused.                                     *)
CheckAmount(r) ==
  LET q == req[r]
  IN /\ q.op = "pay" /\ q.stage = "read"
     /\ \E shown \in {t \in Instants : t <= now} :
          IF BelowPaymentLimit
               /\ Payable(q.invoice, shown) = Payable(q.invoice, now)
            THEN Advance(r, [op |-> "pay", stage |-> "tx", invoice |-> q.invoice,
                             amount |-> Payable(q.invoice, now), at |-> now])
            ELSE Finish(r)
     /\ UNCHANGED <<now, tables>>

CommitPayKeepsTotal(r, p) ==   \* mutant: totalAmount is not updated
  LET q == req[r]
  IN /\ q.op = "pay" /\ q.stage = "tx" /\ payment[p] = None
     /\ payment' = [payment EXCEPT ![p] =
                      [invoice |-> q.invoice, status |-> "UNDER_REVIEW",
                       amount |-> q.amount, at |-> q.at]]
     /\ invoice' = [invoice EXCEPT ![q.invoice] = "PENDING_PAYMENT"]
     /\ Finish(r)
     /\ UNCHANGED <<now, due, total>>
CommitPay(r, p) ==
  LET q == req[r]
  IN /\ q.op = "pay" /\ q.stage = "tx" /\ payment[p] = None
     /\ payment' = [payment EXCEPT ![p] =
                      [invoice |-> q.invoice, status |-> "UNDER_REVIEW",
                       amount |-> q.amount, at |-> q.at]]
     /\ invoice' = [invoice EXCEPT ![q.invoice] = "PENDING_PAYMENT"]
     /\ total' = [total EXCEPT ![q.invoice] = q.amount]
     /\ Finish(r)
     /\ UNCHANGED <<now, due>>

(***************************************************************************)
(* PATCH /billing/invoices/:id/verify: the status of the invoice is not    *)
(* looked at, and there need not be a payment under review.                *)
(***************************************************************************)
BeginVerify(r) ==
  /\ req[r] = Idle
  /\ \E i \in Issued, verdict \in {"VERIFIED", "REJECTED"} :
       \E p \in IF UnderReview(i) = {} THEN {None} ELSE UnderReview(i) :
         Advance(r, [op |-> "verify", invoice |-> i, payment |-> p,
                     verdict |-> verdict, at |-> now])
  /\ UNCHANGED <<now, tables>>

(* What the invoice becomes.                                               *)
SameVerdict(verdict, i, at) == verdict   \* mutant: the payment's own status
Verdict(verdict, i, at) ==
  IF verdict = "VERIFIED" THEN "PAID"
  ELSE IF at > due[i] THEN "OVERDUE" ELSE "UNPAID"

(* Payment and invoice are written whatever they have become since.        *)
CommitVerifyInvoiceOnly(r) ==   \* mutant: the payment row is left as it was
  LET q == req[r]
  IN /\ q.op = "verify"
     /\ invoice' = [invoice EXCEPT
                      ![q.invoice] = Verdict(q.verdict, q.invoice, q.at)]
     /\ Finish(r)
     /\ UNCHANGED <<now, due, total, payment>>
CommitVerify(r) ==
  LET q == req[r]
  IN /\ q.op = "verify"
     /\ payment' = [p \in Payments |->
                      IF p = q.payment THEN [payment[p] EXCEPT !.status = q.verdict]
                                       ELSE payment[p]]
     /\ invoice' = [invoice EXCEPT
                      ![q.invoice] = Verdict(q.verdict, q.invoice, q.at)]
     /\ Finish(r)
     /\ UNCHANGED <<now, due, total>>

(* A request is dropped before its commit, and its transaction with it.    *)
Abort(r) ==
  /\ req[r] # Idle
  /\ Finish(r)
  /\ UNCHANGED <<now, tables>>

(* Time passes, to any later instant.                                      *)
Tick ==
  /\ \E t \in Instants : t > now /\ now' = t
  /\ UNCHANGED <<tables, req>>

About(r) == IF req[r].op \in {"pay", "verify"} THEN {req[r].invoice} ELSE {}
Disputable ==
  {i \in Invoices :
     \/ \E r, s \in Requests : r # s /\ i \in About(r) \cap About(s)
     \/ \E r \in Requests :
          i \in About(r) /\ req[r].op = "verify" /\ req[r].payment = None}

Init ==
  /\ now = 0
  /\ invoice = [i \in Invoices |-> NotCreated]
  /\ due = [i \in Invoices |-> 0]
  /\ total = [i \in Invoices |-> 0]
  /\ payment = [p \in Payments |-> None]
  /\ req = [r \in Requests |-> Idle]
  /\ disputed = {}

Handle(r) ==
  \/ BeginRent(r) \/ BeginPay(r) \/ CheckAmount(r)
  \/ BeginVerify(r) \/ CommitVerify(r) \/ Abort(r)
  \/ \E i \in Invoices : CommitRent(r, i)
  \/ \E p \in Payments : CommitPay(r, p)

Step == Tick \/ \E r \in Requests : Handle(r)
Next == Step /\ disputed' = disputed \cup Disputable'

Spec == Init /\ [][Next]_vars

(***************************************************************************)
(* Properties                                                              *)
(***************************************************************************)
RequestState ==
  {Idle} \cup [op: {"rent"}, due: Nat]
    \cup [op: {"pay"}, stage: {"read"}, invoice: Invoices]
    \cup [op: {"pay"}, stage: {"tx"}, invoice: Invoices, amount: Nat, at: Nat]
    \cup [op: {"verify"}, invoice: Invoices, payment: Payments \cup {None},
          verdict: {"VERIFIED", "REJECTED"}, at: Nat]
PaymentRow ==
  [invoice: Invoices, status: PaymentStatus, amount: Nat, at: Nat]
ASSUME NoneAssumption == None \notin PaymentRow

(* Every row holds a value of its column, every request a state of its     *)
(* handler.                                                                *)
TypeOK ==
  /\ now \in Instants
  /\ invoice \in [Invoices -> InvoiceStatus \cup {NotCreated}]
  /\ due \in [Invoices -> Nat] /\ total \in [Invoices -> Nat]
  /\ payment \in [Payments -> PaymentRow \cup {None}]
  /\ req \in [Requests -> RequestState]
  /\ disputed \in SUBSET Invoices

(* payInvoice looks for a payment under review before its transaction: of  *)
(* one invoice there are never more than there are requests handled at a   *)
(* time.                                                                   *)
UnderReviewBounded ==
  \A i \in Invoices : Cardinality(UnderReview(i)) <= Cardinality(Requests)

(* A payment is charged 5% more for every week that had begun, after the   *)
(* due date, when it was submitted: no more and no less.                   *)
FeeMatchesDelay ==
  \A p \in Submitted :
    LET weeks == {w \in 0 .. payment[p].at :
                    due[payment[p].invoice] + 14 * w < payment[p].at}
    IN payment[p].amount = 100 + 5 * Cardinality(weeks)

(* What is under review or verified is the total of the invoice, penalty   *)
(* included, also after refused payments and however late.                 *)
PaidInFull ==
  \A i \in Issued \ disputed :
    \A p \in UnderReview(i) \cup PaymentsOf(i, "VERIFIED") :
      payment[p].amount = total[i]

(* Billing implements the abstract settlement of an invoice: in review     *)
(* with exactly one payment under review, settled with exactly one         *)
(* verified and none under review, and never anything but settled then.    *)
Stage(i) ==
  LET open == UnderReview(i)
      good == PaymentsOf(i, "VERIFIED")
  IN IF invoice[i] = NotCreated THEN "none"
     ELSE IF i \in disputed THEN "disputed"
     ELSE CASE invoice[i] \in {"UNPAID", "OVERDUE"}
                 /\ open = {} /\ good = {} -> "open"
            [] invoice[i] = "PENDING_PAYMENT"
                 /\ good = {} /\ Cardinality(open) = 1 -> "review"
            [] invoice[i] = "PAID"
                 /\ open = {} /\ Cardinality(good) = 1 -> "settled"
            [] OTHER -> "inconsistent"
Abstract == INSTANCE Settlement WITH stage <- [i \in Invoices |-> Stage(i)]
Settles == Abstract!Spec
=============================================================================
