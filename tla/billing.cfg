\* Two requests at a time, in any interleaving, over two invoices and three
\* payments, at instants around the due date and the ends of the first weeks.
SPECIFICATION Spec
CONSTANTS
  Invoices = {i1, i2}
  Payments = {p1, p2, p3}
  None = None
  Requests = {r1, r2}
  InvoiceLimit = 1
  PaymentLimit = 2
  Grace = 2
  Instants = {0, 2, 17}
SYMMETRY Symmetry
INVARIANTS TypeOK UnderReviewBounded FeeMatchesDelay PaidInFull
PROPERTIES Settles
\* All rows may be used up and the clock at its last instant.
CHECK_DEADLOCK FALSE
