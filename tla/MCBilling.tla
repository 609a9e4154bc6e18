----------------------------- MODULE MCBilling -----------------------------
(***************************************************************************)
(* Small instances of Billing: interchangeable invoices, payments and      *)
(* requests, and instants around the due date and the first week's end.    *)
(***************************************************************************)
EXTENDS Billing, TLC

Symmetry == Permutations(Invoices) \cup Permutations(Payments)
              \cup Permutations(Requests)
=============================================================================
