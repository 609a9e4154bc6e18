----------------------------- MODULE Settlement -----------------------------
(***************************************************************************)
(* What billing promises of an invoice, whatever rows implement it: it is  *)
(* issued, paid for, and the payment is accepted once or refused and made  *)
(* again.  Nothing leads out of "settled".  Of an invoice that two         *)
(* requests were about at one time nothing is promised: it is "disputed".  *)
(***************************************************************************)
CONSTANT Invoices

VARIABLE stage

Stages == {"none", "open", "review", "settled", "disputed"}

Init == stage = [i \in Invoices |-> "none"]

Moves(i, from, to) == stage[i] = from /\ stage' = [stage EXCEPT ![i] = to]

Issue(i)   == Moves(i, "none", "open")
Submit(i)  == Moves(i, "open", "review")
Refuse(i)  == Moves(i, "review", "open")
Accept(i)  == Moves(i, "review", "settled")
Dispute(i) == \E from \in Stages \ {"none"} : Moves(i, from, "disputed")

Next ==
  \E i \in Invoices : Issue(i) \/ Submit(i) \/ Refuse(i) \/ Accept(i) \/ Dispute(i)

Spec == Init /\ [][Next]_stage
=============================================================================
