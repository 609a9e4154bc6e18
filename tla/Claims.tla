------------------------------- MODULE Claims -------------------------------
(***************************************************************************)
(* What the creation of an order promises about packages, whatever locks   *)
(* and checks implement it: an order claims all it names in one step, only *)
(* if every item has that many packages left; it holds its claim unchanged *)
(* until it gives it up, and what is given up is never held again.         *)
(***************************************************************************)
EXTENDS Naturals, FiniteSets

CONSTANTS Orders, Goods, Quantity, Types

VARIABLES
  stage,   \* of each order: no claim yet, a claim held, or given up
  type,    \* orders of different types claim independently
  want     \* the packages each claims of each goods item

vars == <<stage, type, want>>

Holders == {o \in Orders : stage[o] = "held"}

(* The packages of g that orders of type k hold.                           *)
Held(k, g) ==
  {p \in Holders \X (1 .. Quantity[g]) : type[p[1]] = k /\ p[2] <= want[p[1]][g]}

Init ==
  /\ stage = [o \in Orders |-> "none"]
  /\ type \in [Orders -> Types]
  /\ want \in [Orders -> [Goods -> Nat]]

Claim(o) ==
  /\ stage[o] = "none"
  /\ stage' = [stage EXCEPT ![o] = "held"]
  /\ type' = [type EXCEPT ![o] = type'[o]]
  /\ want' = [want EXCEPT ![o] = want'[o]]
  /\ \A g \in Goods :
       Cardinality(Held(type'[o], g)) + want'[o][g] <= Quantity[g]

GiveUp(S) ==
  /\ stage' = [o \in Orders |-> IF o \in S THEN "gone" ELSE stage[o]]
  /\ UNCHANGED <<type, want>>

Next ==
  \/ \E o \in Orders : Claim(o)
  \/ \E S \in SUBSET Holders : GiveUp(S)

Spec == Init /\ [][Next]_vars
=============================================================================
