---------------------------- MODULE MCLogistics ----------------------------
(***************************************************************************)
(* Small instances of Logistics for TLC: constants the cfg files choose,   *)
(* and the symmetries they use.  Orders, goods, vehicles, drivers and      *)
(* requests are interchangeable where every one of a kind is alike.        *)
(***************************************************************************)
EXTENDS Logistics, TLC

CONSTANT Packages   \* the packages registered of each goods item

MCQuantity == [g \in Goods |-> Packages]

(* All goods in one warehouse, or each item in a warehouse of its own.     *)
OneWarehouse == [g \in Goods |-> "w"]
OwnWarehouse == [g \in Goods |-> g]

(* For safety runs only: TLC's liveness check is not sound with symmetry.  *)
Symmetry == Permutations(Orders) \cup Permutations(Requests)
              \cup Permutations(Goods) \cup Permutations(Vehicles)
              \cup Permutations(Drivers)
=============================================================================
