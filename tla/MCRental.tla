------------------------------ MODULE MCRental ------------------------------
(***************************************************************************)
(* A small instance of Rental: contracts of one unit of space, each filled *)
(* by one goods item.                                                      *)
(***************************************************************************)
EXTENDS Rental, TLC

MCSpace == [c \in Contracts |-> 1]
MCVolume == [g \in Goods |-> 1]

Symmetry == Permutations(Goods) \cup Permutations(Requests)
              \cup Permutations(Warehouses)
=============================================================================
