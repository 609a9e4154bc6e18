----------------------------- MODULE MCSessions -----------------------------
(***************************************************************************)
(* A small instance of Sessions.                                           *)
(***************************************************************************)
EXTENDS Sessions, TLC

Symmetry == Permutations(Pairs) \cup Permutations(Calls) \cup Permutations(Tabs)
=============================================================================
