----------------------------- MODULE MCPutAway -----------------------------
(***************************************************************************)
(* A small instance of PutAway: one customer, whose two items are to go to *)
(* a warehouse with two slots of cold storage and one without, which is    *)
(* under maintenance, or to a warehouse without slots.  The first slot     *)
(* takes both items, by weight only as what is left is rounded, the second *)
(* either; their volumes are rounded away, unless they are in one place.   *)
(* One request at a time changes a status or receives at the dock, beside  *)
(* one that transfers, deletes, moves goods or reports.                    *)
(***************************************************************************)
EXTENDS PutAway, TLC

CONSTANTS Customer, Here, ColdItem, Weak, Dry, Clerk

MCOps ==
  [r \in Requests |->
     IF r = Clerk THEN {"status", "receive"}
                  ELSE {"transfer", "delete", "move", "report"}]
MCOwner == [g \in Goods |-> Customer]
MCHome == [g \in Goods |-> Here]
MCSite == [s \in Slots |-> Here]
MCCold == {ColdItem} \cup (Slots \ {Dry})
MCSize ==
  [g \in Goods |-> [m \in Measures |->
     IF m = "volume" THEN 1 ELSE IF g = ColdItem THEN 3 ELSE 6]]
MCLimit ==
  [s \in Slots |-> [m \in Measures |->
     IF m = "volume" THEN 3 ELSE IF s = Weak THEN 6 ELSE 8]]
MCGrain == [m \in Measures |-> IF m = "volume" THEN 3 ELSE 2]
=============================================================================
