----------------------------- MODULE GoodsFlow -----------------------------
(***************************************************************************)
(* The life cycle of a goods item: the transition table and the role rules *)
(* of PATCH /goods/:id/status, and the eligibility rules other handlers    *)
(* apply to the status they read.                                          *)
(***************************************************************************)

GoodsStatus ==
  {"DRAFT", "PENDING_PICKUP", "IN_TRANSIT_INBOUND", "INSPECTING", "STORED",
   "PENDING_DELIVERY", "IN_TRANSIT_OUTBOUND", "DELIVERED", "CANCELLED"}

AllowedGoodsTransitions(s) ==
  CASE s = "DRAFT"               -> {"PENDING_PICKUP", "CANCELLED"}
    [] s = "PENDING_PICKUP"      -> {"IN_TRANSIT_INBOUND", "CANCELLED", "DRAFT"}
    [] s = "IN_TRANSIT_INBOUND"  -> {"INSPECTING", "PENDING_PICKUP"}
    [] s = "INSPECTING"          -> {"STORED", "CANCELLED",
                                     "IN_TRANSIT_INBOUND"}
    [] s = "STORED"              -> {"PENDING_DELIVERY", "STORED"}
    [] s = "PENDING_DELIVERY"    -> {"IN_TRANSIT_OUTBOUND", "STORED"}
    [] s = "IN_TRANSIT_OUTBOUND" -> {"DELIVERED", "PENDING_DELIVERY"}
    [] OTHER                     -> {}

RoleMaySetGoods(role, to) ==
  CASE role = "CUSTOMER" ->
         to \in {"PENDING_PICKUP", "PENDING_DELIVERY", "CANCELLED"}
    [] role = "DRIVER" ->
         to \in {"IN_TRANSIT_INBOUND", "IN_TRANSIT_OUTBOUND", "DELIVERED"}
    [] OTHER -> TRUE

(* Put-away starts from the receiving dock, or moves an item already        *)
(* stored; the table alone would also let it start from PENDING_DELIVERY.  *)
MayPutAway(from) == from \in {"INSPECTING", "STORED"}

(* An item that can be named by a new inbound pickup order.                *)
CanInbound(s) == s \in {"DRAFT", "PENDING_PICKUP"}

(* An item that can be named by a new outbound delivery order.             *)
CanOutbound(s) == s = "STORED"
=============================================================================
