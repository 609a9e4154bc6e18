----------------------------- MODULE OrderFlow -----------------------------
(***************************************************************************)
(* The life cycle of a delivery order: the transition table and the role   *)
(* rules every status change is checked against, and the two status lists  *)
(* the handlers compare with.  The lists differ on DELAYED: a delayed      *)
(* order still reserves its goods, but its driver and vehicle no longer    *)
(* count as busy.                                                          *)
(***************************************************************************)

OrderStatus ==
  {"PENDING_ASSIGNMENT", "DRIVER_ASSIGNED", "EN_ROUTE_PICKUP", "PICKED_UP",
   "IN_TRANSIT", "ARRIVED_DESTINATION", "DELAYED", "DELIVERED", "CONFIRMED",
   "CANCELLED"}

OrderKind == {"PICKUP", "DELIVERY"}

UserRole == {"ADMIN", "CUSTOMER", "DRIVER"}

(* An order with one of these statuses reserves the goods it names.        *)
ReservingStatus ==
  {"PENDING_ASSIGNMENT", "DRIVER_ASSIGNED", "EN_ROUTE_PICKUP", "PICKED_UP",
   "IN_TRANSIT", "ARRIVED_DESTINATION", "DELAYED"}

(* An order with one of these statuses occupies its driver and vehicle.    *)
BusyStatus ==
  {"DRIVER_ASSIGNED", "EN_ROUTE_PICKUP", "PICKED_UP", "IN_TRANSIT",
   "ARRIVED_DESTINATION"}

ReopeningTransitions(s) ==   \* mutant: a cancelled order may be reassigned
  IF s \in {"PENDING_ASSIGNMENT", "CANCELLED"}
    THEN {"DRIVER_ASSIGNED", "CANCELLED"} ELSE {}
AllowedOrderTransitions(s) ==
  CASE s = "PENDING_ASSIGNMENT"  -> {"DRIVER_ASSIGNED", "CANCELLED"}
    [] s = "DRIVER_ASSIGNED"     -> {"EN_ROUTE_PICKUP", "PENDING_ASSIGNMENT",
                                     "CANCELLED"}
    [] s = "EN_ROUTE_PICKUP"     -> {"PICKED_UP", "DELAYED", "CANCELLED"}
    [] s = "PICKED_UP"           -> {"IN_TRANSIT", "DELAYED"}
    [] s = "IN_TRANSIT"          -> {"ARRIVED_DESTINATION", "DELAYED"}
    [] s = "ARRIVED_DESTINATION" -> {"DELIVERED", "DELAYED"}
    [] s = "DELIVERED"           -> {"CONFIRMED"}
    [] s = "DELAYED"             -> {"EN_ROUTE_PICKUP", "PICKED_UP",
                                     "IN_TRANSIT", "ARRIVED_DESTINATION",
                                     "DELIVERED", "CANCELLED"}
    [] OTHER                     -> {}

(* What a driver may set; only an outbound delivery may be set DELIVERED.  *)
DriverMaySetAny(kind) ==   \* mutant: the order type is not looked at
  {"EN_ROUTE_PICKUP", "PICKED_UP", "IN_TRANSIT", "ARRIVED_DESTINATION",
   "DELAYED", "DELIVERED"}
DriverMaySet(kind) ==
  {"EN_ROUTE_PICKUP", "PICKED_UP", "IN_TRANSIT", "ARRIVED_DESTINATION",
   "DELAYED"} \cup (IF kind = "PICKUP" THEN {} ELSE {"DELIVERED"})

CustomerMaySet(kind) ==
  IF kind = "PICKUP" THEN {} ELSE {"CONFIRMED", "CANCELLED"}

RoleMaySetOrder(role, to, kind) ==
  CASE role = "CUSTOMER" -> to \in CustomerMaySet(kind)
    [] role = "DRIVER"   -> to \in DriverMaySet(kind)
    [] OTHER             -> TRUE
=============================================================================
