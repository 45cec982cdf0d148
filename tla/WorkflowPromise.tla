--------------------------- MODULE WorkflowPromise ---------------------------
(***************************************************************************)
(* What the whole system promises about an order, whatever happens to      *)
(* messages and processes: payment is authorized, then the stock decides,  *)
(* once, between a delivery and a failure; the customer is told the        *)
(* outcome that came about and no other; and the status that the order     *)
(* service shows follows, at a distance.                                   *)
(***************************************************************************)
CONSTANT Orders

VARIABLES stage,   \* how far an order has come
          told,    \* outcomes its customer was told
          status   \* what the order service shows

vars == <<stage, told, status>>

\* What may come next.
After(s) ==
  CASE s = "none" -> {"Created"}
    [] s = "Created" -> {"PaymentAuthorized"}
    [] s = "PaymentAuthorized" ->
         {"InventoryReserved", "InventoryReservationFailed"}
    [] s = "InventoryReserved" -> {"DeliveryBooked"}
    [] OTHER -> {}

\* What has happened when an order has come to s.
Past(s) ==
  CASE s = "none" -> {}
    [] s = "Created" -> {"Created"}
    [] s = "PaymentAuthorized" -> {"Created", "PaymentAuthorized"}
    [] s = "InventoryReserved" ->
         {"Created", "PaymentAuthorized", "InventoryReserved"}
    [] s = "InventoryReservationFailed" ->
         {"Created", "PaymentAuthorized", "InventoryReservationFailed"}
    [] s = "DeliveryBooked" ->
         {"Created", "PaymentAuthorized", "InventoryReserved", "DeliveryBooked"}

Final == {"InventoryReservationFailed", "DeliveryBooked"}

Init == /\ stage = [o \in Orders |-> "none"]
        /\ told = [o \in Orders |-> {}]
        /\ status = [o \in Orders |-> "Created"]

Advance(o) == /\ \E s \in After(stage[o]) : stage' = [stage EXCEPT ![o] = s]
              /\ UNCHANGED <<told, status>>

\* The customer hears of the outcome.
Notify(o) == /\ stage[o] \in Final
             /\ told' = [told EXCEPT ![o] = {stage[o]}]
             /\ UNCHANGED <<stage, status>>

\* The status moves forward, to something that has happened.
Show(o) == /\ \E s \in Past(stage[o]) \ Past(status[o]) :
                status' = [status EXCEPT ![o] = s]
           /\ UNCHANGED <<stage, told>>

Next == \E o \in Orders : Advance(o) \/ Notify(o) \/ Show(o)

\* The safety half of the promise.
Safe == Init /\ [][Next]_vars

\* An order is over for everybody.
Concluded(o) ==
  stage[o] \in Final /\ told[o] = {stage[o]} /\ status[o] = stage[o]
=============================================================================
