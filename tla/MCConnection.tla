----------------------------- MODULE MCConnection -----------------------------
(***************************************************************************)
(* TLC instances of BrokerConnection: the Inventory Service with its own   *)
(* queue and with the two that inventory.reserved is bound to.             *)
(***************************************************************************)
EXTENDS BrokerConnection

MCTopology == <<"inventory", "delivery", "order-events">>
MCRoute == {"delivery", "order-events"}
===============================================================================
