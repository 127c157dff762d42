------------------------------ MODULE MCShipments ------------------------------
(***************************************************************************)
(* One order and its shipment; see the .cfg files for the bounds.          *)
(***************************************************************************)
EXTENDS Shipments
================================================================================
