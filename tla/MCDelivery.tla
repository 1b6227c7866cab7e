----------------------------- MODULE MCDelivery -----------------------------
(* Instances of Delivery for TLC: one file of each kind, or a single one.  *)
EXTENDS DeliveryClaims
=============================================================================
