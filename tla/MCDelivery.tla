----------------------------- MODULE MCDelivery -----------------------------
(* Small instances of Delivery for TLC.                                     *)
EXTENDS Delivery

CONSTANTS m1, m2, m3
=============================================================================
