--------------------------- MODULE MCMessageDelivery ---------------------------
(* Instance of MessageDelivery for TLC. *)
EXTENDS MessageDelivery
=============================================================================
