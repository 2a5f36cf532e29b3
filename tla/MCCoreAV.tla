----------------------------- MODULE MCCoreAV -----------------------------
(* Instance of CoreAV for TLC: friends are model values. *)
EXTENDS CoreAV
===========================================================================
