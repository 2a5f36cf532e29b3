----------------------------- MODULE MCCoreFile -----------------------------
(* Instance of CoreFile for TLC: files and numbers are model values. *)
EXTENDS CoreFile
=============================================================================
