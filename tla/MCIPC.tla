-------------------------------- MODULE MCIPC --------------------------------
(* Instance of IPC for TLC: processes and profiles are model values. *)
EXTENDS IPC, TLC
Symmetry == Permutations(Instances) \union Permutations(Profiles)
=============================================================================
