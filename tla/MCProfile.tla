------------------------------- MODULE MCProfile -------------------------------
(* Instance of Profile for TLC. *)
EXTENDS Profile, TLC
Symmetry ==
    UNION {Permutations(Procs), Permutations(Names), Permutations(Ids), Permutations(Passwords)}
=============================================================================
