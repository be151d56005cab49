------------------------------- MODULE MCChat -------------------------------
(* Chat for TLC.  Rooms are interchangeable.                                *)
EXTENDS Chat

Symmetry == Permutations(Rooms)
=============================================================================
