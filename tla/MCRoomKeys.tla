---------------------------- MODULE MCRoomKeys -----------------------------
(* RoomKeys for TLC.  The keys, and the users of whom no constant says       *)
(* anything in particular, are interchangeable.                              *)
EXTENDS RoomKeys, TLC

Symmetry ==
    Permutations(Blobs) \cup Permutations(Users \ (Admins \cup Moderators \cup Losers))
=============================================================================
