---------------------------- MODULE MCPageSockets ---------------------------
(* Three sockets at a time and two rooms.                                  *)
EXTENDS PageSockets

CONSTANTS s1, s2, s3, general, random

SocketsDef == {s1, s2, s3}
RoomsDef == {general, random}
=============================================================================
