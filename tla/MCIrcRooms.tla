----------------------------- MODULE MCIrcRooms -----------------------------
(* Small instances of IrcRooms for TLC: rooms, people and calls are model  *)
(* values.                                                                 *)
EXTENDS IrcRooms

CONSTANTS a, b, p1, q1, q2, l1, c1, n1
=============================================================================
