---------------------------- MODULE MCNetSession ----------------------------
(* Instances of NetSession for TLC: networks, launches and accounts are    *)
(* model values.                                                           *)
EXTENDS NetSession

CONSTANTS n1, s1, s2, a1, a2
=============================================================================
