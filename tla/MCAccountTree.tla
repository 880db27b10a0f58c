---------------------------- MODULE MCAccountTree ----------------------------
(* Three accounts and two concurrent requests, with a depth limit of three. *)
EXTENDS AccountTree, TLC

CONSTANTS a1, a2, a3, s1, s2

MCAccount == {a1, a2, a3}
MCSession == {s1, s2}
=============================================================================
