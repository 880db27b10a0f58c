---------------------------- MODULE MCBalanceFeed ----------------------------
(* Two sessions, two balance values and one browser. *)
EXTENDS BalanceFeed, TLC

CONSTANTS s1, s2

MCSession == {s1, s2}
MCAmount == {0, 1}
=============================================================================
