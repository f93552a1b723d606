---------------------------- MODULE MCSessions ----------------------------
(* Values for the model checker.                                           *)
EXTENDS Sessions, TLC

CONSTANTS u1, u2, o1, s1, s2

Perms == Permutations(Slots)
====
