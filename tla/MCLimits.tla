------------------------------ MODULE MCLimits ------------------------------
(* A plan that holds one small file, two sizes and two overlapping requests; *)
(* two attempts per address and one per account in a window of two seconds.  *)
EXTENDS Limits
CONSTANTS k1, c1, c2
MCKeys == {k1}
MCSizes == {1, 2}
MCClients == {c1, c2}
MCLimit == [ip |-> 2, id |-> 1]
====
