---------------------------- MODULE MCInvoicing ----------------------------
(* Values for the model checker.  A subscription of January 1 with periods *)
(* of 30 days: its half periods start on January 1, 16 and 31, February    *)
(* 15, and March 2 and 17.                                                 *)
EXTENDS Invoicing

CONSTANTS c1, c2, w1, w2

Calendar == [t \in 0..MaxClock |-> <<1, 1, 1, 2, 3, 3>>[t + 1]]
=============================================================================
