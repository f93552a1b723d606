------------------------------- MODULE Limits -------------------------------
(***************************************************************************)
(* The two limits that must give way again by themselves: the bytes an     *)
(* unfinished upload reserves, and the lockout of a credential endpoint.   *)
(* They share no state; a behaviour looks at one while the other rests.    *)
(***************************************************************************)
EXTENDS FileStorage, RateLimit

VARIABLE limit        \* the limit this behaviour looks at

Init ==
    /\ limit \in {"storage", "attempts"}
    /\ FilesInit /\ LimitInit
    /\ limit # "attempts" => distributed

Next ==
    /\ UNCHANGED limit
    /\ \/ limit = "storage" /\ FilesNext /\ UNCHANGED limitVars
       \/ limit = "attempts" /\ LimitNext /\ UNCHANGED fileVars

\* The fairness of each part, under which only the part that is looked at steps.
Fairness == (limit = "storage" /\ FilesFairness) \/ (limit = "attempts" /\ LimitFairness)

Spec == Init /\ [][Next]_<<limit, fileVars, limitVars>> /\ Fairness

----------------------------------------------------------------------------
\* No limit holds for ever what it took: reservations of unfinished uploads end, and
\* so does every lockout.
LimitsGiveWay == PendingEnds /\ LockoutEnds
====
