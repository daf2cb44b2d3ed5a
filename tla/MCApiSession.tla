---------------------------- MODULE MCApiSession ----------------------------
(***************************************************************************)
(* Instances of ApiSession for TLC: which tasks there are, whose session   *)
(* they call and what for.                                                 *)
(***************************************************************************)
EXTENDS ApiSession, TLC

CONSTANTS t1, t2, s1, s2, a1, a2

OneTask == [t \in {t1} |-> s1]
OneAccount == [s \in {s1} |-> a1]
OneUse == [t \in {t1} |-> {"request", "setup", "dialog"}]

TwoTasks == [t \in {t1, t2} |-> s1]
TwoRequests == [t \in {t1, t2} |-> {"request"}]

TaskSymmetry == Permutations({t1, t2})

TwoHubs == [t \in {t1, t2} |-> IF t = t1 THEN s1 ELSE s2]
TwoAccounts == [s \in {s1, s2} |-> IF s = s1 THEN a1 ELSE a2]
=============================================================================
