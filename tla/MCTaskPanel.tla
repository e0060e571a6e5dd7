----------------------------- MODULE MCTaskPanel -----------------------------
(* Instances of TaskPanel for TLC. *)
EXTENDS TaskPanel

(* Three tasks of one process and one of another; names out of id order.    *)
SmallProcessOf == <<"ALIGN", "ALIGN", "ALIGN", "SORT">>
SmallNameOf == <<2, 1, 1, 1>>
OneNode == <<"ALIGN">>
OneQuery == {TaskIds, {1, 4}}

(* One run with tasks in various statuses, and one that only has a cached   *)
(* task of ALIGN: no row of SORT, which the layout does not have.           *)
TwoRuns ==
    {[r1 |-> now, r2 |-> <<"CACHED", NoTask, NoTask, NoTask>>] :
        now \in {<<"COMPLETED", "COMPLETED", "COMPLETED", "RUNNING">>,
                 <<"CACHED", "SUBMITTED", "FAILED", "">>}}
=============================================================================
