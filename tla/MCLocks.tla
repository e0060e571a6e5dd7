------------------------------- MODULE MCLocks -------------------------------
(* Instances of Locks for TLC. *)
EXTENDS Locks

CONSTANTS r1, r2, a, b, c

three(j, k, l, r) ==
    [h \in {a, b, c} |-> IF h = a THEN [kind |-> j, run |-> r1]
                         ELSE IF h = b THEN [kind |-> k, run |-> r]
                         ELSE [kind |-> l, run |-> r1]]

(* Any two requests about one run, and about two where both name a run.     *)
Order == <<"webhook", "dag", "hide", "page", "panel", "unhide", "sse">>
AllPairs ==
    UNION {{three(Order[i], Order[j], "none", r1) : j \in i .. 7} : i \in 1 .. 7}
    \cup UNION {{three(Order[i], Order[j], "none", r2) : j \in i .. 5} : i \in 1 .. 5}

(* And three about one run, which change all there is to change.            *)
Triple == three("dag", "page", "hide", r1)

PairsAndTriple == AllPairs \cup {Triple}
=============================================================================
