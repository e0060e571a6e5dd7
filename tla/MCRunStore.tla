----------------------------- MODULE MCRunStore -----------------------------
(* Instances of RunStore for TLC. *)
EXTENDS RunStore

(* Two launches of one session: a first run and its -resume. *)
first == [runId |-> "s1", runName |-> "angry_bell", session |-> "s1", resume |-> FALSE]
resumed == [runId |-> "s1", runName |-> "big_wozniak", session |-> "s1", resume |-> TRUE]

ResumedSession == {first, resumed}

row(t, s, w, m) == [task |-> t, status |-> s, workdir |-> w, matches |-> m]
parsed(rows) == [warning |-> FALSE, resolved |-> TRUE, readable |-> TRUE, rows |-> rows]

(* A trace file that says task 1 was cached, or none.                       *)
OneTrace == {NoTrace, parsed(<<row(1, "CACHED", TRUE, 0)>>)}

(* What the routing properties assume of the launches. *)
ASSUME EnvironmentAssumption ==
    DistinctSources /\ SessionPerBase
=============================================================================
