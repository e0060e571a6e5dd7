------------------------------ MODULE MCMonitor ------------------------------
(* Instances of Monitor for TLC. *)
EXTENDS Monitor

first == [runId |-> "s1", runName |-> "angry_bell", session |-> "s1", resume |-> FALSE]
resumed == [runId |-> "s1", runName |-> "big_wozniak", session |-> "s1", resume |-> TRUE]
other == [runId |-> "s2", runName |-> "calm_curie", session |-> "s2", resume |-> FALSE]

AllLaunches == {first, resumed, other}
WithDAG == {first, resumed}

(* The first launch's trace file has a cached task, the others have none.   *)
OneCached == [warning |-> FALSE, resolved |-> TRUE, readable |-> TRUE,
              rows |-> <<[task |-> 1, status |-> "CACHED", workdir |-> TRUE, matches |-> 0]>>]
SomeTraces == {NoTrace, OneCached}
TraceFiles ==
    [l \in Launches, start \in Times \cup {0}, complete \in Times |->
        IF l = first THEN OneCached ELSE NoTrace]

post(kind, launch, meta, failed) ==
    [kind |-> kind, launch |-> launch, meta |-> meta, time |-> 1, task |-> 1,
     status |-> "RUNNING", failed |-> failed]

(* What Nextflow posts: metadata with "started" and "completed" only.       *)
SomePosts ==
    {post("started", l, TRUE, FALSE) : l \in Launches}
    \cup {post("process", resumed, FALSE, FALSE)}
    \cup {post("completed", first, TRUE, TRUE), post("error", other, FALSE, FALSE),
          post("invalid", other, FALSE, FALSE)}

ASSUME DistinctSources /\ SessionPerBase
=============================================================================
