----------------------------- MODULE TraceChoice -----------------------------
(***************************************************************************)
(* Which trace file a completed run imports (internal/traceimport,         *)
(* ResolvePath): the command line is scanned for -with-trace; an explicit  *)
(* path is looked up, and for a bare flag the trace-*.txt files of the     *)
(* launch directory are compared and the best one is taken.                *)
(*                                                                         *)
(* The loops are modelled one iteration a step.  A path is a number, in    *)
(* the order of the names; a time is a number, NoTime when the text is     *)
(* absent or does not parse.                                               *)
(***************************************************************************)
EXTENDS Integers, Sequences

CONSTANTS
    Paths,        \* paths of trace files, in the order of their names
    Times,        \* modification, start and completion times
    Runs          \* completed runs that may occur

NoTime == -1
NoPath == 0

(* "flag" is -with-trace, "assign" is -with-trace=value, "dash" any other   *)
(* token with a leading dash, "word" one without.  A value may be empty.    *)
Token == [kind: {"flag", "assign", "dash", "word"}, value: Paths \cup {NoPath}]

traceCandidate == [path: Paths, modTime: Times]

(* What stands at an explicit path, and what is known of the run; the files *)
(* of a directory have different paths.                                     *)
Run ==
    {r \in [commandLine: Seq(Token), launchDir: BOOLEAN, listing: Seq(traceCandidate),
            listable: BOOLEAN, start: Times \cup {NoTime}, complete: Times \cup {NoTime},
            explicitFile: {"file", "directory", "missing"}] :
        \A i, j \in DOMAIN r.listing : r.listing[i].path = r.listing[j].path => i = j}

ASSUME TraceAssumption ==
    /\ Paths \subseteq Nat \ {NoPath}
    /\ Times \subseteq Nat
    /\ Runs \subseteq Run

VARIABLES
    ctx,          \* the run
    pc,           \* "scan", "choose" or "done"
    next,         \* index of the next token or candidate
    request,      \* the request found so far
    best,         \* index of the best candidate so far
    resolution    \* resolved path and whether there is a warning

traceVars == <<ctx, pc, next, request, best, resolution>>

NoRequest == [requested |-> NoPath, explicit |-> FALSE, bare |-> FALSE]
BareRequest == [requested |-> NoPath, explicit |-> FALSE, bare |-> TRUE]
ExplicitRequest(p) == [requested |-> p, explicit |-> TRUE, bare |-> FALSE]
Resolution(path, warning) == [path |-> path, warning |-> warning]

TraceInit ==
    /\ ctx \in Runs
    /\ pc = "scan"
    /\ next = 1
    /\ request = NoRequest
    /\ best = 1
    /\ resolution = Resolution(NoPath, FALSE)

-----------------------------------------------------------------------------
(* traceRequestFromCommandLine. *)

tokens == ctx.commandLine

(* Mutant: a bare flag after an explicit one keeps the path.                *)
ScanKeepingPath ==
    LET t == tokens[next]
        hasPath == next < Len(tokens) /\ tokens[next + 1].kind = "word"
    IN  CASE t.kind = "assign" -> request' = ExplicitRequest(t.value) /\ next' = next + 1
          [] t.kind = "flag" /\ hasPath ->
                request' = ExplicitRequest(tokens[next + 1].value) /\ next' = next + 2
          [] t.kind = "flag" /\ ~hasPath ->
                request' = [request EXCEPT !.bare = TRUE] /\ next' = next + 1
          [] OTHER -> UNCHANGED request /\ next' = next + 1

ScanToken ==
    LET t == tokens[next]
        hasPath == next < Len(tokens) /\ tokens[next + 1].kind = "word"
    IN  CASE t.kind = "assign" -> request' = ExplicitRequest(t.value) /\ next' = next + 1
          [] t.kind = "flag" /\ hasPath ->
                request' = ExplicitRequest(tokens[next + 1].value) /\ next' = next + 2
          [] t.kind = "flag" /\ ~hasPath -> request' = BareRequest /\ next' = next + 1
          [] OTHER -> UNCHANGED request /\ next' = next + 1

Scan ==
    /\ pc = "scan" /\ next <= Len(tokens)
    /\ ScanToken
    /\ UNCHANGED <<ctx, pc, best, resolution>>

(* resolveExplicitTracePath: the path must exist and be a file.             *)
ResolveExplicit ==
    /\ pc = "scan" /\ next > Len(tokens)
    /\ request.explicit
    /\ resolution' = IF request.requested # NoPath /\ ctx.explicitFile = "file"
                     THEN Resolution(request.requested, FALSE) ELSE Resolution(NoPath, TRUE)
    /\ pc' = "done"
    /\ UNCHANGED <<ctx, next, request, best>>

(* No request: nothing is resolved and nobody is warned.                    *)
ResolveNothing ==
    /\ pc = "scan" /\ next > Len(tokens)
    /\ ~request.explicit /\ ~request.bare
    /\ pc' = "done"
    /\ UNCHANGED <<ctx, next, request, best, resolution>>

(* Mutant: an empty listing is not noticed.                                 *)
DiscoverUnchecked ==
    /\ pc = "scan" /\ next > Len(tokens)
    /\ ~request.explicit /\ request.bare
    /\ pc' = "choose" /\ next' = 2
    /\ UNCHANGED <<ctx, request, best, resolution>>

(* discoverBareTracePath: without a launch directory that can be listed and *)
(* holds candidates there is only a warning.                                *)
Discover ==
    /\ pc = "scan" /\ next > Len(tokens)
    /\ ~request.explicit /\ request.bare
    /\ IF ctx.launchDir /\ ctx.listable /\ ctx.listing # <<>>
       THEN pc' = "choose" /\ next' = 2 /\ UNCHANGED resolution
       ELSE pc' = "done" /\ UNCHANGED next /\ resolution' = Resolution(NoPath, TRUE)
    /\ UNCHANGED <<ctx, request, best>>

-----------------------------------------------------------------------------
(* chooseBestTraceCandidate. *)

AfterStart(c) == ctx.start = NoTime \/ c.modTime >= ctx.start

absDuration(d) == IF d < 0 THEN -d ELSE d
Distance(c) == IF ctx.complete = NoTime THEN 0 ELSE absDuration(c.modTime - ctx.complete)

(* Mutants: files of one age are equal; a file from before the start is     *)
(* preferred when it is nearer.                                             *)
betterIgnoringPath(a, b) ==
    \/ AfterStart(a) /\ ~AfterStart(b)
    \/ /\ AfterStart(a) <=> AfterStart(b)
       /\ \/ Distance(a) < Distance(b)
          \/ Distance(a) = Distance(b) /\ a.modTime > b.modTime

betterByDistance(a, b) ==
    \/ Distance(a) < Distance(b)
    \/ /\ Distance(a) = Distance(b)
       /\ a.modTime > b.modTime \/ (a.modTime = b.modTime /\ a.path < b.path)

betterTraceCandidate(a, b) ==
    \/ AfterStart(a) /\ ~AfterStart(b)
    \/ /\ AfterStart(a) <=> AfterStart(b)
       /\ \/ Distance(a) < Distance(b)
          \/ /\ Distance(a) = Distance(b)
             /\ a.modTime > b.modTime \/ (a.modTime = b.modTime /\ a.path < b.path)

Compare ==
    /\ pc = "choose" /\ next <= Len(ctx.listing)
    /\ best' = IF betterTraceCandidate(ctx.listing[next], ctx.listing[best]) THEN next ELSE best
    /\ next' = next + 1
    /\ UNCHANGED <<ctx, pc, request, resolution>>

Choose ==
    /\ pc = "choose" /\ next > Len(ctx.listing)
    /\ resolution' = Resolution(ctx.listing[best].path, Len(ctx.listing) > 1)
    /\ pc' = "done"
    /\ UNCHANGED <<ctx, next, request, best>>

Resolved == pc = "done" /\ UNCHANGED traceVars

TraceNext ==
    \/ Scan
    \/ ResolveExplicit \/ ResolveNothing \/ Discover
    \/ Compare \/ Choose
    \/ Resolved

TraceSpec == TraceInit /\ [][TraceNext]_traceVars

-----------------------------------------------------------------------------
(* Properties. *)

TraceTypeOK ==
    /\ ctx \in Run
    /\ pc \in {"scan", "choose", "done"}
    /\ next \in Nat \ {0}
    /\ request \in [requested: Paths \cup {NoPath}, explicit: BOOLEAN, bare: BOOLEAN]
    /\ best \in Nat \ {0} /\ (pc = "choose" => best \in DOMAIN ctx.listing)
    /\ resolution \in [path: Paths \cup {NoPath}, warning: BOOLEAN]

(* The last -with-trace of the command line decides, in either form, and    *)
(* takes back what earlier ones said (traceRequestFromCommandLine).         *)
Requests == {i \in DOMAIN tokens : tokens[i].kind \in {"flag", "assign"}}

RequestAt(i) ==
    IF tokens[i].kind = "assign" THEN ExplicitRequest(tokens[i].value)
    ELSE IF i < Len(tokens) /\ tokens[i + 1].kind = "word" THEN ExplicitRequest(tokens[i + 1].value)
    ELSE BareRequest

LastRequestDecides ==
    pc # "scan" =>
        /\ Requests = {} => request = NoRequest
        /\ \A i \in Requests : (\A j \in Requests : j <= i) => request = RequestAt(i)

(* The chosen file does not depend on the order of the directory: it is the *)
(* one candidate better than every other, which a comparison with ties or a *)
(* cycle would not give (betterTraceCandidate).                             *)
Chosen == pc = "done" /\ request.bare /\ resolution.path # NoPath

ChoiceIsBest ==
    Chosen => \E i \in DOMAIN ctx.listing :
        /\ resolution.path = ctx.listing[i].path
        /\ \A j \in DOMAIN ctx.listing \ {i} :
             betterTraceCandidate(ctx.listing[i], ctx.listing[j])

(* A file last written before the run started, such as that of an earlier   *)
(* attempt, is imported only when there is no other; of the others none is  *)
(* nearer to the completion.                                                *)
ChoiceIsOfThisRun ==
    Chosen => \A i, j \in DOMAIN ctx.listing :
        resolution.path = ctx.listing[i].path /\ AfterStart(ctx.listing[j]) =>
            /\ AfterStart(ctx.listing[i])
            /\ Distance(ctx.listing[i]) <= Distance(ctx.listing[j])

=============================================================================
