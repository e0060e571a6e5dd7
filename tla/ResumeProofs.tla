---------------------------- MODULE ResumeProofs ----------------------------
(***************************************************************************)
(* Proofs about TraceChoice and ResumeCommand.                             *)
(*                                                                         *)
(* First the choice of a trace file, for every command line, directory     *)
(* listing and set of times.  Then the texts of command lines, of any      *)
(* length and over any letters: how they are read, that quoting is undone  *)
(* by reading, what parseRuntimeFlags keeps, and so which words a resume   *)
(* command is read as.  That it asks for the trace that the run's own      *)
(* command line asked for, and that resuming again changes nothing more,   *)
(* are read off those words.                                               *)
(***************************************************************************)
EXTENDS ResumeCommand, SequenceLemmas

-----------------------------------------------------------------------------
(* The comparison. *)

(* What the types say of the run at hand.                                   *)
LEMMA RunFields ==
    ASSUME ctx \in Run
    PROVE  /\ tokens \in Seq(Token)
           /\ \A i \in DOMAIN tokens : tokens[i] \in Token
           /\ ctx.listing \in Seq(traceCandidate)
           /\ \A i \in DOMAIN ctx.listing : ctx.listing[i] \in traceCandidate
           /\ \A i, j \in DOMAIN ctx.listing :
                ctx.listing[i].path = ctx.listing[j].path => i = j
           /\ ctx.start \in Nat \cup {NoTime} /\ ctx.complete \in Nat \cup {NoTime}
<1>1. ctx \in Run
  OBVIOUS
<1>2. /\ tokens \in Seq(Token) /\ ctx.listing \in Seq(traceCandidate)
      /\ \A i, j \in DOMAIN ctx.listing : ctx.listing[i].path = ctx.listing[j].path => i = j
  BY <1>1 DEF Run, tokens
<1>3. \A i \in DOMAIN tokens : tokens[i] \in Token
  BY <1>2
<1>4. \A i \in DOMAIN ctx.listing : ctx.listing[i] \in traceCandidate
  BY <1>2
<1>5. ctx.start \in Nat \cup {NoTime} /\ ctx.complete \in Nat \cup {NoTime}
  BY <1>1, TraceAssumption DEF Run
<1>6. QED BY <1>2, <1>3, <1>4, <1>5, TraceAssumption

(* A candidate's time and path are numbers, and so is its distance.         *)
LEMMA CandidateFields ==
    ASSUME ctx.complete \in Nat \cup {NoTime}, NEW c \in traceCandidate
    PROVE  c.modTime \in Nat /\ c.path \in Nat /\ Distance(c) \in Nat
<1>1. c.modTime \in Nat /\ c.path \in Nat
  BY TraceAssumption DEF traceCandidate
<1>2. Distance(c) \in Nat
  BY <1>1 DEF Distance, absDuration, NoTime
<1>3. QED BY <1>1, <1>2

(* betterTraceCandidate is transitive.                                      *)
LEMMA BetterTransitive ==
    ASSUME ctx.complete \in Nat \cup {NoTime},
           NEW a \in traceCandidate, NEW b \in traceCandidate, NEW c \in traceCandidate,
           betterTraceCandidate(a, b), betterTraceCandidate(b, c)
    PROVE  betterTraceCandidate(a, c)
<1>1. /\ a.modTime \in Nat /\ a.path \in Nat /\ Distance(a) \in Nat
      /\ b.modTime \in Nat /\ b.path \in Nat /\ Distance(b) \in Nat
      /\ c.modTime \in Nat /\ c.path \in Nat /\ Distance(c) \in Nat
  BY CandidateFields
<1>2. QED BY <1>1 DEF betterTraceCandidate

(* Of two candidates with different paths one is better.                    *)
LEMMA BetterTotal ==
    ASSUME ctx.complete \in Nat \cup {NoTime},
           NEW a \in traceCandidate, NEW b \in traceCandidate, a.path # b.path
    PROVE  betterTraceCandidate(a, b) \/ betterTraceCandidate(b, a)
<1>1. /\ a.modTime \in Nat /\ a.path \in Nat /\ Distance(a) \in Nat
      /\ b.modTime \in Nat /\ b.path \in Nat /\ Distance(b) \in Nat
  BY CandidateFields
<1>2. QED BY <1>1 DEF betterTraceCandidate

-----------------------------------------------------------------------------
(* Types. *)

(* The requests a step of the scan may make are well typed.                 *)
LEMMA ScanType ==
    ASSUME TraceTypeOK, pc = "scan", next <= Len(tokens), ScanToken
    PROVE  /\ next' \in Nat \ {0}
           /\ request' \in [requested: Paths \cup {NoPath}, explicit: BOOLEAN, bare: BOOLEAN]
<1>1. /\ tokens \in Seq(Token) /\ next \in DOMAIN tokens
      /\ \A i \in DOMAIN tokens : tokens[i].kind \in {"flag", "assign", "dash", "word"}
                                  /\ tokens[i].value \in Paths \cup {NoPath}
  BY RunFields DEF TraceTypeOK, Token
<1>2. next < Len(tokens) => next + 1 \in DOMAIN tokens
  BY <1>1 DEF TraceTypeOK
<1>3. \A p \in Paths \cup {NoPath} :
        ExplicitRequest(p) \in [requested: Paths \cup {NoPath}, explicit: BOOLEAN, bare: BOOLEAN]
  BY DEF ExplicitRequest
<1>4. BareRequest \in [requested: Paths \cup {NoPath}, explicit: BOOLEAN, bare: BOOLEAN]
  BY DEF BareRequest
<1>5. QED BY <1>1, <1>2, <1>3, <1>4 DEF ScanToken, TraceTypeOK

(* Besides the types: the first candidate is compared with the others, a    *)
(* request has one form, and nothing is resolved early.                     *)
Basics ==
    /\ TraceTypeOK
    /\ pc = "scan" => best = 1
    /\ ~(request.explicit /\ request.bare)
    /\ pc # "done" => resolution.path = NoPath

(* The basics hold at first.                                                *)
LEMMA BasicsInit == TraceInit => Basics
<1>1. NoRequest \in [requested: Paths \cup {NoPath}, explicit: BOOLEAN, bare: BOOLEAN]
  BY DEF NoRequest
<1>2. QED BY <1>1, TraceAssumption DEF TraceInit, Basics, TraceTypeOK, Resolution, NoRequest

(* Every step keeps the basics.                                             *)
LEMMA BasicsStep == Basics /\ [TraceNext]_traceVars => Basics'
<1> SUFFICES ASSUME Basics, [TraceNext]_traceVars
             PROVE  Basics'
  OBVIOUS
<1> USE DEF Basics
<1>0. /\ ctx.listing \in Seq(traceCandidate)
      /\ \A i \in DOMAIN ctx.listing : ctx.listing[i].path \in Paths
  BY RunFields DEF TraceTypeOK, traceCandidate
<1>1. CASE Scan
  <2>1. ~(request.explicit /\ request.bare)'
    <3>1. \A v : ~ExplicitRequest(v).bare
      BY DEF ExplicitRequest
    <3>2. ~BareRequest.explicit
      BY DEF BareRequest
    <3>3. (\E v : request' = ExplicitRequest(v)) \/ request' = BareRequest \/ request' = request
      <4>1. \A i \in DOMAIN tokens : tokens[i].kind \in {"flag", "assign", "dash", "word"}
        BY RunFields DEF TraceTypeOK, Token
      <4>2. QED BY <1>1, <4>1 DEF Scan, ScanToken, TraceTypeOK
    <3>4. QED BY <3>1, <3>2, <3>3
  <2>2. QED BY <1>1, <2>1, ScanType DEF Scan, TraceTypeOK
<1>2. CASE ResolveExplicit
  BY <1>2 DEF ResolveExplicit, TraceTypeOK, Resolution
<1>3. CASE ResolveNothing
  BY <1>3 DEF ResolveNothing, TraceTypeOK
<1>4. CASE Discover
  <2>1. /\ pc = "scan" /\ best = 1 /\ resolution.path = NoPath
        /\ UNCHANGED <<ctx, request, best>>
    BY <1>4 DEF Discover
  <2>2. CASE pc' = "choose"
    <3>1. next' = 2 /\ UNCHANGED resolution /\ 1 \in DOMAIN ctx.listing
      BY <1>0, <1>4, <2>2 DEF Discover
    <3>2. QED BY <2>1, <2>2, <3>1 DEF TraceTypeOK
  <2>3. CASE pc' = "done"
    <3>1. UNCHANGED next /\ resolution' = Resolution(NoPath, TRUE)
      BY <1>4, <2>3 DEF Discover
    <3>2. QED BY <2>1, <2>3, <3>1 DEF TraceTypeOK, Resolution
  <2>4. QED BY <1>4, <2>2, <2>3 DEF Discover
<1>5. CASE Compare
  BY <1>0, <1>5 DEF Compare, TraceTypeOK
<1>6. CASE Choose
  BY <1>0, <1>6 DEF Choose, TraceTypeOK, Resolution
<1>7. CASE Resolved \/ UNCHANGED traceVars
  BY <1>7 DEF Resolved, TraceTypeOK, traceVars
<1>8. QED BY <1>1, <1>2, <1>3, <1>4, <1>5, <1>6, <1>7 DEF TraceNext

(* The basics always hold.                                                  *)
LEMMA BasicsHold == TraceSpec => []Basics
  BY BasicsInit, BasicsStep, PTL DEF TraceSpec

(* The variables of ResolvePath are well typed, and the best candidate is   *)
(* one of the listing (chooseBestTraceCandidate indexes it).                *)
THEOREM TraceTypeCorrect == TraceSpec => []TraceTypeOK
<1>1. Basics => TraceTypeOK
  BY DEF Basics
<1>2. QED BY <1>1, BasicsHold, PTL

-----------------------------------------------------------------------------
(* The request. *)

(* What the scan knows after the tokens before n.                           *)
Decided(n) ==
    /\ (\A i \in Requests : i >= n) => request = NoRequest
    /\ \A i \in Requests :
         i < n /\ (\A j \in Requests : j < n => j <= i) => request = RequestAt(i)

ScanInv ==
    /\ pc = "scan" => Decided(next)
    /\ LastRequestDecides

(* The scan knows nothing at first.                                         *)
LEMMA ScanInvInit == TraceInit /\ Basics => ScanInv
<1> SUFFICES ASSUME TraceInit, Basics
             PROVE  ScanInv
  OBVIOUS
<1>1. tokens \in Seq(Token)
  BY RunFields DEF Basics, TraceTypeOK
<1>2. \A i \in Requests : i \in Nat /\ i >= 1
  BY <1>1 DEF Requests
<1>3. QED BY <1>2 DEF TraceInit, ScanInv, Decided, LastRequestDecides

(* One token, or a flag and its value, more.                                *)
LEMMA DecidedStep ==
    ASSUME Basics, pc = "scan", next <= Len(tokens), ScanToken, ctx' = ctx, Decided(next)
    PROVE  Decided(next)'
<1>1. /\ tokens \in Seq(Token) /\ next \in DOMAIN tokens /\ next \in Nat
      /\ \A i \in DOMAIN tokens : tokens[i].kind \in {"flag", "assign", "dash", "word"}
  BY RunFields DEF Basics, TraceTypeOK, Token
<1>2. \A i \in Requests : i \in Nat /\ i \in DOMAIN tokens
  BY <1>1 DEF Requests
<1>3. Requests' = Requests /\ \A i \in Requests : RequestAt(i)' = RequestAt(i)
  BY DEF Requests, RequestAt, tokens, ExplicitRequest, BareRequest
<1>4. CASE next \in Requests
  <2>1. request' = RequestAt(next)
    BY <1>1, <1>4 DEF ScanToken, RequestAt, Requests
  <2>2. /\ next' \in Nat /\ next < next'
        /\ \A i \in Requests : i < next' => i <= next
    <3>1. CASE next' = next + 1
      BY <3>1, <1>1, <1>2
    <3>2. CASE next' = next + 2 /\ tokens[next + 1].kind = "word"
      <4>1. next + 1 \notin Requests
        BY <3>2 DEF Requests
      <4>2. QED BY <3>2, <4>1, <1>1, <1>2
    <3>3. QED BY <1>1, <3>1, <3>2 DEF ScanToken
  <2>3. \A i \in Requests : i < next' /\ (\A j \in Requests : j < next' => j <= i) => i = next
    BY <1>1, <1>2, <1>4, <2>2
  <2>4. ~(\A i \in Requests : i >= next')
    BY <1>1, <1>4, <2>2
  <2>5. QED BY <1>3, <2>1, <2>3, <2>4 DEF Decided
<1>5. CASE next \notin Requests
  <2>1. request' = request /\ next' = next + 1
    BY <1>1, <1>5 DEF ScanToken, Requests
  <2>2. \A i \in Requests : (i < next' <=> i < next) /\ (i >= next' <=> i >= next)
    BY <1>1, <1>2, <1>5, <2>1
  <2>3. QED BY <1>3, <2>1, <2>2 DEF Decided
<1>6. QED BY <1>4, <1>5

(* Where the scan ends, what it knows is what the last request says.        *)
LEMMA DecidedAtEnd ==
    ASSUME Basics, next > Len(tokens), Decided(next)
    PROVE  /\ Requests = {} => request = NoRequest
           /\ \A i \in Requests : (\A j \in Requests : j <= i) => request = RequestAt(i)
<1>1. tokens \in Seq(Token) /\ next \in Nat
  BY RunFields DEF Basics, TraceTypeOK
<1>2. \A i \in Requests : i \in Nat /\ i < next
  BY <1>1 DEF Requests
<1>3. QED BY <1>2 DEF Decided

(* A step that leaves the scan, or comes after it, keeps the request.       *)
LEMMA ScanInvStep == Basics /\ ScanInv /\ [TraceNext]_traceVars => ScanInv'
<1> SUFFICES ASSUME Basics, ScanInv, [TraceNext]_traceVars
             PROVE  ScanInv'
  OBVIOUS
<1>1. CASE Scan
  BY <1>1, DecidedStep DEF Scan, ScanInv, LastRequestDecides
<1>2. ASSUME ctx' = ctx, request' = request
      PROVE  /\ Requests' = Requests
             /\ \A i \in Requests : RequestAt(i)' = RequestAt(i)
  BY <1>2 DEF Requests, RequestAt, tokens, ExplicitRequest, BareRequest
<1>3. CASE ResolveExplicit \/ ResolveNothing \/ Discover
  <2>1. /\ ctx' = ctx /\ request' = request /\ pc' # "scan"
        /\ pc = "scan" /\ next > Len(tokens)
    BY <1>3 DEF ResolveExplicit, ResolveNothing, Discover
  <2>2. QED BY <1>2, <2>1, DecidedAtEnd DEF ScanInv, LastRequestDecides
<1>4. CASE Compare \/ Choose
  <2>1. ctx' = ctx /\ request' = request /\ pc' # "scan" /\ pc # "scan"
    BY <1>4 DEF Compare, Choose
  <2>2. QED BY <1>2, <2>1 DEF ScanInv, LastRequestDecides
<1>5. CASE Resolved \/ UNCHANGED traceVars
  <2>1. ctx' = ctx /\ request' = request /\ pc' = pc /\ next' = next
    BY <1>5 DEF Resolved, traceVars
  <2>2. QED BY <1>2, <2>1 DEF ScanInv, LastRequestDecides, Decided
<1>6. QED BY <1>1, <1>3, <1>4, <1>5 DEF TraceNext

(* Whatever the command line, its last -with-trace decides                  *)
(* (traceRequestFromCommandLine).                                           *)
THEOREM LastRequestCorrect == TraceSpec => []LastRequestDecides
<1>1. ScanInv => LastRequestDecides
  BY DEF ScanInv
<1>2. QED BY <1>1, BasicsHold, ScanInvInit, ScanInvStep, PTL DEF TraceSpec

-----------------------------------------------------------------------------
(* The choice. *)

(* The best candidate so far is better than all the others seen so far.     *)
ChoiceInv ==
    /\ pc = "choose" =>
         /\ request.bare
         /\ best < next
         /\ \A j \in DOMAIN ctx.listing :
              j < next /\ j # best => betterTraceCandidate(ctx.listing[best], ctx.listing[j])
    /\ ChoiceIsBest

(* Nothing is chosen at first.                                              *)
LEMMA ChoiceInvInit == TraceInit => ChoiceInv
  BY DEF TraceInit, ChoiceInv, ChoiceIsBest, Chosen

(* A comparison keeps the better of the best so far and the next candidate. *)
LEMMA CompareStep ==
    ASSUME Basics, ChoiceInv, Compare
    PROVE  /\ best' < next'
           /\ \A j \in DOMAIN ctx.listing :
                j < next' /\ j # best' => betterTraceCandidate(ctx.listing[best'], ctx.listing[j])
<1> DEFINE list == ctx.listing
<1>1. /\ list \in Seq(traceCandidate)
      /\ \A i \in DOMAIN list : list[i] \in traceCandidate
      /\ ctx.complete \in Nat \cup {NoTime}
  BY RunFields DEF Basics, TraceTypeOK
<1>2. /\ next \in Nat /\ next \in DOMAIN list /\ best \in DOMAIN list /\ best \in Nat
      /\ best < next /\ next' = next + 1
      /\ \A j \in DOMAIN list : j < next /\ j # best => betterTraceCandidate(list[best], list[j])
  BY <1>1 DEF Compare, ChoiceInv, Basics, TraceTypeOK
<1>3. \A i, j \in DOMAIN list : list[i].path = list[j].path => i = j
  BY RunFields DEF Basics, TraceTypeOK
<1>4. \A j \in DOMAIN list : j \in Nat /\ (j < next' => j < next \/ j = next)
  BY <1>1, <1>2
<1>5. CASE betterTraceCandidate(list[next], list[best])
  <2>1. best' = next
    BY <1>5 DEF Compare
  <2>2. ASSUME NEW j \in DOMAIN list, j < next
        PROVE  betterTraceCandidate(list[next], list[j])
    <3>1. CASE j = best
      BY <1>5, <3>1
    <3>2. CASE j # best
      BY <1>1, <1>2, <1>5, <2>2, <3>2, BetterTransitive
    <3>3. QED BY <3>1, <3>2
  <2>3. QED BY <1>2, <1>4, <2>1, <2>2
<1>6. CASE ~betterTraceCandidate(list[next], list[best])
  <2>1. best' = best
    BY <1>6 DEF Compare
  <2>2. list[next].path # list[best].path
    BY <1>2, <1>3
  <2>3. betterTraceCandidate(list[best], list[next])
    BY <1>1, <1>2, <1>6, <2>2, BetterTotal
  <2>4. QED BY <1>2, <1>4, <2>1, <2>3
<1>7. QED BY <1>5, <1>6

(* The chosen candidate has been compared with all the others.              *)
LEMMA ChooseStep ==
    ASSUME Basics, ChoiceInv, Choose
    PROVE  \E i \in DOMAIN ctx.listing :
              /\ resolution'.path = ctx.listing[i].path
              /\ \A j \in DOMAIN ctx.listing \ {i} :
                   betterTraceCandidate(ctx.listing[i], ctx.listing[j])
<1>1. ctx.listing \in Seq(traceCandidate) /\ best \in DOMAIN ctx.listing /\ next \in Nat
  BY RunFields DEF Basics, TraceTypeOK, Choose
<1>2. \A j \in DOMAIN ctx.listing : j < next
  BY <1>1 DEF Choose
<1>3. resolution'.path = ctx.listing[best].path
  BY DEF Choose, Resolution
<1>4. \A j \in DOMAIN ctx.listing \ {best} :
        betterTraceCandidate(ctx.listing[best], ctx.listing[j])
  BY <1>2 DEF ChoiceInv, Choose
<1>5. QED BY <1>1, <1>3, <1>4

(* Every step keeps the best so far the best so far.                        *)
LEMMA ChoiceInvStep == Basics /\ ChoiceInv /\ [TraceNext]_traceVars => ChoiceInv'
<1> SUFFICES ASSUME Basics, ChoiceInv, [TraceNext]_traceVars
             PROVE  ChoiceInv'
  OBVIOUS
<1>0. /\ ctx' = ctx
      /\ \A x, y : betterTraceCandidate(x, y)' = betterTraceCandidate(x, y)
  <2>1. ctx' = ctx
    BY DEF TraceNext, Scan, ResolveExplicit, ResolveNothing, Discover, Compare, Choose,
           Resolved, traceVars
  <2>2. QED BY <2>1 DEF betterTraceCandidate, AfterStart, Distance
<1>1. CASE Scan
  BY <1>1 DEF Scan, ChoiceInv, ChoiceIsBest, Chosen
<1>2. CASE ResolveExplicit \/ ResolveNothing
  <2>1. pc' = "done" /\ ~request'.bare
    BY <1>2 DEF ResolveExplicit, ResolveNothing, Basics
  <2>2. QED BY <2>1 DEF ChoiceInv, ChoiceIsBest, Chosen
<1>3. CASE Discover
  <2>1. CASE pc' = "choose"
    <3>1. /\ best' = 1 /\ next' = 2 /\ request'.bare
      BY <1>3, <2>1 DEF Discover, Basics
    <3>2. \A j \in DOMAIN ctx.listing : j < 2 => j = 1
      <4>1. ctx.listing \in Seq(traceCandidate)
        BY RunFields DEF Basics, TraceTypeOK
      <4>2. QED BY <4>1
    <3>3. QED BY <1>0, <2>1, <3>1, <3>2 DEF ChoiceInv, ChoiceIsBest, Chosen
  <2>2. CASE pc' = "done"
    BY <1>3, <2>2 DEF Discover, Resolution, ChoiceInv, ChoiceIsBest, Chosen
  <2>3. QED BY <1>3, <2>1, <2>2 DEF Discover
<1>4. CASE Compare
  <2>1. pc' = "choose" /\ request' = request /\ request.bare
    BY <1>4 DEF Compare, ChoiceInv
  <2>2. QED BY <1>0, <1>4, <2>1, CompareStep DEF ChoiceInv, ChoiceIsBest, Chosen
<1>5. CASE Choose
  <2>1. pc' = "done"
    BY <1>5 DEF Choose
  <2>2. QED BY <1>0, <1>5, <2>1, ChooseStep DEF ChoiceInv, ChoiceIsBest, Chosen
<1>6. CASE Resolved \/ UNCHANGED traceVars
  <2>1. UNCHANGED <<pc, next, request, best, resolution>>
    BY <1>6 DEF Resolved, traceVars
  <2>2. QED BY <1>0, <2>1 DEF ChoiceInv, ChoiceIsBest, Chosen
<1>7. QED BY <1>1, <1>2, <1>3, <1>4, <1>5, <1>6 DEF TraceNext

(* However many files there are and in whatever order they are listed, the  *)
(* chosen one is better than every other (chooseBestTraceCandidate).        *)
THEOREM ChoiceCorrect == TraceSpec => []ChoiceIsBest
<1>1. ChoiceInv => ChoiceIsBest
  BY DEF ChoiceInv
<1>2. QED BY <1>1, BasicsHold, ChoiceInvInit, ChoiceInvStep, PTL DEF TraceSpec

(* The better of two candidates is of this run if the other is, and then it *)
(* is no further from the completion.                                       *)
LEMMA BestIsOfThisRun ==
    ASSUME Basics, ChoiceIsBest
    PROVE  ChoiceIsOfThisRun
<1> SUFFICES ASSUME Chosen, NEW i \in DOMAIN ctx.listing, NEW j \in DOMAIN ctx.listing,
                    resolution.path = ctx.listing[i].path, AfterStart(ctx.listing[j])
             PROVE  /\ AfterStart(ctx.listing[i])
                    /\ Distance(ctx.listing[i]) <= Distance(ctx.listing[j])
  BY DEF ChoiceIsOfThisRun
<1>1. /\ \A k \in DOMAIN ctx.listing : ctx.listing[k].path = ctx.listing[i].path => k = i
      /\ ctx.listing[i] \in traceCandidate /\ ctx.listing[j] \in traceCandidate
      /\ ctx.complete \in Nat \cup {NoTime}
  BY RunFields DEF Basics, TraceTypeOK
<1>2. Distance(ctx.listing[i]) \in Nat /\ Distance(ctx.listing[j]) \in Nat
  BY <1>1, CandidateFields
<1>3. j # i => betterTraceCandidate(ctx.listing[i], ctx.listing[j])
  BY <1>1 DEF ChoiceIsBest
<1>4. QED BY <1>2, <1>3 DEF betterTraceCandidate

(* A file written before the run started is never preferred to one written  *)
(* since, for any times (betterTraceCandidate).                             *)
THEOREM ChoiceOfThisRun == TraceSpec => []ChoiceIsOfThisRun
  BY BasicsHold, ChoiceCorrect, BestIsOfThisRun, PTL

-----------------------------------------------------------------------------
(* Folds, one member after the other. *)

(* The last of some places.                                                 *)
LEMMA LastPlace ==
    ASSUME NEW n \in Nat, NEW S \in SUBSET (1 .. n + 1)
    PROVE  /\ n + 1 \in S => Max(S) = n + 1 /\ S \ {n + 1} \in SUBSET (1 .. n)
           /\ n + 1 \notin S => S \in SUBSET (1 .. n)
<1>1. CASE n + 1 \in S
  <2>1. \A x \in S : (\A y \in S : x >= y) <=> x = n + 1
    BY <1>1
  <2>2. Max(S) = n + 1
    BY <1>1, <2>1 DEF Max
  <2>3. QED BY <1>1, <2>2
<1>2. CASE n + 1 \notin S
  BY <1>2
<1>3. QED BY <1>1, <1>2

(* What tokenizeCommandLine folds with: g has what is read at the places in *)
(* S, of the first n.                                                       *)
ReadAt(g, s, text, S) ==
    IF S = {} THEN s ELSE LET x == Max(S) IN ReadSymbol(g[S \ {x}], text[x])

Reads(g, s, text, P) == g = [S \in SUBSET P |-> ReadAt(g, s, text, S)]

Read(s, text) == FoldLeft(ReadSymbol, s, text)

(* The fold is taken by such a function.                                    *)
LEMMA ReadByFunction ==
    ASSUME NEW s, NEW text
    PROVE  Read(s, text) = (CHOOSE g : Reads(g, s, text, DOMAIN text))[DOMAIN text]
  BY DEF Read, FoldLeft, MapThenFoldSet, Reads, ReadAt

(* There is one.                                                            *)
LEMMA ReadsExists ==
    ASSUME NEW s, NEW text, NEW n \in Nat
    PROVE  \E g : Reads(g, s, text, 1 .. n)
<1> DEFINE N == {k \in Nat : \E g : Reads(g, s, text, 1 .. k)}
<1>1. 0 \in N
  <2> DEFINE g == [S \in SUBSET (1 .. 0) |-> s]
  <2>1. g = [S \in SUBSET (1 .. 0) |-> ReadAt(g, s, text, S)]
    <3>1. \A S \in SUBSET (1 .. 0) : ReadAt(g, s, text, S) = s
      BY DEF ReadAt
    <3>2. QED BY <3>1
  <2>2. QED BY <2>1 DEF Reads
<1>2. ASSUME NEW k \in Nat, k \in N PROVE k + 1 \in N
  <2>1. PICK f : Reads(f, s, text, 1 .. k)
    BY <1>2
  <2>2. \A S \in SUBSET (1 .. k) : f[S] = ReadAt(f, s, text, S)
    BY <2>1 DEF Reads
  <2> DEFINE g == [S \in SUBSET (1 .. k + 1) |->
                     IF k + 1 \in S THEN ReadSymbol(f[S \ {k + 1}], text[k + 1]) ELSE f[S]]
  <2>3. ASSUME NEW S \in SUBSET (1 .. k + 1)
        PROVE  g[S] = ReadAt(g, s, text, S)
    <3>1. CASE k + 1 \in S
      <4>1. Max(S) = k + 1 /\ S \ {k + 1} \in SUBSET (1 .. k) /\ S # {}
        BY <3>1, LastPlace
      <4>2. g[S \ {k + 1}] = f[S \ {k + 1}]
        BY <4>1
      <4>3. g[S] = ReadSymbol(f[S \ {k + 1}], text[k + 1])
        BY <3>1
      <4> HIDE DEF g
      <4>4. QED BY <4>1, <4>2, <4>3 DEF ReadAt
    <3>2. CASE k + 1 \notin S
      <4>1. S \in SUBSET (1 .. k)
        BY <3>2, LastPlace
      <4>2. S \ {Max(S)} \in SUBSET (1 .. k)
        BY <4>1
      <4>3. \A T \in SUBSET (1 .. k) : g[T] = f[T]
        BY DEF g
      <4> HIDE DEF g
      <4>4. QED BY <2>2, <4>1, <4>2, <4>3 DEF ReadAt
    <3>3. QED BY <3>1, <3>2
  <2>4. g = [S \in SUBSET (1 .. k + 1) |-> g[S]]
    OBVIOUS
  <2> HIDE DEF g
  <2>5. [S \in SUBSET (1 .. k + 1) |-> g[S]]
          = [S \in SUBSET (1 .. k + 1) |-> ReadAt(g, s, text, S)]
    BY <2>3
  <2>6. Reads(g, s, text, 1 .. k + 1)
    BY <2>4, <2>5, Zenon DEF Reads
  <2>7. QED BY <2>6
<1>3. N = Nat
  <2>1. N \in SUBSET Nat
    OBVIOUS
  <2> HIDE DEF N
  <2>2. QED BY <1>1, <1>2, <2>1, SetInduction
<1>4. QED BY <1>3

(* So there are the states that are gone through, one per symbol.           *)
ReadsThrough(st, s, text, n) ==
    /\ st[0] = s
    /\ \A k \in 1 .. n : st[k] = ReadSymbol(st[k - 1], text[k])
    /\ Read(s, text) = st[n]

(* A fold goes through a state for every symbol.                            *)
LEMMA ReadRun ==
    ASSUME NEW s, NEW text, NEW n \in Nat, DOMAIN text = 1 .. n
    PROVE  \E st : ReadsThrough(st, s, text, n)
<1>1. PICK g : g = CHOOSE h : Reads(h, s, text, 1 .. n)
  OBVIOUS
<1>2. Reads(g, s, text, 1 .. n)
  BY <1>1, ReadsExists
<1>3. \A S \in SUBSET (1 .. n) : g[S] = ReadAt(g, s, text, S)
  BY <1>2 DEF Reads
<1>4. Read(s, text) = g[1 .. n]
  BY <1>1, ReadByFunction
<1> DEFINE st == [k \in 0 .. n |-> g[1 .. k]]
<1>5. st[0] = s
  <2>1. 1 .. 0 = {} /\ st[0] = g[1 .. 0] /\ 1 .. 0 \in SUBSET (1 .. n)
    OBVIOUS
  <2>2. QED BY <1>3, <2>1 DEF ReadAt
<1>6. ASSUME NEW k \in 1 .. n
      PROVE  st[k] = ReadSymbol(st[k - 1], text[k])
  <2>1. /\ k - 1 \in Nat /\ (k - 1) + 1 = k
        /\ 1 .. k \in SUBSET (1 .. (k - 1) + 1) /\ k \in 1 .. k /\ 1 .. k \in SUBSET (1 .. n)
        /\ (1 .. k) \ {k} = 1 .. k - 1
    OBVIOUS
  <2>2. Max(1 .. k) = k
    BY <2>1, LastPlace
  <2>3. st[k] = g[1 .. k] /\ st[k - 1] = g[1 .. k - 1]
    BY <2>1
  <2> HIDE DEF st
  <2>4. QED BY <1>3, <2>1, <2>2, <2>3 DEF ReadAt
<1>7. st[n] = g[1 .. n]
  OBVIOUS
<1> HIDE DEF st
<1>8. QED BY <1>4, <1>5, <1>6, <1>7 DEF ReadsThrough

(* Nothing, and a symbol more.                                              *)
LEMMA ReadNothing == ASSUME NEW s PROVE Read(s, <<>>) = s
<1>1. DOMAIN <<>> = 1 .. 0
  OBVIOUS
<1>2. QED BY <1>1, ReadRun DEF ReadsThrough

(* A symbol more is read after the others.                                  *)
LEMMA ReadAppend ==
    ASSUME NEW s, NEW T, NEW text \in Seq(T), NEW c \in T
    PROVE  Read(s, Append(text, c)) = ReadSymbol(Read(s, text), c)
<1> DEFINE n == Len(text)
           more == Append(text, c)
<1>1. /\ n \in Nat /\ DOMAIN text = 1 .. n /\ DOMAIN more = 1 .. n + 1
      /\ more[n + 1] = c /\ \A k \in 1 .. n : more[k] = text[k]
  OBVIOUS
<1> HIDE DEF n, more
<1>2. PICK st : ReadsThrough(st, s, text, n)
  BY <1>1, ReadRun
<1>3. PICK su : ReadsThrough(su, s, more, n + 1)
  <2>1. n + 1 \in Nat
    BY <1>1
  <2>2. QED BY <1>1, <2>1, ReadRun
<1> DEFINE N == {k \in Nat : k <= n => su[k] = st[k]}
<1>4. N = Nat
  <2>1. 0 \in N
    BY <1>2, <1>3 DEF ReadsThrough
  <2>2. ASSUME NEW k \in Nat, k \in N PROVE k + 1 \in N
    <3> SUFFICES ASSUME k + 1 <= n PROVE su[k + 1] = st[k + 1]
      OBVIOUS
    <3>1. k + 1 \in 1 .. n /\ k + 1 \in 1 .. n + 1 /\ (k + 1) - 1 = k /\ k <= n
      BY <1>1
    <3>2. su[k] = st[k] /\ more[k + 1] = text[k + 1]
      BY <2>2, <3>1, <1>1
    <3>3. QED BY <1>2, <1>3, <3>1, <3>2 DEF ReadsThrough
  <2>3. N \in SUBSET Nat
    OBVIOUS
  <2> HIDE DEF N
  <2>4. QED BY <2>1, <2>2, <2>3, SetInduction
<1>5. su[n] = st[n]
  BY <1>1, <1>4
<1>6. su[n + 1] = ReadSymbol(su[n], more[n + 1])
  <2>1. n + 1 \in 1 .. n + 1 /\ (n + 1) - 1 = n
    BY <1>1
  <2>2. QED BY <1>3, <2>1 DEF ReadsThrough
<1>7. QED BY <1>1, <1>2, <1>3, <1>5, <1>6 DEF more, ReadsThrough

(* parseRuntimeFlags folds in the same way.                                 *)
KeepAt(g, s, words, S) ==
    IF S = {} THEN s ELSE LET x == Max(S) IN KeepToken(g[S \ {x}], words[x])

KeepsAll(g, s, words, P) == g = [S \in SUBSET P |-> KeepAt(g, s, words, S)]

Keep(s, words) == FoldLeft(KeepToken, s, words)

(* The fold is taken by such a function.                                    *)
LEMMA KeepByFunction ==
    ASSUME NEW s, NEW words
    PROVE  Keep(s, words) = (CHOOSE g : KeepsAll(g, s, words, DOMAIN words))[DOMAIN words]
  BY DEF Keep, FoldLeft, MapThenFoldSet, KeepsAll, KeepAt

(* There is one.                                                            *)
LEMMA KeepsExists ==
    ASSUME NEW s, NEW words, NEW n \in Nat
    PROVE  \E g : KeepsAll(g, s, words, 1 .. n)
<1> DEFINE N == {k \in Nat : \E g : KeepsAll(g, s, words, 1 .. k)}
<1>1. 0 \in N
  <2> DEFINE g == [S \in SUBSET (1 .. 0) |-> s]
  <2>1. g = [S \in SUBSET (1 .. 0) |-> KeepAt(g, s, words, S)]
    <3>1. \A S \in SUBSET (1 .. 0) : KeepAt(g, s, words, S) = s
      BY DEF KeepAt
    <3>2. QED BY <3>1
  <2>2. QED BY <2>1 DEF KeepsAll
<1>2. ASSUME NEW k \in Nat, k \in N PROVE k + 1 \in N
  <2>1. PICK f : KeepsAll(f, s, words, 1 .. k)
    BY <1>2
  <2>2. \A S \in SUBSET (1 .. k) : f[S] = KeepAt(f, s, words, S)
    BY <2>1 DEF KeepsAll
  <2> DEFINE g == [S \in SUBSET (1 .. k + 1) |->
                     IF k + 1 \in S THEN KeepToken(f[S \ {k + 1}], words[k + 1]) ELSE f[S]]
  <2>3. ASSUME NEW S \in SUBSET (1 .. k + 1)
        PROVE  g[S] = KeepAt(g, s, words, S)
    <3>1. CASE k + 1 \in S
      <4>1. Max(S) = k + 1 /\ S \ {k + 1} \in SUBSET (1 .. k) /\ S # {}
        BY <3>1, LastPlace
      <4>2. g[S \ {k + 1}] = f[S \ {k + 1}]
        BY <4>1
      <4>3. g[S] = KeepToken(f[S \ {k + 1}], words[k + 1])
        BY <3>1
      <4> HIDE DEF g
      <4>4. QED BY <4>1, <4>2, <4>3 DEF KeepAt
    <3>2. CASE k + 1 \notin S
      <4>1. S \in SUBSET (1 .. k)
        BY <3>2, LastPlace
      <4>2. S \ {Max(S)} \in SUBSET (1 .. k)
        BY <4>1
      <4>3. \A T \in SUBSET (1 .. k) : g[T] = f[T]
        BY DEF g
      <4> HIDE DEF g
      <4>4. QED BY <2>2, <4>1, <4>2, <4>3 DEF KeepAt
    <3>3. QED BY <3>1, <3>2
  <2>4. g = [S \in SUBSET (1 .. k + 1) |-> g[S]]
    OBVIOUS
  <2> HIDE DEF g
  <2>5. [S \in SUBSET (1 .. k + 1) |-> g[S]]
          = [S \in SUBSET (1 .. k + 1) |-> KeepAt(g, s, words, S)]
    BY <2>3
  <2>6. KeepsAll(g, s, words, 1 .. k + 1)
    BY <2>4, <2>5, Zenon DEF KeepsAll
  <2>7. QED BY <2>6
<1>3. N = Nat
  <2>1. N \in SUBSET Nat
    OBVIOUS
  <2> HIDE DEF N
  <2>2. QED BY <1>1, <1>2, <2>1, SetInduction
<1>4. QED BY <1>3

(* So there are the states that are gone through, one per word.             *)
KeepsThrough(st, s, words, n) ==
    /\ st[0] = s
    /\ \A k \in 1 .. n : st[k] = KeepToken(st[k - 1], words[k])
    /\ Keep(s, words) = st[n]

(* A fold goes through a state for every word.                              *)
LEMMA KeepRun ==
    ASSUME NEW s, NEW words, NEW n \in Nat, DOMAIN words = 1 .. n
    PROVE  \E st : KeepsThrough(st, s, words, n)
<1>1. PICK g : g = CHOOSE h : KeepsAll(h, s, words, 1 .. n)
  OBVIOUS
<1>2. KeepsAll(g, s, words, 1 .. n)
  BY <1>1, KeepsExists
<1>3. \A S \in SUBSET (1 .. n) : g[S] = KeepAt(g, s, words, S)
  BY <1>2 DEF KeepsAll
<1>4. Keep(s, words) = g[1 .. n]
  BY <1>1, KeepByFunction
<1> DEFINE st == [k \in 0 .. n |-> g[1 .. k]]
<1>5. st[0] = s
  <2>1. 1 .. 0 = {} /\ st[0] = g[1 .. 0] /\ 1 .. 0 \in SUBSET (1 .. n)
    OBVIOUS
  <2>2. QED BY <1>3, <2>1 DEF KeepAt
<1>6. ASSUME NEW k \in 1 .. n
      PROVE  st[k] = KeepToken(st[k - 1], words[k])
  <2>1. /\ k - 1 \in Nat /\ (k - 1) + 1 = k
        /\ 1 .. k \in SUBSET (1 .. (k - 1) + 1) /\ k \in 1 .. k /\ 1 .. k \in SUBSET (1 .. n)
        /\ (1 .. k) \ {k} = 1 .. k - 1
    OBVIOUS
  <2>2. Max(1 .. k) = k
    BY <2>1, LastPlace
  <2>3. st[k] = g[1 .. k] /\ st[k - 1] = g[1 .. k - 1]
    BY <2>1
  <2> HIDE DEF st
  <2>4. QED BY <1>3, <2>1, <2>2, <2>3 DEF KeepAt
<1>7. st[n] = g[1 .. n]
  OBVIOUS
<1> HIDE DEF st
<1>8. QED BY <1>4, <1>5, <1>6, <1>7 DEF KeepsThrough

(* Nothing, and a word more.                                                *)
LEMMA KeepNothing == ASSUME NEW s PROVE Keep(s, <<>>) = s
<1>1. DOMAIN <<>> = 1 .. 0
  OBVIOUS
<1>2. QED BY <1>1, KeepRun DEF KeepsThrough

(* A word more is kept, or not, after the others.                           *)
LEMMA KeepAppend ==
    ASSUME NEW s, NEW T, NEW words \in Seq(T), NEW c \in T
    PROVE  Keep(s, Append(words, c)) = KeepToken(Keep(s, words), c)
<1> DEFINE n == Len(words)
           more == Append(words, c)
<1>1. /\ n \in Nat /\ DOMAIN words = 1 .. n /\ DOMAIN more = 1 .. n + 1
      /\ more[n + 1] = c /\ \A k \in 1 .. n : more[k] = words[k]
  OBVIOUS
<1> HIDE DEF n, more
<1>2. PICK st : KeepsThrough(st, s, words, n)
  BY <1>1, KeepRun
<1>3. PICK su : KeepsThrough(su, s, more, n + 1)
  <2>1. n + 1 \in Nat
    BY <1>1
  <2>2. QED BY <1>1, <2>1, KeepRun
<1> DEFINE N == {k \in Nat : k <= n => su[k] = st[k]}
<1>4. N = Nat
  <2>1. 0 \in N
    BY <1>2, <1>3 DEF KeepsThrough
  <2>2. ASSUME NEW k \in Nat, k \in N PROVE k + 1 \in N
    <3> SUFFICES ASSUME k + 1 <= n PROVE su[k + 1] = st[k + 1]
      OBVIOUS
    <3>1. k + 1 \in 1 .. n /\ k + 1 \in 1 .. n + 1 /\ (k + 1) - 1 = k /\ k <= n
      BY <1>1
    <3>2. su[k] = st[k] /\ more[k + 1] = words[k + 1]
      BY <2>2, <3>1, <1>1
    <3>3. QED BY <1>2, <1>3, <3>1, <3>2 DEF KeepsThrough
  <2>3. N \in SUBSET Nat
    OBVIOUS
  <2> HIDE DEF N
  <2>4. QED BY <2>1, <2>2, <2>3, SetInduction
<1>5. su[n] = st[n]
  BY <1>1, <1>4
<1>6. su[n + 1] = KeepToken(su[n], more[n + 1])
  <2>1. n + 1 \in 1 .. n + 1 /\ (n + 1) - 1 = n
    BY <1>1
  <2>2. QED BY <1>3, <2>1 DEF KeepsThrough
<1>7. QED BY <1>1, <1>2, <1>3, <1>5, <1>6 DEF more, KeepsThrough


-----------------------------------------------------------------------------
(* Reading. *)

Texts == Seq(Symbols)

Readings == [place: {"plain", "single", "double", "escape", "doubleEscape"},
             words: Seq(Texts), word: Texts, inWord: BOOLEAN]

(* Symbols that are written where they are expected.                        *)
LEMMA SymbolsKnown ==
    /\ {" ", "'", "\\", "nextflow", "run", "p", "s", "-work-dir", "-resume"} \subseteq Symbols
    /\ Special \subseteq Symbols /\ ParamNames \subseteq Symbols
  BY DEF Symbols, Special, Separators, Quotes, Options, ParamNames

(* Texts, put together.                                                     *)
LEMMA TextFacts ==
    /\ <<>> \in Texts
    /\ \A c \in Symbols : <<c>> \in Texts
    /\ \A t, u \in Texts : t \o u \in Texts
    /\ \A t, u, v \in Texts : (t \o u) \o v = t \o (u \o v)
    /\ \A t \in Texts : t \o <<>> = t /\ <<>> \o t = t
    /\ \A t \in Texts, c \in Symbols :
         Append(t, c) \in Texts /\ Append(t, c) = t \o <<c>> /\ Append(t, c) # <<>>
<1>1. \A c \in Symbols : <<c>> \in Texts
  BY DEF Texts
<1>2. \A t, u \in Texts : t \o u \in Texts
  BY ConcatProperties DEF Texts
<1>3. \A t, u, v \in Texts : (t \o u) \o v = t \o (u \o v)
  BY ONLY ConcatAssociative, SMTT(30) DEF Texts
<1>4. \A t \in Texts : t \o <<>> = t /\ <<>> \o t = t
  BY ConcatEmptySeq DEF Texts
<1>5. \A t \in Texts, c \in Symbols :
        Append(t, c) \in Texts /\ Append(t, c) = t \o <<c>> /\ Append(t, c) # <<>>
  BY AppendProperties, AppendIsConcat DEF Texts
<1>6. <<>> \in Texts
  BY EmptySeq DEF Texts
<1>7. QED BY <1>1, <1>2, <1>3, <1>4, <1>5, <1>6

(* Text in parts.                                                           *)
LEMMA ReadConcat ==
    ASSUME NEW s, NEW t \in Texts, NEW u \in Texts
    PROVE  Read(s, t \o u) = Read(Read(s, t), u)
<1> DEFINE S == {v \in Texts : Read(s, t \o v) = Read(Read(s, t), v)}
<1>1. <<>> \in S
  <2>1. t \o <<>> = t /\ <<>> \in Texts
    BY ConcatEmptySeq DEF Texts
  <2>2. QED BY <2>1, ReadNothing
<1>2. ASSUME NEW v \in Seq(Symbols), NEW c \in Symbols, v \in S PROVE Append(v, c) \in S
  <2>1. t \o Append(v, c) = Append(t \o v, c) /\ t \o v \in Texts /\ Append(v, c) \in Texts
    BY DEF Texts
  <2>2. Read(s, Append(t \o v, c)) = ReadSymbol(Read(s, t \o v), c)
    BY <2>1, ReadAppend, ZenonT(60) DEF Texts
  <2>3. Read(Read(s, t), Append(v, c)) = ReadSymbol(Read(Read(s, t), v), c)
    BY ReadAppend
  <2>4. QED BY <1>2, <2>1, <2>2, <2>3
<1>3. Seq(Symbols) \subseteq S
  <2> HIDE DEF S
  <2>1. QED BY <1>1, <1>2, AppendInduction
<1>4. QED BY <1>3 DEF Texts

(* A text of one symbol.                                                    *)
LEMMA ReadOne ==
    ASSUME NEW s, NEW c \in Symbols
    PROVE  Read(s, <<c>>) = ReadSymbol(s, c)
<1>1. PICK e \in Seq(Symbols) : e = <<>>
  BY EmptySeq
<1>2. Read(s, Append(e, c)) = ReadSymbol(Read(s, e), c)
  BY ReadAppend
<1>3. Append(e, c) = <<c>> /\ Read(s, e) = s
  BY <1>1, ReadNothing
<1>4. QED BY <1>2, <1>3

(* Whatever is read, the words are texts.                                   *)
LEMMA ReadType ==
    ASSUME NEW s \in Readings, NEW c \in Symbols
    PROVE  ReadSymbol(s, c) \in Readings
<1>1. /\ s.word \in Texts /\ s.words \in Seq(Texts) /\ s.inWord \in BOOLEAN
      /\ s.place \in {"plain", "single", "double", "escape", "doubleEscape"}
      /\ "\\" \in Symbols
  BY SymbolsKnown DEF Readings
<1>2. \A t \in Texts, q \in {"plain", "single", "double", "escape", "doubleEscape"} :
        Write(s, t, q) \in Readings /\ Enter(s, q) \in Readings
  BY <1>1, ConcatProperties DEF Write, Enter, Readings, Texts
<1>3. EndWord(s) \in Readings
  <2>1. Append(s.words, s.word) \in Seq(Texts) /\ <<>> \in Texts
    BY <1>1 DEF Texts
  <2>2. QED BY <2>1 DEF EndWord, Start, Readings
<1>4. <<c>> \in Texts /\ <<"\\", c>> \in Texts
  BY <1>1 DEF Texts
<1>5. QED BY <1>1, <1>2, <1>3, <1>4
          DEF ReadSymbol, ReadPlain, ReadSingle, ReadDouble, ReadDoubleEscape

(* The same for a text.                                                     *)
LEMMA ReadTypes ==
    ASSUME NEW s \in Readings, NEW text \in Texts
    PROVE  Read(s, text) \in Readings
<1> DEFINE S == {t \in Texts : Read(s, t) \in Readings}
<1>1. <<>> \in S
  BY ReadNothing DEF Texts
<1>2. ASSUME NEW t \in Seq(Symbols), NEW c \in Symbols, t \in S PROVE Append(t, c) \in S
  <2>1. Read(s, Append(t, c)) = ReadSymbol(Read(s, t), c) /\ Append(t, c) \in Texts
    BY ReadAppend DEF Texts
  <2>2. QED BY <1>2, <2>1, ReadType
<1>3. Seq(Symbols) \subseteq S
  <2> HIDE DEF S
  <2>1. QED BY <1>1, <1>2, AppendInduction
<1>4. QED BY <1>3 DEF Texts

(* A command line is a sequence of texts.                                   *)
LEMMA WordsType ==
    ASSUME NEW text \in Texts
    PROVE  tokenizeCommandLine(text) \in Seq(Texts)
<1> DEFINE s == Read(Start, text)
           end == IF s.place \in {"escape", "doubleEscape"} THEN Write(s, <<"\\">>, "plain") ELSE s
<1>1. Start \in Readings
  BY DEF Start, Readings, Texts
<1>2. s \in Readings
  BY <1>1, ReadTypes
<1> HIDE DEF s
<1>3. end \in Readings
  <2>1. s.word \o <<"\\">> \in Texts
    <3>1. s.word \in Seq(Symbols) /\ <<"\\">> \in Seq(Symbols)
      <4>1. "\\" \in Symbols
        BY SymbolsKnown
      <4>2. QED BY <1>2, <4>1 DEF Readings, Texts
    <3>2. QED BY <3>1, ConcatProperties DEF Texts
  <2>2. QED BY <1>2, <2>1 DEF Write, Readings
<1> HIDE DEF end
<1>4. EndWord(end).words \in Seq(Texts)
  <2>1. end.words \in Seq(Texts) /\ Append(end.words, end.word) \in Seq(Texts)
    BY <1>3 DEF Readings
  <2>2. QED BY <2>1 DEF EndWord, Start
<1>5. tokenizeCommandLine(text) = EndWord(end).words
  BY DEF tokenizeCommandLine, end, s, Read
<1>6. QED BY <1>4, <1>5

-----------------------------------------------------------------------------
(* Reading what was written. *)

Plain(word) == ToSet(word) \cap Special = {}

(* Reading a word that was written, where one may begin or go on.           *)
Written(s, w) == IF w = <<>> THEN s ELSE Write(s, w, "plain")

(* A word without special characters is read as it is.                      *)
LEMMA PlainIsRead ==
    ASSUME NEW s \in Readings, s.place = "plain", NEW w \in Texts, Plain(w)
    PROVE  Read(s, w) = Written(s, w)
<1> DEFINE S == {v \in Texts : Plain(v) => Read(s, v) = Written(s, v)}
<1>1. <<>> \in S
  BY ReadNothing DEF Texts, Written
<1>2. ASSUME NEW v \in Seq(Symbols), NEW c \in Symbols, v \in S PROVE Append(v, c) \in S
  <2> SUFFICES ASSUME Plain(Append(v, c))
               PROVE  Read(s, Append(v, c)) = Written(s, Append(v, c))
    BY DEF Texts
  <2>1. Plain(v) /\ c \notin Special
    BY AppendMembers DEF Plain
  <2>2. Read(s, Append(v, c)) = ReadSymbol(Written(s, v), c)
    BY <1>2, <2>1, ReadAppend
  <2>3. Written(s, v).place = "plain"
    BY DEF Written, Write, Readings
  <2>4. ReadSymbol(Written(s, v), c) = Write(Written(s, v), <<c>>, "plain")
    BY <2>1, <2>3 DEF ReadSymbol, ReadPlain, Special, Quotes
  <2>5. Write(Written(s, v), <<c>>, "plain") = Write(s, Append(v, c), "plain")
    <3>1. s.word \in Texts /\ <<c>> \in Texts /\ v \in Texts
      BY TextFacts DEF Readings, Texts
    <3>2. (s.word \o v) \o <<c>> = s.word \o Append(v, c)
      <4>1. (s.word \o v) \o <<c>> = s.word \o (v \o <<c>>) /\ v \o <<c>> = Append(v, c)
        BY <3>1, TextFacts
      <4>2. QED BY <4>1
    <3>3. v = <<>> => <<c>> = Append(v, c)
      OBVIOUS
    <3>4. QED BY <3>2, <3>3 DEF Written, Write, Readings
  <2>6. Append(v, c) # <<>>
    BY TextFacts DEF Texts
  <2>7. QED BY <2>2, <2>4, <2>5, <2>6 DEF Written
<1>3. Seq(Symbols) \subseteq S
  <2> HIDE DEF S
  <2>1. QED BY <1>1, <1>2, AppendInduction
<1>4. QED BY <1>3 DEF Texts

(* What shellQuoteValue makes of a symbol, and of those of a word.          *)
Escape(c) == IF c = "'" THEN <<"'", "\\", "'", "'">> ELSE <<c>>
Escaped(w) == FlattenSeq([i \in DOMAIN w |-> Escape(w[i])])

(* Nothing is escaped as nothing.                                           *)
LEMMA EscapedNothing == Escaped(<<>>) = <<>>
<1>1. [i \in DOMAIN <<>> |-> Escape(<<>>[i])] = <<>>
  OBVIOUS
<1>2. QED BY <1>1, FlattenNothing DEF Escaped

(* A symbol more is escaped after the others.                               *)
LEMMA EscapedAppend ==
    ASSUME NEW w \in Texts, NEW c \in Symbols
    PROVE  Escaped(Append(w, c)) = Escaped(w) \o Escape(c) /\ Escape(c) \in Texts
<1>1. \A d \in Symbols : Escape(d) \in Texts
  <2>1. "'" \in Symbols /\ "\\" \in Symbols
    BY SymbolsKnown
  <2>2. <<"'", "\\", "'", "'">> \in Texts
    BY <2>1 DEF Texts
  <2>3. QED BY <2>2, TextFacts DEF Escape
<1>2. w \in Seq(Symbols) /\ Append(w, c) \in Seq(Symbols)
  BY DEF Texts
<1> DEFINE e == [i \in DOMAIN w |-> Escape(w[i])]
           f == [i \in DOMAIN Append(w, c) |-> Escape(Append(w, c)[i])]
<1>3. e \in Seq(Texts) /\ Len(e) = Len(w)
  BY <1>1, <1>2
<1>4. f = Append(e, Escape(c))
  <2>1. /\ DOMAIN Append(w, c) = 1 .. Len(w) + 1
        /\ \A i \in 1 .. Len(w) + 1 : Append(w, c)[i] = IF i <= Len(w) THEN w[i] ELSE c
    BY <1>2
  <2>2. Append(e, Escape(c)) \in Seq(Texts) /\ Len(Append(e, Escape(c))) = Len(w) + 1
    BY <1>1, <1>3
  <2>3. f \in Seq(Texts) /\ Len(f) = Len(w) + 1
    BY <1>1, <1>2
  <2>4. \A i \in 1 .. Len(w) + 1 : f[i] = Append(e, Escape(c))[i]
    BY <1>2, <1>3, <2>1
  <2> HIDE DEF e, f
  <2>5. QED BY <2>2, <2>3, <2>4, SeqEqual
<1> HIDE DEF e
<1>5. FlattenSeq(Append(e, Escape(c))) = FlattenSeq(e) \o Escape(c)
  BY <1>1, <1>3, FlattenAppend DEF Texts
<1>6. QED BY <1>1, <1>4, <1>5 DEF Escaped, e

(* What is escaped is a text.                                               *)
LEMMA EscapedType == ASSUME NEW w \in Texts PROVE Escaped(w) \in Texts
<1> DEFINE S == {v \in Texts : Escaped(v) \in Texts}
<1>1. <<>> \in S
  BY EscapedNothing, TextFacts
<1>2. ASSUME NEW v \in Seq(Symbols), NEW c \in Symbols, v \in S PROVE Append(v, c) \in S
  <2>1. v \in Texts /\ Append(v, c) \in Texts
    BY DEF Texts
  <2>2. Escaped(v) \o Escape(c) \in Texts
    BY <1>2, <2>1, EscapedAppend, ConcatProperties DEF Texts
  <2>3. QED BY <2>1, <2>2, EscapedAppend
<1>3. Seq(Symbols) \subseteq S
  <2> HIDE DEF S
  <2>1. QED BY <1>1, <1>2, AppendInduction
<1>4. QED BY <1>3 DEF Texts

(* Between single quotes an escaped symbol is read as itself.               *)
LEMMA EscapeIsRead ==
    ASSUME NEW s \in Readings, s.place = "single", s.inWord, NEW c \in Symbols
    PROVE  Read(s, Escape(c)) = Write(s, <<c>>, "single")
<1>1. CASE c = "'"
  <2> DEFINE s1 == Enter(s, "plain")
             s2 == Enter(s1, "escape")
             s3 == Write(s2, <<"'">>, "plain")
  <2>1. ReadSymbol(s, "'") = s1 /\ ReadSymbol(s1, "\\") = s2
        /\ ReadSymbol(s2, "'") = s3 /\ ReadSymbol(s3, "'") = Enter(s3, "single")
    <3>1. s1.place = "plain" /\ s2.place = "escape" /\ s3.place = "plain"
      BY DEF Enter, Write, Readings
    <3>2. ReadSymbol(s, "'") = s1
      BY DEF ReadSymbol, ReadSingle
    <3> HIDE DEF s1, s2, s3
    <3>3. ReadSymbol(s1, "\\") = Enter(s1, "escape")
      BY <3>1 DEF ReadSymbol, ReadPlain, Separators
    <3>4. ReadSymbol(s2, "'") = Write(s2, <<"'">>, "plain")
      BY <3>1 DEF ReadSymbol
    <3>5. ReadSymbol(s3, "'") = Enter(s3, "single")
      BY <3>1 DEF ReadSymbol, ReadPlain, Separators
    <3>6. QED BY <3>2, <3>3, <3>4, <3>5 DEF s1, s2, s3
  <2>2. Enter(s3, "single") = Write(s, <<c>>, "single")
    BY <1>1 DEF Enter, Write, Readings
  <2> HIDE DEF s1, s2, s3
  <2>3. PICK q \in Texts, b \in Texts :
          q = <<"'">> /\ b = <<"\\">> /\ q \o b \in Texts /\ (q \o b) \o q \in Texts
    <3>1. "'" \in Symbols /\ "\\" \in Symbols
      BY SymbolsKnown
    <3>2. <<"'">> \in Texts /\ <<"\\">> \in Texts
      BY <3>1, TextFacts
    <3>3. <<"'">> \o <<"\\">> \in Texts /\ (<<"'">> \o <<"\\">>) \o <<"'">> \in Texts
      BY <3>2, TextFacts
    <3>4. QED BY <3>2, <3>3
  <2>4. Escape(c) = ((q \o b) \o q) \o q
    BY <1>1, <2>3 DEF Escape
  <2>5. \A t : Read(t, q) = ReadSymbol(t, "'") /\ Read(t, b) = ReadSymbol(t, "\\")
    BY <2>3, ReadOne, SymbolsKnown
  <2>6. Read(s, q \o b) = s2
    BY <2>1, <2>5, ReadConcat
  <2>7. Read(s, (q \o b) \o q) = s3
    BY <2>1, <2>3, <2>5, <2>6, ReadConcat
  <2>8. Read(s, ((q \o b) \o q) \o q) = Enter(s3, "single")
    BY <2>1, <2>3, <2>5, <2>7, ReadConcat
  <2>9. QED BY <2>2, <2>4, <2>8
<1>2. CASE c # "'"
  BY <1>2, ReadOne DEF Escape, ReadSymbol, ReadSingle
<1>3. QED BY <1>1, <1>2

(* And so is an escaped word.                                               *)
LEMMA EscapedIsRead ==
    ASSUME NEW s \in Readings, s.place = "single", s.inWord, NEW w \in Texts
    PROVE  Read(s, Escaped(w)) = Write(s, w, "single")
<1> DEFINE S == {v \in Texts : Read(s, Escaped(v)) = Write(s, v, "single")}
<1>0. s.word \in Seq(Symbols)
  BY DEF Readings, Texts
<1>1. <<>> \in S
  <2>1. Write(s, <<>>, "single") = s
    <3>1. s.word \o <<>> = s.word
      BY <1>0, ConcatEmptySeq
    <3>2. QED BY <3>1 DEF Write, Readings
  <2>2. QED BY <2>1, EscapedNothing, ReadNothing DEF Texts
<1>2. ASSUME NEW v \in Seq(Symbols), NEW c \in Symbols, v \in S PROVE Append(v, c) \in S
  <2>1. v \in Texts /\ Append(v, c) \in Texts
    BY DEF Texts
  <2>2. Read(s, Escaped(Append(v, c))) = Read(Write(s, v, "single"), Escape(c))
    <3>1. /\ Escaped(Append(v, c)) = Escaped(v) \o Escape(c)
          /\ Escape(c) \in Texts /\ Escaped(v) \in Texts
      BY <2>1, EscapedAppend, EscapedType
    <3>2. Read(s, Escaped(v) \o Escape(c)) = Read(Read(s, Escaped(v)), Escape(c))
      BY <3>1, ReadConcat
    <3>3. Read(s, Escaped(v)) = Write(s, v, "single")
      BY <1>2
    <3>4. QED BY <3>1, <3>2, <3>3
  <2>3. /\ Write(s, v, "single") \in Readings
        /\ Write(s, v, "single").place = "single" /\ Write(s, v, "single").inWord
    <3>1. s.word \o v \in Texts
      BY <1>0, ConcatProperties DEF Texts
    <3>2. QED BY <3>1 DEF Write, Readings
  <2>4. Read(Write(s, v, "single"), Escape(c)) = Write(Write(s, v, "single"), <<c>>, "single")
    BY <2>3, EscapeIsRead
  <2>5. (s.word \o v) \o <<c>> = s.word \o Append(v, c)
    <3>1. s.word \in Texts /\ <<c>> \in Texts /\ v \in Texts
      BY <1>0, TextFacts DEF Texts
    <3>2. (s.word \o v) \o <<c>> = s.word \o (v \o <<c>>) /\ v \o <<c>> = Append(v, c)
      BY <3>1, TextFacts
    <3>3. QED BY <3>2
  <2>6. Write(Write(s, v, "single"), <<c>>, "single") = Write(s, Append(v, c), "single")
    BY <2>5 DEF Write, Readings
  <2>7. QED BY <2>1, <2>2, <2>4, <2>6
<1>3. Seq(Symbols) \subseteq S
  <2> HIDE DEF S
  <2>1. QED BY <1>1, <1>2, AppendInduction
<1>4. QED BY <1>3 DEF Texts

(* Quoting is undone by reading.                                            *)
LEMMA QuotedIsRead ==
    ASSUME NEW s \in Readings, s.place = "plain", NEW w \in Texts
    PROVE  Read(s, shellQuoteValue(w)) = Written(s, w) /\ shellQuoteValue(w) \in Texts
<1>1. CASE Plain(w)
  BY <1>1, PlainIsRead DEF shellQuoteValue, Plain
<1>2. CASE ~Plain(w)
  <2>1. PICK q \in Texts : q = <<"'">>
    <3>1. "'" \in Symbols
      BY SymbolsKnown
    <3>2. QED BY <3>1, TextFacts
  <2>2. shellQuoteValue(w) = (q \o Escaped(w)) \o q
    BY <1>2, <2>1 DEF shellQuoteValue, Plain, Escaped, Escape
  <2>3. q \o Escaped(w) \in Texts /\ (q \o Escaped(w)) \o q \in Texts /\ Escaped(w) \in Texts
    BY EscapedType, ConcatProperties DEF Texts
  <2>4. \A t : Read(t, q) = ReadSymbol(t, "'")
    BY <2>1, ReadOne, SymbolsKnown
  <2>5. Read(s, q) = Enter(s, "single")
    <3>1. ReadSymbol(s, "'") = Enter(s, "single")
      BY DEF ReadSymbol, ReadPlain, Separators
    <3>2. QED BY <2>4, <3>1
  <2>6. /\ Enter(s, "single") \in Readings
        /\ Enter(s, "single").place = "single" /\ Enter(s, "single").inWord
    BY DEF Enter, Readings
  <2>7. Read(s, q \o Escaped(w)) = Write(Enter(s, "single"), w, "single")
    BY <2>3, <2>5, <2>6, EscapedIsRead, ReadConcat
  <2>8. Read(s, (q \o Escaped(w)) \o q) = Enter(Write(Enter(s, "single"), w, "single"), "plain")
    <3>1. Read(s, (q \o Escaped(w)) \o q) = ReadSymbol(Read(s, q \o Escaped(w)), "'")
      BY <2>3, <2>4, ReadConcat
    <3>2. Write(Enter(s, "single"), w, "single").place = "single"
      BY DEF Write, Enter, Readings
    <3>3. QED BY <2>7, <3>1, <3>2 DEF ReadSymbol, ReadSingle
  <2>9. Enter(Write(Enter(s, "single"), w, "single"), "plain") = Write(s, w, "plain")
    BY DEF Write, Enter, Readings
  <2>10. w # <<>>
    BY <1>2 DEF Plain, ToSet
  <2>11. QED BY <2>2, <2>3, <2>8, <2>9, <2>10 DEF Written
<1>3. QED BY <1>1, <1>2

-----------------------------------------------------------------------------
(* Words, set apart by spaces. *)

(* Sequences of words, put together.                                        *)
LEMMA WordsFacts ==
    /\ <<>> \in Seq(Texts)
    /\ \A w \in Texts : <<w>> \in Seq(Texts)
    /\ \A t, u \in Seq(Texts) : t \o u \in Seq(Texts)
    /\ \A t, u, v \in Seq(Texts) : (t \o u) \o v = t \o (u \o v)
    /\ \A t \in Seq(Texts) : t \o <<>> = t /\ <<>> \o t = t
    /\ \A t \in Seq(Texts), w \in Texts :
         Append(t, w) \in Seq(Texts) /\ Append(t, w) = t \o <<w>> /\ Append(t, w) # <<>>
<1>1. \A w \in Texts : <<w>> \in Seq(Texts)
  OBVIOUS
<1>2. \A t, u \in Seq(Texts) : t \o u \in Seq(Texts)
  BY ConcatProperties
<1>3. \A t, u, v \in Seq(Texts) : (t \o u) \o v = t \o (u \o v)
  BY ONLY ConcatAssociative, SMTT(30)
<1>4. \A t \in Seq(Texts) : t \o <<>> = t /\ <<>> \o t = t
  BY ConcatEmptySeq
<1>5. \A t \in Seq(Texts), w \in Texts :
        Append(t, w) \in Seq(Texts) /\ Append(t, w) = t \o <<w>> /\ Append(t, w) # <<>>
  BY AppendProperties, AppendIsConcat
<1>6. <<>> \in Seq(Texts)
  BY EmptySeq
<1>7. QED BY <1>1, <1>2, <1>3, <1>4, <1>5, <1>6

(* Between the words: a word may have begun.                                *)
Open(s) == s \in Readings /\ s.place = "plain" /\ (~s.inWord => s.word = <<>>)

One(w) == IF w = <<>> THEN <<>> ELSE <<w>>
Nonempty(ws) == FlattenSeq([i \in DOMAIN ws |-> One(ws[i])])

(* The text is read as the word, and as those words after a space.          *)
ReadsAs(t, w) ==
    /\ t \in Texts /\ w \in Texts
    /\ \A s \in Readings : s.place = "plain" => Read(s, t) = Written(s, w)

Adds(t, ws) ==
    /\ t \in Texts /\ ws \in Seq(Texts)
    /\ \A s : Open(s) => /\ Open(Read(s, t))
                         /\ EndWord(Read(s, t)).words = EndWord(s).words \o ws

(* A space ends the word.                                                   *)
LEMMA SpaceEnds ==
    ASSUME NEW s, Open(s)
    PROVE  /\ ReadSymbol(s, " ") = EndWord(s)
           /\ EndWord(s) \in [place: {"plain"}, words: Seq(Texts), word: {<<>>}, inWord: {FALSE}]
           /\ EndWord(s) \in Readings /\ Open(EndWord(s))
           /\ EndWord(EndWord(s)).words = EndWord(s).words
<1>1. /\ s.place = "plain" /\ s.words \in Seq(Texts) /\ s.word \in Texts
      /\ s.inWord \in BOOLEAN /\ (~s.inWord => s.word = <<>>)
      /\ s = [place |-> s.place, words |-> s.words, word |-> s.word, inWord |-> s.inWord]
  BY DEF Open, Readings
<1>2. ReadSymbol(s, " ") = EndWord(s)
  BY <1>1 DEF ReadSymbol, ReadPlain, Separators
<1>3. Append(s.words, s.word) \in Seq(Texts) /\ <<>> \in Texts
  BY <1>1, WordsFacts, TextFacts
<1>4. EndWord(s) \in [place: {"plain"}, words: Seq(Texts), word: {<<>>}, inWord: {FALSE}]
  BY <1>1, <1>3 DEF EndWord, Start
<1>5. EndWord(s) \in Readings /\ Open(EndWord(s))
  <2> DEFINE e == EndWord(s)
  <2>1. e \in [place: {"plain"}, words: Seq(Texts), word: {<<>>}, inWord: {FALSE}]
    BY <1>4
  <2> HIDE DEF e
  <2>2. e \in Readings /\ Open(e)
    BY <2>1, <1>3 DEF Readings, Open
  <2>3. QED BY <2>2 DEF e
<1>6. EndWord(EndWord(s)).words = EndWord(s).words
  <2>1. ~EndWord(s).inWord
    BY <1>4
  <2>2. EndWord(EndWord(s)) = EndWord(s)
    BY <2>1 DEF EndWord
  <2>3. QED BY <2>2
<1>7. QED BY <1>2, <1>4, <1>5, <1>6

(* Nothing adds nothing, and one text adds to what another does.            *)
LEMMA AddsNothing == Adds(<<>>, <<>>)
<1>1. ASSUME NEW s, Open(s)
      PROVE  Open(Read(s, <<>>)) /\ EndWord(Read(s, <<>>)).words = EndWord(s).words \o <<>>
  <2>1. EndWord(s).words \in Seq(Texts)
    BY <1>1, SpaceEnds
  <2>2. QED BY <1>1, <2>1, ReadNothing, WordsFacts
<1>2. QED BY <1>1, TextFacts, WordsFacts DEF Adds

(* What two texts add, they add one after the other.                        *)
LEMMA AddsConcat ==
    ASSUME NEW t, NEW ws, Adds(t, ws), NEW u, NEW vs, Adds(u, vs)
    PROVE  Adds(t \o u, ws \o vs)
<1>1. t \in Texts /\ u \in Texts /\ ws \in Seq(Texts) /\ vs \in Seq(Texts)
  BY DEF Adds
<1>2. t \o u \in Texts /\ ws \o vs \in Seq(Texts)
  BY <1>1, TextFacts, WordsFacts
<1>3. ASSUME NEW s, Open(s)
      PROVE  /\ Open(Read(s, t \o u))
             /\ EndWord(Read(s, t \o u)).words = EndWord(s).words \o (ws \o vs)
  <2>1. Read(s, t \o u) = Read(Read(s, t), u)
    BY <1>1, ReadConcat
  <2>2. Open(Read(s, t)) /\ EndWord(Read(s, t)).words = EndWord(s).words \o ws
    BY <1>3 DEF Adds
  <2>3. /\ Open(Read(Read(s, t), u))
        /\ EndWord(Read(Read(s, t), u)).words = (EndWord(s).words \o ws) \o vs
    BY <2>2 DEF Adds
  <2>4. EndWord(s).words \in Seq(Texts)
    BY <1>3, SpaceEnds
  <2>5. (EndWord(s).words \o ws) \o vs = EndWord(s).words \o (ws \o vs)
    BY ONLY <1>1, <2>4, WordsFacts, ZenonT(60)
  <2>6. QED BY <2>1, <2>3, <2>5
<1>4. QED BY <1>2, <1>3 DEF Adds

(* A word after a space.                                                    *)
LEMMA SpacedWord ==
    ASSUME NEW t, NEW w, ReadsAs(t, w)
    PROVE  Adds(<<" ">> \o t, One(w))
<1>1. /\ t \in Texts /\ w \in Texts /\ " " \in Symbols
      /\ <<" ">> \in Texts /\ <<" ">> \o t \in Texts /\ One(w) \in Seq(Texts)
  <2>1. " " \in Symbols
    BY SymbolsKnown
  <2>2. t \in Texts /\ w \in Texts /\ <<" ">> \in Texts
    BY <2>1, TextFacts DEF ReadsAs
  <2>3. QED BY <2>1, <2>2, TextFacts, WordsFacts DEF One
<1>2. ASSUME NEW s, Open(s)
      PROVE  /\ Open(Read(s, <<" ">> \o t))
             /\ EndWord(Read(s, <<" ">> \o t)).words = EndWord(s).words \o One(w)
  <2> DEFINE e == EndWord(s)
  <2>1. /\ e \in [place: {"plain"}, words: Seq(Texts), word: {<<>>}, inWord: {FALSE}]
        /\ e \in Readings /\ Open(e) /\ EndWord(e).words = e.words
    BY <1>2, SpaceEnds
  <2>2. Read(s, <<" ">> \o t) = Read(e, t)
    <3>1. Read(s, <<" ">> \o t) = Read(Read(s, <<" ">>), t)
      BY <1>1, ReadConcat
    <3>2. Read(s, <<" ">>) = e
      BY <1>1, <1>2, ReadOne, SpaceEnds
    <3>3. QED BY <3>1, <3>2
  <2> HIDE DEF e
  <2>3. Read(e, t) = Written(e, w)
    BY <2>1 DEF ReadsAs
  <2>4. CASE w = <<>>
    <3>1. Read(e, t) = e /\ e.words \o One(w) = e.words
      BY <2>1, <2>3, <2>4, WordsFacts DEF Written, One
    <3>2. QED BY <2>1, <2>2, <3>1 DEF e
  <2>5. CASE w # <<>>
    <3> DEFINE r == [place |-> "plain", words |-> e.words, word |-> w, inWord |-> TRUE]
    <3>1. Written(e, w) = r
      <4>1. <<>> \o w = w
        BY <1>1, TextFacts
      <4>2. QED BY <2>1, <2>5, <4>1 DEF Written, Write
    <3>2. Open(r)
      BY <1>1, <2>1 DEF Open, Readings
    <3>3. EndWord(r).words = Append(e.words, w)
      BY DEF EndWord, Start
    <3>4. Append(e.words, w) = e.words \o One(w)
      BY <1>1, <2>1, <2>5, WordsFacts DEF One
    <3> HIDE DEF r
    <3>5. QED BY <2>2, <2>3, <3>1, <3>2, <3>3, <3>4 DEF e
  <2>6. QED BY <2>4, <2>5
<1>3. QED BY <1>1, <1>2 DEF Adds

(* Any number of texts.                                                     *)
Additions == {p \in [text: Texts, words: Seq(Texts)] : Adds(p.text, p.words)}

TextsOf(ps) == [i \in DOMAIN ps |-> ps[i].text]
WordsOf(ps) == [i \in DOMAIN ps |-> ps[i].words]

(* And so do any number of texts.                                           *)
LEMMA AddsAll ==
    ASSUME NEW ps \in Seq(Additions)
    PROVE  Adds(FlattenSeq(TextsOf(ps)), FlattenSeq(WordsOf(ps)))
<1> DEFINE S == {q \in Seq(Additions) : Adds(FlattenSeq(TextsOf(q)), FlattenSeq(WordsOf(q)))}
<1>1. <<>> \in S
  <2>1. TextsOf(<<>>) = <<>> /\ WordsOf(<<>>) = <<>>
    BY DEF TextsOf, WordsOf
  <2>2. QED BY <2>1, AddsNothing, FlattenNothing, EmptySeq
<1>2. ASSUME NEW q \in Seq(Additions), NEW p \in Additions, q \in S PROVE Append(q, p) \in S
  <2>1. /\ Append(q, p) \in Seq(Additions) /\ Len(Append(q, p)) = Len(q) + 1
        /\ Append(q, p)[Len(q) + 1] = p /\ \A i \in 1 .. Len(q) : Append(q, p)[i] = q[i]
        /\ Len(q) \in Nat /\ DOMAIN q = 1 .. Len(q) /\ DOMAIN Append(q, p) = 1 .. Len(q) + 1
    BY AppendProperties, LenProperties
  <2>2. /\ \A i \in 1 .. Len(q) : q[i].text \in Texts /\ q[i].words \in Seq(Texts)
        /\ p.text \in Texts /\ p.words \in Seq(Texts) /\ Adds(p.text, p.words)
    BY <2>1 DEF Additions
  <2>3. TextsOf(q) \in Seq(Texts) /\ WordsOf(q) \in Seq(Seq(Texts))
        /\ Len(TextsOf(q)) = Len(q) /\ Len(WordsOf(q)) = Len(q)
    BY <2>1, <2>2 DEF TextsOf, WordsOf
  <2>4. TextsOf(Append(q, p)) = Append(TextsOf(q), p.text)
    <3>1. /\ TextsOf(Append(q, p)) \in Seq(Texts) /\ Len(TextsOf(Append(q, p))) = Len(q) + 1
          /\ \A i \in 1 .. Len(q) + 1 : TextsOf(Append(q, p))[i] = Append(q, p)[i].text
      BY <2>1, <2>2 DEF TextsOf
    <3>2. /\ Append(TextsOf(q), p.text) \in Seq(Texts)
          /\ Len(Append(TextsOf(q), p.text)) = Len(q) + 1
          /\ \A i \in 1 .. Len(q) : Append(TextsOf(q), p.text)[i] = q[i].text
          /\ Append(TextsOf(q), p.text)[Len(q) + 1] = p.text
      <4>1. \A i \in 1 .. Len(q) : TextsOf(q)[i] = q[i].text
        BY <2>1 DEF TextsOf
      <4>2. QED BY <2>2, <2>3, <4>1, AppendProperties
    <3>3. \A i \in 1 .. Len(q) + 1 :
            TextsOf(Append(q, p))[i] = Append(TextsOf(q), p.text)[i]
      BY <2>1, <3>1, <3>2
    <3>4. QED BY <3>1, <3>2, <3>3, SeqEqual
  <2>5. WordsOf(Append(q, p)) = Append(WordsOf(q), p.words)
    <3>1. /\ WordsOf(Append(q, p)) \in Seq(Seq(Texts))
          /\ Len(WordsOf(Append(q, p))) = Len(q) + 1
          /\ \A i \in 1 .. Len(q) + 1 : WordsOf(Append(q, p))[i] = Append(q, p)[i].words
      BY <2>1, <2>2 DEF WordsOf
    <3>2. /\ Append(WordsOf(q), p.words) \in Seq(Seq(Texts))
          /\ Len(Append(WordsOf(q), p.words)) = Len(q) + 1
          /\ \A i \in 1 .. Len(q) : Append(WordsOf(q), p.words)[i] = q[i].words
          /\ Append(WordsOf(q), p.words)[Len(q) + 1] = p.words
      <4>1. \A i \in 1 .. Len(q) : WordsOf(q)[i] = q[i].words
        BY <2>1 DEF WordsOf
      <4>2. QED BY <2>2, <2>3, <4>1, AppendProperties
    <3>3. \A i \in 1 .. Len(q) + 1 :
            WordsOf(Append(q, p))[i] = Append(WordsOf(q), p.words)[i]
      <4>1. \A i \in 1 .. Len(q) + 1 : i \in 1 .. Len(q) \/ i = Len(q) + 1
        BY <2>1
      <4>2. QED BY <2>1, <3>1, <3>2, <4>1, Zenon
    <3>4. QED BY <3>1, <3>2, <3>3, SeqEqual
  <2>6. FlattenSeq(Append(TextsOf(q), p.text)) = FlattenSeq(TextsOf(q)) \o p.text
    BY <2>2, <2>3, FlattenAppend DEF Texts
  <2>7. FlattenSeq(Append(WordsOf(q), p.words)) = FlattenSeq(WordsOf(q)) \o p.words
    BY <2>2, <2>3, FlattenAppend
  <2>8. Adds(FlattenSeq(TextsOf(q)), FlattenSeq(WordsOf(q)))
    BY <1>2
  <2>9. Adds(FlattenSeq(TextsOf(q)) \o p.text, FlattenSeq(WordsOf(q)) \o p.words)
    BY <2>2, <2>8, AddsConcat
  <2>10. QED BY <2>1, <2>4, <2>5, <2>6, <2>7, <2>9
<1>3. Seq(Additions) \subseteq S
  <2> HIDE DEF S
  <2>1. QED BY <1>1, <1>2, AppendInduction
<1>4. QED BY <1>3

-----------------------------------------------------------------------------
(* Keeping. *)

Afters == {"nothing", "param", "resume", "flag"}
Keepings == [flags: Seq(Texts), after: Afters]
Keeping(flags, after) == [flags |-> flags, after |-> after]

(* The words that may be kept: neither params nor -resume.                  *)
Clean == {w \in Texts : ~IsParam(w) /\ w # <<"-resume">>}

(* What a param, -resume and another option look like.                      *)
LEMMA OptionsAreDashed ==
    /\ \A w : IsParam(w) => IsDashed(w)
    /\ IsDashed(<<"-resume">>) /\ ~IsParam(<<"-resume">>)
    /\ IsDashed(<<"-work-dir">>) /\ ~IsParam(<<"-work-dir">>)
    /\ \A k \in ParamNames : IsParam(<<k>>)
    /\ ~IsDashed(<<"s">>) /\ ~IsDashed(<<"p">>)
    /\ ~IsDashed(<<"run">>) /\ ~IsDashed(<<"nextflow">>)
  BY DEF IsParam, IsDashed, ParamNames, Options

(* A token is kept or not, by what the last one may take along.             *)
LEMMA TokenKept ==
    ASSUME NEW k \in Keepings, NEW w \in Texts
    PROVE  /\ k.after = "param" => KeepToken(k, w) = Keeping(k.flags, "nothing")
           /\ k.after = "resume" /\ ~IsDashed(w) => KeepToken(k, w) = Keeping(k.flags, "nothing")
           /\ k.after = "flag" /\ ~IsDashed(w) =>
                KeepToken(k, w) = Keeping(Append(k.flags, w), "nothing")
           /\ k.after # "param" /\ IsParam(w) => KeepToken(k, w) = Keeping(k.flags, "param")
           /\ k.after # "param" /\ w = <<"-resume">> =>
                KeepToken(k, w) = Keeping(k.flags, "resume")
           /\ k.after # "param" /\ w \in Clean /\ (IsDashed(w) \/ k.after = "nothing") =>
                KeepToken(k, w) = Keeping(Append(k.flags, w), "flag")
<1>1. k = [flags |-> k.flags, after |-> k.after] /\ k.after \in Afters
  BY DEF Keepings
<1>2. /\ IsParam(w) => IsDashed(w)
      /\ w = <<"-resume">> => IsDashed(w) /\ ~IsParam(w)
      /\ w \in Clean => ~IsParam(w) /\ w # <<"-resume">>
  BY OptionsAreDashed DEF Clean
<1>3. \A after : [k EXCEPT !.after = after] = Keeping(k.flags, after)
  BY <1>1 DEF Keeping
<1>4. CASE k.after = "param"
  BY <1>3, <1>4 DEF KeepToken
<1>5. CASE k.after = "resume"
  BY <1>2, <1>3, <1>5 DEF KeepToken, Keeping
<1>6. CASE k.after = "flag"
  BY <1>2, <1>3, <1>6 DEF KeepToken, Keeping
<1>7. CASE k.after = "nothing"
  BY <1>2, <1>3, <1>7 DEF KeepToken, Keeping
<1>8. QED BY <1>1, <1>4, <1>5, <1>6, <1>7 DEF Afters

(* One word is kept as a word that may be.                                  *)
LEMMA KeepType ==
    ASSUME NEW X, X \subseteq Texts, NEW k \in [flags: Seq(X \cap Clean), after: Afters],
           NEW w \in X
    PROVE  KeepToken(k, w) \in [flags: Seq(X \cap Clean), after: Afters]
<1>1. k.flags \in Seq(X \cap Clean) /\ k.after \in Afters
  OBVIOUS
<1>2. k.flags \in Seq(Texts)
  BY <1>1
<1>3. k \in Keepings /\ w \in Texts
  BY <1>2 DEF Keepings
<1>4. \A after \in Afters : Keeping(k.flags, after) \in [flags: Seq(X \cap Clean), after: Afters]
  BY <1>1 DEF Keeping
<1>5. ASSUME w \in Clean, NEW after \in Afters
      PROVE  Keeping(Append(k.flags, w), after) \in [flags: Seq(X \cap Clean), after: Afters]
  <2>1. w \in X \cap Clean
    BY <1>5
  <2>2. Append(k.flags, w) \in Seq(X \cap Clean)
    BY <1>1, <2>1, AppendProperties
  <2>3. QED BY <2>2 DEF Keeping
<1>6. w \in Clean \/ IsParam(w) \/ w = <<"-resume">>
  BY <1>3 DEF Clean
<1>7. ~IsDashed(w) => w \in Clean
  BY <1>6, OptionsAreDashed
<1>8. {"nothing", "param", "resume", "flag"} = Afters
  BY DEF Afters
<1>9. CASE k.after = "param"
  BY <1>3, <1>4, <1>8, <1>9, TokenKept
<1>10. CASE k.after = "resume"
  BY <1>3, <1>4, <1>5, <1>6, <1>8, <1>10, TokenKept
<1>11. CASE k.after = "flag"
  BY <1>3, <1>4, <1>5, <1>6, <1>7, <1>8, <1>11, TokenKept
<1>12. CASE k.after = "nothing"
  BY <1>3, <1>4, <1>5, <1>6, <1>8, <1>12, TokenKept
<1>13. QED BY <1>1, <1>8, <1>9, <1>10, <1>11, <1>12

(* Whatever is kept, the flags are words of the command line that may be.   *)
LEMMA KeepTypes ==
    ASSUME NEW X, X \subseteq Texts, NEW k \in [flags: Seq(X \cap Clean), after: Afters],
           NEW words \in Seq(X)
    PROVE  Keep(k, words) \in [flags: Seq(X \cap Clean), after: Afters]
<1> DEFINE K == [flags: Seq(X \cap Clean), after: Afters]
           S == {v \in Seq(X) : Keep(k, v) \in K}
<1>1. <<>> \in S
  BY KeepNothing, EmptySeq
<1>2. ASSUME NEW v \in Seq(X), NEW w \in X, v \in S PROVE Append(v, w) \in S
  <2>1. Keep(k, Append(v, w)) = KeepToken(Keep(k, v), w) /\ Append(v, w) \in Seq(X)
    BY KeepAppend
  <2>2. KeepToken(Keep(k, v), w) \in K
    BY <1>2, KeepType
  <2>3. QED BY <2>1, <2>2
<1>3. Seq(X) \subseteq S
  <2> HIDE DEF S
  <2>1. QED BY <1>1, <1>2, AppendInduction
<1>4. QED BY <1>3

(* Words in parts.                                                          *)
LEMMA KeepConcat ==
    ASSUME NEW k, NEW t \in Seq(Texts), NEW u \in Seq(Texts)
    PROVE  Keep(k, t \o u) = Keep(Keep(k, t), u)
<1> DEFINE S == {v \in Seq(Texts) : Keep(k, t \o v) = Keep(Keep(k, t), v)}
<1>1. <<>> \in S
  <2>1. t \o <<>> = t /\ <<>> \in Seq(Texts)
    BY WordsFacts
  <2>2. QED BY <2>1, KeepNothing
<1>2. ASSUME NEW v \in Seq(Texts), NEW w \in Texts, v \in S PROVE Append(v, w) \in S
  <2>1. t \o Append(v, w) = Append(t \o v, w)
    <3>1. /\ Append(v, w) = v \o <<w>> /\ Append(t \o v, w) = (t \o v) \o <<w>>
          /\ (t \o v) \o <<w>> = t \o (v \o <<w>>)
      BY WordsFacts, SMTT(30)
    <3>2. QED BY <3>1
  <2>2. t \o v \in Seq(Texts) /\ Append(v, w) \in Seq(Texts)
    BY WordsFacts
  <2>3. Keep(k, Append(t \o v, w)) = KeepToken(Keep(k, t \o v), w)
    BY <2>2, KeepAppend
  <2>4. Keep(Keep(k, t), Append(v, w)) = KeepToken(Keep(Keep(k, t), v), w)
    BY KeepAppend
  <2>5. QED BY <1>2, <2>1, <2>2, <2>3, <2>4
<1>3. Seq(Texts) \subseteq S
  <2> HIDE DEF S
  <2>1. QED BY <1>1, <1>2, AppendInduction
<1>4. QED BY <1>3

(* Words of one.                                                            *)
LEMMA KeepOne ==
    ASSUME NEW k, NEW w \in Texts
    PROVE  Keep(k, <<w>>) = KeepToken(k, w)
<1>1. PICK e \in Seq(Texts) : e = <<>>
  BY WordsFacts
<1>2. Keep(k, Append(e, w)) = KeepToken(Keep(k, e), w)
  BY KeepAppend
<1>3. Append(e, w) = <<w>> /\ Keep(k, e) = k
  BY <1>1, KeepNothing
<1>4. QED BY <1>2, <1>3

(* Words that were kept are kept again.                                     *)
LEMMA KeepClean ==
    ASSUME NEW k \in Keepings, k.after \in {"nothing", "flag"}, NEW words \in Seq(Clean)
    PROVE  /\ Keep(k, words).flags = k.flags \o words
           /\ Keep(k, words).after \in {"nothing", "flag"}
           /\ Keep(k, words) \in Keepings
<1> DEFINE Again(v) == /\ Keep(k, v).flags = k.flags \o v
                       /\ Keep(k, v).after \in {"nothing", "flag"}
                       /\ Keep(k, v) \in Keepings
           S == {v \in Seq(Clean) : Again(v)}
<1>0. k.flags \in Seq(Texts)
  BY DEF Keepings
<1>1. <<>> \in S
  <2>1. k.flags \o <<>> = k.flags
    BY <1>0, WordsFacts
  <2>2. QED BY <2>1, KeepNothing, EmptySeq
<1>2. ASSUME NEW v \in Seq(Clean), NEW w \in Clean, v \in S PROVE Append(v, w) \in S
  <2>1. w \in Texts /\ v \in Seq(Texts) /\ Append(v, w) \in Seq(Clean)
    <3>1. Clean \subseteq Texts
      BY DEF Clean
    <3>2. QED BY <3>1
  <2> DEFINE r == Keep(k, v)
  <2>2. r \in Keepings /\ r.after \in {"nothing", "flag"} /\ r.flags = k.flags \o v
    BY <1>2
  <2> HIDE DEF r
  <2>3. Keep(k, Append(v, w)) = KeepToken(r, w)
    BY <2>1, KeepAppend DEF r
  <2>4. Append(r.flags, w) \in Seq(Texts)
    BY <2>1, <2>2, WordsFacts DEF Keepings
  <2>5. PICK after \in {"nothing", "flag"} : KeepToken(r, w) = Keeping(Append(r.flags, w), after)
    BY <2>1, <2>2, TokenKept
  <2>6. /\ KeepToken(r, w).flags = Append(r.flags, w)
        /\ KeepToken(r, w).after \in {"nothing", "flag"} /\ KeepToken(r, w) \in Keepings
    <3>1. \A f \in Seq(Texts) :
            /\ Keeping(f, after).flags = f /\ Keeping(f, after).after = after
            /\ Keeping(f, after) \in Keepings
      BY DEF Keeping, Keepings, Afters
    <3>2. QED BY <2>4, <2>5, <3>1, Zenon
  <2>7. Append(r.flags, w) = k.flags \o Append(v, w)
    <3>1. /\ Append(v, w) = v \o <<w>> /\ Append(k.flags \o v, w) = (k.flags \o v) \o <<w>>
          /\ (k.flags \o v) \o <<w>> = k.flags \o (v \o <<w>>)
      BY <1>0, <2>1, WordsFacts, ZenonT(60)
    <3>2. QED BY <2>2, <3>1
  <2>8. Again(Append(v, w))
    BY <2>3, <2>6, <2>7
  <2>9. QED BY <2>1, <2>8
<1>3. Seq(Clean) \subseteq S
  <2> HIDE DEF S
  <2>1. QED BY <1>1, <1>2, AppendInduction
<1>4. QED BY <1>3

(* What stands after the project.                                           *)
LEMMA AfterTheProject ==
    ASSUME NEW a \in Texts, NEW b \in Texts, NEW c \in Texts, NEW rest \in Seq(Texts)
    PROVE  SubSeq(<<a, b, c>> \o rest, 4, Len(<<a, b, c>> \o rest)) = rest
<1> DEFINE all == <<a, b, c>> \o rest
<1>1. <<a, b, c>> \in Seq(Texts) /\ Len(<<a, b, c>>) = 3
  OBVIOUS
<1>2. /\ Len(rest) \in Nat /\ Len(all) = Len(rest) + 3
      /\ \A i \in 4 .. Len(rest) + 3 : all[i] = rest[i - 3]
      /\ all \in Seq(Texts)
  <2>1. /\ Len(rest) \in Nat /\ Len(all) = 3 + Len(rest) /\ all \in Seq(Texts)
        /\ \A i \in 1 .. 3 + Len(rest) : all[i] = IF i <= 3 THEN <<a, b, c>>[i] ELSE rest[i - 3]
    BY <1>1, ConcatProperties, LenProperties
  <2> HIDE DEF all
  <2>2. QED BY <2>1
<1> HIDE DEF all
<1>3. \A i \in 4 .. Len(all) : all[i] \in Texts
  BY <1>2
<1>4. /\ SubSeq(all, 4, Len(all)) \in Seq(Texts)
      /\ Len(SubSeq(all, 4, Len(all))) = Len(rest)
      /\ \A i \in 1 .. Len(rest) : SubSeq(all, 4, Len(all))[i] = all[4 + i - 1]
  BY <1>2, <1>3, SubSeqProperties
<1>5. \A i \in 1 .. Len(rest) : 4 + i - 1 \in 4 .. Len(rest) + 3 /\ (4 + i - 1) - 3 = i
  BY <1>2
<1>6. QED BY <1>2, <1>4, <1>5, SeqEqual DEF all

-----------------------------------------------------------------------------
(* What the resume command is read as, part by part. *)

(* Words as they are written.                                               *)
LEMMA PlainReads ==
    ASSUME NEW w \in Texts, Plain(w) PROVE ReadsAs(w, w)
  BY PlainIsRead DEF ReadsAs

(* A quoted word is read as the word.                                       *)
LEMMA QuotedReads == ASSUME NEW w \in Texts PROVE ReadsAs(shellQuoteValue(w), w)
<1>1. Start \in Readings /\ Start.place = "plain"
  BY TextFacts, WordsFacts DEF Start, Readings
<1>2. shellQuoteValue(w) \in Texts
  BY <1>1, QuotedIsRead
<1>3. QED BY <1>2, QuotedIsRead DEF ReadsAs

(* The names are plain words.                                               *)
LEMMA NamesArePlain ==
    ASSUME NEW c \in Options \cup ParamNames \cup {"nextflow", "run", "p", "s"}
    PROVE  <<c>> \in Texts /\ Plain(<<c>>) /\ ReadsAs(<<c>>, <<c>>)
<1>1. c \in Symbols /\ c \notin Special
  BY DEF Symbols, Special, Separators, Quotes, Options, ParamNames
<1>2. <<c>> \in Texts
  BY <1>1, TextFacts
<1>3. ToSet(<<c>>) = {c}
  BY DEF ToSet
<1>4. QED BY <1>1, <1>2, <1>3, PlainReads DEF Plain

(* Two words, each after a space.                                           *)
LEMMA SpacedTwo ==
    ASSUME NEW a \in Texts, NEW b \in Texts
    PROVE  Spaced(<<a, b>>) = (<<" ">> \o a) \o (<<" ">> \o b)
<1>1. PICK x \in Texts, y \in Texts : x = <<" ">> \o a /\ y = <<" ">> \o b
  <2>1. " " \in Symbols
    BY SymbolsKnown
  <2>2. <<" ">> \o a \in Texts /\ <<" ">> \o b \in Texts
    BY <2>1, TextFacts
  <2>3. QED BY <2>2
<1>2. [i \in DOMAIN <<a, b>> |-> <<" ">> \o <<a, b>>[i]] = <<x, y>>
  <2>1. DOMAIN <<a, b>> = {1, 2} /\ <<a, b>>[1] = a /\ <<a, b>>[2] = b
    OBVIOUS
  <2>2. <<x, y>> = [i \in {1, 2} |-> IF i = 1 THEN x ELSE y]
    OBVIOUS
  <2>3. QED BY <1>1, <2>1, <2>2, ZenonT(60)
<1>3. PICK e \in Seq(Texts), f \in Seq(Texts) : e = <<>> /\ f = Append(e, x)
  BY WordsFacts
<1>4. <<x, y>> = Append(f, y)
  BY <1>3
<1>5. FlattenSeq(Append(f, y)) = FlattenSeq(f) \o y /\ FlattenSeq(f) = FlattenSeq(e) \o x
  BY <1>3, FlattenAppend DEF Texts
<1>6. FlattenSeq(e) \o x = x
  BY <1>3, FlattenNothing, TextFacts
<1>7. QED BY <1>1, <1>2, <1>4, <1>5, <1>6 DEF Spaced

(* Parameters, each with its value.                                         *)
Parameters == [key: {<<k>> : k \in ParamNames}, value: Texts]
PairWords(p) == One(p.key) \o One(p.value)
ParamWords(params) == FlattenSeq([i \in DOMAIN params |-> PairWords(params[i])])
PairText(p) == Spaced(<<p.key, shellQuoteValue(p.value)>>)

(* The text of a parameter adds its name and its value.                     *)
LEMMA PairAdds ==
    ASSUME NEW p \in Parameters
    PROVE  Adds(PairText(p), PairWords(p))
<1>1. PICK k \in ParamNames : p.key = <<k>>
  BY DEF Parameters
<1>2. p.value \in Texts /\ ReadsAs(p.key, p.key) /\ ReadsAs(shellQuoteValue(p.value), p.value)
  BY <1>1, NamesArePlain, QuotedReads DEF Parameters
<1>3. p.key \in Texts /\ shellQuoteValue(p.value) \in Texts
  BY <1>2 DEF ReadsAs
<1>4. PairText(p) = (<<" ">> \o p.key) \o (<<" ">> \o shellQuoteValue(p.value))
  BY <1>3, SpacedTwo DEF PairText
<1>5. Adds(<<" ">> \o p.key, One(p.key))
      /\ Adds(<<" ">> \o shellQuoteValue(p.value), One(p.value))
  BY <1>2, SpacedWord
<1>6. QED BY <1>4, <1>5, AddsConcat DEF PairWords

(* The text of all parameters adds all of them (writeParams).               *)
LEMMA ParamsAdd ==
    ASSUME NEW params \in Seq(Parameters)
    PROVE  Adds(writeParams(params), ParamWords(params))
<1> DEFINE ps == [i \in DOMAIN params |->
                     [text |-> PairText(params[i]), words |-> PairWords(params[i])]]
<1>1. /\ DOMAIN params = 1 .. Len(params) /\ Len(params) \in Nat
      /\ \A i \in DOMAIN params : params[i] \in Parameters
  BY LenProperties
<1>2. \A i \in DOMAIN params :
        [text |-> PairText(params[i]), words |-> PairWords(params[i])] \in Additions
  <2>1. \A p \in Parameters : Adds(PairText(p), PairWords(p))
    BY PairAdds
  <2>2. QED BY <1>1, <2>1 DEF Additions, Adds
<1>3. ps \in Seq(Additions)
  BY <1>1, <1>2
<1>4. TextsOf(ps) = [i \in DOMAIN params |-> PairText(params[i])]
  BY DEF TextsOf
<1>5. WordsOf(ps) = [i \in DOMAIN params |-> PairWords(params[i])]
  BY DEF WordsOf
<1> HIDE DEF ps
<1>6. Adds(FlattenSeq(TextsOf(ps)), FlattenSeq(WordsOf(ps)))
  BY <1>3, AddsAll
<1>7. writeParams(params) = FlattenSeq(TextsOf(ps))
  BY <1>4, Zenon DEF writeParams, PairText
<1>8. QED BY <1>5, <1>6, <1>7 DEF ParamWords

(* One parameter more.                                                      *)
LEMMA ParamWordsAppend ==
    ASSUME NEW params \in Seq(Parameters), NEW p \in Parameters
    PROVE  /\ ParamWords(Append(params, p)) = ParamWords(params) \o PairWords(p)
           /\ ParamWords(params) \in Seq(Texts) /\ PairWords(p) \in Seq(Texts)
<1> DEFINE ws == [i \in DOMAIN params |-> PairWords(params[i])]
           more == Append(params, p)
           vs == [i \in DOMAIN more |-> PairWords(more[i])]
<1>1. /\ DOMAIN params = 1 .. Len(params) /\ Len(params) \in Nat
      /\ \A i \in DOMAIN params : params[i] \in Parameters
      /\ DOMAIN more = 1 .. Len(params) + 1 /\ more[Len(params) + 1] = p
      /\ \A i \in 1 .. Len(params) : more[i] = params[i]
      /\ \A i \in DOMAIN more : more[i] \in Parameters
  BY LenProperties, AppendProperties
<1>2. \A q \in Parameters : PairWords(q) \in Seq(Texts)
  BY PairAdds DEF Adds
<1> HIDE DEF more
<1>3. ws \in Seq(Seq(Texts)) /\ Len(ws) = Len(params)
  BY <1>1, <1>2
<1>4. /\ Append(ws, PairWords(p)) \in Seq(Seq(Texts))
      /\ Len(Append(ws, PairWords(p))) = Len(params) + 1
      /\ \A i \in 1 .. Len(params) : Append(ws, PairWords(p))[i] = PairWords(params[i])
      /\ Append(ws, PairWords(p))[Len(params) + 1] = PairWords(p)
  <2>1. \A i \in 1 .. Len(params) : ws[i] = PairWords(params[i])
    BY <1>1
  <2> HIDE DEF ws
  <2>2. QED BY <1>2, <1>3, <2>1, AppendProperties
<1>5. /\ vs \in Seq(Seq(Texts)) /\ Len(vs) = Len(params) + 1
      /\ \A i \in 1 .. Len(params) + 1 : vs[i] = PairWords(more[i])
  BY <1>1, <1>2
<1> HIDE DEF ws, vs
<1>6. vs = Append(ws, PairWords(p))
  <2>1. \A i \in 1 .. Len(params) + 1 : i \in 1 .. Len(params) \/ i = Len(params) + 1
    BY <1>1
  <2>2. \A i \in 1 .. Len(params) + 1 : vs[i] = Append(ws, PairWords(p))[i]
    BY <1>1, <1>4, <1>5, <2>1, Zenon
  <2>3. QED BY <1>4, <1>5, <2>2, SeqEqual
<1>7. FlattenSeq(Append(ws, PairWords(p))) = FlattenSeq(ws) \o PairWords(p)
  BY <1>2, <1>3, FlattenAppend
<1>8. ParamWords(params) \in Seq(Texts)
  BY ParamsAdd DEF Adds
<1>9. QED BY <1>2, <1>6, <1>7, <1>8 DEF ParamWords, ws, vs, more

(* Parameters are never kept, when their values are not empty.              *)
SoundParameters == {p \in Parameters : p.value # <<>>}

(* A parameter whose value is not empty is two words.                       *)
LEMMA PairWordsSound ==
    ASSUME NEW p \in SoundParameters
    PROVE  /\ PairWords(p) = <<p.key>> \o <<p.value>>
           /\ p.key \in Texts /\ p.value \in Texts /\ IsParam(p.key) /\ p.key # <<>>
<1>1. PICK k \in ParamNames : p.key = <<k>>
  BY DEF Parameters, SoundParameters
<1>2. p.key \in Texts /\ p.value \in Texts /\ IsParam(p.key) /\ p.key # <<>> /\ p.value # <<>>
  BY <1>1, NamesArePlain, OptionsAreDashed DEF Parameters, SoundParameters
<1>3. QED BY <1>2 DEF PairWords, One

(* So parseRuntimeFlags passes over them.                                   *)
LEMMA KeepParams ==
    ASSUME NEW params \in Seq(SoundParameters), NEW k \in Keepings, k.after = "nothing"
    PROVE  Keep(k, ParamWords(params)) = k
<1> DEFINE S == {v \in Seq(SoundParameters) : Keep(k, ParamWords(v)) = k}
<1>1. <<>> \in S
  <2>1. ParamWords(<<>>) = <<>>
    BY FlattenNothing DEF ParamWords
  <2>2. QED BY <2>1, KeepNothing, EmptySeq
<1>2. ASSUME NEW v \in Seq(SoundParameters), NEW p \in SoundParameters, v \in S
      PROVE  Append(v, p) \in S
  <2>1. v \in Seq(Parameters) /\ p \in Parameters /\ Append(v, p) \in Seq(SoundParameters)
    <3>1. SoundParameters \subseteq Parameters
      BY DEF SoundParameters
    <3>2. QED BY <3>1
  <2>2. /\ ParamWords(Append(v, p)) = ParamWords(v) \o PairWords(p)
        /\ ParamWords(v) \in Seq(Texts) /\ PairWords(p) \in Seq(Texts)
    BY <2>1, ParamWordsAppend
  <2>3. Keep(k, ParamWords(Append(v, p))) = Keep(k, PairWords(p))
    BY <1>2, <2>2, KeepConcat
  <2>4. Keep(k, PairWords(p)) = k
    <3>1. /\ PairWords(p) = <<p.key>> \o <<p.value>> /\ p.key \in Texts /\ p.value \in Texts
          /\ IsParam(p.key) /\ <<p.key>> \in Seq(Texts) /\ <<p.value>> \in Seq(Texts)
      BY PairWordsSound, WordsFacts
    <3>2. Keep(k, <<p.key>>) = Keeping(k.flags, "param")
      BY <3>1, KeepOne, TokenKept
    <3>3. /\ Keeping(k.flags, "param") \in Keepings /\ Keeping(k.flags, "param").after = "param"
          /\ Keeping(k.flags, "param").flags = k.flags /\ k = Keeping(k.flags, "nothing")
      BY DEF Keeping, Keepings, Afters
    <3>4. Keep(Keeping(k.flags, "param"), <<p.value>>) = k
      BY <3>1, <3>3, KeepOne, TokenKept
    <3>5. Keep(k, <<p.key>> \o <<p.value>>) = Keep(Keep(k, <<p.key>>), <<p.value>>)
      BY <3>1, KeepConcat
    <3>6. QED BY <3>1, <3>2, <3>4, <3>5
  <2>5. QED BY <2>1, <2>3, <2>4
<1>3. Seq(SoundParameters) \subseteq S
  <2> HIDE DEF S
  <2>1. QED BY <1>1, <1>2, AppendInduction
<1>4. QED BY <1>3

-----------------------------------------------------------------------------
(* The resume command. *)

(* The words that are not empty.                                            *)
LEMMA NonemptyAppend ==
    ASSUME NEW v \in Seq(Texts), NEW w \in Texts
    PROVE  Nonempty(Append(v, w)) = Nonempty(v) \o One(w)
<1> DEFINE f == [x \in Texts |-> One(x)]
<1>1. \A x \in Texts : One(x) \in Seq(Texts) /\ f[x] = One(x)
  BY WordsFacts DEF One
<1>2. f \in [Texts -> Seq(Texts)]
  BY <1>1
<1> HIDE DEF f
<1>3. FlattenSeq([i \in DOMAIN Append(v, w) |-> f[Append(v, w)[i]]])
        = FlattenSeq([i \in DOMAIN v |-> f[v[i]]]) \o f[w]
  BY <1>2, FlattenMapAppend, ZenonT(60)
<1>4. /\ \A i \in DOMAIN v : v[i] \in Texts
      /\ \A i \in DOMAIN Append(v, w) : Append(v, w)[i] \in Texts
  OBVIOUS
<1>5. [i \in DOMAIN v |-> f[v[i]]] = [i \in DOMAIN v |-> One(v[i])]
  BY <1>1, <1>4
<1>6. [i \in DOMAIN Append(v, w) |-> f[Append(v, w)[i]]]
        = [i \in DOMAIN Append(v, w) |-> One(Append(v, w)[i])]
  BY <1>1, <1>4
<1>7. QED BY <1>1, <1>3, <1>5, <1>6 DEF Nonempty

(* Of nothing nothing is left.                                              *)
LEMMA NonemptyNothing == Nonempty(<<>>) = <<>>
  BY FlattenNothing DEF Nonempty

(* The others stay, in their order.                                         *)
LEMMA NonemptyFacts ==
    ASSUME NEW X, X \subseteq Texts, NEW words \in Seq(X)
    PROVE  /\ Nonempty(words) \in Seq(X \ {<<>>})
           /\ \A w \in ToSet(words) : w # <<>> => w \in ToSet(Nonempty(words))
           /\ (\A w \in ToSet(words) : w # <<>>) => Nonempty(words) = words
<1> DEFINE Y == X \ {<<>>}
           Good(v) == /\ Nonempty(v) \in Seq(Y)
                      /\ \A w \in ToSet(v) : w # <<>> => w \in ToSet(Nonempty(v))
                      /\ (\A w \in ToSet(v) : w # <<>>) => Nonempty(v) = v
           S == {v \in Seq(X) : Good(v)}
<1>1. <<>> \in S
  <2>1. ToSet(<<>>) = {}
    BY DEF ToSet
  <2>2. QED BY <2>1, NonemptyNothing, EmptySeq
<1>2. ASSUME NEW v \in Seq(X), NEW x \in X, v \in S PROVE Append(v, x) \in S
  <2>1. v \in Seq(Texts) /\ x \in Texts /\ Append(v, x) \in Seq(X)
    OBVIOUS
  <2>2. Nonempty(Append(v, x)) = Nonempty(v) \o One(x)
    BY <2>1, NonemptyAppend
  <2>3. ToSet(Append(v, x)) = ToSet(v) \cup {x}
    BY AppendMembers
  <2>4. Nonempty(v) \in Seq(Y) /\ Nonempty(v) \in Seq(Texts)
    BY <1>2
  <2>5. Good(v)
    BY <1>2
  <2>6. CASE x = <<>>
    <3>1. Nonempty(Append(v, x)) = Nonempty(v)
      BY <2>2, <2>4, <2>6, WordsFacts DEF One
    <3>2. QED BY <2>1, <2>3, <2>5, <2>6, <3>1
  <2>7. CASE x # <<>>
    <3>1. Nonempty(Append(v, x)) = Append(Nonempty(v), x) /\ x \in Y
      BY <2>1, <2>2, <2>4, <2>7, WordsFacts DEF One
    <3>2. /\ Append(Nonempty(v), x) \in Seq(Y)
          /\ ToSet(Append(Nonempty(v), x)) = ToSet(Nonempty(v)) \cup {x}
      BY <2>4, <3>1, AppendMembers, AppendProperties
    <3> HIDE DEF Y
    <3>3. QED BY <2>1, <2>3, <2>5, <3>1, <3>2
  <2>8. QED BY <2>6, <2>7
<1>3. Seq(X) \subseteq S
  <2> HIDE DEF S
  <2>1. QED BY <1>1, <1>2, AppendInduction
<1>4. QED BY <1>3

(* The runtime flags of a command line.                                     *)
Flags(text) == parseRuntimeFlags(tokenizeCommandLine(text))

(* They are kept of the words after the project.                            *)
LEMMA FlagsByKeep ==
    ASSUME NEW words \in Seq(Texts)
    PROVE  /\ parseRuntimeFlags(words)
                = Keep(Keeping(<<>>, "nothing"), SubSeq(words, 4, Len(words))).flags
           /\ SubSeq(words, 4, Len(words)) \in Seq(Texts)
           /\ Keeping(<<>>, "nothing") \in Keepings
<1>1. parseRuntimeFlags(words)
        = Keep(Keeping(<<>>, "nothing"), SubSeq(words, 4, Len(words))).flags
  BY DEF parseRuntimeFlags, Keep, Keeping
<1>2. Len(words) \in Nat /\ \A i \in 4 .. Len(words) : words[i] \in Texts
  OBVIOUS
<1>3. SubSeq(words, 4, Len(words)) \in Seq(Texts)
  BY <1>2, SubSeqProperties
<1>4. Keeping(<<>>, "nothing") \in Keepings
  BY WordsFacts DEF Keeping, Keepings, Afters
<1>5. QED BY <1>1, <1>3, <1>4

(* None of them is a param or -resume.                                      *)
LEMMA FlagsType ==
    ASSUME NEW text \in Texts
    PROVE  Flags(text) \in Seq(Clean)
<1> DEFINE words == tokenizeCommandLine(text)
           rest == SubSeq(words, 4, Len(words))
<1>1. words \in Seq(Texts)
  BY WordsType
<1> HIDE DEF words
<1>2. Flags(text) = Keep(Keeping(<<>>, "nothing"), rest).flags /\ rest \in Seq(Texts)
  BY <1>1, FlagsByKeep DEF Flags, words
<1> HIDE DEF rest
<1>3. Keeping(<<>>, "nothing") \in [flags: Seq(Texts \cap Clean), after: Afters]
  <2>1. <<>> \in Seq(Texts \cap Clean)
    BY EmptySeq
  <2>2. QED BY <2>1 DEF Keeping, Afters
<1>4. Keep(Keeping(<<>>, "nothing"), rest) \in [flags: Seq(Texts \cap Clean), after: Afters]
  BY <1>2, <1>3, KeepTypes
<1>5. Texts \cap Clean = Clean
  BY DEF Clean
<1>6. QED BY <1>2, <1>4, <1>5

(* Words of which every option can be written as it is.                     *)
PlainOptions == {w \in Texts : IsDashed(w) => Plain(w)}
WrittenFlag(f) == IF IsDashed(f) THEN f ELSE shellQuoteValue(f)

(* The text of the flags adds those that are not empty.                     *)
LEMMA FlagsAdd ==
    ASSUME NEW flags \in Seq(PlainOptions)
    PROVE  Adds(Spaced([i \in DOMAIN flags |-> WrittenFlag(flags[i])]), Nonempty(flags))
<1> DEFINE ts == [i \in DOMAIN flags |-> WrittenFlag(flags[i])]
           ps == [i \in DOMAIN flags |->
                    [text |-> <<" ">> \o WrittenFlag(flags[i]), words |-> One(flags[i])]]
<1>1. /\ DOMAIN flags = 1 .. Len(flags) /\ Len(flags) \in Nat
      /\ \A i \in DOMAIN flags : flags[i] \in PlainOptions
  BY LenProperties
<1>2. ASSUME NEW w \in PlainOptions
      PROVE  [text |-> <<" ">> \o WrittenFlag(w), words |-> One(w)] \in Additions
  <2>1. ReadsAs(WrittenFlag(w), w)
    BY PlainReads, QuotedReads DEF PlainOptions, WrittenFlag
  <2>2. Adds(<<" ">> \o WrittenFlag(w), One(w))
    BY <2>1, SpacedWord
  <2>3. QED BY <2>2 DEF Additions, Adds
<1>3. ps \in Seq(Additions)
  <2>1. \A i \in DOMAIN flags :
          [text |-> <<" ">> \o WrittenFlag(flags[i]), words |-> One(flags[i])] \in Additions
    BY <1>1, <1>2
  <2>2. ps \in [DOMAIN flags -> Additions]
    BY <2>1
  <2> HIDE DEF ps
  <2>3. QED BY <1>1, <2>2
<1>4. TextsOf(ps) = [i \in DOMAIN flags |-> <<" ">> \o WrittenFlag(flags[i])]
  BY DEF TextsOf
<1>5. WordsOf(ps) = [i \in DOMAIN flags |-> One(flags[i])]
  BY DEF WordsOf
<1>6. [i \in DOMAIN ts |-> <<" ">> \o ts[i]]
        = [i \in DOMAIN flags |-> <<" ">> \o WrittenFlag(flags[i])]
  OBVIOUS
<1> HIDE DEF ps, ts
<1>7. Adds(FlattenSeq(TextsOf(ps)), FlattenSeq(WordsOf(ps)))
  BY <1>3, AddsAll
<1>8. Spaced(ts) = FlattenSeq(TextsOf(ps)) /\ Nonempty(flags) = FlattenSeq(WordsOf(ps))
  BY <1>4, <1>5, <1>6 DEF Spaced, Nonempty
<1>9. QED BY <1>7, <1>8 DEF ts

(* The work directory and the session, at the end.                          *)
DirectoryWords == << <<"-work-dir">> >> \o One(metadata.workDir)
Session == << <<"-resume">>, <<"s">> >>

(* The text of the work directory adds its option and its name.             *)
LEMMA DirectoryAdds ==
    ASSUME metadata.workDir \in Texts
    PROVE  Adds(WorkDirText, DirectoryWords)
<1>1. PICK w \in Texts, d \in Texts : w = <<"-work-dir">> /\ d = shellQuoteValue(metadata.workDir)
  BY NamesArePlain, QuotedReads DEF Options, ReadsAs
<1>2. /\ ReadsAs(w, w) /\ ReadsAs(d, metadata.workDir)
      /\ One(w) = << <<"-work-dir">> >>
  BY <1>1, NamesArePlain, QuotedReads DEF Options, One
<1>3. Spaced(<<w, d>>) = (<<" ">> \o w) \o (<<" ">> \o d)
  BY SpacedTwo
<1>4. Adds(<<" ">> \o w, One(w)) /\ Adds(<<" ">> \o d, One(metadata.workDir))
  BY <1>2, SpacedWord
<1>5. Adds(Spaced(<<w, d>>), One(w) \o One(metadata.workDir))
  BY <1>3, <1>4, AddsConcat
<1>6. QED BY <1>1, <1>2, <1>5 DEF WorkDirText, DirectoryWords

(* The text of the session adds -resume and its name.                       *)
LEMMA SessionAdds == Adds(Spaced(<< <<"-resume">>, <<"s">> >>), Session)
<1>1. PICK w \in Texts, d \in Texts : w = <<"-resume">> /\ d = <<"s">>
  BY NamesArePlain DEF Options
<1>2. ReadsAs(w, w) /\ ReadsAs(d, d) /\ One(w) = <<w>> /\ One(d) = <<d>>
  BY <1>1, NamesArePlain DEF Options, One
<1>3. Spaced(<<w, d>>) = (<<" ">> \o w) \o (<<" ">> \o d)
  BY SpacedTwo
<1>4. Adds(<<" ">> \o w, One(w)) /\ Adds(<<" ">> \o d, One(d))
  BY <1>2, SpacedWord
<1>5. Adds(Spaced(<<w, d>>), One(w) \o One(d))
  BY <1>3, <1>4, AddsConcat
<1>6. One(w) \o One(d) = <<w, d>>
  <2>1. PICK e \in Seq(Texts), t \in Seq(Texts) : e = <<>> /\ t = Append(e, w)
    BY WordsFacts
  <2>2. Append(t, d) = t \o <<d>>
    BY WordsFacts
  <2>3. <<w, d>> = Append(t, d) /\ <<w>> = t
    BY <2>1
  <2>4. QED BY <1>2, <2>2, <2>3
<1>7. QED BY <1>1, <1>5, <1>6 DEF Session

(* The text of a command line, up to there, and its words.                  *)
Begins(t, ws) ==
    /\ t \in Texts /\ ws \in Seq(Texts)
    /\ Open(Read(Start, t)) /\ EndWord(Read(Start, t)).words = ws

Project == << <<"nextflow">>, <<"run">>, <<"p">> >>

(* What a text adds to the beginning.                                       *)
LEMMA BeginsAdds ==
    ASSUME NEW t, NEW ws, Begins(t, ws), NEW u, NEW vs, Adds(u, vs)
    PROVE  Begins(t \o u, ws \o vs)
<1>1. t \in Texts /\ u \in Texts /\ ws \in Seq(Texts) /\ vs \in Seq(Texts)
  BY DEF Begins, Adds
<1>2. t \o u \in Texts /\ ws \o vs \in Seq(Texts) /\ Read(Start, t \o u) = Read(Read(Start, t), u)
  BY <1>1, TextFacts, WordsFacts, ReadConcat
<1>3. QED BY <1>2 DEF Begins, Adds

(* A command line is read as its words.                                     *)
LEMMA BeginsRead ==
    ASSUME NEW t, NEW ws, Begins(t, ws)
    PROVE  t \in Texts /\ tokenizeCommandLine(t) = ws
<1>1. Read(Start, t).place = "plain" /\ EndWord(Read(Start, t)).words = ws
  BY DEF Begins, Open
<1>2. QED BY <1>1 DEF Begins, tokenizeCommandLine, Read

(* A resume command begins with the run and its project.                    *)
LEMMA BeginsProject == Begins(<<"nextflow", " ", "run", " ", "p">>, Project)
<1> DEFINE t == <<"nextflow", " ", "run", " ", "p">>
           n == <<"nextflow">>
           r == <<"run">>
           p == <<"p">>
           Reading(ws, w, inWord) ==
             [place |-> "plain", words |-> ws, word |-> w, inWord |-> inWord]
<1>1. /\ " " \in Symbols /\ "nextflow" \in Symbols /\ "run" \in Symbols /\ "p" \in Symbols
      /\ "nextflow" \notin Special /\ "run" \notin Special /\ "p" \notin Special
  BY SymbolsKnown DEF Special, Separators, Quotes
<1>2. t \in Texts
  <2>1. \A x, y, z, u \in Symbols : <<x, y, z, y, u>> \in Seq(Symbols)
    OBVIOUS
  <2>2. QED BY <1>1, <2>1 DEF Texts
<1>3. /\ DOMAIN t = 1 .. 5
      /\ t[1] = "nextflow" /\ t[2] = " " /\ t[3] = "run" /\ t[4] = " " /\ t[5] = "p"
  OBVIOUS
<1>4. n \in Texts /\ r \in Texts /\ p \in Texts
  BY <1>1, TextFacts
<1> HIDE DEF t
<1>5. PICK st : ReadsThrough(st, Start, t, 5)
  BY <1>3, ReadRun
<1>6. /\ st[0] = Start /\ Read(Start, t) = st[5]
      /\ st[1] = ReadSymbol(st[0], t[1]) /\ st[2] = ReadSymbol(st[1], t[2])
      /\ st[3] = ReadSymbol(st[2], t[3]) /\ st[4] = ReadSymbol(st[3], t[4])
      /\ st[5] = ReadSymbol(st[4], t[5])
  BY <1>5 DEF ReadsThrough
<1>7. ASSUME NEW ws, NEW c \in Symbols \ Special
      PROVE  ReadSymbol(Reading(ws, <<>>, FALSE), c) = Reading(ws, <<c>>, TRUE)
  <2>1. <<>> \o <<c>> = <<c>>
    BY TextFacts
  <2>2. ReadSymbol(Reading(ws, <<>>, FALSE), c) = Write(Reading(ws, <<>>, FALSE), <<c>>, "plain")
    BY DEF ReadSymbol, ReadPlain, Special, Quotes
  <2>3. QED BY <2>1, <2>2 DEF Write
<1>8. ASSUME NEW ws, NEW w
      PROVE  /\ ReadSymbol(Reading(ws, w, TRUE), " ") = Reading(Append(ws, w), <<>>, FALSE)
             /\ EndWord(Reading(ws, w, TRUE)).words = Append(ws, w)
  BY DEF ReadSymbol, ReadPlain, Separators, EndWord, Start
<1>9. Start = Reading(<<>>, <<>>, FALSE)
  BY DEF Start
<1> HIDE DEF Reading
<1>10. PICK ws1 \in Seq(Texts), ws2 \in Seq(Texts), ws3 \in Seq(Texts) :
         ws1 = Append(<<>>, n) /\ ws2 = Append(ws1, r) /\ ws3 = Append(ws2, p)
  BY <1>4, WordsFacts
<1>11. st[1] = Reading(<<>>, n, TRUE) /\ st[2] = Reading(ws1, <<>>, FALSE)
  <2>1. st[1] = ReadSymbol(Reading(<<>>, <<>>, FALSE), "nextflow")
    BY ONLY <1>3, <1>6, <1>9
  <2>2. st[1] = Reading(<<>>, n, TRUE)
    BY <1>1, <1>7, <2>1
  <2>3. st[2] = ReadSymbol(Reading(<<>>, n, TRUE), " ")
    BY ONLY <1>3, <1>6, <2>2
  <2>4. st[2] = Reading(Append(<<>>, n), <<>>, FALSE)
    BY <1>8, <2>3
  <2>5. QED BY ONLY <1>10, <2>2, <2>4
<1>12. st[3] = Reading(ws1, r, TRUE) /\ st[4] = Reading(ws2, <<>>, FALSE)
  <2>1. st[3] = Reading(ws1, r, TRUE)
    BY <1>1, <1>3, <1>6, <1>7, <1>11
  <2>2. st[4] = Reading(ws2, <<>>, FALSE)
    BY <1>3, <1>6, <1>8, <1>10, <2>1
  <2>3. QED BY <2>1, <2>2
<1>13. st[5] = Reading(ws2, p, TRUE)
  BY <1>1, <1>3, <1>6, <1>7, <1>12
<1>14. EndWord(st[5]).words = ws3 /\ Open(st[5])
  <2>1. EndWord(st[5]).words = ws3
    BY <1>8, <1>10, <1>13
  <2>2. Open(Reading(ws2, p, TRUE))
    BY <1>4 DEF Reading, Open, Readings
  <2>3. QED BY <1>13, <2>1, <2>2
<1>15. ws3 = Project
  <2>1. <<n, r, p>> = ws3
    <3> HIDE DEF n, r, p
    <3>1. QED BY <1>4, <1>10
  <2>2. QED BY <2>1 DEF Project
<1>16. QED BY <1>2, <1>6, <1>14, <1>15 DEF Begins, t

(* The whole command, and the words that it is read as.                     *)
MetadataOK ==
    /\ metadata.params \in Seq(Parameters)
    /\ metadata.workDir \in Texts /\ ~IsDashed(metadata.workDir)

PlainFlags(text) == Flags(text) \in Seq(PlainOptions)

Given(text) == metadata.workDir = <<>> \/ <<"-work-dir">> \in ToSet(Flags(text))

KeptWords(text) ==
    IF text = <<>> THEN DirectoryWords
    ELSE Nonempty(Flags(text)) \o (IF Given(text) THEN <<>> ELSE DirectoryWords)

CommandWords(text) ==
    ((Project \o ParamWords(metadata.params)) \o KeptWords(text)) \o Session

(* A resume command is read as the words it was put together from           *)
(* (buildResumeCommand, tokenizeCommandLine).                               *)
LEMMA CommandIsRead ==
    ASSUME MetadataOK, NEW text \in Texts, PlainFlags(text)
    PROVE  /\ buildResumeCommand(text) \in Texts
           /\ tokenizeCommandLine(buildResumeCommand(text)) = CommandWords(text)
<1> DEFINE flags == Flags(text)
           flagText == Spaced([i \in DOMAIN flags |-> WrittenFlag(flags[i])])
           keptText == IF text = <<>> THEN WorkDirText
                       ELSE flagText \o (IF Given(text) THEN <<>> ELSE WorkDirText)
           project == <<"nextflow", " ", "run", " ", "p">>
           session == Spaced(<< <<"-resume">>, <<"s">> >>)
<1>1. buildResumeCommand(text)
        = ((project \o writeParams(metadata.params)) \o keptText) \o session
  BY DEF buildResumeCommand, Flags, Given, WrittenFlag
<1>2. Adds(WorkDirText, DirectoryWords)
  BY DirectoryAdds DEF MetadataOK
<1>3. Adds(flagText, Nonempty(flags))
  BY FlagsAdd DEF PlainFlags
<1> HIDE DEF flagText
<1>4. Adds(keptText, KeptWords(text))
  <2>1. Adds(flagText \o <<>>, Nonempty(flags) \o <<>>)
    BY <1>3, AddsNothing, AddsConcat
  <2>2. Adds(flagText \o WorkDirText, Nonempty(flags) \o DirectoryWords)
    BY <1>2, <1>3, AddsConcat
  <2>3. QED BY <1>2, <2>1, <2>2 DEF KeptWords
<1>5. Adds(writeParams(metadata.params), ParamWords(metadata.params))
  BY ParamsAdd DEF MetadataOK
<1>6. Adds(session, Session)
  BY SessionAdds
<1>7. Begins(project, Project)
  BY BeginsProject
<1> HIDE DEF keptText, project, session
<1>8. Begins(project \o writeParams(metadata.params), Project \o ParamWords(metadata.params))
  BY <1>5, <1>7, BeginsAdds
<1>9. Begins((project \o writeParams(metadata.params)) \o keptText,
             (Project \o ParamWords(metadata.params)) \o KeptWords(text))
  BY <1>4, <1>8, BeginsAdds
<1>10. Begins(buildResumeCommand(text), CommandWords(text))
  <2>1. Begins(((project \o writeParams(metadata.params)) \o keptText) \o session,
               CommandWords(text))
    BY <1>6, <1>9, BeginsAdds DEF CommandWords
  <2>2. QED BY <1>1, <2>1
<1>11. QED BY <1>10, BeginsRead

-----------------------------------------------------------------------------
(* The resume command of a resumed run. *)

KeepableWords == {w \in Clean \cap PlainOptions : w # <<>>}

(* The words that a resume command keeps may be kept again.                 *)
LEMMA KeptWordsFacts ==
    ASSUME MetadataOK, NEW text \in Texts, PlainFlags(text)
    PROVE  /\ KeptWords(text) \in Seq(KeepableWords)
           /\ metadata.workDir = <<>> \/ <<"-work-dir">> \in ToSet(KeptWords(text))
<1> DEFINE flags == Flags(text)
           option == <<"-work-dir">>
<1>1. flags \in Seq(Clean \cap PlainOptions)
  <2>1. flags \in Seq(Clean) /\ flags \in Seq(PlainOptions)
    BY FlagsType DEF PlainFlags
  <2> HIDE DEF flags
  <2>2. /\ Len(flags) \in Nat /\ DOMAIN flags = 1 .. Len(flags)
        /\ \A i \in 1 .. Len(flags) : flags[i] \in Clean /\ flags[i] \in PlainOptions
    BY <2>1
  <2>3. flags = [i \in 1 .. Len(flags) |-> flags[i]]
    BY <2>1
  <2>4. [i \in 1 .. Len(flags) |-> flags[i]] \in Seq(Clean \cap PlainOptions)
    BY <2>2
  <2>5. QED BY <2>3, <2>4
<1>2. Clean \cap PlainOptions \subseteq Texts
      /\ (Clean \cap PlainOptions) \ {<<>>} = KeepableWords
  BY DEF Clean, KeepableWords
<1> HIDE DEF flags
<1>3. /\ Nonempty(flags) \in Seq(KeepableWords)
      /\ option \in ToSet(flags) => option \in ToSet(Nonempty(flags))
  <2>1. option # <<>>
    OBVIOUS
  <2> HIDE DEF option
  <2>2. QED BY <1>1, <1>2, <2>1, NonemptyFacts
<1>4. DirectoryWords \in Seq(KeepableWords) /\ option \in ToSet(DirectoryWords)
  <2>1. option \in KeepableWords
    BY NamesArePlain, OptionsAreDashed DEF KeepableWords, Clean, PlainOptions, Options
  <2>2. /\ metadata.workDir \in Texts /\ ~IsDashed(metadata.workDir)
        /\ metadata.workDir # <<>> => metadata.workDir \in KeepableWords
    BY OptionsAreDashed DEF MetadataOK, KeepableWords, Clean, PlainOptions
  <2>3. One(metadata.workDir) \in Seq(KeepableWords)
    BY <2>2, EmptySeq DEF One
  <2>4. <<option>> \in Seq(KeepableWords) /\ ToSet(<<option>>) = {option}
    BY <2>1 DEF ToSet
  <2> HIDE DEF option
  <2>5. /\ <<option>> \o One(metadata.workDir) \in Seq(KeepableWords)
        /\ option \in ToSet(<<option>> \o One(metadata.workDir))
    <3>1. <<option>> \o One(metadata.workDir) \in Seq(KeepableWords)
      BY <2>3, <2>4, ConcatProperties
    <3>2. ToSet(<<option>> \o One(metadata.workDir))
            = ToSet(<<option>>) \cup ToSet(One(metadata.workDir))
      BY <2>3, <2>4, ConcatMembers, ZenonT(60)
    <3>3. QED BY <2>4, <3>1, <3>2
  <2>6. QED BY <2>5 DEF DirectoryWords, option
<1> HIDE DEF option
<1>5. /\ Nonempty(flags) \o <<>> = Nonempty(flags)
      /\ Nonempty(flags) \o DirectoryWords \in Seq(KeepableWords)
      /\ ToSet(Nonempty(flags) \o DirectoryWords) = ToSet(Nonempty(flags)) \cup ToSet(DirectoryWords)
  BY <1>3, <1>4, ConcatEmptySeq, ConcatProperties, ConcatMembers
<1>6. CASE text = <<>>
  BY <1>4, <1>6 DEF KeptWords, option
<1>7. CASE text # <<>> /\ Given(text)
  BY <1>3, <1>5, <1>7 DEF KeptWords, Given, flags, option
<1>8. CASE text # <<>> /\ ~Given(text)
  BY <1>4, <1>5, <1>8 DEF KeptWords, flags, option
<1>9. QED BY <1>6, <1>7, <1>8

(* The words of a resume command, from the project on.                      *)
LEMMA CommandParts ==
    ASSUME MetadataOK, NEW text \in Texts, PlainFlags(text)
    PROVE  /\ CommandWords(text) = Project \o (ParamWords(metadata.params) \o (KeptWords(text) \o Session))
           /\ Project \in Seq(Texts) /\ ParamWords(metadata.params) \in Seq(Texts)
           /\ KeptWords(text) \in Seq(Texts) /\ Session \in Seq(Texts)
           /\ CommandWords(text) \in Seq(Texts)
<1>1. KeptWords(text) \in Seq(Texts)
  <2>1. KeepableWords \subseteq Texts
    BY DEF KeepableWords, Clean
  <2>2. QED BY <2>1, KeptWordsFacts
<1>2. Project \in Seq(Texts) /\ Session \in Seq(Texts)
  BY BeginsProject, SessionAdds DEF Begins, Adds
<1>3. ParamWords(metadata.params) \in Seq(Texts)
  BY ParamsAdd DEF Adds, MetadataOK
<1>4. \A p, q, r, s \in Seq(Texts) :
        ((p \o q) \o r) \o s = p \o (q \o (r \o s)) /\ p \o (q \o (r \o s)) \in Seq(Texts)
  <2> SUFFICES ASSUME NEW p \in Seq(Texts), NEW q \in Seq(Texts),
                      NEW r \in Seq(Texts), NEW s \in Seq(Texts)
               PROVE  /\ ((p \o q) \o r) \o s = p \o (q \o (r \o s))
                      /\ p \o (q \o (r \o s)) \in Seq(Texts)
    OBVIOUS
  <2>1. (p \o q) \o r = p \o (q \o r) /\ q \o r \in Seq(Texts)
    BY WordsFacts
  <2>2. (p \o (q \o r)) \o s = p \o ((q \o r) \o s) /\ (q \o r) \o s = q \o (r \o s)
    <3>1. \A x \in Seq(Texts) : (p \o x) \o s = p \o (x \o s)
      BY WordsFacts, ZenonT(60)
    <3>2. (q \o r) \o s = q \o (r \o s)
      BY WordsFacts, ZenonT(60)
    <3>3. QED BY <2>1, <3>1, <3>2
  <2>3. r \o s \in Seq(Texts) /\ q \o (r \o s) \in Seq(Texts) /\ p \o (q \o (r \o s)) \in Seq(Texts)
    BY WordsFacts
  <2>4. QED BY <2>1, <2>2, <2>3
<1>5. LET p == Project  q == ParamWords(metadata.params)
          r == KeptWords(text)  s == Session
      IN  ((p \o q) \o r) \o s = p \o (q \o (r \o s)) /\ p \o (q \o (r \o s)) \in Seq(Texts)
  BY <1>1, <1>2, <1>3, <1>4, Zenon
<1>6. QED BY <1>1, <1>2, <1>3, <1>5, Zenon DEF CommandWords

(* Its flags are the words that it keeps.                                   *)
LEMMA CommandFlags ==
    ASSUME MetadataOK, HasSoundParams, NEW text \in Texts, PlainFlags(text)
    PROVE  Flags(buildResumeCommand(text)) = KeptWords(text)
<1> DEFINE k0 == Keeping(<<>>, "nothing")
           params == ParamWords(metadata.params)
           kept == KeptWords(text)
<1>1. parseRuntimeFlags(CommandWords(text)) = Keep(k0, params \o (kept \o Session)).flags
  <2>1. PICK a \in Texts, b \in Texts, c \in Texts :
          a = <<"nextflow">> /\ b = <<"run">> /\ c = <<"p">>
    BY NamesArePlain
  <2>2. params \o (kept \o Session) \in Seq(Texts)
    BY CommandParts, WordsFacts
  <2>3. CommandWords(text) = <<a, b, c>> \o (params \o (kept \o Session))
    BY <2>1, CommandParts DEF Project
  <2> HIDE DEF params, kept
  <2>4. SubSeq(CommandWords(text), 4, Len(CommandWords(text))) = params \o (kept \o Session)
    BY <2>2, <2>3, AfterTheProject
  <2>5. CommandWords(text) \in Seq(Texts)
    BY CommandParts
  <2>6. QED BY <2>4, <2>5, FlagsByKeep
<1>2. k0 \in Keepings /\ k0.after = "nothing" /\ k0.flags = <<>>
  BY WordsFacts DEF Keeping, Keepings, Afters
<1>3. metadata.params \in Seq(SoundParameters)
  <2> DEFINE p == metadata.params
  <2>1. p \in Seq(Parameters) /\ \A i \in DOMAIN p : p[i].value # <<>>
    BY DEF MetadataOK, HasSoundParams
  <2> HIDE DEF p
  <2>2. p = [i \in 1 .. Len(p) |-> p[i]] /\ Len(p) \in Nat
    BY <2>1
  <2>3. \A i \in 1 .. Len(p) : p[i] \in SoundParameters
    BY <2>1 DEF SoundParameters
  <2>4. [i \in 1 .. Len(p) |-> p[i]] \in Seq(SoundParameters)
    BY <2>2, <2>3
  <2>5. QED BY <2>2, <2>4 DEF p
<1>4. /\ params \in Seq(Texts) /\ kept \in Seq(Texts) /\ Session \in Seq(Texts)
      /\ kept \o Session \in Seq(Texts)
  BY CommandParts, WordsFacts
<1>5. Keep(k0, params \o (kept \o Session)) = Keep(Keep(k0, kept), Session)
  <2> HIDE DEF k0, params, kept
  <2>1. Keep(k0, params) = k0
    BY <1>2, <1>3, KeepParams DEF params
  <2>2. Keep(k0, params \o (kept \o Session)) = Keep(Keep(k0, params), kept \o Session)
    BY <1>4, KeepConcat
  <2>3. Keep(k0, kept \o Session) = Keep(Keep(k0, kept), Session)
    BY <1>4, KeepConcat
  <2>4. QED BY <2>1, <2>2, <2>3
<1> DEFINE k1 == Keep(k0, kept)
<1>6. k1 \in Keepings /\ k1.flags = kept /\ k1.after \in {"nothing", "flag"}
  <2>1. kept \in Seq(Clean)
    <3>1. KeepableWords \subseteq Clean
      BY DEF KeepableWords
    <3>2. QED BY <3>1, KeptWordsFacts
  <2>2. <<>> \o kept = kept
    BY <1>4, WordsFacts
  <2> HIDE DEF k0, kept
  <2>3. /\ Keep(k0, kept).flags = k0.flags \o kept /\ Keep(k0, kept) \in Keepings
        /\ Keep(k0, kept).after \in {"nothing", "flag"}
    BY <1>2, <2>1, KeepClean
  <2>4. QED BY <1>2, <2>2, <2>3
<1> HIDE DEF k1
<1>7. Keep(k1, Session).flags = kept
  <2>1. PICK o \in Texts, v \in Texts : o = <<"-resume">> /\ v = <<"s">>
    BY NamesArePlain DEF Options
  <2>2. Session = <<o>> \o <<v>>
    <3>1. PICK e \in Seq(Texts), t \in Seq(Texts) : e = <<>> /\ t = Append(e, o)
      BY WordsFacts
    <3>2. Append(t, v) = t \o <<v>>
      BY WordsFacts
    <3>3. <<o, v>> = Append(t, v) /\ <<o>> = t
      BY <3>1
    <3>4. QED BY <2>1, <3>2, <3>3 DEF Session
  <2>3. Keep(k1, <<o>> \o <<v>>) = Keep(Keep(k1, <<o>>), <<v>>)
    <3>1. <<o>> \in Seq(Texts) /\ <<v>> \in Seq(Texts)
      BY WordsFacts
    <3>2. QED BY <3>1, KeepConcat
  <2>4. Keep(k1, <<o>>) = Keeping(k1.flags, "resume")
    <3>1. k1.after # "param"
      BY <1>6
    <3>2. Keep(k1, <<o>>) = KeepToken(k1, o)
      BY KeepOne
    <3>3. QED BY <1>6, <2>1, <3>1, <3>2, TokenKept
  <2> DEFINE k2 == Keeping(k1.flags, "resume")
  <2>5. k2 \in Keepings /\ k2.after = "resume" /\ k2.flags = kept
    BY <1>6 DEF Keeping, Keepings, Afters
  <2> HIDE DEF k2
  <2>6. Keep(k2, <<v>>) = Keeping(k2.flags, "nothing")
    <3>1. ~IsDashed(v)
      BY <2>1, OptionsAreDashed
    <3>2. Keep(k2, <<v>>) = KeepToken(k2, v)
      BY KeepOne
    <3>3. QED BY <2>5, <3>1, <3>2, TokenKept
  <2>7. Keeping(k2.flags, "nothing").flags = kept
    BY <2>5 DEF Keeping
  <2>8. QED BY <2>2, <2>3, <2>4, <2>6, <2>7 DEF k2
<1>8. tokenizeCommandLine(buildResumeCommand(text)) = CommandWords(text)
  BY CommandIsRead
<1>9. QED BY <1>1, <1>5, <1>7, <1>8 DEF Flags, k1

(* Resumed again, a command reads the same.                                 *)
LEMMA ResumedAgain ==
    ASSUME MetadataOK, HasSoundParams, NEW text \in Texts, PlainFlags(text)
    PROVE  /\ PlainFlags(buildResumeCommand(text))
           /\ tokenizeCommandLine(buildResumeCommand(buildResumeCommand(text)))
                = tokenizeCommandLine(buildResumeCommand(text))
<1> DEFINE again == buildResumeCommand(text)
           kept == KeptWords(text)
<1>1. again \in Texts /\ tokenizeCommandLine(again) = CommandWords(text)
  BY CommandIsRead
<1>2. Flags(again) = kept
  BY CommandFlags
<1>3. kept \in Seq(KeepableWords)
      /\ (metadata.workDir = <<>> \/ <<"-work-dir">> \in ToSet(kept))
  BY KeptWordsFacts
<1> HIDE DEF again, kept
<1>4. PlainFlags(again)
  <2>1. KeepableWords \subseteq PlainOptions
    BY DEF KeepableWords
  <2>2. QED BY <1>2, <1>3, <2>1 DEF PlainFlags
<1>5. again # <<>>
  <2>1. tokenizeCommandLine(<<>>) = <<>>
    BY ReadNothing DEF tokenizeCommandLine, Read, Start, EndWord
  <2>2. CommandWords(text) # <<>>
    <3> DEFINE before == (Project \o ParamWords(metadata.params)) \o KeptWords(text)
    <3>1. before \in Seq(Texts) /\ Session \in Seq(Texts) /\ Session # <<>>
      BY CommandParts, WordsFacts DEF Session
    <3> HIDE DEF before
    <3>2. before \o Session # <<>>
      BY <3>1, ConcatEqualIffEmpty
    <3>3. QED BY <3>2 DEF CommandWords, before
  <2>3. QED BY <1>1, <2>1, <2>2
<1>6. KeptWords(again) = kept
  <2>1. Given(again)
    BY <1>2, <1>3 DEF Given
  <2>2. Nonempty(kept) = kept
    <3>1. KeepableWords \subseteq Texts /\ \A w \in KeepableWords : w # <<>>
      BY DEF KeepableWords, Clean
    <3>2. \A w \in ToSet(kept) : w # <<>>
      BY <1>3, <3>1 DEF ToSet
    <3>3. QED BY <1>3, <3>1, <3>2, NonemptyFacts
  <2>3. kept \o <<>> = kept
    BY <1>3, ConcatEmptySeq
  <2>4. QED BY <1>2, <1>5, <2>1, <2>2, <2>3 DEF KeptWords
<1>7. CommandWords(again) = CommandWords(text)
  BY <1>6 DEF CommandWords, kept
<1>8. tokenizeCommandLine(buildResumeCommand(again)) = CommandWords(again)
  BY <1>1, <1>4, CommandIsRead
<1>9. QED BY <1>1, <1>4, <1>7, <1>8 DEF again

-----------------------------------------------------------------------------
(* Stability. *)

(* A text of texts, each after a space.                                     *)
LEMMA SpacedType ==
    ASSUME NEW ts \in Seq(Texts)
    PROVE  Spaced(ts) \in Texts
<1> DEFINE S == {v \in Seq(Texts) : Spaced(v) \in Texts}
           f == [t \in Texts |-> <<" ">> \o t]
<1>1. \A t \in Texts : <<" ">> \o t \in Texts /\ f[t] = <<" ">> \o t
  <2>1. " " \in Symbols
    BY SymbolsKnown
  <2>2. QED BY <2>1, TextFacts
<1>2. f \in [Texts -> Seq(Symbols)]
  BY <1>1 DEF Texts
<1> HIDE DEF f
<1>3. \A v \in Seq(Texts) : Spaced(v) = FlattenSeq([i \in DOMAIN v |-> f[v[i]]])
  <2> SUFFICES ASSUME NEW v \in Seq(Texts)
               PROVE  Spaced(v) = FlattenSeq([i \in DOMAIN v |-> f[v[i]]])
    OBVIOUS
  <2>1. \A i \in DOMAIN v : v[i] \in Texts
    OBVIOUS
  <2>2. [i \in DOMAIN v |-> <<" ">> \o v[i]] = [i \in DOMAIN v |-> f[v[i]]]
    BY <1>1, <2>1
  <2>3. QED BY <2>2 DEF Spaced
<1>4. <<>> \in S
  <2>1. Spaced(<<>>) = <<>>
    BY FlattenNothing DEF Spaced
  <2>2. QED BY <2>1, TextFacts, WordsFacts
<1>5. ASSUME NEW v \in Seq(Texts), NEW t \in Texts, v \in S PROVE Append(v, t) \in S
  <2>1. Append(v, t) \in Seq(Texts)
    BY WordsFacts
  <2>2. Spaced(Append(v, t)) = Spaced(v) \o f[t]
    <3>1. FlattenSeq([i \in DOMAIN Append(v, t) |-> f[Append(v, t)[i]]])
            = FlattenSeq([i \in DOMAIN v |-> f[v[i]]]) \o f[t]
      BY <1>2, FlattenMapAppend, ZenonT(60)
    <3>2. QED BY <1>3, <2>1, <3>1
  <2>3. Spaced(v) \o f[t] \in Texts
    BY <1>1, <1>5, TextFacts
  <2>4. QED BY <2>1, <2>2, <2>3
<1>6. Seq(Texts) \subseteq S
  <2> HIDE DEF S
  <2>1. QED BY <1>4, <1>5, AppendInduction
<1>7. QED BY <1>6

(* The command is a text, whatever it is made of.                           *)
LEMMA CommandType ==
    ASSUME MetadataOK, NEW text \in Texts
    PROVE  buildResumeCommand(text) \in Texts
<1> DEFINE flags == Flags(text)
           flagText == Spaced([i \in DOMAIN flags |-> WrittenFlag(flags[i])])
           keptText == IF text = <<>> THEN WorkDirText
                       ELSE flagText \o (IF Given(text) THEN <<>> ELSE WorkDirText)
           project == <<"nextflow", " ", "run", " ", "p">>
           session == Spaced(<< <<"-resume">>, <<"s">> >>)
<1>1. buildResumeCommand(text)
        = ((project \o writeParams(metadata.params)) \o keptText) \o session
  BY DEF buildResumeCommand, Flags, Given, WrittenFlag
<1>2. flagText \in Texts
  <2>1. flags \in Seq(Clean)
    BY FlagsType
  <2>2. \A w \in Clean : WrittenFlag(w) \in Texts
    BY QuotedReads DEF ReadsAs, WrittenFlag, Clean
  <2> HIDE DEF flags
  <2>3. [i \in DOMAIN flags |-> WrittenFlag(flags[i])] \in Seq(Texts)
    BY <2>1, <2>2
  <2>4. QED BY <2>3, SpacedType
<1>3. /\ WorkDirText \in Texts /\ writeParams(metadata.params) \in Texts
      /\ project \in Texts /\ session \in Texts
  BY DirectoryAdds, ParamsAdd, BeginsProject, SessionAdds DEF MetadataOK, Adds, Begins
<1> HIDE DEF flagText, project, session
<1>4. keptText \in Texts
  BY <1>2, <1>3, TextFacts
<1> HIDE DEF keptText
<1>5. QED BY <1>1, <1>3, <1>4, TextFacts

(* Flags are words of the command line.                                     *)
LEMMA WordsOfFlags ==
    ASSUME NEW text \in Texts
    PROVE  Flags(text) \in Seq(ToSet(tokenizeCommandLine(text)) \cap Clean)
<1> DEFINE words == tokenizeCommandLine(text)
           rest == SubSeq(words, 4, Len(words))
           X == ToSet(words)
<1>1. words \in Seq(Texts)
  BY WordsType
<1> HIDE DEF words
<1>2. Flags(text) = Keep(Keeping(<<>>, "nothing"), rest).flags
  BY <1>1, FlagsByKeep DEF Flags, words
<1>3. X \subseteq Texts
  BY <1>1 DEF ToSet
<1>4. rest \in Seq(X)
  <2>1. Len(words) \in Nat /\ \A i \in 4 .. Len(words) : words[i] \in X
    BY <1>1 DEF ToSet
  <2> HIDE DEF X
  <2>2. QED BY <2>1, SubSeqProperties
<1> HIDE DEF rest, X
<1>5. Keeping(<<>>, "nothing") \in [flags: Seq(X \cap Clean), after: Afters]
  <2>1. <<>> \in Seq(X \cap Clean)
    BY EmptySeq
  <2>2. QED BY <2>1 DEF Keeping, Afters
<1>6. Keep(Keeping(<<>>, "nothing"), rest) \in [flags: Seq(X \cap Clean), after: Afters]
  BY <1>3, <1>4, <1>5, KeepTypes
<1>7. QED BY <1>2, <1>6 DEF X, words

(* When its options are plain, so are those among the flags.                *)
LEMMA FlagsAreWords ==
    ASSUME NEW text \in Texts,
           \A w \in ToSet(tokenizeCommandLine(text)) : IsDashed(w) => Plain(w)
    PROVE  PlainFlags(text)
<1> DEFINE X == ToSet(tokenizeCommandLine(text)) \cap Clean
<1>1. X \subseteq PlainOptions
  BY DEF Clean, PlainOptions
<1>2. Flags(text) \in Seq(X)
  BY WordsOfFlags
<1> HIDE DEF X
<1>3. QED BY <1>1, <1>2 DEF PlainFlags

(* What holds of the command lines of runs and of those that they resume.   *)
CommandInv ==
    /\ MetadataOK
    /\ line \in Texts
    /\ resumes \in Nat
    /\ resumes > 0 => former \in Texts /\ line = buildResumeCommand(former)

(* Of a text always the same command is made.                               *)
LEMMA CommandsUnchanged ==
    ASSUME metadata' = metadata
    PROVE  \A t : buildResumeCommand(t)' = buildResumeCommand(t)
  BY DEF buildResumeCommand, WorkDirText

(* It holds at first.                                                       *)
LEMMA CommandInvInit == ResumeInit => CommandInv
<1> SUFFICES ASSUME ResumeInit PROVE CommandInv
  OBVIOUS
<1>1. PICK l \in Launched :
        /\ line = l.line
        /\ metadata = [params |-> l.params, workDir |-> l.workDir]
        /\ resumes = 0
  BY DEF ResumeInit
<1>2. /\ l.line \in Texts /\ l.params \in Seq(Parameters)
      /\ l.workDir \in Texts /\ ~IsDashed(l.workDir)
  BY ResumeAssumption DEF Texts, Parameters
<1>3. QED BY <1>1, <1>2 DEF CommandInv, MetadataOK

(* Every step keeps it.                                                     *)
LEMMA CommandInvStep == CommandInv /\ [ResumeNext]_resumeVars => CommandInv'
<1> SUFFICES ASSUME CommandInv, [ResumeNext]_resumeVars PROVE CommandInv'
  OBVIOUS
<1>1. metadata' = metadata
  BY DEF ResumeNext, Resume, resumeVars
<1>2. MetadataOK'
  BY <1>1 DEF MetadataOK, CommandInv
<1>3. CASE UNCHANGED <<line, metadata, former, asked, resumes>>
  BY <1>2, <1>3, CommandsUnchanged DEF CommandInv
<1>4. CASE Resume
  <2>1. /\ line' = buildResumeCommand(line) /\ former' = line /\ resumes' = resumes + 1
        /\ line \in Texts /\ resumes \in Nat
    BY <1>4 DEF Resume, CommandInv
  <2>2. line' \in Texts
    BY <2>1, CommandType DEF CommandInv
  <2>3. line' = buildResumeCommand(former)'
    BY <1>1, <2>1 DEF buildResumeCommand, WorkDirText
  <2>4. QED BY <1>2, <2>1, <2>2, <2>3 DEF CommandInv
<1>5. QED BY <1>3, <1>4 DEF ResumeNext, resumeVars

(* A resumed run was started with the command that the page of the run it   *)
(* resumes offers (buildResumeCommand).                                     *)
THEOREM CommandsAreRemade == ResumeSpec => []CommandInv
<1>1. QED BY CommandInvInit, CommandInvStep, PTL DEF ResumeSpec

(* What holds of them when no option needs quotes.                          *)
Made(text) == \E t \in Texts : PlainFlags(t) /\ text = buildResumeCommand(t)

PlainInv ==
    HasSoundParams =>
        /\ PlainFlags(line)
        /\ resumes > 0 => PlainFlags(former)
        /\ resumes > 1 => Made(former)

(* It holds at first.                                                       *)
LEMMA PlainInvInit == OptionsArePlain /\ CommandInv /\ ResumeInit => PlainInv
<1> SUFFICES ASSUME OptionsArePlain, CommandInv, ResumeInit PROVE PlainInv
  OBVIOUS
<1>1. PICK l \in Launched : line = l.line /\ resumes = 0
  BY DEF ResumeInit
<1>2. \A w \in ToSet(tokenizeCommandLine(line)) : IsDashed(w) => Plain(w)
  BY <1>1 DEF OptionsArePlain, Plain
<1>3. PlainFlags(line)
  BY <1>2, FlagsAreWords DEF CommandInv
<1>4. QED BY <1>1, <1>3 DEF PlainInv

(* Every step keeps it.                                                     *)
LEMMA PlainInvStep ==
    CommandInv /\ PlainInv /\ [ResumeNext]_resumeVars => PlainInv'
<1> SUFFICES ASSUME CommandInv, PlainInv, [ResumeNext]_resumeVars PROVE PlainInv'
  OBVIOUS
<1>1. metadata' = metadata
  BY DEF ResumeNext, Resume, resumeVars
<1>2. HasSoundParams' = HasSoundParams /\ \A t : Made(t)' = Made(t)
  BY <1>1, CommandsUnchanged DEF HasSoundParams, Made, PlainFlags, Flags
<1>3. CASE UNCHANGED <<line, metadata, former, asked, resumes>>
  BY <1>2, <1>3 DEF PlainInv, PlainFlags, Flags
<1>4. CASE Resume
  <2> SUFFICES ASSUME HasSoundParams
               PROVE  /\ PlainFlags(line')
                      /\ PlainFlags(former')
                      /\ resumes' > 1 => Made(former')
    BY <1>2 DEF PlainInv, PlainFlags, Flags
  <2>1. /\ line' = buildResumeCommand(line) /\ former' = line /\ resumes' = resumes + 1
        /\ line \in Texts /\ resumes \in Nat /\ MetadataOK
    BY <1>4 DEF Resume, CommandInv
  <2>2. PlainFlags(line) /\ (resumes > 0 => PlainFlags(former))
    BY DEF PlainInv
  <2>3. PlainFlags(line')
    BY <2>1, <2>2, ResumedAgain
  <2>4. resumes' > 1 => Made(former')
    <3>1. resumes' > 1 => resumes > 0
      BY <2>1
    <3>2. QED BY <2>1, <2>2, <3>1 DEF CommandInv, Made
  <2>5. QED BY <2>1, <2>2, <2>3, <2>4
<1>5. QED BY <1>3, <1>4 DEF ResumeNext, resumeVars

(* ResumeIsStable: whatever the command line, params and work directory,    *)
(* from the second attempt on all resume commands read the same.            *)
THEOREM ResumeStable ==
    ASSUME OptionsArePlain
    PROVE  ResumeSpec => []ResumeIsStable
<1>1. CommandInv /\ PlainInv => ResumeIsStable
  <2> SUFFICES ASSUME CommandInv, PlainInv, resumes > 1, HasSoundParams
               PROVE  tokenizeCommandLine(line) = tokenizeCommandLine(former)
    BY DEF ResumeIsStable
  <2>1. line = buildResumeCommand(former) /\ MetadataOK /\ Made(former)
    BY DEF CommandInv, PlainInv
  <2>2. PICK t \in Texts : PlainFlags(t) /\ former = buildResumeCommand(t)
    BY <2>1 DEF Made
  <2>3. QED BY <2>1, <2>2, ResumedAgain
<1>2. CommandInv /\ ResumeInit => PlainInv
  BY PlainInvInit
<1>3. QED BY <1>1, <1>2, CommandsAreRemade, PlainInvStep, PTL DEF ResumeSpec

-----------------------------------------------------------------------------
(* What the words ask of the trace. *)

IsRequest(w) == TokenOf(w).kind \in {"flag", "assign"}

WordRequest(words, i) ==
    IF TokenOf(words[i]).kind = "assign" THEN ExplicitRequest(TokenOf(words[i]).value)
    ELSE IF i < Len(words) /\ TokenOf(words[i + 1]).kind = "word"
         THEN ExplicitRequest(TokenOf(words[i + 1]).value)
    ELSE BareRequest

(* The last request decides.                                                *)
Asks(words, r) ==
    /\ (\A i \in DOMAIN words : ~IsRequest(words[i])) => r = NoRequest
    /\ \A i \in DOMAIN words :
         IsRequest(words[i]) /\ (\A j \in DOMAIN words : IsRequest(words[j]) => j <= i)
            => r = WordRequest(words, i)

(* The kinds of words.                                                      *)
LEMMA Kinds ==
    ASSUME NEW w \in Texts
    PROVE  /\ TokenOf(w).kind \in {"flag", "assign", "word", "dash"}
           /\ TokenOf(w).kind = "word" <=> ~IsDashed(w)
           /\ IsParam(w) => TokenOf(w).kind = "dash"
           /\ w \in {<<"-resume">>, <<"-work-dir">>} => TokenOf(w).kind = "dash"
<1>1. IsDashed(<<"-with-trace">>) /\ ~IsParam(<<"-with-trace">>)
  BY DEF IsDashed, IsParam, Options, ParamNames
<1>2. w # <<>> /\ Head(w) = "-with-trace=" => IsDashed(w) /\ ~IsParam(w)
  BY DEF IsDashed, IsParam, Options, ParamNames
<1>3. CASE w = <<"-with-trace">>
  <2>1. TokenOf(w).kind = "flag"
    <3>1. TokenOf(<<"-with-trace">>).kind = "flag"
      BY <1>1 DEF TokenOf
    <3>2. QED BY <1>3, <3>1
  <2>2. w # <<"-resume">> /\ w # <<"-work-dir">>
    BY <1>3
  <2>3. QED BY <1>1, <1>3, <2>1, <2>2
<1>4. CASE w # <<"-with-trace">> /\ w # <<>> /\ Head(w) = "-with-trace="
  <2>1. TokenOf(w).kind = "assign"
    BY <1>2, <1>4 DEF TokenOf
  <2>2. w # <<"-resume">> /\ w # <<"-work-dir">>
    BY <1>4
  <2>3. QED BY <1>2, <1>4, <2>1, <2>2
<1>5. CASE w # <<"-with-trace">> /\ ~(w # <<>> /\ Head(w) = "-with-trace=")
  <2>1. CASE IsDashed(w)
    <3>1. TokenOf(w).kind = "dash"
      BY <1>5, <2>1 DEF TokenOf
    <3>2. QED BY <2>1, <3>1
  <2>2. CASE ~IsDashed(w)
    <3>1. TokenOf(w).kind = "word"
      BY <1>5, <2>2 DEF TokenOf
    <3>2. QED BY <2>2, <3>1, OptionsAreDashed
  <2>3. QED BY <2>1, <2>2
<1>6. QED BY <1>3, <1>4, <1>5

(* They ask for one thing only.                                             *)
LEMMA AsksUnique ==
    ASSUME NEW words \in Seq(Texts), NEW q, NEW r, Asks(words, q), Asks(words, r)
    PROVE  q = r
<1> DEFINE R == {i \in DOMAIN words : IsRequest(words[i])}
           Latest(i) == i \in R /\ \A j \in R : j <= i
<1>1. R \subseteq 1 .. Len(words) /\ Len(words) \in Nat
  OBVIOUS
<1>2. IsFiniteSet(R)
  <2>1. IsFiniteSet(1 .. Len(words))
    BY <1>1, FS_Interval
  <2>2. QED BY <1>1, <2>1, FS_Subset
<1>3. R # {} => \E i : Latest(i)
  <2> DEFINE f == [i \in R |-> i]
  <2> HIDE DEF R
  <2>1. \A i \in R : f[i] \in Nat /\ f[i] = i
    BY <1>1
  <2> HIDE DEF f
  <2>2. R # {} => \E m \in R : \A i \in R : f[i] <= f[m]
    BY <1>2, <2>1, Largest
  <2>3. QED BY <2>1, <2>2
<1>4. CASE R = {}
  BY <1>4 DEF Asks
<1>5. CASE R # {}
  <2>1. PICK i : Latest(i)
    BY <1>3, <1>5
  <2>2. /\ i \in DOMAIN words /\ IsRequest(words[i])
        /\ \A j \in DOMAIN words : IsRequest(words[j]) => j <= i
    BY <2>1
  <2>3. QED BY <2>2 DEF Asks
<1>6. QED BY <1>4, <1>5

(* A word more.                                                             *)
Flagged(words) == words # <<>> /\ TokenOf(words[Len(words)]).kind = "flag"

NextAsk(r, words, w) ==
    IF TokenOf(w).kind = "assign" THEN ExplicitRequest(TokenOf(w).value)
    ELSE IF TokenOf(w).kind = "flag" THEN BareRequest
    ELSE IF TokenOf(w).kind = "word" /\ Flagged(words) THEN ExplicitRequest(TokenOf(w).value)
    ELSE r

(* What is asked when one more word is read.                                *)
LEMMA AsksAppend ==
    ASSUME NEW words \in Seq(Texts), NEW w \in Texts, NEW r, Asks(words, r)
    PROVE  Asks(Append(words, w), NextAsk(r, words, w))
<1> DEFINE n == Len(words)
           more == Append(words, w)
           q == NextAsk(r, words, w)
<1>1. /\ n \in Nat /\ DOMAIN words = 1 .. n /\ DOMAIN more = 1 .. n + 1 /\ Len(more) = n + 1
      /\ more[n + 1] = w /\ \A i \in 1 .. n : more[i] = words[i] /\ words[i] \in Texts
  BY LenProperties, AppendProperties
<1>2. words = <<>> <=> n = 0
  BY EmptySeq
<1> HIDE DEF n, more
<1>3. n + 1 \in 1 .. n + 1 /\ \A i \in 1 .. n + 1 : i <= n + 1 /\ (i >= n + 1 => i = n + 1)
  BY <1>1
<1>4. CASE IsRequest(w)
  <2>1. q = WordRequest(more, n + 1)
    <3>1. ~(n + 1 < Len(more))
      BY <1>1
    <3>2. TokenOf(w).kind = "assign" \/ TokenOf(w).kind = "flag"
      BY <1>4 DEF IsRequest
    <3>3. QED BY <1>1, <3>1, <3>2 DEF NextAsk, WordRequest
  <2> HIDE DEF q
  <2>2. ~(\A i \in DOMAIN more : ~IsRequest(more[i]))
    BY <1>1, <1>3, <1>4
  <2>3. ASSUME NEW i \in DOMAIN more, \A j \in DOMAIN more : IsRequest(more[j]) => j <= i
        PROVE  i = n + 1
    <3>1. n + 1 <= i
      BY <1>1, <1>3, <1>4, <2>3
    <3>2. QED BY <1>1, <1>3, <3>1
  <2>4. Asks(more, q)
    BY <2>1, <2>2, <2>3 DEF Asks
  <2>5. QED BY <2>4 DEF q, more
<1>5. CASE ~IsRequest(w)
  <2>1. \A i \in DOMAIN more : IsRequest(more[i]) => i \in 1 .. n
    BY <1>1, <1>5
  <2>2. \A i \in 1 .. n : i \in DOMAIN more /\ i \in DOMAIN words /\ more[i] = words[i]
    BY <1>1
  <2>3. TokenOf(w).kind # "assign" /\ TokenOf(w).kind # "flag"
    BY <1>5 DEF IsRequest
  <2>4. CASE TokenOf(w).kind = "word" /\ Flagged(words)
    <3>1. n \in 1 .. n /\ TokenOf(words[n]).kind = "flag"
      BY <1>1, <1>2, <2>4 DEF Flagged, n
    <3>2. q = WordRequest(more, n)
      <4>1. TokenOf(more[n]).kind # "assign" /\ n < Len(more) /\ more[n + 1] = w
        BY <1>1, <3>1
      <4>2. QED BY <2>3, <2>4, <4>1 DEF NextAsk, WordRequest
    <3> HIDE DEF q
    <3>3. IsRequest(more[n]) /\ n \in DOMAIN more
      BY <2>2, <3>1 DEF IsRequest
    <3>4. ASSUME NEW i \in DOMAIN more, IsRequest(more[i]),
                 \A j \in DOMAIN more : IsRequest(more[j]) => j <= i
          PROVE  i = n
      <4>1. n <= i /\ i \in 1 .. n
        BY <2>1, <3>3, <3>4
      <4>2. QED BY <1>1, <4>1
    <3>5. Asks(more, q)
      BY <3>2, <3>3, <3>4 DEF Asks
    <3>6. QED BY <3>5 DEF q, more
  <2>5. CASE ~(TokenOf(w).kind = "word" /\ Flagged(words))
    <3>1. q = r
      BY <2>3, <2>5 DEF NextAsk
    <3> HIDE DEF q
    <3>2. (\A i \in DOMAIN more : ~IsRequest(more[i])) => r = NoRequest
      BY <2>2 DEF Asks, n
    <3>3. ASSUME NEW i \in DOMAIN more, IsRequest(more[i]),
                 \A j \in DOMAIN more : IsRequest(more[j]) => j <= i
          PROVE  r = WordRequest(more, i)
      <4>1. i \in 1 .. n /\ more[i] = words[i]
        BY <2>1, <2>2, <3>3
      <4>2. r = WordRequest(words, i)
        <5>1. i \in DOMAIN words /\ IsRequest(words[i])
          BY <2>2, <3>3, <4>1
        <5>2. \A j \in DOMAIN words : IsRequest(words[j]) => j <= i
          BY <1>1, <2>2, <3>3
        <5>3. QED BY <5>1, <5>2 DEF Asks
      <4>3. WordRequest(more, i) = WordRequest(words, i)
        <5>1. CASE i < n
          <6>1. i < Len(more) /\ i < Len(words) /\ i + 1 \in 1 .. n
            BY <1>1, <4>1, <5>1 DEF n
          <6>2. more[i + 1] = words[i + 1]
            BY <2>2, <6>1
          <6>3. QED BY <4>1, <6>1, <6>2 DEF WordRequest
        <5>2. CASE i = n
          <6>1. ~(i < Len(words)) /\ i < Len(more) /\ more[i + 1] = w
            BY <1>1, <4>1, <5>2 DEF n
          <6>2. TokenOf(words[i]).kind = "assign" \/ TokenOf(w).kind # "word"
            <7>1. words # <<>>
              BY <1>1, <1>2, <4>1
            <7>2. TokenOf(words[i]).kind \in {"flag", "assign"}
              BY <3>3, <4>1 DEF IsRequest
            <7>3. QED BY <2>5, <5>2, <7>1, <7>2 DEF Flagged, n
          <6>3. QED BY <4>1, <6>1, <6>2 DEF WordRequest
        <5>3. QED BY <1>1, <4>1, <5>1, <5>2
      <4>4. QED BY <4>2, <4>3
    <3>4. Asks(more, q)
      BY <3>1, <3>2, <3>3 DEF Asks
    <3>5. QED BY <3>4 DEF q, more
  <2>6. QED BY <2>4, <2>5
<1>6. QED BY <1>4, <1>5

(* A word that asks for nothing.                                            *)
LEMMA QuietAppend ==
    ASSUME NEW words \in Seq(Texts), NEW w \in Texts, NEW r, Asks(words, r),
           \/ TokenOf(w).kind = "dash"
           \/ TokenOf(w).kind = "word" /\ ~Flagged(words)
    PROVE  Asks(Append(words, w), r)
<1>1. NextAsk(r, words, w) = r
  BY DEF NextAsk
<1>2. QED BY <1>1, AsksAppend

(* An option that asks for nothing, and its value.                          *)
LEMMA QuietPair ==
    ASSUME NEW words \in Seq(Texts), NEW o \in Texts, NEW v \in Texts, NEW r, Asks(words, r),
           TokenOf(o).kind = "dash", ~IsDashed(v)
    PROVE  Asks((words \o <<o>>) \o <<v>>, r)
<1> DEFINE with == Append(words, o)
<1>1. /\ with \in Seq(Texts) /\ with # <<>> /\ with[Len(with)] = o
      /\ with = words \o <<o>> /\ Append(with, v) = with \o <<v>>
  <2>1. /\ with \in Seq(Texts) /\ with # <<>> /\ Len(with) = Len(words) + 1
        /\ with[Len(words) + 1] = o
    BY AppendProperties
  <2>2. with = words \o <<o>>
    BY WordsFacts
  <2> HIDE DEF with
  <2>3. Append(with, v) = with \o <<v>>
    BY <2>1, WordsFacts
  <2>4. QED BY <2>1, <2>2, <2>3
<1>2. Asks(with, r)
  BY QuietAppend
<1> HIDE DEF with
<1>3. ~Flagged(with)
  BY <1>1 DEF Flagged
<1>4. TokenOf(v).kind = "word"
  BY Kinds
<1>5. Asks(Append(with, v), r)
  BY <1>1, <1>2, <1>3, <1>4, QuietAppend
<1>6. QED BY <1>1, <1>5

(* Before the flags a resume command asks for nothing.                      *)
PlainParameters == {p \in SoundParameters : ~IsDashed(p.value)}

(* The project asks for nothing.                                            *)
LEMMA ProjectIsQuiet == Asks(Project, NoRequest) /\ Project \in Seq(Texts)
<1>1. \A i \in DOMAIN Project : Project[i] \in Texts /\ ~IsDashed(Project[i])
  <2>1. <<"nextflow">> \in Texts /\ <<"run">> \in Texts /\ <<"p">> \in Texts
    BY NamesArePlain
  <2>2. DOMAIN Project = {1, 2, 3}
    BY DEF Project
  <2>3. Project[1] = <<"nextflow">> /\ Project[2] = <<"run">> /\ Project[3] = <<"p">>
    BY DEF Project
  <2>4. QED BY <2>1, <2>2, <2>3, OptionsAreDashed
<1>2. \A i \in DOMAIN Project : ~IsRequest(Project[i])
  BY <1>1, Kinds DEF IsRequest
<1>3. Project \in Seq(Texts)
  BY BeginsProject DEF Begins
<1>4. QED BY <1>2, <1>3 DEF Asks

(* Nor do the params.                                                       *)
LEMMA ParamsAreQuiet ==
    ASSUME NEW params \in Seq(PlainParameters)
    PROVE  Asks(Project \o ParamWords(params), NoRequest)
<1> DEFINE S == {v \in Seq(PlainParameters) : Asks(Project \o ParamWords(v), NoRequest)}
<1>1. <<>> \in S
  <2>1. ParamWords(<<>>) = <<>>
    BY FlattenNothing DEF ParamWords
  <2>2. Project \o <<>> = Project
    BY ProjectIsQuiet, WordsFacts
  <2>3. QED BY <2>1, <2>2, ProjectIsQuiet, EmptySeq
<1>2. ASSUME NEW v \in Seq(PlainParameters), NEW p \in PlainParameters, v \in S
      PROVE  Append(v, p) \in S
  <2>1. /\ v \in Seq(Parameters) /\ p \in Parameters /\ p \in SoundParameters
        /\ Append(v, p) \in Seq(PlainParameters)
    <3>1. PlainParameters \subseteq Parameters
      BY DEF PlainParameters, SoundParameters
    <3>2. QED BY <3>1 DEF PlainParameters
  <2>2. /\ ParamWords(Append(v, p)) = ParamWords(v) \o PairWords(p)
        /\ ParamWords(v) \in Seq(Texts) /\ PairWords(p) \in Seq(Texts)
    BY <2>1, ParamWordsAppend
  <2> DEFINE before == Project \o ParamWords(v)
  <2>3. before \in Seq(Texts) /\ Asks(before, NoRequest)
    BY <1>2, <2>2, ProjectIsQuiet, WordsFacts
  <2>4. Project \o ParamWords(Append(v, p)) = before \o PairWords(p)
    BY <2>2, ProjectIsQuiet, WordsFacts, SMTT(30)
  <2> HIDE DEF before
  <2>5. /\ PairWords(p) = <<p.key>> \o <<p.value>>
        /\ p.key \in Texts /\ p.value \in Texts /\ IsParam(p.key) /\ ~IsDashed(p.value)
    BY <2>1, PairWordsSound DEF PlainParameters
  <2>6. before \o PairWords(p) = (before \o <<p.key>>) \o <<p.value>>
    <3>1. <<p.key>> \in Seq(Texts) /\ <<p.value>> \in Seq(Texts)
      BY <2>5, WordsFacts
    <3>2. (before \o <<p.key>>) \o <<p.value>> = before \o (<<p.key>> \o <<p.value>>)
      BY <2>3, <3>1, WordsFacts
    <3>3. QED BY <2>5, <3>2
  <2>7. TokenOf(p.key).kind = "dash"
    BY <2>5, Kinds
  <2>8. Asks((before \o <<p.key>>) \o <<p.value>>, NoRequest)
    BY <2>3, <2>5, <2>7, QuietPair
  <2>9. QED BY <2>1, <2>4, <2>6, <2>8
<1>3. Seq(PlainParameters) \subseteq S
  <2> HIDE DEF S
  <2>1. QED BY <1>1, <1>2, AppendInduction
<1>4. QED BY <1>3

(* After the flags it asks for nothing more.                                *)
LEMMA EndIsQuiet ==
    ASSUME MetadataOK, NEW words \in Seq(Texts), NEW r, Asks(words, r)
    PROVE  /\ Asks(words \o DirectoryWords, r) /\ words \o DirectoryWords \in Seq(Texts)
           /\ Asks(words \o Session, r)
<1>1. PICK d \in Texts, o \in Texts, s \in Texts :
        d = <<"-work-dir">> /\ o = <<"-resume">> /\ s = <<"s">>
  BY NamesArePlain DEF Options
<1>2. /\ TokenOf(d).kind = "dash" /\ TokenOf(o).kind = "dash" /\ ~IsDashed(s)
  BY <1>1, Kinds, OptionsAreDashed
<1>3. <<d>> \in Seq(Texts) /\ <<o>> \in Seq(Texts) /\ <<s>> \in Seq(Texts)
  BY WordsFacts
<1>4. Session = <<o>> \o <<s>>
  <2>1. PICK e \in Seq(Texts), t \in Seq(Texts) : e = <<>> /\ t = Append(e, o)
    BY WordsFacts
  <2>2. Append(t, s) = t \o <<s>>
    BY WordsFacts
  <2>3. <<o, s>> = Append(t, s) /\ <<o>> = t
    BY <2>1
  <2>4. QED BY <1>1, <2>2, <2>3 DEF Session
<1>5. Asks(words \o Session, r)
  <2>1. words \o (<<o>> \o <<s>>) = (words \o <<o>>) \o <<s>>
    BY <1>3, WordsFacts
  <2>2. Asks((words \o <<o>>) \o <<s>>, r)
    BY <1>2, QuietPair
  <2>3. QED BY <1>4, <2>1, <2>2
<1>6. Asks(words \o <<d>>, r) /\ words \o <<d>> \in Seq(Texts)
  <2>1. Append(words, d) = words \o <<d>> /\ words \o <<d>> \in Seq(Texts)
    BY <1>3, WordsFacts
  <2>2. QED BY <1>2, <2>1, QuietAppend
<1>7. Asks(words \o DirectoryWords, r) /\ words \o DirectoryWords \in Seq(Texts)
  <2> DEFINE v == metadata.workDir
  <2>1. v \in Texts /\ ~IsDashed(v)
    BY DEF MetadataOK
  <2>2. DirectoryWords = <<d>> \o One(v)
    BY <1>1 DEF DirectoryWords
  <2> HIDE DEF v
  <2>3. One(v) \in Seq(Texts)
    BY <2>1, WordsFacts DEF One
  <2>4. words \o (<<d>> \o One(v)) = (words \o <<d>>) \o One(v)
        /\ (words \o <<d>>) \o One(v) \in Seq(Texts)
    BY <1>3, <1>6, <2>3, WordsFacts
  <2>5. CASE v = <<>>
    <3>1. (words \o <<d>>) \o One(v) = words \o <<d>>
      BY <1>6, <2>5, WordsFacts DEF One
    <3>2. QED BY <1>6, <2>2, <2>4, <3>1
  <2>6. CASE v # <<>>
    <3>1. One(v) = <<v>>
      BY <2>6 DEF One
    <3>2. Asks((words \o <<d>>) \o <<v>>, r)
      BY <1>2, <2>1, QuietPair
    <3>3. QED BY <2>2, <2>4, <3>1, <3>2
  <2>7. QED BY <2>5, <2>6
<1>8. QED BY <1>5, <1>7

-----------------------------------------------------------------------------
(* The flags ask for what the words that they are taken from do. *)

LastOf(words) == words[Len(words)]

(* The last of some words.                                                  *)
LEMMA LastWord ==
    ASSUME NEW words \in Seq(Texts), NEW w \in Texts, NEW before \in Seq(Texts)
    PROVE  /\ LastOf(Append(words, w)) = w
           /\ before \o words \in Seq(Texts)
           /\ before \o Append(words, w) = Append(before \o words, w)
           /\ words # <<>> => before \o words # <<>> /\ LastOf(before \o words) = LastOf(words)
<1>1. LastOf(Append(words, w)) = w
  BY AppendProperties DEF LastOf
<1>2. before \o words \in Seq(Texts)
  BY WordsFacts
<1>3. before \o Append(words, w) = Append(before \o words, w)
  <2>1. <<w>> \in Seq(Texts)
    BY WordsFacts
  <2>2. (before \o words) \o <<w>> = before \o (words \o <<w>>)
    BY <2>1, WordsFacts
  <2>3. Append(words, w) = words \o <<w>> /\ Append(before \o words, w) = (before \o words) \o <<w>>
    BY <1>2, WordsFacts
  <2>4. QED BY <2>2, <2>3
<1>4. ASSUME words # <<>>
      PROVE  before \o words # <<>> /\ LastOf(before \o words) = LastOf(words)
  <2>1. Len(before) \in Nat /\ Len(words) \in Nat /\ Len(words) > 0
    BY <1>4, EmptySeq, LenProperties
  <2>2. Len(before \o words) = Len(before) + Len(words)
    BY ConcatProperties
  <2>3. (before \o words)[Len(before) + Len(words)] = words[Len(words)]
    BY <2>1, ConcatProperties
  <2>4. before \o words # <<>>
    BY <2>1, <2>2
  <2>5. QED BY <2>2, <2>3, <2>4 DEF LastOf
<1>5. QED BY <1>1, <1>2, <1>3, <1>4

(* Every value has its option, and every param a value.                     *)
Fits(words, w) ==
    /\ ~IsDashed(w) => words # <<>> /\ IsDashed(LastOf(words))
    /\ words # <<>> /\ IsParam(LastOf(words)) => ~IsDashed(w)

(* What the last word was, by what it may take along.                       *)
Taking(words, k) ==
    /\ k \in Keepings
    /\ k.after = "flag" =>
         /\ words # <<>> /\ k.flags # <<>>
         /\ LastOf(k.flags) = LastOf(words) /\ IsDashed(LastOf(words))
    /\ k.after = "param" => words # <<>> /\ IsParam(LastOf(words))
    /\ k.after = "resume" => words # <<>> /\ LastOf(words) = <<"-resume">>
    /\ k.after = "nothing" => words = <<>> \/ ~IsDashed(LastOf(words))

(* One thing is asked by the words after h and by the flags after b.        *)
AskAlike(h, words, b, flags) == \E r : Asks(h \o words, r) /\ Asks(b \o flags, r)

(* The next word keeps it so.                                               *)
LEMMA TakingStep ==
    ASSUME NEW words \in Seq(Texts), NEW w \in Texts, NEW k, Taking(words, k), Fits(words, w)
    PROVE  Taking(Append(words, w), KeepToken(k, w))
<1> DEFINE more == Append(words, w)
           kept == Append(k.flags, w)
<1>1. k \in Keepings /\ k.flags \in Seq(Texts) /\ k.after \in Afters
  BY DEF Taking, Keepings
<1>2. more # <<>> /\ LastOf(more) = w /\ kept # <<>> /\ LastOf(kept) = w /\ kept \in Seq(Texts)
  BY <1>1, WordsFacts, LastWord
<1>3. \A f \in Seq(Texts), a \in Afters :
        /\ Keeping(f, a).flags = f /\ Keeping(f, a).after = a /\ Keeping(f, a) \in Keepings
  BY DEF Keeping, Keepings
<1> HIDE DEF more, kept
<1>4. CASE ~IsDashed(w)
  <2>1. k.after # "nothing"
    BY <1>4 DEF Fits, Taking
  <2>2. \E f \in {k.flags, kept} : KeepToken(k, w) = Keeping(f, "nothing")
    <3>1. k.after = "param" \/ k.after = "resume" \/ k.after = "flag"
      BY <1>1, <2>1 DEF Afters
    <3>2. QED BY <1>1, <1>4, <3>1, TokenKept DEF kept
  <2>3. KeepToken(k, w).after = "nothing" /\ KeepToken(k, w) \in Keepings
    BY <1>1, <1>2, <1>3, <2>2 DEF Afters
  <2>4. QED BY <1>2, <1>4, <2>3 DEF Taking, more
<1>5. CASE IsDashed(w)
  <2>1. k.after # "param"
    BY <1>5 DEF Fits, Taking
  <2>2. CASE IsParam(w)
    <3>1. KeepToken(k, w) = Keeping(k.flags, "param")
      BY <1>1, <2>1, <2>2, TokenKept
    <3>2. KeepToken(k, w).after = "param" /\ KeepToken(k, w) \in Keepings
      BY <1>1, <1>3, <3>1 DEF Afters
    <3>3. QED BY <1>2, <2>2, <3>2 DEF Taking, more
  <2>3. CASE w = <<"-resume">>
    <3>1. KeepToken(k, w) = Keeping(k.flags, "resume")
      BY <1>1, <2>1, <2>3, TokenKept
    <3>2. KeepToken(k, w).after = "resume" /\ KeepToken(k, w) \in Keepings
      BY <1>1, <1>3, <3>1 DEF Afters
    <3>3. QED BY <1>2, <2>3, <3>2 DEF Taking, more
  <2>4. CASE w \in Clean
    <3>1. KeepToken(k, w) = Keeping(kept, "flag")
      BY <1>1, <1>5, <2>1, <2>4, TokenKept DEF kept
    <3>2. /\ KeepToken(k, w).after = "flag" /\ KeepToken(k, w) \in Keepings
          /\ KeepToken(k, w).flags = kept
      BY <1>2, <1>3, <3>1 DEF Afters
    <3>3. QED BY <1>2, <1>5, <3>2 DEF Taking, more
  <2>5. QED BY <2>2, <2>3, <2>4 DEF Clean
<1>6. QED BY <1>4, <1>5

(* And then one thing is asked still.                                       *)
LEMMA AskAlikeStep ==
    ASSUME NEW h \in Seq(Texts), NEW b \in Seq(Texts), NEW words \in Seq(Texts), NEW w \in Texts,
           NEW k, Taking(words, k), Fits(words, w), AskAlike(h, words, b, k.flags)
    PROVE  AskAlike(h, Append(words, w), b, KeepToken(k, w).flags)
<1>1. PICK r : Asks(h \o words, r) /\ Asks(b \o k.flags, r)
  BY DEF AskAlike
<1>2. k \in Keepings /\ k.flags \in Seq(Texts) /\ k.after \in Afters
  BY DEF Taking, Keepings
<1>3. /\ h \o words \in Seq(Texts) /\ h \o Append(words, w) = Append(h \o words, w)
      /\ b \o k.flags \in Seq(Texts) /\ b \o Append(k.flags, w) = Append(b \o k.flags, w)
  BY <1>2, LastWord
<1>4. \A f, a : Keeping(f, a).flags = f
  BY DEF Keeping
<1>5. Asks(Append(h \o words, w), NextAsk(r, h \o words, w))
  BY <1>1, <1>3, AsksAppend
<1>6. Asks(Append(b \o k.flags, w), NextAsk(r, b \o k.flags, w))
  BY <1>1, <1>2, <1>3, AsksAppend
<1>7. ASSUME KeepToken(k, w).flags = k.flags, Asks(h \o Append(words, w), r)
      PROVE  AskAlike(h, Append(words, w), b, KeepToken(k, w).flags)
  BY <1>1, <1>7 DEF AskAlike
<1>8. ASSUME KeepToken(k, w).flags = Append(k.flags, w),
             NextAsk(r, b \o k.flags, w) = NextAsk(r, h \o words, w)
      PROVE  AskAlike(h, Append(words, w), b, KeepToken(k, w).flags)
  <2>1. Asks(b \o Append(k.flags, w), NextAsk(r, h \o words, w))
    BY <1>3, <1>6, <1>8
  <2>2. Asks(h \o Append(words, w), NextAsk(r, h \o words, w))
    BY <1>3, <1>5
  <2>3. QED BY <1>8, <2>1, <2>2 DEF AskAlike
<1>9. CASE ~IsDashed(w)
  <2>1. TokenOf(w).kind = "word" /\ words # <<>> /\ IsDashed(LastOf(words))
    BY <1>9, Kinds DEF Fits
  <2>2. h \o words # <<>> /\ LastOf(h \o words) = LastOf(words) /\ LastOf(words) \in Texts
    <3>1. Len(words) \in 1 .. Len(words) /\ LastOf(words) \in Texts
      BY <2>1, EmptySeq, LenProperties DEF LastOf
    <3>2. QED BY <2>1, <3>1, LastWord
  <2>3. CASE k.after = "param" \/ k.after = "resume"
    <3>1. KeepToken(k, w).flags = k.flags
      BY <1>2, <1>4, <1>9, <2>3, TokenKept
    <3>2. TokenOf(LastOf(words)).kind = "dash"
      BY <2>2, <2>3, Kinds DEF Taking
    <3>3. ~Flagged(h \o words)
      BY <2>2, <3>2 DEF Flagged, LastOf
    <3>4. Asks(h \o Append(words, w), r)
      BY <1>1, <1>3, <2>1, <3>3, QuietAppend
    <3>5. QED BY <1>7, <3>1, <3>4
  <2>4. CASE k.after = "flag"
    <3>1. KeepToken(k, w).flags = Append(k.flags, w)
      BY <1>2, <1>4, <1>9, <2>4, TokenKept
    <3>2. k.flags # <<>> /\ LastOf(k.flags) = LastOf(words)
      BY <2>4 DEF Taking
    <3>3. b \o k.flags # <<>> /\ LastOf(b \o k.flags) = LastOf(words)
      BY <1>2, <3>2, LastWord
    <3>4. Flagged(b \o k.flags) <=> Flagged(h \o words)
      BY <2>2, <3>3 DEF Flagged, LastOf
    <3>5. NextAsk(r, b \o k.flags, w) = NextAsk(r, h \o words, w)
      BY <3>4 DEF NextAsk
    <3>6. QED BY <1>8, <3>1, <3>5
  <2>5. k.after # "nothing"
    BY <2>1 DEF Taking
  <2>6. QED BY <1>2, <2>3, <2>4, <2>5 DEF Afters
<1>10. CASE IsDashed(w)
  <2>1. k.after # "param" /\ TokenOf(w).kind # "word"
    BY <1>10, Kinds DEF Fits, Taking
  <2>2. CASE IsParam(w) \/ w = <<"-resume">>
    <3>1. KeepToken(k, w).flags = k.flags
      BY <1>2, <1>4, <2>1, <2>2, TokenKept
    <3>2. TokenOf(w).kind = "dash"
      BY <2>2, Kinds
    <3>3. Asks(h \o Append(words, w), r)
      BY <1>1, <1>3, <3>2, QuietAppend
    <3>4. QED BY <1>7, <3>1, <3>3
  <2>3. CASE w \in Clean
    <3>1. KeepToken(k, w).flags = Append(k.flags, w)
      BY <1>2, <1>4, <1>10, <2>1, <2>3, TokenKept
    <3>2. NextAsk(r, b \o k.flags, w) = NextAsk(r, h \o words, w)
      BY <2>1 DEF NextAsk
    <3>3. QED BY <1>8, <3>1, <3>2
  <2>4. QED BY <2>2, <2>3 DEF Clean
<1>11. QED BY <1>9, <1>10

(* Words that fit, one after the other.                                     *)
Fitting(words) ==
    \A i \in DOMAIN words :
        /\ ~IsDashed(words[i]) => i > 1 /\ IsDashed(words[i - 1])
        /\ i > 1 /\ IsParam(words[i - 1]) => ~IsDashed(words[i])

(* The last of them fits after the others.                                  *)
LEMMA FittingStep ==
    ASSUME NEW words \in Seq(Texts), NEW w \in Texts, Fitting(Append(words, w))
    PROVE  Fitting(words) /\ Fits(words, w)
<1> DEFINE n == Len(words)
           more == Append(words, w)
<1>1. /\ n \in Nat /\ DOMAIN words = 1 .. n /\ DOMAIN more = 1 .. n + 1
      /\ more[n + 1] = w /\ \A i \in 1 .. n : more[i] = words[i]
  BY AppendProperties, LenProperties
<1>2. words # <<>> <=> n > 0
  BY <1>1, EmptySeq
<1> HIDE DEF more
<1>3. Fitting(more)
  BY DEF more
<1>4. Fitting(words)
  <2>1. ASSUME NEW i \in 1 .. n
        PROVE  /\ ~IsDashed(words[i]) => i > 1 /\ IsDashed(words[i - 1])
               /\ i > 1 /\ IsParam(words[i - 1]) => ~IsDashed(words[i])
    <3>1. i \in 1 .. n + 1 /\ (i > 1 => i - 1 \in 1 .. n)
      BY <1>1
    <3>2. more[i] = words[i] /\ (i > 1 => more[i - 1] = words[i - 1])
      BY <1>1, <3>1
    <3>3. QED BY <1>1, <1>3, <3>1, <3>2 DEF Fitting
  <2>2. QED BY <1>1, <2>1 DEF Fitting
<1>5. Fits(words, w)
  <2>1. n + 1 \in 1 .. n + 1 /\ (n + 1) - 1 = n /\ (n + 1 > 1 <=> n > 0) /\ (n > 0 => n \in 1 .. n)
    BY <1>1
  <2>2. /\ ~IsDashed(w) => n > 0 /\ IsDashed(more[n])
        /\ n > 0 /\ IsParam(more[n]) => ~IsDashed(w)
    BY <1>1, <1>3, <2>1 DEF Fitting
  <2>3. n > 0 => more[n] = LastOf(words)
    BY <1>1, <2>1 DEF LastOf
  <2>4. QED BY <1>2, <2>2, <2>3 DEF Fits
<1>6. QED BY <1>4, <1>5

(* So one thing is asked by any words that fit and by their flags.          *)
Fresh == Keeping(<<>>, "nothing")

(* What the words ask for, their flags ask for.                             *)
LEMMA FlagsAskAlike ==
    ASSUME NEW h \in Seq(Texts), NEW b \in Seq(Texts), Asks(h, NoRequest), Asks(b, NoRequest),
           NEW words \in Seq(Texts), Fitting(words)
    PROVE  AskAlike(h, words, b, Keep(Fresh, words).flags)
<1> DEFINE Alike(v) == Taking(v, Keep(Fresh, v)) /\ AskAlike(h, v, b, Keep(Fresh, v).flags)
           S == {v \in Seq(Texts) : Fitting(v) => Alike(v)}
<1>1. <<>> \in S
  <2>1. Keep(Fresh, <<>>) = Fresh /\ Fresh.flags = <<>> /\ Fresh.after = "nothing"
        /\ Fresh \in Keepings
    BY KeepNothing, WordsFacts DEF Fresh, Keeping, Keepings, Afters
  <2>2. h \o <<>> = h /\ b \o <<>> = b
    BY WordsFacts
  <2>3. Taking(<<>>, Fresh)
    BY <2>1 DEF Taking
  <2>4. AskAlike(h, <<>>, b, <<>>)
    BY <2>2 DEF AskAlike
  <2>5. Alike(<<>>)
    BY <2>1, <2>3, <2>4
  <2>6. QED BY <2>5, EmptySeq
<1>2. ASSUME NEW v \in Seq(Texts), NEW w \in Texts, v \in S PROVE Append(v, w) \in S
  <2>1. Append(v, w) \in Seq(Texts)
    BY WordsFacts
  <2>2. ASSUME Fitting(Append(v, w)) PROVE Alike(Append(v, w))
    <3> DEFINE k == Keep(Fresh, v)
    <3>1. Fitting(v) /\ Fits(v, w)
      BY <2>2, FittingStep
    <3>2. Taking(v, k) /\ AskAlike(h, v, b, k.flags)
      BY <1>2, <3>1
    <3> HIDE DEF k
    <3>3. Keep(Fresh, Append(v, w)) = KeepToken(k, w)
      BY KeepAppend DEF k
    <3>4. Taking(Append(v, w), KeepToken(k, w))
      BY <3>1, <3>2, TakingStep
    <3>5. AskAlike(h, Append(v, w), b, KeepToken(k, w).flags)
      BY <3>1, <3>2, AskAlikeStep
    <3>6. QED BY <3>3, <3>4, <3>5
  <2>3. QED BY <2>1, <2>2
<1>3. Seq(Texts) \subseteq S
  <2> HIDE DEF S
  <2>1. QED BY <1>1, <1>2, AppendInduction
<1>4. QED BY <1>3

(* A sound command line begins with words that ask for nothing, and fits    *)
(* from there on.                                                           *)
LEMMA SoundWords ==
    ASSUME NEW words \in Seq(Texts), IsSound(words)
    PROVE  LET from == SubSeq(words, 4, Len(words))
           IN  \/ from = <<>> /\ Asks(words, NoRequest)
               \/ \E h \in Seq(Texts) : /\ words = h \o from /\ Asks(h, NoRequest)
                                        /\ from \in Seq(Texts) /\ Fitting(from)
<1> DEFINE n == Len(words)
           from == SubSeq(words, 4, n)
<1>1. /\ n \in Nat /\ DOMAIN words = 1 .. n
      /\ \A i \in 1 .. n : words[i] \in Texts
  BY LenProperties
<1>2. \A i \in 1 .. n : i <= 3 => ~IsRequest(words[i])
  <2>1. \A i \in 1 .. n : i <= 3 => ~IsDashed(words[i])
    BY <1>1 DEF IsSound
  <2>2. QED BY <1>1, <2>1, Kinds DEF IsRequest
<1>3. CASE n <= 3
  <2>1. from = <<>>
    BY <1>1, <1>3, EmptySeq
  <2>2. \A i \in 1 .. n : i <= 3
    BY <1>1, <1>3
  <2>3. Asks(words, NoRequest)
    BY <1>1, <1>2, <2>2 DEF Asks
  <2>4. QED BY <2>1, <2>3
<1>4. CASE n > 3
  <2> DEFINE h == SubSeq(words, 1, 3)
  <2>1. h \o from = SubSeq(words, 1, n)
    <3>1. SubSeq(words, 1, 3) \o SubSeq(words, 3 + 1, n) = SubSeq(words, 1, n)
      BY <1>1, <1>4, SubSeqConcat
    <3>2. QED BY <3>1
  <2>2. SubSeq(words, 1, n) = words
    BY <1>1
  <2>3. h \in Seq(Texts) /\ Len(h) = 3 /\ \A i \in 1 .. 3 : h[i] = words[i] /\ i \in 1 .. n
    BY <1>1, <1>4, SubSeqProperties
  <2>4. /\ from \in Seq(Texts) /\ Len(from) = n - 3
        /\ \A i \in 1 .. n - 3 : from[i] = words[i + 3]
    <3>1. \A i \in 4 .. n : words[i] \in Texts
      BY <1>1
    <3>2. QED BY <1>1, <1>4, <3>1, SubSeqProperties
  <2> HIDE DEF h, from
  <2>5. Asks(h, NoRequest)
    <3>1. DOMAIN h = 1 .. 3 /\ \A i \in 1 .. 3 : ~IsRequest(h[i])
      BY <1>2, <2>3, LenProperties
    <3>2. QED BY <3>1 DEF Asks
  <2>6. ASSUME NEW i \in 1 .. n - 3
        PROVE  /\ ~IsDashed(from[i]) => i > 1 /\ IsDashed(from[i - 1])
               /\ i > 1 /\ IsParam(from[i - 1]) => ~IsDashed(from[i])
    <3>1. /\ i + 3 \in 1 .. n /\ i + 3 > 3 /\ (i + 3) - 1 \in 1 .. n
          /\ (i + 3) - 1 < n /\ ((i + 3) - 1) + 1 = i + 3
          /\ (i > 1 => i - 1 \in 1 .. n - 3 /\ (i - 1) + 3 = (i + 3) - 1)
          /\ ((i + 3) - 1 > 3 => i > 1)
      BY <1>1
    <3>2. from[i] = words[i + 3] /\ (i > 1 => from[i - 1] = words[(i + 3) - 1])
      BY <2>4, <3>1
    <3>3. ~IsDashed(words[i + 3]) => IsDashed(words[(i + 3) - 1]) /\ (i + 3) - 1 > 3
      BY <1>1, <3>1 DEF IsSound
    <3>4. IsParam(words[(i + 3) - 1]) => ~IsDashed(words[((i + 3) - 1) + 1])
      BY <1>1, <3>1 DEF IsSound
    <3>5. QED BY <3>1, <3>2, <3>3, <3>4
  <2>7. Fitting(from)
    <3>1. DOMAIN from = 1 .. n - 3
      BY <2>4, LenProperties
    <3>2. QED BY <2>6, <3>1 DEF Fitting
  <2>8. words = h \o from /\ h \in Seq(Texts)
    BY <2>1, <2>2, <2>3
  <2>9. \E g \in Seq(Texts) : words = g \o from /\ Asks(g, NoRequest)
                              /\ from \in Seq(Texts) /\ Fitting(from)
    BY <2>4, <2>5, <2>7, <2>8
  <2>10. QED BY <2>9, Zenon DEF from, n
<1>5. QED BY <1>1, <1>3, <1>4

(* The flags of a sound command line are written as they are.               *)
LEMMA SoundFlags ==
    ASSUME NEW text \in Texts, IsSound(tokenizeCommandLine(text))
    PROVE  /\ PlainFlags(text) /\ Flags(text) \in Seq(Texts)
           /\ Nonempty(Flags(text)) = Flags(text)
<1> DEFINE words == tokenizeCommandLine(text)
<1>1. words \in Seq(Texts)
  BY WordsType
<1>2. \A w \in ToSet(words) : w # <<>> /\ (IsDashed(w) => Plain(w))
  BY DEF IsSound, ToSet, Plain
<1>3. PlainFlags(text)
  BY <1>2, FlagsAreWords
<1>4. Flags(text) \in Seq(ToSet(words) \cap Clean)
  BY WordsOfFlags
<1> HIDE DEF words
<1>5. Clean \subseteq Texts /\ \A w \in ToSet(Flags(text)) : w # <<>>
  <2>1. ToSet(Flags(text)) \subseteq ToSet(words)
    <3> DEFINE X == ToSet(words) \cap Clean
               flags == Flags(text)
    <3>1. flags \in Seq(X) /\ X \subseteq ToSet(words)
      BY <1>4
    <3> HIDE DEF X, flags
    <3>2. \A i \in DOMAIN flags : flags[i] \in X
      BY <3>1
    <3>3. QED BY <3>1, <3>2 DEF ToSet, flags
  <2>2. QED BY <1>2, <2>1 DEF Clean, words
<1>6. Flags(text) \in Seq(Clean)
  BY FlagsType
<1>7. Nonempty(Flags(text)) = Flags(text)
  BY <1>5, <1>6, NonemptyFacts
<1>8. Flags(text) \in Seq(Texts)
  BY <1>5, <1>6
<1>9. QED BY <1>3, <1>7, <1>8

(* So the resume command asks for what the command line does.               *)
LEMMA CommandAsksAlike ==
    ASSUME MetadataOK, HasSoundParams, HasPlainParams,
           NEW text \in Texts, text # <<>>, IsSound(tokenizeCommandLine(text))
    PROVE  \E r : Asks(tokenizeCommandLine(text), r) /\ Asks(CommandWords(text), r)
<1> DEFINE words == tokenizeCommandLine(text)
           from == SubSeq(words, 4, Len(words))
           base == Project \o ParamWords(metadata.params)
           flags == Flags(text)
<1>1. words \in Seq(Texts) /\ IsSound(words)
  BY WordsType
<1>2. base \in Seq(Texts) /\ Asks(base, NoRequest)
  <2>1. metadata.params \in Seq(PlainParameters)
    <3> DEFINE params == metadata.params
    <3>1. /\ params \in Seq(Parameters)
          /\ \A i \in DOMAIN params : params[i].value # <<>> /\ ~IsDashed(params[i].value)
      BY DEF MetadataOK, HasSoundParams, HasPlainParams
    <3> HIDE DEF params
    <3>2. /\ Len(params) \in Nat /\ DOMAIN params = 1 .. Len(params)
          /\ params = [i \in 1 .. Len(params) |-> params[i]]
          /\ \A i \in 1 .. Len(params) : params[i] \in Parameters
      BY <3>1
    <3>3. \A i \in 1 .. Len(params) : params[i] \in PlainParameters
      BY <3>1, <3>2 DEF PlainParameters, SoundParameters
    <3>4. [i \in 1 .. Len(params) |-> params[i]] \in Seq(PlainParameters)
      BY <3>2, <3>3
    <3>5. QED BY <3>2, <3>4 DEF params
  <2>2. ParamWords(metadata.params) \in Seq(Texts)
    BY ParamsAdd DEF Adds, MetadataOK
  <2>3. QED BY <2>1, <2>2, ParamsAreQuiet, ProjectIsQuiet, WordsFacts
<1>3. PlainFlags(text) /\ flags \in Seq(Texts) /\ Nonempty(flags) = flags
  BY SoundFlags
<1> HIDE DEF words, base
<1>4. flags = Keep(Fresh, from).flags
  BY <1>1, FlagsByKeep DEF Flags, Fresh, words
<1> HIDE DEF flags
<1>5. PICK r : Asks(words, r) /\ Asks(base \o flags, r)
  <2>1. CASE from = <<>> /\ Asks(words, NoRequest)
    <3>1. flags = <<>>
      <4>1. Keep(Fresh, from) = Keep(Fresh, <<>>) /\ Keep(Fresh, <<>>) = Fresh
        BY <2>1, KeepNothing
      <4>2. Fresh.flags = <<>>
        BY DEF Fresh, Keeping
      <4>3. QED BY <1>4, <4>1, <4>2
    <3>2. base \o flags = base
      BY <1>2, <3>1, WordsFacts
    <3>3. QED BY <1>2, <2>1, <3>2
  <2>2. ASSUME NEW h \in Seq(Texts), words = h \o from, Asks(h, NoRequest),
               from \in Seq(Texts), Fitting(from)
        PROVE  \E r : Asks(words, r) /\ Asks(base \o flags, r)
    <3> HIDE DEF from
    <3>1. AskAlike(h, from, base, Keep(Fresh, from).flags)
      BY <1>2, <2>2, FlagsAskAlike
    <3>2. QED BY <1>4, <2>2, <3>1 DEF AskAlike
  <2>3. QED BY <1>1, <2>1, <2>2, SoundWords
<1> HIDE DEF from
<1>6. base \o flags \in Seq(Texts)
  BY <1>2, <1>3, WordsFacts
<1>7. base \o KeptWords(text) \in Seq(Texts) /\ Asks(base \o KeptWords(text), r)
  <2>1. CASE Given(text)
    <3>1. KeptWords(text) = flags \o <<>> /\ flags \o <<>> = flags
      BY <1>3, <2>1, WordsFacts DEF KeptWords, flags
    <3>2. QED BY <1>5, <1>6, <3>1
  <2>2. CASE ~Given(text)
    <3>1. KeptWords(text) = flags \o DirectoryWords
      BY <1>3, <2>2 DEF KeptWords, flags
    <3>2. DirectoryWords \in Seq(Texts)
      BY DirectoryAdds DEF Adds, MetadataOK
    <3>3. base \o (flags \o DirectoryWords) = (base \o flags) \o DirectoryWords
      BY <1>2, <1>3, <3>2, WordsFacts
    <3>4. Asks((base \o flags) \o DirectoryWords, r)
          /\ (base \o flags) \o DirectoryWords \in Seq(Texts)
      BY <1>5, <1>6, EndIsQuiet
    <3>5. QED BY <3>1, <3>3, <3>4
  <2>3. QED BY <2>1, <2>2
<1>8. Asks((base \o KeptWords(text)) \o Session, r)
  BY <1>7, EndIsQuiet
<1>9. CommandWords(text) = (base \o KeptWords(text)) \o Session
  BY DEF CommandWords, base
<1>10. QED BY <1>5, <1>8, <1>9 DEF words

-----------------------------------------------------------------------------
(* What the scan finds. *)

(* The request of a command line is what its words ask for.                 *)
LEMMA TokensAsk ==
    ASSUME NEW text \in Texts, ctx.commandLine = TokensOf(text),
           LastRequestDecides, pc # "scan"
    PROVE  Asks(tokenizeCommandLine(text), request)
<1> DEFINE words == tokenizeCommandLine(text)
<1>1. words \in Seq(Texts)
  BY WordsType
<1>2. tokens = [i \in DOMAIN words |-> TokenOf(words[i])]
  BY DEF tokens, TokensOf
<1> HIDE DEF words
<1>3. /\ DOMAIN tokens = DOMAIN words /\ DOMAIN words = 1 .. Len(words) /\ Len(words) \in Nat
      /\ \A i \in DOMAIN words : tokens[i] = TokenOf(words[i])
  BY <1>1, <1>2, LenProperties
<1>4. Len(tokens) = Len(words)
  <2>1. tokens \in Seq({TokenOf(w) : w \in Texts})
    <3>1. tokens = [i \in 1 .. Len(words) |-> TokenOf(words[i])]
          /\ \A i \in 1 .. Len(words) : words[i] \in Texts
      BY <1>1, <1>2, <1>3
    <3>2. QED BY <1>3, <3>1
  <2>2. QED BY <1>3, <2>1, LenProperties
<1>5. \A i \in DOMAIN words : i \in Requests <=> IsRequest(words[i])
  BY <1>3 DEF Requests, IsRequest
<1>6. Requests \subseteq DOMAIN words
  BY <1>3 DEF Requests
<1>7. \A i \in DOMAIN words : RequestAt(i) = WordRequest(words, i)
  <2> SUFFICES ASSUME NEW i \in DOMAIN words PROVE RequestAt(i) = WordRequest(words, i)
    OBVIOUS
  <2>1. tokens[i] = TokenOf(words[i])
        /\ (i < Len(words) => tokens[i + 1] = TokenOf(words[i + 1]))
    <3>1. i < Len(words) => i + 1 \in DOMAIN words
      BY <1>3
    <3>2. QED BY <1>3, <3>1
  <2>2. QED BY <1>4, <2>1 DEF RequestAt, WordRequest
<1>8. /\ Requests = {} => request = NoRequest
      /\ \A i \in Requests : (\A j \in Requests : j <= i) => request = RequestAt(i)
  BY DEF LastRequestDecides
<1>9. (\A i \in DOMAIN words : ~IsRequest(words[i])) => request = NoRequest
  BY <1>5, <1>6, <1>8
<1>10. ASSUME NEW i \in DOMAIN words, IsRequest(words[i]),
              \A j \in DOMAIN words : IsRequest(words[j]) => j <= i
       PROVE  request = WordRequest(words, i)
  <2>1. i \in Requests /\ \A j \in Requests : j <= i
    BY <1>5, <1>6, <1>10
  <2>2. QED BY <1>7, <1>8, <2>1
<1>11. Asks(words, request)
  BY <1>9, <1>10 DEF Asks
<1>12. QED BY <1>11 DEF words

(* Tokens are as the scan expects them.                                     *)
LEMMA TokensType ==
    ASSUME NumbersArePaths, NEW text \in Texts
    PROVE  TokensOf(text) \in Seq(Token)
<1> DEFINE words == tokenizeCommandLine(text)
<1>1. words \in Seq(Texts)
  BY WordsType
<1>2. \A w \in Texts : TokenOf(w) \in Token
  <2> SUFFICES ASSUME NEW w \in Texts PROVE TokenOf(w) \in Token
    OBVIOUS
  <2>1. NumberOf(w) \in Paths \cup {NoPath}
    BY DEF NumbersArePaths, Texts
  <2>2. w # <<>> => NumberOf(Tail(w)) \in Paths \cup {NoPath}
    <3>1. w # <<>> => Tail(w) \in Seq(Symbols)
      BY DEF Texts
    <3>2. QED BY <3>1 DEF NumbersArePaths
  <2>3. \A kind \in {"flag", "assign", "dash", "word"}, value \in Paths \cup {NoPath} :
          [kind |-> kind, value |-> value] \in Token
    BY DEF Token
  <2>4. NoPath \in Paths \cup {NoPath}
    OBVIOUS
  <2>5. CASE w = <<"-with-trace">>
    <3>1. TokenOf(w) = [kind |-> "flag", value |-> NoPath]
      <4>1. IsDashed(<<"-with-trace">>) /\ Head(<<"-with-trace">>) # "-with-trace="
        BY DEF IsDashed, Options
      <4>2. QED BY <2>5, <4>1 DEF TokenOf
    <3>2. QED BY <2>3, <2>4, <3>1
  <2>6. CASE w # <<"-with-trace">> /\ w # <<>> /\ Head(w) = "-with-trace="
    <3>1. IsDashed(w)
      BY <2>6 DEF IsDashed, Options
    <3>2. TokenOf(w) = [kind |-> "assign", value |-> NumberOf(Tail(w))]
      BY <2>6, <3>1 DEF TokenOf
    <3>3. QED BY <2>2, <2>3, <2>6, <3>2
  <2>7. CASE w # <<"-with-trace">> /\ ~(w # <<>> /\ Head(w) = "-with-trace=")
    <3>1. CASE IsDashed(w)
      <4>1. TokenOf(w) = [kind |-> "dash", value |-> NoPath]
        BY <2>7, <3>1 DEF TokenOf
      <4>2. QED BY <2>3, <2>4, <4>1
    <3>2. CASE ~IsDashed(w)
      <4>1. TokenOf(w) = [kind |-> "word", value |-> NumberOf(w)]
        BY <2>7, <3>2 DEF TokenOf
      <4>2. QED BY <2>1, <2>3, <4>1
    <3>3. QED BY <3>1, <3>2
  <2>8. QED BY <2>5, <2>6, <2>7
<1> HIDE DEF words
<1>3. TokensOf(text) = [i \in 1 .. Len(words) |-> TokenOf(words[i])]
  BY <1>1 DEF TokensOf, words
<1>4. Len(words) \in Nat /\ \A i \in 1 .. Len(words) : TokenOf(words[i]) \in Token
  BY <1>1, <1>2
<1>5. QED BY <1>3, <1>4

(* A run before its scan.                                                   *)
Unscanned ==
    /\ ctx \in Run
    /\ pc = "scan" /\ next = 1 /\ request = NoRequest /\ best = 1
    /\ resolution = Resolution(NoPath, FALSE)

TraceInv == Basics /\ ScanInv /\ ChoiceInv

(* There the invariants of the choice hold.                                 *)
LEMMA UnscannedInv == Unscanned => TraceInv
<1> SUFFICES ASSUME Unscanned PROVE TraceInv
  OBVIOUS
<1>1. NoRequest \in [requested: Paths \cup {NoPath}, explicit: BOOLEAN, bare: BOOLEAN]
  BY DEF NoRequest
<1>2. Basics
  BY <1>1 DEF Unscanned, Basics, TraceTypeOK, Resolution, NoRequest
<1>3. ScanInv
  <2>1. tokens \in Seq(Token)
    BY <1>2, RunFields DEF Basics, TraceTypeOK
  <2>2. \A i \in Requests : i \in Nat /\ i >= 1
    BY <2>1 DEF Requests
  <2>3. QED BY <2>2 DEF Unscanned, ScanInv, Decided, LastRequestDecides
<1>4. ChoiceInv
  BY DEF Unscanned, ChoiceInv, ChoiceIsBest, Chosen
<1>5. QED BY <1>2, <1>3, <1>4 DEF TraceInv

(* The scan reads the command line of the run; the one of the run that it   *)
(* resumes has been scanned.                                                *)
RequestInv ==
    /\ TraceInv
    /\ ctx.commandLine = TokensOf(line)
    /\ resumes > 0 => Asks(tokenizeCommandLine(former), asked)

(* With another command line a run is a run.                                *)
LEMMA RunWithLine ==
    ASSUME NumbersArePaths, NEW run \in Run, NEW text \in Texts
    PROVE  /\ [run EXCEPT !.commandLine = TokensOf(text)] \in Run
           /\ [run EXCEPT !.commandLine = TokensOf(text)].commandLine = TokensOf(text)
<1>1. TokensOf(text) \in Seq(Token)
  BY TokensType
<1>2. QED BY <1>1 DEF Run

(* It holds at first.                                                       *)
LEMMA RequestInvInit == NumbersArePaths /\ ResumeInit => RequestInv
<1> SUFFICES ASSUME NumbersArePaths, ResumeInit PROVE RequestInv
  OBVIOUS
<1>1. PICK l \in Launched :
        /\ line = l.line /\ ctx = [l.run EXCEPT !.commandLine = TokensOf(l.line)]
        /\ pc = "scan" /\ next = 1 /\ request = NoRequest /\ best = 1
        /\ resolution = Resolution(NoPath, FALSE) /\ resumes = 0
  BY DEF ResumeInit
<1>2. l.line \in Texts /\ l.run \in Run
  BY ResumeAssumption DEF Texts
<1>3. ctx \in Run /\ ctx.commandLine = TokensOf(line)
  BY <1>1, <1>2, RunWithLine
<1>4. TraceInv
  BY <1>1, <1>3, UnscannedInv DEF Unscanned
<1>5. QED BY <1>1, <1>3, <1>4 DEF RequestInv

(* Every step keeps it.                                                     *)
LEMMA RequestInvStep ==
    NumbersArePaths /\ CommandInv /\ RequestInv /\ [ResumeNext]_resumeVars => RequestInv'
<1> SUFFICES ASSUME NumbersArePaths, CommandInv, RequestInv, [ResumeNext]_resumeVars
             PROVE  RequestInv'
  OBVIOUS
<1>1. ASSUME [TraceNext]_traceVars, UNCHANGED <<line, former, asked, resumes>>
      PROVE  RequestInv'
  <2>1. TraceInv'
    BY <1>1, BasicsStep, ScanInvStep, ChoiceInvStep DEF RequestInv, TraceInv
  <2>2. ctx' = ctx
    BY <1>1 DEF TraceNext, Scan, ResolveExplicit, ResolveNothing, Discover, Compare, Choose,
                Resolved, traceVars
  <2>3. QED BY <1>1, <2>1, <2>2 DEF RequestInv
<1>2. CASE Resume
  <2> DEFINE text == buildResumeCommand(line)
  <2>1. /\ line' = text /\ former' = line /\ asked' = request /\ pc = "done"
        /\ ctx' = [ctx EXCEPT !.commandLine = TokensOf(text)]
        /\ pc' = "scan" /\ next' = 1 /\ request' = NoRequest /\ best' = 1
        /\ resolution' = Resolution(NoPath, FALSE)
    BY <1>2 DEF Resume
  <2>2. text \in Texts /\ line \in Texts /\ ctx \in Run
    BY CommandType DEF CommandInv, RequestInv, TraceInv, Basics, TraceTypeOK
  <2> HIDE DEF text
  <2>3. ctx' \in Run /\ ctx'.commandLine = TokensOf(line')
    BY <2>1, <2>2, RunWithLine
  <2>4. Unscanned'
    BY <2>1, <2>3 DEF Unscanned
  <2>5. TraceInv'
    BY <2>4, UnscannedInv, PTL
  <2>6. Asks(tokenizeCommandLine(line), request)
    BY <2>1, <2>2, TokensAsk DEF RequestInv, TraceInv, ScanInv
  <2>7. Asks(tokenizeCommandLine(former'), asked')
    BY <2>1, <2>6
  <2>8. QED BY <2>3, <2>5, <2>7 DEF RequestInv
<1>3. QED BY <1>1, <1>2 DEF ResumeNext, resumeVars

(* What a run asks for is what its command line says, and so for the run    *)
(* that it resumes (traceRequestFromCommandLine).                           *)
THEOREM RequestsAreKept ==
    ASSUME NumbersArePaths
    PROVE  ResumeSpec => [](CommandInv /\ RequestInv)
<1>1. ResumeInit => RequestInv
  BY RequestInvInit
<1>2. CommandInv /\ RequestInv /\ [ResumeNext]_resumeVars => RequestInv'
  BY RequestInvStep
<1>3. QED BY <1>1, <1>2, CommandsAreRemade, PTL DEF ResumeSpec

(* ResumeKeepsTrace: whatever the command lines, a resumed run looks for    *)
(* its trace where the run that it resumes did (buildResumeCommand,         *)
(* traceRequestFromCommandLine).                                            *)
THEOREM TraceIsKept ==
    ASSUME NumbersArePaths
    PROVE  ResumeSpec => []ResumeKeepsTrace
<1>1. CommandInv /\ RequestInv => ResumeKeepsTrace
  <2> SUFFICES ASSUME CommandInv, RequestInv, resumes > 0, pc # "scan", former # <<>>,
                      HasSoundParams, HasPlainParams, IsSound(tokenizeCommandLine(former))
               PROVE  request = asked
    BY DEF ResumeKeepsTrace
  <2>1. MetadataOK /\ line \in Texts /\ former \in Texts /\ line = buildResumeCommand(former)
    BY DEF CommandInv
  <2>2. PICK r : Asks(tokenizeCommandLine(former), r) /\ Asks(CommandWords(former), r)
    BY <2>1, CommandAsksAlike
  <2>3. tokenizeCommandLine(line) = CommandWords(former)
    BY <2>1, SoundFlags, CommandIsRead
  <2>4. Asks(tokenizeCommandLine(line), request)
    BY <2>1, TokensAsk DEF RequestInv, TraceInv, ScanInv
  <2>5. tokenizeCommandLine(former) \in Seq(Texts) /\ tokenizeCommandLine(line) \in Seq(Texts)
    BY <2>1, WordsType
  <2>6. request = r
    BY <2>2, <2>3, <2>4, <2>5, AsksUnique
  <2>7. asked = r
    BY <2>2, <2>5, AsksUnique DEF RequestInv
  <2>8. QED BY <2>6, <2>7
<1>2. QED BY <1>1, RequestsAreKept, PTL

(* The trace of a resumed run is chosen as that of any other (ResolvePath,  *)
(* on the command line that the monitor wrote).                             *)
THEOREM ResumedChoice ==
    ASSUME NumbersArePaths
    PROVE  ResumeSpec => [](TraceTypeOK /\ LastRequestDecides /\ ChoiceIsBest /\ ChoiceIsOfThisRun)
<1>1. RequestInv => TraceTypeOK /\ LastRequestDecides /\ ChoiceIsBest /\ ChoiceIsOfThisRun
  BY BestIsOfThisRun DEF RequestInv, TraceInv, Basics, ScanInv, ChoiceInv
<1>2. QED BY <1>1, RequestsAreKept, PTL

(* Quoting is undone by reading, for any word but an empty one              *)
(* (shellQuoteValue, tokenizeCommandLine).                                  *)
THEOREM QuotingIsUndone ==
    ASSUME NEW word \in Seq(Symbols), word # <<>>
    PROVE  tokenizeCommandLine(shellQuoteValue(word)) = <<word>>
<1>1. word \in Texts
  BY DEF Texts
<1>2. Start \in Readings /\ Start.place = "plain"
  BY WordsFacts, TextFacts DEF Start, Readings
<1>3. Read(Start, shellQuoteValue(word)) = Write(Start, word, "plain")
      /\ shellQuoteValue(word) \in Texts
  BY <1>1, <1>2, QuotedIsRead DEF Written
<1>4. EndWord(Write(Start, word, "plain")).words = <<word>>
  <2>1. <<>> \o word = word
    BY <1>1, TextFacts
  <2>2. QED BY <2>1 DEF EndWord, Write, Start
<1>5. Write(Start, word, "plain").place = "plain"
  BY DEF Write, Start
<1>6. QED BY <1>3, <1>4, <1>5 DEF tokenizeCommandLine, Read

=============================================================================
