--------------------------- MODULE MCResumeCommand ---------------------------
(* Instances of ResumeCommand, and of the TraceChoice in it, for TLC. *)
EXTENDS ResumeCommand

file(p, t) == [path |-> p, modTime |-> t]
SeqsUpTo(n, S) == UNION {[1 .. k -> S] : k \in 0 .. n}
Distinct(s) == \A i, j \in DOMAIN s : s[i].path = s[j].path => i = j

(* Words as numbers, by their first four characters; the names of options,  *)
(* program and project, which are no values here, are all alike.            *)
Characters == <<"a", " ", "'", "\"", "\\", "$">>
Digit(c) ==
    IF c \in ToSet(Characters) THEN CHOOSE i \in DOMAIN Characters : Characters[i] = c ELSE 7
WordNumber(word) == FoldLeft(LAMBDA n, c : IF n > 511 THEN n ELSE 8 * n + Digit(c), 0, word)
WordNumbers == 1 .. 4095

-----------------------------------------------------------------------------
launch(text, params, workDir, run) ==
    [line |-> text, params |-> params, workDir |-> workDir, run |-> run]

Directory(dir, files, readable, start, complete, explicit) ==
    [commandLine |-> <<>>, launchDir |-> dir, listing |-> files, listable |-> readable,
     start |-> start, complete |-> complete, explicitFile |-> explicit]

Prefix == <<"nextflow", " ", "run", " ", "p">>
Trace == <<" ", "-with-trace">>

Words == {<<"-with-trace">>, <<"-with-trace=", "a">>, <<"-f">>, <<"a">>, <<"a", " ", "'">>,
          <<"--k">>, <<"-resume">>, <<"-work-dir">>, <<>>}
Typed(word) == IF word = <<>> THEN <<"'", "'">> ELSE shellQuoteValue(word)

(* Every command line of up to four such words after the project, -with-    *)
(* trace with every text of up to three characters after it, and none.      *)
Lines ==
    {Prefix \o Spaced([i \in DOMAIN ws |-> Typed(ws[i])]) : ws \in SeqsUpTo(4, Words)}
    \cup {Prefix \o Trace \o <<" ">> \o text :
            text \in SeqsUpTo(3, {"a", " ", "'", "\"", "\\", "$"})}
    \cup {<<>>}

param(value) == <<[key |-> <<"--k">>, value |-> value]>>
Metadata == {<< <<>>, <<"a">> >>, <<param(<<"a", "$", "'">>), <<>> >>, <<param(<<>>), <<"a">> >>}

OneFile == Directory(TRUE, <<file(1, 1)>>, TRUE, NoTime, NoTime, "file")

(* What may be found of a bare flag or a path.                              *)
DirectoryRuns ==
    {Directory(dir, files, readable, NoTime, NoTime, e) :
        dir \in BOOLEAN, files \in {<<>>, <<file(1, 1)>>}, readable \in BOOLEAN,
        e \in {"file", "directory", "missing"}}

(* Up to three files with any modification times, in any order, for any     *)
(* start and completion.                                                    *)
ListingRuns ==
    {Directory(TRUE, files, TRUE, start, complete, "missing") :
        files \in {s \in SeqsUpTo(3, [path: 1 .. 3, modTime: Times]) : Distinct(s)},
        start \in Times \cup {NoTime}, complete \in Times \cup {NoTime}}

AllRuns == {OneFile} \cup DirectoryRuns \cup ListingRuns

AllLaunches ==
    {launch(text, m[1], m[2], OneFile) : text \in Lines, m \in Metadata}
    \cup {launch(Prefix \o text, <<>>, <<>>, run) :
             text \in {Trace, Trace \o <<" ", "a">>, <<" ", "-with-trace=">>},
             run \in DirectoryRuns}
    \cup {launch(Prefix \o Trace, <<>>, <<>>, run) : run \in ListingRuns}

(* What the theorems assume of the launches, and of the numbers (which are  *)
(* told apart by four characters).                                          *)
ASSUME OptionsArePlain
ASSUME \A word \in SeqsUpTo(4, Symbols) : NumberOf(word) \in Paths \cup {NoPath}
=============================================================================
