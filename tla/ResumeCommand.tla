---------------------------- MODULE ResumeCommand ----------------------------
(***************************************************************************)
(* The resume command that the page of a finished run offers               *)
(* (internal/server/server.go, buildResumeCommand), and what becomes of it *)
(* when the user runs it: the resumed run looks for its trace file         *)
(* (TraceChoice) by the command line that the monitor wrote, finishes, and *)
(* offers a resume command in turn.                                        *)
(***************************************************************************)
EXTENDS TraceChoice, CommandText

CONSTANTS
    Launched,     \* how users launch: [line, params, workDir, run]
    Letters,      \* characters that need no quotes
    NumberOf(_),  \* word -> the number that stands for it as a path
    MaxResumes    \* bound on resumed runs

Options == {"-with-trace", "-with-trace=", "-resume", "-work-dir", "-f"}
ParamNames == {"--k"}
Symbols ==
    Special \cup Options \cup ParamNames \cup {"nextflow", "run", "p", "s"} \cup Letters

(* HasPrefix(word, "--") and HasPrefix(word, "-").                          *)
IsParam(word) == word # <<>> /\ Head(word) \in ParamNames
IsDashed(word) == word # <<>> /\ Head(word) \in ParamNames \cup Options

(* Nextflow reports the work directory as an absolute path.                 *)
ASSUME ResumeAssumption ==
    /\ \A l \in Launched :
         /\ l.line \in Seq(Symbols)
         /\ l.params \in Seq([key: {<<k>> : k \in ParamNames}, value: Seq(Symbols)])
         /\ l.workDir \in Seq(Symbols) /\ ~IsDashed(l.workDir)
         /\ l.run \in Run
    /\ MaxResumes \in Nat

(* Assumed where the trace is looked for: a number stands for a path.       *)
NumbersArePaths == \A word \in Seq(Symbols) : NumberOf(word) \in Paths \cup {NoPath}

VARIABLES
    line,         \* text of the run's command line
    metadata,     \* its params and work directory
    former,       \* history: the line of the run it resumes
    asked,        \* history: what that run's line asked of the trace
    resumes

resumeVars == <<traceVars, line, metadata, former, asked, resumes>>

(* The tokens as traceRequestFromCommandLine tells them apart.              *)
TokenOf(word) ==
    CASE word = <<"-with-trace">> -> [kind |-> "flag", value |-> NoPath]
      [] word # <<>> /\ Head(word) = "-with-trace=" ->
            [kind |-> "assign", value |-> NumberOf(Tail(word))]
      [] ~IsDashed(word) -> [kind |-> "word", value |-> NumberOf(word)]
      [] OTHER -> [kind |-> "dash", value |-> NoPath]

TokensOf(text) ==
    LET words == tokenizeCommandLine(text) IN [i \in DOMAIN words |-> TokenOf(words[i])]

ResumeInit ==
    \E l \in Launched :
        /\ line = l.line
        /\ metadata = [params |-> l.params, workDir |-> l.workDir]
        /\ ctx = [l.run EXCEPT !.commandLine = TokensOf(l.line)]
        /\ pc = "scan" /\ next = 1 /\ request = NoRequest /\ best = 1
        /\ resolution = Resolution(NoPath, FALSE)
        /\ former = <<>> /\ asked = NoRequest /\ resumes = 0

-----------------------------------------------------------------------------
(* Mutant: -resume is kept like any other flag.                             *)
KeepAnyToken(s, word) ==
    CASE s.after = "param" -> [s EXCEPT !.after = "nothing"]
      [] s.after # "param" /\ IsParam(word) -> [s EXCEPT !.after = "param"]
      [] OTHER -> [flags |-> Append(s.flags, word), after |-> "flag"]

(* parseRuntimeFlags: after is what the last token may still take along.    *)
KeepToken(s, word) ==
    CASE s.after = "param" -> [s EXCEPT !.after = "nothing"]
      [] s.after = "resume" /\ ~IsDashed(word) -> [s EXCEPT !.after = "nothing"]
      [] s.after = "flag" /\ ~IsDashed(word) ->
            [flags |-> Append(s.flags, word), after |-> "nothing"]
      [] s.after # "param" /\ IsParam(word) -> [s EXCEPT !.after = "param"]
      [] s.after # "param" /\ word = <<"-resume">> -> [s EXCEPT !.after = "resume"]
      [] OTHER -> [flags |-> Append(s.flags, word), after |-> "flag"]

parseRuntimeFlags(words) ==
    FoldLeft(KeepToken, [flags |-> <<>>, after |-> "nothing"], SubSeq(words, 4, Len(words))).flags

(* writeParams; the params are in the order of their names.                 *)
writeParams(params) ==
    FlattenSeq([i \in DOMAIN params |-> Spaced(<<params[i].key, shellQuoteValue(params[i].value)>>)])

WorkDirText == Spaced(<< <<"-work-dir">>, shellQuoteValue(metadata.workDir)>>)

buildResumeCommand(text) ==
    LET flags == parseRuntimeFlags(tokenizeCommandLine(text))
        written(f) == IF IsDashed(f) THEN f ELSE shellQuoteValue(f)
        flagText == Spaced([i \in DOMAIN flags |-> written(flags[i])])
        given == metadata.workDir = <<>> \/ <<"-work-dir">> \in ToSet(flags)
    IN  <<"nextflow", " ", "run", " ", "p">> \o writeParams(metadata.params)
        \o (IF text = <<>> THEN WorkDirText
            ELSE flagText \o (IF given THEN <<>> ELSE WorkDirText))
        \o Spaced(<< <<"-resume">>, <<"s">> >>)

(* The user runs the command: the new run has the params and directories of *)
(* the one before.                                                          *)
Resume ==
    /\ pc = "done"
    /\ resumes < MaxResumes
    /\ line' = buildResumeCommand(line)
    /\ former' = line
    /\ asked' = request
    /\ ctx' = [ctx EXCEPT !.commandLine = TokensOf(buildResumeCommand(line))]
    /\ pc' = "scan" /\ next' = 1 /\ request' = NoRequest /\ best' = 1
    /\ resolution' = Resolution(NoPath, FALSE)
    /\ resumes' = resumes + 1
    /\ UNCHANGED metadata

ResumeNext ==
    \/ TraceNext /\ UNCHANGED <<line, metadata, former, asked, resumes>>
    \/ Resume

ResumeSpec == ResumeInit /\ [][ResumeNext]_resumeVars

-----------------------------------------------------------------------------
(* Properties. *)

(* What ResumeKeepsTrace assumes of a command line: no empty words (written *)
(* as nothing), no option that needs quotes (written without), a value      *)
(* after each --param (the next token is dropped whatever it is), options   *)
(* only after the project (what comes before is dropped), and no values but *)
(* theirs (another word may become the value of an earlier one).            *)
IsSound(words) ==
    \A i \in DOMAIN words :
        /\ words[i] # <<>>
        /\ IsDashed(words[i]) => i > 3 /\ ToSet(words[i]) \cap Special = {}
        /\ IsParam(words[i]) => i < Len(words) /\ ~IsDashed(words[i + 1])
        /\ i > 3 /\ ~IsDashed(words[i]) => IsDashed(words[i - 1])

(* No parameter has an empty value; none has one that is an option.         *)
HasSoundParams == \A i \in DOMAIN metadata.params : metadata.params[i].value # <<>>
HasPlainParams == \A i \in DOMAIN metadata.params : ~IsDashed(metadata.params[i].value)

(* A resumed run looks for its trace where the run it resumes did, though   *)
(* its command line was taken apart and quoted anew ("extract runtime       *)
(* flags (like -profile, -with-weblog, -c) and includes them").             *)
ResumeKeepsTrace ==
    resumes > 0 /\ pc # "scan" /\ former # <<>> /\ HasSoundParams /\ HasPlainParams
        /\ IsSound(tokenizeCommandLine(former)) => request = asked

(* What ResumeIsStable assumes of the launches: no option needs quotes.     *)
OptionsArePlain ==
    \A l \in Launched : \A word \in ToSet(tokenizeCommandLine(l.line)) :
        IsDashed(word) => ToSet(word) \cap Special = {}

(* Resuming again changes nothing more: the resume command of a resumed run *)
(* reads the same as the command it was started with, so options and quotes *)
(* do not pile up over the attempts.  Assumes OptionsArePlain.              *)
ResumeIsStable ==
    resumes > 1 /\ pc = "done" /\ HasSoundParams =>
        tokenizeCommandLine(line) = tokenizeCommandLine(former)

=============================================================================
