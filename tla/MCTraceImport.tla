---------------------------- MODULE MCTraceImport ----------------------------
(* Instances of TraceImport for TLC. *)
EXTENDS TraceImport

first == [runId |-> "s1", runName |-> "angry_bell", session |-> "s1", resume |-> FALSE]
OneLaunch == {first}

(* No -with-trace, and a path that is a directory or has no file.           *)
NoFile == {NoTrace, [NoTrace EXCEPT !.warning = TRUE]}

(* Task 12 cut off reads as task 1; a number cut off may read as another or *)
(* as none; the prefix of a hash denotes more directories.                  *)
Torn == [c \in {"12", "CACHED", "9s", "ab/12", "/work/ab"} |->
           CASE c = "12" -> {"1"}
             [] c = "CACHED" -> {"CACH"}
             [] c = "9s" -> {"9", "9?"}
             [] c = "ab/12" -> {"ab/1"}
             [] c = "/work/ab" -> {"/work"}]
Directories == [h \in {"ab/1", "ab/12"} |-> IF h = "ab/12" THEN 1 ELSE 2]

(* A file of cached and executed tasks, one with an explicit work directory *)
(* and a repeated id, one with a record that does not parse, one without a  *)
(* status column, and an empty one.                                         *)
TraceFiles ==
    {[header |-> <<"task_id", "hash", "status", "realtime">>,
      records |-> << <<"1", "ab/1", "COMPLETED", "9s">>, <<"12", "ab/12", "CACHED", "9s">> >>],
     [header |-> <<"task_id", "status", "hash", "workdir">>,
      records |-> << <<"12", "CACHED", "-", "-">>, <<"">>,
                     <<"12", "CACHED", "ab/1", "/work/ab">>, <<"1", "CACHED", "ab/1", "">> >>],
     [header |-> <<"task_id", "status", "exit">>,
      records |-> << <<"1", "CACHED", "-">>, <<"12", "CACHED", "9?">> >>],
     [header |-> <<"task_id", "status">>,
      records |-> << <<"1", "CACHED">>, <<"12", BareQuote>> >>],
     [header |-> <<"task_id", "hash">>, records |-> << <<"1", "ab/1">> >>],
     [header |-> <<"hash", "status">>, records |-> << <<"ab/1", "CACHED">> >>],
     [header |-> <<>>, records |-> <<>>]}

ASSUME FilesAreRegular /\ NothingElseIsRead
=============================================================================
