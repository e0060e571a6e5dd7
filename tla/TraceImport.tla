----------------------------- MODULE TraceImport -----------------------------
(***************************************************************************)
(* The run store and the trace file it reads: Nextflow appends a record to *)
(* the file per task while its webhook events are handled, and the         *)
(* "completed" event makes the store parse what the file holds by then     *)
(* (RunStore and TraceFile together).  Nothing orders the last write and   *)
(* the event, so the file may be cut off, between two cells or in one.     *)
(*                                                                         *)
(* External (Nextflow): the file has its header from the start, and only   *)
(* grows.                                                                  *)
(***************************************************************************)
EXTENDS RunStore, TraceFile

CONSTANTS
    Files,        \* the trace files Nextflow may write
    TornOf        \* cell -> what a cell that is cut off may read as

ASSUME FileAssumption ==
    /\ IdCells \subseteq TaskIds
    /\ Files \subseteq [header: Seq(STRING), records: Seq(Seq(STRING))]

VARIABLES
    file,         \* the whole file
    lines,        \* how many of its records have been written
    tail          \* the cells of the next record written so far

fileVars == <<file, lines, tail>>

ImportInit ==
    /\ Init
    /\ file \in Files
    /\ lines = 0
    /\ tail = <<>>

-----------------------------------------------------------------------------
TornCells(cell) == IF cell \in DOMAIN TornOf THEN TornOf[cell] ELSE {}

(* A record cut off between two cells or in one of them. *)
CutOff(record) ==
    UNION {{SubSeq(record, 1, i - 1)} \cup {Append(SubSeq(record, 1, i - 1), cell) :
                                              cell \in TornCells(record[i])} :
             i \in DOMAIN record}

(* Nextflow writes a record, or a part of it. *)
Write ==
    /\ lines < Len(file.records)
    /\ \/ lines' = lines + 1 /\ tail' = <<>>
       \/ /\ tail' \in CutOff(file.records[lines + 1])
          /\ Len(tail) < Len(tail')
          /\ UNCHANGED lines
    /\ UNCHANGED <<file, vars>>

Written ==
    [header |-> file.header,
     records |-> SubSeq(file.records, 1, lines) \o (IF tail = <<>> THEN <<>> ELSE <<tail>>)]

(* The outcomes of importCachedTasksOnCompletion's call of ParseFile: the   *)
(* file may also be gone by the time it is opened.                          *)
Found(parsed) == [warning |-> FALSE, resolved |-> TRUE, readable |-> parsed.ok, rows |-> parsed.rows]

Outcomes == {Found(ParseFile(Written)), Found(Failure)} \cup Traces

Deliver(e) ==
    /\ \/ Started(e)
       \/ \E task \in TaskIds, status \in Statuses : Process(e, task, status)
       \/ \E failed \in BOOLEAN, trace \in Outcomes : Completed(e, failed, trace)
       \/ \E reported \in BOOLEAN : Error(e, reported)
    /\ UNCHANGED fileVars

ImportNext == Write \/ \E e \in Event : Deliver(e)

ImportSpec == ImportInit /\ [][ImportNext]_<<vars, fileVars>>

-----------------------------------------------------------------------------
(* Properties. *)

(* The ids that these records report as cached, read off their columns.     *)
CachedIds(records) ==
    LET place(column) == CHOOSE i \in DOMAIN file.header : file.header[i] = column
    IN  {records[k][place("task_id")] :
           k \in {k \in DOMAIN records :
                    /\ traceRecordBlank(records[k]) = FALSE
                    /\ "status" \in ToSet(file.header)
                    /\ records[k][place("status")] = "CACHED"}}

(* What Nextflow's trace files are like: each column once, task_id before   *)
(* status, a record has a cell for each column or is blank, and no other    *)
(* status reads as CACHED when it is cut off.                               *)
FilesAreRegular ==
    /\ \A f \in Files :
         /\ \A i, j \in DOMAIN f.header : f.header[i] = f.header[j] => i = j
         /\ \A i, j \in DOMAIN f.header : f.header[i] = "task_id" /\ f.header[j] = "status" => i < j
         /\ \A k \in DOMAIN f.records :
              Len(f.records[k]) = Len(f.header) \/ traceRecordBlank(f.records[k])
    /\ \A cell \in DOMAIN TornOf : "CACHED" \notin TornOf[cell]

(* Nothing but the file is read.                                            *)
NothingElseIsRead == \A trace \in Traces : ~(trace.resolved /\ trace.readable)

(* An import takes over the file or nothing of it: if it succeeds, every    *)
(* task that a complete record reports as cached is cached afterwards,      *)
(* unless a live event reported it, and no other becomes cached, though the *)
(* last record may be cut off, in its task id too; if it fails, the tasks   *)
(* stay as they were (importCachedTasksOnCompletion, ParseFile).  Assumes   *)
(* FilesAreRegular and NothingElseIsRead.                                   *)
ImportsTheFileOrNothing ==
    [][\A id \in DOMAIN runs : id \in DOMAIN runs' /\ runs'[id].traceImport # runs[id].traceImport =>
          LET before == runs[id]
              after == runs'[id]
              complete == {t \in CachedIds(SubSeq(file.records, 1, lines)) :
                             Replaceable(before.tasks[t])}
          IN  IF after.traceImport.imported
              THEN /\ complete \subseteq CachedIn(after)
                   /\ CachedIn(after) \ CachedIn(before) \subseteq CachedIds(file.records)
              ELSE after.tasks = before.tasks]_vars

=============================================================================
