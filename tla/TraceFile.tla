------------------------------ MODULE TraceFile ------------------------------
(***************************************************************************)
(* Reading a Nextflow trace file (internal/traceimport/traceimport.go,     *)
(* ParseFile): tab-separated text whose header names the columns.          *)
(*                                                                         *)
(* A file is its header and its records, sequences of cells.  A cell is    *)
(* what its text reads as: one of IdCells, one of Numbers (a date, a       *)
(* duration, a size ...), "" or "-" for no value, BareQuote for text the   *)
(* CSV reader refuses, or any other text.  Whether a column reads a date   *)
(* or a size makes no difference here and is left out, and so are process, *)
(* tag and figures of a row, which the store copies.                       *)
(***************************************************************************)
EXTENDS Integers, Sequences, SequencesExt, FiniteSetsExt

CONSTANTS
    IdCells,      \* cells that read as task ids
    Numbers,      \* cells that read as the numbers of the other columns
    Matches       \* hash cell -> number of the work directories it denotes

Blank == {"", "-"}
BareQuote == "\""

(* Columns whose cells must be blank or read as numbers. *)
NumberColumns == {"exit", "submit", "start", "complete", "duration", "realtime", "%cpu", "peak_rss"}

ASSUME CellAssumption ==
    /\ (IdCells \cup Numbers) \cap (Blank \cup {BareQuote}) = {}
    /\ \A cell \in DOMAIN Matches : Matches[cell] \in Nat

(* The last of several columns of one name; records may be short.           *)
traceField(header, record, column) ==
    LET places == {i \in DOMAIN header : header[i] = column}
    IN  IF places # {} /\ Max(places) <= Len(record) THEN record[Max(places)] ELSE ""

traceText(cell) == IF cell \in Blank THEN "" ELSE cell

(* traceRecordBlank; a "-" is not blank here.                               *)
traceRecordBlank(record) == \A i \in DOMAIN record : record[i] = ""

(* parseTraceColumn, for the required task_id and the optional columns.     *)
FieldsParse(header, record) ==
    /\ traceField(header, record, "task_id") \in IdCells
    /\ \A column \in NumberColumns :
         traceField(header, record, column) \in Blank \cup Numbers

ParseRow(header, record) ==
    LET hash == traceText(traceField(header, record, "hash"))
    IN  [task |-> traceField(header, record, "task_id"),
         status |-> traceText(traceField(header, record, "status")),
         workdir |-> traceText(traceField(header, record, "workdir")) # "",
         matches |-> IF hash \in DOMAIN Matches THEN Matches[hash] ELSE 0]

(* The rows of the records at these places, by their places.                *)
Rows(file, places) == [i \in places |-> ParseRow(file.header, file.records[i])]

Failure == [ok |-> FALSE, rows |-> <<>>]

(* The CSV reader refuses a line of the file. *)
Refused(line) == BareQuote \in ToSet(line)

Filled(records) == {i \in DOMAIN records : ~traceRecordBlank(records[i])}
Parses(header, record) == ~Refused(record) /\ FieldsParse(header, record)

(* Mutant: a record that does not parse is skipped.                         *)
ParseFileLeniently(file) ==
    IF "task_id" \notin ToSet(file.header) THEN Failure
    ELSE [ok |-> TRUE,
          rows |-> Rows(file, {i \in Filled(file.records) : Parses(file.header, file.records[i])})]

(* An empty file has no rows; a header without task_id, a line the reader   *)
(* refuses and a cell that does not parse each fail the whole file.         *)
ParseFile(file) ==
    LET legible == /\ ~Refused(file.header)
                   /\ "task_id" \in ToSet(file.header)
                   /\ \A i \in Filled(file.records) : Parses(file.header, file.records[i])
    IN  IF file.header = <<>> THEN [ok |-> TRUE, rows |-> <<>>]
        ELSE IF legible THEN [ok |-> TRUE, rows |-> Rows(file, Filled(file.records))]
        ELSE Failure

=============================================================================
