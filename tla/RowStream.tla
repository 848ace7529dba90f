----------------------------- MODULE RowStream -----------------------------
(***************************************************************************)
(* StreamRows of internal/importjob/parser.go, and the two ways the worker *)
(* uses it: Validate streams the uploaded file and writes the normalized   *)
(* rows through a boundedWriter, Apply streams what Validate wrote.  A     *)
(* line is what the properties tell apart: what kind of line it is, its    *)
(* bytes with the line break, and the bytes of its normalized form.        *)
(***************************************************************************)
EXTENDS Integers, Sequences, SequencesExt, Functions

CONSTANTS
    Sources,   \* files a user may upload: [format, header, lines]
    BatchSize, \* import.batch_size
    MaxRows,   \* import.max_rows
    MaxBytes,  \* import.max_bytes
    MaxLine,   \* the scanner's buffer, 16 MiB
    Blank      \* a column name that is empty once trimmed

VARIABLES
    pass,     \* "validate" or "apply"
    p,        \* the state of the current call of StreamRows
    norm,     \* lines of the normalized file
    invalid,  \* row numbers in the error report
    consumed  \* batches handed to the provider, per pass

streamVars == <<pass, p, norm, invalid, consumed>>

Kind == {"row", "invalid", "blank", "ragged", "broken"}
Line == [kind: Kind, size: Nat, out: Nat]
Format == {"csv", "jsonl", "xlsx"}
Err == {"none", "header", "line", "context", "row_limit", "output_limit", "provider"}

ASSUME StreamAssumption ==
    /\ \A s \in Sources : s \in [format: Format, header: {s.header}, lines: Seq(Line)]
    /\ Sources # {}
    /\ BatchSize \in Nat \ {0} /\ MaxRows \in Nat /\ MaxBytes \in Nat /\ MaxLine \in Nat

HeaderBytes == 1
BytesUpTo(lines) ==
    LET total[n \in 0..Len(lines)] == IF n = 0 THEN 0 ELSE total[n - 1] + lines[n].size
    IN total
Bytes(lines) == BytesUpTo(lines)[Len(lines)]
TotalBytes(s) == Bytes(s.lines) + (IF s.format = "jsonl" THEN 0 ELSE HeaderBytes)

(* The lines at the positions in K, of the first n lines.                  *)
Chosen(lines, K) ==
    LET chosen[n \in 0..Len(lines)] ==
            IF n = 0 THEN <<>>
            ELSE IF n \in K THEN Append(chosen[n - 1], lines[n]) ELSE chosen[n - 1]
    IN chosen

StreamTypeOK ==
    /\ pass \in {"validate", "apply"}
    /\ p.stage \in {"open", "lines", "ended"} /\ p.err \in Err
    /\ p.exceeded \in BOOLEAN
    /\ p.pos \in 1..(Len(p.src.lines) + 1)
    /\ Len(p.batch) <= BatchSize
    /\ p.rows \in 0..MaxRows /\ p.read \in 0..MaxBytes
    /\ norm \in Seq(Line)
    /\ invalid \subseteq Nat
    /\ DOMAIN consumed = {"validate", "apply"}

Opened(src) ==
    [src |-> src, stage |-> "open", pos |-> 1, batch |-> <<>>, rows |-> 0,
     read |-> 0, exceeded |-> FALSE, err |-> "none"]

StreamInit ==
    /\ pass = "validate"
    /\ \E s \in Sources : p = Opened(s)
    /\ norm = <<>>
    /\ invalid = {}
    /\ consumed = [c \in {"validate", "apply"} |-> <<>>]

Ended(q, err) == [q EXCEPT !.stage = "ended", !.err = err]
Quiet == UNCHANGED <<pass, norm, invalid, consumed>>
-----------------------------------------------------------------------------
ValidHeader(h) == h # <<>> /\ Blank \notin Range(h) /\ IsInjective(h)

(* Faulty variant: the last byte allowed is refused.                       *)
FitsStrictly(q, n) == q.read + n < MaxBytes

(* limitReader: a read beyond maxBytes fails once there is a further byte. *)
Fits(q, n) == q.read + n <= MaxBytes

(* What the reader makes of a line: a row, nothing, or an error.  XLSX     *)
(* pads or cuts a row to the header and keeps empty ones.                  *)
IsRow(format, l) ==
    \/ l.kind \in {"row", "invalid"}
    \/ l.kind = "ragged" /\ format # "csv"
    \/ l.kind = "blank" /\ format = "xlsx"
Skipped(format, l) == l.kind = "blank" /\ format # "xlsx"
Unreadable(format, l) ==
    \/ l.kind = "broken"
    \/ l.kind = "ragged" /\ format = "csv"
    \/ format = "jsonl" /\ l.size > MaxLine
-----------------------------------------------------------------------------
(* Faulty variant: numbers count the rows of the file alone.               *)
BatchNoHeader(q) ==
    [number |-> q.rows \div BatchSize + 1, first |-> q.rows + 1, rows |-> q.batch]

(* Row numbers are those of a spreadsheet whose first row is the header.   *)
Batch(q) ==
    [number |-> q.rows \div BatchSize + 1, first |-> q.rows + 2, rows |-> q.batch]

(* boundedWriter: the normalized file obeys the limit of the source.       *)
OutputFits(lines) == Bytes(norm) + Bytes(lines) <= MaxBytes

(* A valid row becomes one line of the normalized file.                    *)
Normalized(l) == [kind |-> "row", size |-> l.out, out |-> l.out]
ValidRows(rows) ==
    Chosen(rows, {i \in 1..Len(rows) : rows[i].kind # "invalid"})[Len(rows)]

(* The consumers, both external but for the output: the provider fails, or *)
(* names the invalid rows of the batch and returns the other ones.         *)
Consume(b) ==
    LET lines == [i \in 1..Len(ValidRows(b.rows)) |-> Normalized(ValidRows(b.rows)[i])]
        wrong == {b.first + i - 1 : i \in {k \in 1..Len(b.rows) : b.rows[k].kind = "invalid"}}
    IN
    /\ pass = "validate" => OutputFits(lines)
    /\ consumed' = [consumed EXCEPT ![pass] = Append(@, b)]
    /\ norm' = IF pass = "validate" THEN norm \o lines ELSE norm
    /\ invalid' = IF pass = "validate" THEN invalid \cup wrong ELSE invalid

(* The error report is bounded too.  Its issues have the provider's text,  *)
(* of any length, and go through a buffer: the writer may reach its limit  *)
(* at the first issue, at a later one, or in the last flush.               *)
ReportsIssues(rows) == \E i \in DOMAIN rows : rows[i].kind = "invalid"

WithinRowLimit(q) == q.rows + Len(q.batch) <= MaxRows

(* emit: q is the state with the batch that is due, next what follows.     *)
Emit(q, next) ==
    \/ /\ q.batch = <<>>
       /\ p' = [q EXCEPT !.stage = next]
       /\ Quiet
    \/ /\ q.batch # <<>>
       /\ \/ p' = Ended(q, "context") /\ Quiet
          \/ ~WithinRowLimit(q) /\ p' = Ended(q, "row_limit") /\ Quiet
          \/ /\ WithinRowLimit(q)
             /\ \/ p' = Ended(q, "provider") /\ Quiet
                \/ /\ Consume(Batch(q))
                   /\ p' = [q EXCEPT !.stage = next, !.rows = @ + Len(q.batch), !.batch = <<>>]
                   /\ UNCHANGED pass
                \/ /\ pass = "validate"
                   /\ \/ ~OutputFits([i \in 1..Len(ValidRows(q.batch)) |->
                                            Normalized(ValidRows(q.batch)[i])])
                      \/ ReportsIssues(q.batch)
                   /\ p' = Ended(q, "output_limit")
                   /\ Quiet

(* A line that is read joins the batch, and a full batch is emitted.       *)
Add(q, l) ==
    LET r == [q EXCEPT !.batch = Append(@, l)] IN
    IF Len(r.batch) = BatchSize THEN Emit(r, "lines")
                                ELSE p' = r /\ Quiet
-----------------------------------------------------------------------------
(* The header is read first; XLSX reads the whole file before it.          *)
Open ==
    LET q == [p EXCEPT !.stage = "lines"] IN
    /\ p.stage = "open"
    /\ \/ p.src.format = "jsonl" /\ p' = q
       \/ /\ p.src.format = "csv"
          /\ \/ /\ ~Fits(p, HeaderBytes)
                /\ p' = [Ended(p, "header") EXCEPT !.exceeded = TRUE]
             \/ /\ Fits(p, HeaderBytes)
                /\ p' = IF ValidHeader(p.src.header)
                        THEN [q EXCEPT !.read = HeaderBytes] ELSE Ended(p, "header")
       \/ /\ p.src.format = "xlsx"
          /\ \/ /\ ~Fits(p, TotalBytes(p.src))
                /\ p' = [Ended(p, "header") EXCEPT !.exceeded = TRUE]
             \/ /\ Fits(p, TotalBytes(p.src))
                /\ p' = IF ValidHeader(p.src.header)
                        THEN [q EXCEPT !.read = TotalBytes(p.src)] ELSE Ended(p, "header")
    /\ Quiet

NextLine == p.src.lines[p.pos]
LineBytes == IF p.src.format = "xlsx" THEN 0 ELSE NextLine.size

(* One round of the reading loop.                                          *)
ReadLine ==
    LET q == [p EXCEPT !.pos = @ + 1, !.read = @ + LineBytes] IN
    /\ p.stage = "lines" /\ ~p.exceeded
    /\ p.pos <= Len(p.src.lines)
    /\ Fits(p, LineBytes)
    /\ \/ Unreadable(p.src.format, NextLine) /\ p' = Ended(q, "line") /\ Quiet
       \/ /\ ~Unreadable(p.src.format, NextLine)
          /\ \/ Skipped(p.src.format, NextLine) /\ p' = q /\ Quiet
             \/ IsRow(p.src.format, NextLine) /\ Add(q, NextLine)

(* A line runs into the byte limit.  bufio.Scanner still hands out what it *)
(* has of it, which is a whole row if only the line break was cut off.     *)
CutLine ==
    LET q == [p EXCEPT !.exceeded = TRUE, !.read = MaxBytes] IN
    /\ p.stage = "lines" /\ ~p.exceeded
    /\ p.pos <= Len(p.src.lines)
    /\ ~Fits(p, LineBytes)
    /\ \/ p' = Ended(q, "line") /\ Quiet
       \/ /\ p.src.format = "jsonl"
          /\ Fits(p, LineBytes - 1)
          /\ IsRow("jsonl", NextLine) /\ ~Unreadable("jsonl", NextLine)
          /\ Add([q EXCEPT !.pos = @ + 1], NextLine)

(* The scanner's error follows the row that was cut.                       *)
AfterCut ==
    /\ p.stage = "lines" /\ p.exceeded
    /\ p' = Ended(p, "line")
    /\ Quiet

(* The end of the file: what is left is a last, smaller batch.             *)
AtEnd ==
    /\ p.stage = "lines" /\ ~p.exceeded
    /\ p.pos > Len(p.src.lines)
    /\ Emit(p, "ended")

(* The error StreamRows returns: an exceeded limit overrides any other.    *)
Result == IF p.exceeded THEN "byte_limit" ELSE p.err

(* What is left in the report's buffer is written once StreamRows ended.   *)
FlushReport ==
    /\ pass = "validate" /\ p.stage = "ended"
    /\ Result = "none" /\ invalid # {}
    /\ p' = Ended(p, "output_limit")
    /\ Quiet

(* Faulty variant: the normalized file is read in the source's format. *)
StartApplyAsUploaded ==
    /\ pass = "validate" /\ p.stage = "ended"
    /\ Result = "none" /\ invalid = {}
    /\ pass' = "apply"
    /\ p' = Opened([format |-> p.src.format, header |-> <<>>, lines |-> norm])
    /\ UNCHANGED <<norm, invalid, consumed>>

(* Validate succeeded without an invalid row, the user confirmed, and      *)
(* Apply opens the normalized file.                                        *)
StartApply ==
    /\ pass = "validate" /\ p.stage = "ended"
    /\ Result = "none" /\ invalid = {}
    /\ pass' = "apply"
    /\ p' = Opened([format |-> "jsonl", header |-> <<>>, lines |-> norm])
    /\ UNCHANGED <<norm, invalid, consumed>>

StreamNext == Open \/ ReadLine \/ CutLine \/ AfterCut \/ AtEnd \/ FlushReport \/ StartApply
-----------------------------------------------------------------------------
(* The reference: the rows of a source are its lines that are rows.        *)
RowPositions(s) == {i \in 1..Len(s.lines) : IsRow(s.format, s.lines[i])}
RowsOf(s) == Chosen(s.lines, RowPositions(s))[Len(s.lines)]

(* The rows of the batches the provider was given, in order.               *)
Joined(batches) ==
    LET joined[n \in 0..Len(batches)] ==
            IF n = 0 THEN <<>> ELSE joined[n - 1] \o batches[n].rows
    IN joined
Delivered(c) == Joined(consumed[c])[Len(consumed[c])]

(* Batches reach the provider in order and without a gap: number n holds   *)
(* the rows after the first (n-1) * BatchSize, all batches are full but    *)
(* the last, and the numbers say so.  Batch numbers are the idempotency    *)
(* keys of Apply, row numbers lead the user to the row.                    *)
BatchesInOrder ==
    \A c \in {"validate", "apply"} :
        /\ pass = c => IsPrefix(Delivered(c), RowsOf(p.src))
        /\ \A n \in 1..Len(consumed[c]) :
            /\ consumed[c][n].number = n
            /\ consumed[c][n].first = (n - 1) * BatchSize + 2
            /\ n < Len(consumed[c]) => Len(consumed[c][n].rows) = BatchSize

(* A reported row number is the row's place in the file, header included,  *)
(* as long as the file has a header and no line that is skipped.  With     *)
(* JSONL, or after an empty line, the code's numbers are not the lines of  *)
(* the file, and nothing is said here.                                     *)
ReportedRowIsInvalid ==
    (/\ pass = "validate" /\ p.src.format # "jsonl"
     /\ \A i \in 1..Len(p.src.lines) : ~Skipped(p.src.format, p.src.lines[i]))
        => \A n \in invalid :
            n - 1 \in DOMAIN p.src.lines /\ p.src.lines[n - 1].kind = "invalid"

(* Both at once: batches and rows have the numbers the provider and the    *)
(* user know them by.                                                      *)
RowNumbersAreRight == BatchesInOrder /\ ReportedRowIsInvalid

(* What makes a source acceptable, without the reading loop.               *)
Acceptable(s) ==
    /\ s.format = "jsonl" \/ ValidHeader(s.header)
    /\ \A i \in 1..Len(s.lines) : ~Unreadable(s.format, s.lines[i])
    /\ TotalBytes(s) <= MaxBytes
    /\ Len(RowsOf(s)) <= MaxRows

(* Reading ends well exactly if the source is acceptable, at the limits    *)
(* too; then all of it was read and hashed, and every row was delivered.   *)
LimitsAreExact ==
    p.stage = "ended" =>
        /\ Result = "none" =>
            /\ Acceptable(p.src)
            /\ p.read = TotalBytes(p.src)
            /\ Delivered(pass) = RowsOf(p.src)
        /\ Acceptable(p.src) => Result \in {"none", "context", "provider", "output_limit"}

(* What Validate accepted, Apply can read: the limits on what the first    *)
(* pass writes are the limits of the second, except for the scanner's      *)
(* buffer, which a CSV or XLSX source does not meet.                       *)
ReadyCanBeApplied ==
    (pass = "apply" /\ \A i \in 1..Len(norm) : norm[i].size <= MaxLine)
        => Result \in {"none", "context", "provider"}
=============================================================================
