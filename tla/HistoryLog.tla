----------------------------- MODULE HistoryLog -----------------------------
(***************************************************************************)
(* The append-only CSV files of the bench harness: .audit/history.csv and  *)
(* forensics_history.csv, optimize_history.csv, and the two corpora of the *)
(* pre-flight.  All three writers open one file in append mode and decide  *)
(* beforehand whether the header is still missing; they differ in how they *)
(* ask.  Several processes may append at once and an append may fail in    *)
(* the middle (a full disk, a power cut), leaving part of a line.          *)
(***************************************************************************)
EXTENDS Integers, Sequences, FiniteSets, SequencesExt

CONSTANTS
    Writers,     \* processes
    Formats,     \* the kinds of file, see Format
    MaxRuns,     \* bound: appends started, over all processes
    MaxFailures  \* bound: appends that fail

\* test    when the header is looked for: "tell", the offset after the open; "size"
\*         and "exists", a stat before it
\* rows    rows one append writes
\* buffer  pieces that fit into the file object's buffer, at least the header
Format == [test : {"tell", "size", "exists"}, rows : Nat \ {0}, buffer : Nat \ {0, 1}]

ASSUME LogAssumption ==
    Formats \subseteq Format /\ MaxRuns \in Nat /\ MaxFailures \in Nat

VARIABLES
    format,   \* the file's kind
    exists,   \* the file is in the directory
    file,     \* its content, a sequence of pieces
    pc,       \* "idle", "tested", "open"
    missing,  \* the process found the header missing
    out,      \* pieces it has written to the file object and not to the file
    runs,     \* appends started
    run,      \* the number of the append a process is at
    \* history, read by no action's guard
    appended,   \* rows of the appends that succeeded, in order
    failures,   \* failed appends
    torn,       \* failed appends that left a piece
    overlapped  \* two processes had the file in hand at once

vars == <<format, exists, file, pc, missing, out, runs, run, appended, failures, torn, overlapped>>

HeaderTest == format.test
RowsPerRun == format.rows
Buffer     == format.buffer

-----------------------------------------------------------------------------
(* A line is two pieces, the second with the newline, so that an append can *)
(* stop in the middle of one; it stops before the last cell of the line.    *)

Header   == <<"header">>
Row(n, i) == <<n, i>>  \* row i of append n

Pieces(line)  == << <<line, 1>>, <<line, 2>> >>
Lines(lines)  == [k \in 1..(2 * Len(lines)) |-> <<lines[(k + 1) \div 2], 2 - (k % 2)>>]
RowsOf(n)     == [i \in 1..RowsPerRun |-> Row(n, i)]

\* What append n writes if it found the header missing, or not.
Text(n, first) == Lines((IF first THEN <<Header>> ELSE <<>>) \o RowsOf(n))

Ends == {i \in DOMAIN file : file[i][2] = 2 \/ i = Len(file)}

\* The pieces of the physical line that ends at i.
LineEndingAt(i) ==
    LET before == {j \in Ends : j < i}
        start  == IF before = {} THEN 1 ELSE 1 + (CHOOSE j \in before : \A h \in before : h <= j)
    IN  SubSeq(file, start, i)

Whole(pieces) == pieces = Pieces(pieces[1][1])

FirstLine == LineEndingAt(CHOOSE i \in Ends : \A j \in Ends : i <= j)

HeaderFirst == file = <<>> \/ FirstLine = Pieces(Header)

\* Mutations: the reader gives up at the first malformed row; it takes a
\* repeated header for a row.
ParsedUpToBad ==
    {i \in Ends : /\ i > 2
                  /\ \A j \in Ends : j <= i /\ j > 2 =>
                        Whole(LineEndingAt(j)) /\ LineEndingAt(j)[1][1] # Header}

ParsedWhole == {i \in Ends : i > 2 /\ Whole(LineEndingAt(i))}

\* _parse_row: a line of another shape, a repeated header among them, is skipped.
Parsed == {i \in Ends : /\ i > 2
                        /\ Whole(LineEndingAt(i))
                        /\ LineEndingAt(i)[1][1] # Header}

\* The k-th of a finite set of numbers.
Nth(S, k) == CHOOSE i \in S : Cardinality({j \in S : j <= i}) = k

\* read_last: nothing at all under a foreign header, else the last n rows.
Rows ==
    IF file = <<>> \/ ~HeaderFirst THEN <<>>
    ELSE LET ends == Parsed
         IN  [k \in 1..Cardinality(ends) |-> file[Nth(ends, k)][1]]

ReadLast(n) == IF n <= 0 THEN <<>>
               ELSE IF n >= Len(Rows) THEN Rows
               ELSE SubSeq(Rows, Len(Rows) - n + 1, Len(Rows))

-----------------------------------------------------------------------------
Init ==
    /\ format \in Formats
    /\ exists = FALSE /\ file = <<>>
    /\ pc = [w \in Writers |-> "idle"]
    /\ missing = [w \in Writers |-> FALSE]
    /\ out = [w \in Writers |-> <<>>]
    /\ runs = 0 /\ run = [w \in Writers |-> 0]
    /\ appended = <<>>
    /\ failures = 0 /\ torn = 0
    /\ overlapped = FALSE

\* Mutation: a file somebody else just created counts as having a header.
MissingFile == ~exists

HeaderMissing == IF HeaderTest = "exists" THEN ~exists ELSE file = <<>>

Busy(w) == \E v \in Writers \ {w} : pc[v] # "idle"

Start(w) ==
    /\ runs < MaxRuns
    /\ runs' = runs + 1
    /\ run' = [run EXCEPT ![w] = runs + 1]

\* exists() or stat() before the file is opened.
Test(w) ==
    /\ HeaderTest # "tell"
    /\ pc[w] = "idle"
    /\ Start(w)
    /\ missing' = [missing EXCEPT ![w] = HeaderMissing]
    /\ pc' = [pc EXCEPT ![w] = "tested"]
    /\ overlapped' = (overlapped \/ Busy(w))
    /\ UNCHANGED <<format, exists, file, out, appended, failures, torn>>

\* open("a"), which creates the file; tell() on it; the writerow calls, which
\* only fill the buffer.
Open(w) ==
    /\ IF HeaderTest = "tell"
         THEN /\ pc[w] = "idle"
              /\ Start(w)
              /\ missing' = [missing EXCEPT ![w] = HeaderMissing]
              /\ overlapped' = (overlapped \/ Busy(w))
         ELSE /\ pc[w] = "tested"
              /\ UNCHANGED <<runs, run, missing, overlapped>>
    /\ exists' = TRUE
    /\ out' = [out EXCEPT ![w] = Text(run'[w], missing'[w])]
    /\ pc' = [pc EXCEPT ![w] = "open"]
    /\ UNCHANGED <<format, file, appended, failures, torn>>

\* A full buffer goes to the end of the file, wherever a line stands.
Flush(w) ==
    /\ pc[w] = "open"
    /\ Len(out[w]) > Buffer
    /\ file' = file \o SubSeq(out[w], 1, Buffer)
    /\ out' = [out EXCEPT ![w] = SubSeq(@, Buffer + 1, Len(@))]
    /\ UNCHANGED <<format, exists, pc, missing, runs, run, appended, failures, torn, overlapped>>

Close(w) ==
    /\ pc[w] = "open"
    /\ Len(out[w]) <= Buffer
    /\ file' = file \o out[w]
    /\ appended' = appended \o RowsOf(run[w])
    /\ out' = [out EXCEPT ![w] = <<>>]
    /\ pc' = [pc EXCEPT ![w] = "idle"]
    /\ UNCHANGED <<format, exists, missing, runs, run, failures, torn, overlapped>>

\* The append stops after some of its pieces; history.py warns and goes on.
Fail(w) ==
    /\ pc[w] = "open"
    /\ failures < MaxFailures
    /\ failures' = failures + 1
    /\ \E k \in 0..(Len(out[w]) - 1) :
          /\ k <= Buffer
          /\ file' = file \o SubSeq(out[w], 1, k)
    /\ torn' = IF file' # <<>> /\ file'[Len(file')][2] = 1 THEN torn + 1 ELSE torn
    /\ out' = [out EXCEPT ![w] = <<>>]
    /\ pc' = [pc EXCEPT ![w] = "idle"]
    /\ UNCHANGED <<format, exists, missing, runs, run, appended, overlapped>>

Next == \E w \in Writers : Test(w) \/ Open(w) \/ Flush(w) \/ Close(w) \/ Fail(w)

Spec == Init /\ [][Next]_vars

-----------------------------------------------------------------------------
Headers == {i \in DOMAIN file : file[i] = <<Header, 1>>}

\* The file starts with the header or is empty, also when several processes created
\* it at once and when appends stopped anywhere but inside a line.  Where only the
\* existence of the file is tested, not: a file somebody just created, and one an
\* append left empty, count as started.  And "the header is emitted once on first
\* write" if one process at a time appends and none fails.
HeaderOnTop ==
    /\ HeaderTest # "exists" /\ torn = 0 => HeaderFirst
    /\ HeaderTest = "exists" /\ failures = 0 /\ ~overlapped => HeaderFirst
    /\ failures = 0 /\ ~overlapped => Cardinality(Headers) <= 1

\* Where an append is one write, a reader gets the rows of the successful
\* appends, in their order and nothing else, also when two processes both found
\* the file empty; with larger appends as long as they do not overlap.
ReadsWhatWasAppended ==
    LET inOneWrite == Buffer >= 2 * (RowsPerRun + 1) /\ HeaderTest # "exists"
        alone      == ~overlapped /\ \A w \in Writers : pc[w] # "open"
        From(n)    == IF n < Len(appended) THEN Len(appended) - n + 1 ELSE 1
    IN  failures = 0 /\ (inOneWrite \/ alone) =>
            \A n \in 1..3 : ReadLast(n) = SubSeq(appended, From(n), Len(appended))

\* "A single bad append can't break the whole trend command": while the header
\* is whole, every torn append costs at most one row of another append.
LossIsBounded ==
    HeaderFirst /\ Buffer >= 2 * (RowsPerRun + 1) =>
        Cardinality(ToSet(appended) \ ToSet(Rows)) <= torn

\* "Two concurrent audits can't race between is the file empty and open for
\* append and write header".
HeaderOnce == failures = 0 => Cardinality(Headers) <= 1
=============================================================================
