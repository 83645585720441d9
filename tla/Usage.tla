------------------------------- MODULE Usage -------------------------------
(***************************************************************************)
(* The usage series of a space (pkg/usage, handlers/metrics_sample.go): a  *)
(* reader takes the counters, scans the byte log and the upload log page   *)
(* by page, takes the counters again, and starts over while they moved.    *)
(* From a reading that held still it rebuilds what the space stored at the *)
(* end of each bucket by walking back from the present.  Meanwhile the     *)
(* space changes, as module Accounting says.                               *)
(*                                                                         *)
(* Instants are ticks of one second.  Bound: MaxQueries.                   *)
(***************************************************************************)
EXTENDS Accounting

CONSTANTS
    Queries,        \* queries: records [from, to, window]
    MaxWindow,      \* the longest window
    MaxSamples,     \* samples one call returns
    MaxScanRows,    \* rows one scan reads
    PageSize,       \* rows of a page
    Attempts,       \* readings before giving up (totalsAttempts)
    MaxQueries      \* queries made

ASSUME UsageAssumption ==
    /\ Queries \subseteq [from : Int, to : Int, window : Int]
    /\ MaxWindow \in Nat /\ MaxSamples \in Nat /\ MaxScanRows \in Nat
    /\ PageSize \in Nat \ {0} /\ Attempts \in Nat \ {0}

VARIABLES
    reader,     \* the reader: where it stands and what it has read
    queries     \* queries made

vars == <<accounts, reader, queries>>

NoReader ==
    [pc |-> "idle", status |-> "none", samples |-> <<>>,
     query |-> [from |-> 0, to |-> 0, window |-> 1], totals |-> NoInc, attempt |-> 0,
     cursor |-> {}, byteRows |-> {}, uploadRows |-> {}, began |-> 0]

Init == AccountInit /\ reader = NoReader /\ queries = 0

----------------------------------------------------------------------------
\* ParseRange and Sample: what is refused, and the range that is left.

Lesser(a, b) == IF a < b THEN a ELSE b
Greater(a, b) == IF a < b THEN b ELSE a

\* A range that runs past the present ends at the present, but never before it
\* starts.
Clamped(q) == [q EXCEPT !.to = IF q.to > now THEN Greater(now, q.from) ELSE q.to]

\* As many buckets as start before the end of the range.
Buckets(q) ==
    (q.to - q.from) \div q.window + (IF (q.to - q.from) % q.window # 0 THEN 1 ELSE 0)

\* Mutant: the number of samples is not bounded.
VerdictUnlimited(q) ==
    IF q.from <= 0 \/ q.to <= q.from THEN "invalidRange"
    ELSE IF q.window <= 0 \/ q.window > MaxWindow THEN "invalidWindow"
    ELSE IF Clamped(q).to <= q.from THEN "empty"
    ELSE "read"

Verdict(q) ==
    IF q.from <= 0 \/ q.to <= q.from THEN "invalidRange"
    ELSE IF q.window <= 0 \/ q.window > MaxWindow THEN "invalidWindow"
    ELSE IF Clamped(q).to <= q.from THEN "empty"
    ELSE IF Buckets(Clamped(q)) > MaxSamples THEN "tooManySamples"
    ELSE "read"

----------------------------------------------------------------------------
\* One page of a log in the order of (receipt_at, cause), after the cursor, or
\* after an instant when there is none.

Earlier(a, b) == a.at < b.at \/ (a.at = b.at /\ a.cause < b.cause)

Remaining(log, after, cursor) ==
    {e \in log : IF cursor = {} THEN e.at > after ELSE \A c \in cursor : Earlier(c, e)}

Page(log, after, cursor) ==
    LET rest == Remaining(log, after, cursor)
    IN  {e \in rest : Cardinality({f \in rest : Earlier(f, e)}) < PageSize}

\* The last row of a page that is not the last page.
NextCursor(log, after, cursor) ==
    LET page == Page(log, after, cursor)
    IN  IF page = Remaining(log, after, cursor) THEN {}
        ELSE {e \in page : \A f \in page : f = e \/ Earlier(f, e)}

\* The lower bound of the store is exclusive: the scan starts a second early.
ScanAfter(q) == q.from - 1

----------------------------------------------------------------------------
\* The series, rebuilt from the counters and the changes since the start.

Within(rows, from, to) == {e \in rows : from <= e.at /\ e.at < to}

BucketEnd(q, k) == Lesser(q.from + k * q.window, q.to)

\* Walk back from what is held now: shed what came after the bucket's end.
\* A balance below zero is reported as nothing held.
WalkBack(q, held_now, rows, k) ==
    Greater(0, held_now - SumOf({e \in rows : e.at >= BucketEnd(q, k)}))

Ingested(q, rows, k) ==
    SumOf({e \in Within(rows, q.from + (k - 1) * q.window, BucketEnd(q, k)) : e.delta > 0})

Series(q, bytes, count, byteRows, uploadRows) ==
    [k \in 1 .. Buckets(q) |->
        [end |-> BucketEnd(q, k),
         bytesStored |-> WalkBack(q, bytes, byteRows, k),
         bytesIngested |-> Ingested(q, byteRows, k),
         uploadCount |-> WalkBack(q, count, uploadRows, k)]]

\* Mutant: the upload counters are not compared.
SettledBytesOnly(before, after) ==
    \A m \in {"blobAddSize", "blobRemoveSize"} : before[m] = after[m]

\* The counters a series is built from held still across the scans.
Settled(before, after) ==
    \A m \in {"blobAddSize", "blobRemoveSize", "uploadAdd", "uploadRemove"} :
        before[m] = after[m]

\* storedBytes and storedUploads: counters that say that more was removed than
\* was added are an error.
StoredBytes(t) == t["blobAddSize"] - t["blobRemoveSize"]

StoredUploads(t) == t["uploadAdd"] - t["uploadRemove"]

----------------------------------------------------------------------------
\* The reader

Answer(status, samples) ==
    reader' = [NoReader EXCEPT !.status = status, !.samples = samples]

\* A query is refused, covers nothing yet, or takes the counters.
Begin(q) ==
    /\ reader.pc = "idle" /\ queries < MaxQueries
    /\ queries' = queries + 1
    /\ IF Verdict(q) # "read" THEN Answer(Verdict(q), <<>>)
       ELSE reader' = [NoReader EXCEPT !.pc = "bytes", !.query = Clamped(q), !.totals = total,
                                       !.attempt = 1, !.began = changes]
    /\ UNCHANGED accounts

\* One page of scan and of scanUploads.  Too many rows end the call; the last
\* page ends the scan.
ScanBytes ==
    LET after == ScanAfter(reader.query)
        rows == reader.byteRows \cup Page(byteLog, after, reader.cursor)
        cursor == NextCursor(byteLog, after, reader.cursor)
    IN  /\ reader.pc = "bytes"
        /\ IF Cardinality(rows) > MaxScanRows THEN Answer("rangeTooBusy", <<>>)
           ELSE reader' = [reader EXCEPT !.byteRows = rows, !.cursor = cursor,
                                         !.pc = IF cursor = {} THEN "uploads" ELSE "bytes"]
        /\ UNCHANGED <<accounts, queries>>

ScanUploads ==
    LET after == ScanAfter(reader.query)
        rows == reader.uploadRows \cup Page(uploadLog, after, reader.cursor)
        cursor == NextCursor(uploadLog, after, reader.cursor)
    IN  /\ reader.pc = "uploads"
        /\ IF Cardinality(rows) > MaxScanRows THEN Answer("rangeTooBusy", <<>>)
           ELSE reader' = [reader EXCEPT !.uploadRows = rows, !.cursor = cursor,
                                         !.pc = IF cursor = {} THEN "check" ELSE "uploads"]
        /\ UNCHANGED <<accounts, queries>>

\* Mutant: later attempts are compared with the first counters.
RetryAgainstFirst ==
    reader' = [reader EXCEPT !.pc = "bytes", !.attempt = @ + 1,
                             !.cursor = {}, !.byteRows = {}, !.uploadRows = {}]

\* The next attempt is measured from the counters just read.
Retry ==
    reader' = [reader EXCEPT !.pc = "bytes", !.totals = total, !.attempt = @ + 1,
                             !.cursor = {}, !.byteRows = {}, !.uploadRows = {}]

\* The counters again: a reading that held still is answered, one that did not
\* is repeated, a few times.
Check ==
    /\ reader.pc = "check"
    /\ LET bytes == StoredBytes(reader.totals)
           count == StoredUploads(reader.totals)
       IN  IF ~Settled(reader.totals, total)
           THEN IF reader.attempt >= Attempts THEN Answer("unstable", <<>>) ELSE Retry
           ELSE IF bytes < 0 \/ count < 0 THEN Answer("inconsistent", <<>>)
           ELSE Answer("ok", Series(reader.query, bytes, count, reader.byteRows, reader.uploadRows))
    /\ UNCHANGED <<accounts, queries>>

ReaderStep == ScanBytes \/ ScanUploads \/ Check

Next ==
    \/ AccountNext /\ UNCHANGED <<reader, queries>>
    \/ \E q \in Queries : Begin(q)
    \/ ReaderStep

Spec == Init /\ [][Next]_vars

----------------------------------------------------------------------------
\* Properties

\* Types, and the range of a query in progress is not empty.
TypeOK ==
    /\ backend \in {"postgres", "memory"}
    /\ now \in 1 .. MaxTime
    /\ uploads \subseteq Roots
    /\ reader.status \in {"none", "ok", "invalidRange", "invalidWindow", "empty",
                          "tooManySamples", "rangeTooBusy", "unstable", "inconsistent"}
    /\ Len(reader.samples) <= MaxSamples
    /\ reader.pc # "idle" => reader.query.from < reader.query.to

\* What the logs say was stored at an instant: everything recorded before it.
HeldAt(log, t) == SumOf({e \in log : e.at < t})

\* A series that is answered in Postgres, where a log and its counters move
\* together, covers the range, and each sample is what the two logs say now.
AnswersExactly ==
    backend = "postgres" /\ reader.pc = "check" /\ reader'.status = "ok" =>
        LET q == reader.query
        IN  /\ Len(reader'.samples) * q.window >= q.to - q.from
            /\ \A k \in DOMAIN reader'.samples :
                  LET s == reader'.samples[k]
                  IN  /\ s.bytesStored = HeldAt(byteLog, s.end)
                      /\ s.uploadCount = Greater(0, HeldAt(uploadLog, s.end))
                      /\ ~suppressed => s.uploadCount = HeldAt(uploadLog, s.end)
                      /\ s.bytesIngested =
                            SumOf({e \in byteLog :
                                      /\ e.at \in (q.from + (k - 1) * q.window) .. (s.end - 1)
                                      /\ e.delta > 0})

\* With changes committing at any point of the read and out of the order of
\* their instants, a series that is answered is exactly what the two logs hold
\* at the moment of the answer, for the bytes and the uploads of every bucket.
\* An upload whose log entry was suppressed is removed without having been
\* added, which may take the upload log below zero; then nothing is reported.
SeriesExact == [][AnswersExactly]_vars

\* A reader that gives up in Postgres has seen as many changes as attempts.
GivesUpWithCause ==
    backend = "postgres" /\ reader.pc = "check" /\ reader'.status = "unstable" =>
        changes - reader.began >= Attempts

\* A reader (readSpace) gives up only on a space that kept changing: since it
\* began there were at least as many changes as attempts.
UnstableJustified == [][GivesUpWithCause]_vars
=============================================================================
