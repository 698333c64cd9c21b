---------------------------- MODULE TraceWindow ----------------------------
(***************************************************************************)
(* runtime/trace_window.py: the bounded store of execution traces of the   *)
(* runtime loop, with a hot window and archived segments.  It is used by   *)
(* one coroutine at a time, so every operation is one step.                *)
(*                                                                         *)
(* A trace is what its digest line tells apart (event_id, final_status,    *)
(* risk_score).  A SHA-256 digest is the sequence of the chunks hashed,    *)
(* which makes it injective.  `appended' is a history variable: the traces *)
(* appended since the window was made or cleared.                          *)
(***************************************************************************)
EXTENDS Integers, Sequences, SequencesExt

CONSTANTS
    Trace,                  \* the traces that are told apart
    MaxActive,              \* max_active, 1000
    MaxArchivedSegments,    \* max_archived_segments, 100
    SegmentSize,            \* SEGMENT_SIZE, 1000
    MaxTotal                \* bound on the traces appended in a run

ASSUME WindowAssumption == MaxActive \in Nat \ {0}
ASSUME ArchiveAssumption == {MaxArchivedSegments, SegmentSize} \subseteq Nat \ {0}
ASSUME BoundAssumption == MaxTotal \in Nat

VARIABLES
    active,             \* _active
    archived,           \* _archived
    total_count,        \* _total_count
    archived_total,     \* _archived_total
    integrity_hash,     \* _integrity_hash
    appended            \* history

vars == <<active, archived, total_count, archived_total, integrity_hash, appended>>

NoHash == [chunks |-> <<>>, of |-> "nothing"]
Digest(chunks) == [chunks |-> chunks, of |-> "sha256"]

CompressedSegment(start, count, traces, hash) ==
    [start_cycle |-> start, end_cycle |-> start, count |-> count,
     traces |-> traces, integrity_hash |-> hash]

-----------------------------------------------------------------------------
(* Archiving *)

\* A trace that is archived opens the first segment or joins the last one.
BuildSegment(segments, t) ==
    IF segments = <<>>
    THEN <<CompressedSegment(archived_total, 1, <<t>>, NoHash)>>
    ELSE LET seg == Last(segments)
         IN  Append(Front(segments),
                    CompressedSegment(seg.start_cycle, seg.count + 1,
                                      Append(seg.traces, t), seg.integrity_hash))

\* From SEGMENT_SIZE traces on the segment gets the digest of its traces.
FinalizeSegment(segments) ==
    LET seg == Last(segments)
    IN  IF seg.count < SegmentSize THEN segments
        ELSE Append(Front(segments), [seg EXCEPT !.integrity_hash = Digest(seg.traces)])

Archive(t) == FinalizeSegment(BuildSegment(archived, t))

\* _prune_archived drops the oldest segments above the limit.
PruneArchived(segments) ==
    IF Len(segments) <= MaxArchivedSegments THEN segments
    ELSE SubSeq(segments, Len(segments) - MaxArchivedSegments + 1, Len(segments))

RollingHash(current, t) ==
    Digest(IF current = NoHash THEN <<t>> ELSE <<current, t>>)

\* append: popleft archives the oldest trace.  The window is full at most by one, so its while loop runs once.
AppendTrace(t) ==
    /\ total_count < MaxTotal
    /\ total_count' = total_count + 1
    /\ IF Len(active) >= MaxActive
       THEN /\ active' = Append(Tail(active), t)
            /\ archived' = PruneArchived(Archive(Head(active)))
            /\ archived_total' = archived_total + 1
       ELSE /\ active' = Append(active, t)
            /\ archived' = PruneArchived(archived)
            /\ UNCHANGED archived_total
    /\ integrity_hash' = RollingHash(integrity_hash, t)
    /\ appended' = Append(appended, t)

\* Recovery clears the window before it appends the traces of a snapshot.
Clear ==
    /\ active' = <<>>
    /\ archived' = <<>>
    /\ total_count' = 0
    /\ archived_total' = 0
    /\ integrity_hash' = NoHash
    /\ appended' = <<>>

-----------------------------------------------------------------------------
(* Reading *)

AllTraces == FlattenSeq([i \in 1..Len(archived) |-> archived[i].traces]) \o active

\* Python's //, which rounds down whatever the sign of the divisor.
FloorDiv(a, b) == IF b > 0 THEN a \div b ELSE (-a) \div (-b)

\* Python's reading of one bound of a slice on a sequence of length n.
Clamp(i, low, high, n) ==
    LET k == IF i < 0 THEN n + i ELSE i
    IN  IF k < low THEN low ELSE IF k > high THEN high ELSE k

\* s[start:stop:step] of a list
PySlice(s, start, stop, step) ==
    LET n == Len(s)
        low == IF step > 0 THEN 0 ELSE -1
        high == IF step > 0 THEN n ELSE n - 1
        from == Clamp(start, low, high, n)
        count == -FloorDiv(from - Clamp(stop, low, high, n), step)
    IN  [i \in 1..count |-> s[from + (i - 1) * step + 1]]

\* s[k] of a list
IndexError == "IndexError"
PyIndex(s, k) ==
    IF k < -Len(s) \/ k >= Len(s) THEN IndexError
    ELSE s[IF k < 0 THEN Len(s) + k + 1 ELSE k + 1]

Negative(i) == IF i >= 0 THEN i ELSE IF total_count + i < 0 THEN 0 ELSE total_count + i

\* Mutant: the window is taken to start at the first trace.
ActiveStartZero == 0

ActiveStart == total_count - Len(active)

\* __getitem__ with a slice: read off the hot window when the slice starts in
\* it.  A step then only divides how many traces are read, in a row.
GetSlice(start, stop, step) ==
    LET from == Negative(start)
        offset == from - ActiveStart
        last == offset + FloorDiv(Negative(stop) - from, step)
        end == IF last < Len(active) THEN last ELSE Len(active)
    IN  IF from >= ActiveStart THEN SubSeq(active, offset + 1, end)
                               ELSE PySlice(AllTraces, start, stop, step)

\* __getitem__ with an index.  One before the first trace is still negative
\* when it reaches the list of all traces, and counts from the end again.
GetIndex(key) ==
    LET k == IF key < 0 THEN total_count + key ELSE key
    IN  IF k < archived_total THEN PyIndex(AllTraces, k)
                              ELSE PyIndex(active, k - archived_total)

-----------------------------------------------------------------------------
Init ==
    /\ active = <<>>
    /\ archived = <<>>
    /\ total_count = 0
    /\ archived_total = 0
    /\ integrity_hash = NoHash
    /\ appended = <<>>

Next == Clear \/ \E t \in Trace : AppendTrace(t)

Spec == Init /\ [][Next]_vars

-----------------------------------------------------------------------------
(* Properties *)

\* OBS-BOUND-001 "full reconstruction": archiving neither loses, reorders nor
\* repeats a trace, across clear.  Slices and indices read the window as if it
\* were the list of all traces, on both sides of the border between the segments
\* and the hot window and past both ends, but for two cases in which the code
\* departs from a list: a step other than 1 in the hot window, where the first
\* (stop - start) // step traces are read in a row, and an index before the
\* first trace, which wraps around once more instead of failing.
ReadsAsList ==
    /\ AllTraces = appended /\ total_count = Len(appended)
    /\ \A start, stop, step \in -(total_count + 1)..(total_count + 1) :
          step = 1 \/ (step # 0 /\ Negative(start) < ActiveStart)
            => GetSlice(start, stop, step) = PySlice(appended, start, stop, step)
    /\ \A k \in -(2 * total_count + 1)..(2 * total_count + 1) :
          GetIndex(k) = PyIndex(appended,
                                IF k < -total_count THEN total_count + k ELSE k)

=============================================================================
