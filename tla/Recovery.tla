------------------------------ MODULE Recovery ------------------------------
(***************************************************************************)
(* recovery/recovery_coordinator.py over a checkpoint manager: the loop's  *)
(* cycles write checkpoints, processes die and start again, and recover    *)
(* runs at boot and in the crash boundary of a running daemon.  recover    *)
(* has no await and is one step; an observer that raises in it changes     *)
(* nothing of what it leaves behind.                                       *)
(*                                                                         *)
(* Two managers fit: CheckpointManager, which never reads its metadata     *)
(* back, and DeltaCheckpointManager, which does, and of which only the     *)
(* bases matter here (DeltaCheckpoint models the rest).  RuntimeLoop       *)
(* constructs the second one.                                              *)
(*                                                                         *)
(* A trace is its event, whose number is the digits its identifier ends    *)
(* with, and whether its final status is known.  A checkpoint is numbered  *)
(* by the cycle that wrote it.  The fingerprint of a snapshot holds memory *)
(* addresses (schema_version.py, fingerprint), so that it is the process.  *)
(***************************************************************************)
EXTENDS Integers, FiniteSets, Sequences, SequencesExt

CONSTANTS
    MaxCheckpoints,     \* max_checkpoints, 10, or max_bases, 3
    Interval,           \* cycles between two checkpoints, 100
    MaxActive,          \* traces that iterating over the window gives, 1000
    DegradedAfter,      \* consecutive failures until "degraded", 3
    CriticalAfter,      \* ... until "critical", 5
    Event,              \* numbers of the events
    MaxCycles,          \* bound on the cycles of all processes
    MaxProcesses        \* bound on the processes

ASSUME CheckpointAssumption == /\ {MaxCheckpoints, Interval, MaxActive} \subseteq Nat \ {0}
                               /\ MaxCheckpoints > 1
ASSUME HealthAssumption == {DegradedAfter, CriticalAfter} \subseteq Nat \ {0}
                           /\ DegradedAfter < CriticalAfter
ASSUME EventAssumption == Event \subseteq Nat
ASSUME RunAssumption == {MaxCycles, MaxProcesses} \subseteq Nat

VARIABLES
    manager,        \* the kind of manager the coordinator was given
    process,        \* number of the process
    cycles,         \* number of the last cycle
    traces,         \* RuntimeLoop._traces, archived ones included
    state,          \* RuntimeState: status, health_status, consecutive_failures
    metadata,       \* _metadata (or _bases): the checkpoints known, oldest first
    files,          \* checkpoint files: number -> snapshot
    meta_file,      \* metadata.json (or bases.json)
    report,         \* _last_report
    saved           \* history: the last checkpoint this process wrote or was told of

memory == <<traces, state, metadata>>
disk == <<files, meta_file>>
vars == <<manager, process, cycles, memory, disk, report, saved>>

FreshState == [status |-> "stopped", health |-> "healthy", failures |-> 0]

Trace == [event : Event, known : BOOLEAN]
Partial == [complete |-> FALSE, traces |-> <<>>, state |-> FreshState, process |-> 0]

\* RuntimeSnapshot.capture
Capture(t, s) == [complete |-> TRUE, traces |-> t, state |-> s, process |-> process]

NoReport == [mode |-> "none", success |-> FALSE, restored |-> 0,
             corruption |-> FALSE, replay_valid |-> TRUE]

Put(f, x, v) == [y \in DOMAIN f \cup {x} |-> IF y = x THEN v ELSE f[y]]
Drop(f, S) == [y \in DOMAIN f \ S |-> f[y]]

-----------------------------------------------------------------------------
(* save, prune, clear *)

\* What is popped from the front above the limit.
Pruned(known) == IF Len(known) > MaxCheckpoints THEN {Head(known)} ELSE {}

\* The file is written in place; without it nothing is recorded.
SaveFails == /\ files' = Put(files, cycles + 1, Partial)
             /\ UNCHANGED <<metadata, meta_file, saved>>

Save(snapshot) ==
    LET known == Append(metadata, cycles + 1)
    IN  /\ metadata' = IF Pruned(known) = {} THEN known ELSE Tail(known)
        /\ files' = Drop(Put(files, cycles + 1, snapshot), Pruned(known))
        /\ meta_file' = metadata'
        /\ saved' = snapshot

\* clear removes the files known, oldest first, then the metadata file.
Clear ==
    /\ files' = Drop(files, ToSet(metadata))
    /\ metadata' = <<>>
    /\ meta_file' = <<>>
    /\ saved' = Partial
    /\ UNCHANGED <<manager, process, cycles, traces, state, report>>

-----------------------------------------------------------------------------
(* A cycle of the loop: its trace, its checkpoint, then record_cycle *)

RecordCycle(s, success) ==
    IF success THEN [s EXCEPT !.failures = 0, !.health = "healthy"]
    ELSE [s EXCEPT !.failures = @ + 1,
                   !.health = IF s.failures + 1 >= CriticalAfter THEN "critical"
                              ELSE IF s.failures + 1 >= DegradedAfter THEN "degraded"
                              ELSE @]

\* The state that the checkpoint of a cycle captures: the stability analysis of
\* the same cycle may have marked it, which record_cycle overwrites if the
\* cycle succeeds.
Captured == {state, [state EXCEPT !.health = "degraded"]}

\* A stage of the pipeline raises: no trace.
FailsEarly ==
    /\ state' = RecordCycle(state, FALSE)
    /\ UNCHANGED <<traces, metadata, disk, saved>>

\* _finalize_cycle appends the trace first.  The observer or the telemetry may
\* raise after that, before or after the checkpoint: the cycle has failed and
\* what it has written stays.
Finalizes(success) ==
    \E t \in Trace, s \in Captured :
        /\ traces' = Append(traces, t)
        /\ state' = RecordCycle(s, success)
        /\ \/ /\ Len(traces') % Interval = 0
              /\ Save(Capture(traces', s)) \/ SaveFails
           \/ /\ success => Len(traces') % Interval # 0
              /\ UNCHANGED <<metadata, disk, saved>>

Cycle ==
    /\ state.status = "running"
    /\ cycles < MaxCycles
    /\ cycles' = cycles + 1
    /\ FailsEarly \/ \E success \in BOOLEAN : Finalizes(success)
    /\ UNCHANGED <<manager, process, report>>

Start == /\ state.status = "stopped"
         /\ state' = [state EXCEPT !.status = "running"]
         /\ UNCHANGED <<manager, process, cycles, traces, metadata, disk, report, saved>>

Stop == /\ state.status = "running"
        /\ state' = [state EXCEPT !.status = "stopped"]
        /\ UNCHANGED <<manager, process, cycles, traces, metadata, disk, report, saved>>

\* What a crash in save leaves of its file, and whether the pruning was done.
CrashInSave == \E t \in Trace, s \in Captured, pruned \in BOOLEAN :
    LET known == Append(metadata, cycles + 1)
        snapshot == Capture(Append(traces, t), s)
    IN  /\ state.status = "running" /\ cycles < MaxCycles
        /\ (Len(traces) + 1) % Interval = 0
        /\ cycles' = cycles + 1
        /\ \/ files' = Put(files, cycles + 1, Partial)
           \/ files' = Drop(Put(files, cycles + 1, snapshot),
                           IF pruned THEN Pruned(known) ELSE {})

\* A crash in clear: some of the files are gone, and the metadata file is not.
CrashInClear ==
    /\ \E n \in 0..Len(metadata) : files' = Drop(files, ToSet(SubSeq(metadata, 1, n)))
    /\ UNCHANGED cycles

\* A new process, after a crash or not.  Only DeltaCheckpointManager reads its
\* metadata when it is made.
Restart ==
    /\ process < MaxProcesses
    /\ process' = process + 1
    /\ CrashInSave \/ CrashInClear \/ UNCHANGED <<files, cycles>>
    /\ traces' = <<>>
    /\ state' = FreshState
    /\ metadata' = IF manager = "delta" THEN meta_file ELSE <<>>
    /\ saved' = IF metadata' # <<>> /\ Last(metadata') \in DOMAIN files'
                THEN files'[Last(metadata')] ELSE Partial
    /\ report' = NoReport
    /\ UNCHANGED <<manager, meta_file>>

-----------------------------------------------------------------------------
(* recover *)

\* CrashDetector.detect.  Identifiers that repeat or skip a number count as a
\* gap, also when the numbers mean nothing.
Numbers(t) == {t[i].event : i \in DOMAIN t}
Gap(t) ==
    /\ Len(t) >= 2
    /\ \/ Cardinality(Numbers(t)) < Len(t)
       \/ \E n \in Min(Numbers(t))..Max(Numbers(t)) : n \notin Numbers(t)

Unclean(t, s) ==
    \/ s.status # "stopped"
    \/ s.health = "critical"
    \/ Gap(t)
    \/ \E i \in DOMAIN t : ~t[i].known

\* A base of DeltaCheckpointManager has no checkpoint_id: reading it raises,
\* and the exception is recorded as corruption.
LatestRaises == manager = "delta" /\ metadata # <<>>

\* load_latest gives nothing where there is no file or a part of one.
LoadLatest == IF metadata # <<>> /\ Last(metadata) \in DOMAIN files
              THEN files[Last(metadata)] ELSE Partial

\* PersistenceGuard.validate_snapshot, of a snapshot of this schema.
ValidSnapshot(snapshot) == snapshot.process = process

\* Iteration over the window, which the validator is given as "replayed".
Window(t) == SubSeq(t, Max({1, Len(t) - MaxActive + 1}), Len(t))

\* ReplayValidator.validate: event and final status, trace by trace.
ReplayValid(original, t) == t # <<>> => original = Window(t)

\* Mutant: the old traces are kept before the restored ones.
ApplyAppends(snapshot) ==
    /\ traces' = IF snapshot.complete THEN traces \o snapshot.traces ELSE traces
    /\ state' = IF snapshot.complete THEN snapshot.state ELSE state

\* Mutant: the count of failures is not among the fields restored.
ApplyHealthOnly(snapshot) ==
    /\ traces' = IF snapshot.complete THEN snapshot.traces ELSE traces
    /\ state' = IF snapshot.complete
                THEN [snapshot.state EXCEPT !.failures = state.failures] ELSE state

\* _apply_snapshot.  An invalid snapshot is applied as well.
ApplySnapshot(snapshot) ==
    /\ traces' = IF snapshot.complete THEN snapshot.traces ELSE traces
    /\ state' = IF snapshot.complete THEN snapshot.state ELSE state

\* Mutant: only the exception of a later step is recorded.
ReportOptimist(valid) ==
    [mode         |-> IF Unclean(traces, state) THEN "crash_recovery" ELSE "clean_start",
     success      |-> ~Unclean(traces, state) /\ valid,
     restored     |-> IF LatestRaises THEN 0 ELSE Len(LoadLatest.traces),
     corruption   |-> Unclean(traces, state),
     replay_valid |-> valid]

\* success is computed last, from what the steps before have recorded.
Report(valid) ==
    LET corruption == \/ Unclean(traces, state)
                      \/ LatestRaises
                      \/ LoadLatest.complete /\ ~ValidSnapshot(LoadLatest)
    IN  [mode         |-> IF Unclean(traces, state) THEN "crash_recovery" ELSE "clean_start",
         success      |-> ~corruption /\ valid,
         restored     |-> IF LatestRaises THEN 0 ELSE Len(LoadLatest.traces),
         corruption   |-> corruption,
         replay_valid |-> valid]

Recover ==
    /\ IF LatestRaises
       THEN UNCHANGED <<traces, state>> /\ report' = Report(TRUE)
       ELSE /\ ApplySnapshot(LoadLatest)
            /\ report' = Report(ReplayValid(IF LoadLatest.complete THEN LoadLatest.traces
                                            ELSE traces', traces'))
    /\ UNCHANGED <<manager, process, cycles, metadata, disk, saved>>

-----------------------------------------------------------------------------
Init ==
    /\ manager \in {"full", "delta"}
    /\ process = 1
    /\ cycles = 0
    /\ traces = <<>>
    /\ state = FreshState
    /\ metadata = <<>>
    /\ files = [n \in {} |-> Partial]
    /\ meta_file = <<>>
    /\ report = NoReport
    /\ saved = Partial

Next == Cycle \/ Start \/ Stop \/ Clear \/ Restart \/ Recover

Spec == Init /\ [][Next]_vars

-----------------------------------------------------------------------------
(* Properties *)

\* After any number of cycles and of restores of an earlier state, the health is
\* "critical" only with the failures for it, and never "healthy" with too many:
\* it may be "degraded" without a failure, where a checkpoint has kept the mark
\* of the stability analysis.
HealthAgrees ==
    /\ state.health = "critical" => state.failures >= CriticalAfter
    /\ state.health = "healthy" => state.failures < DegradedAfter

\* INV-REC-001, "recovery must replace state": what recover says it restored
\* is the last checkpoint, and nothing else is left of the time since.
RestoresExactly ==
    [][report' # report /\ report'.restored > 0
        => /\ traces' = saved.traces
           /\ state' = saved.state]_vars

\* There is no checkpoint to restore, or none the manager can know of: the
\* disk holds no whole one, or no metadata file names any, or the process has
\* written none and its manager does not read the metadata of earlier ones.
NothingKnown ==
    \/ \A n \in DOMAIN files : ~files[n].complete
    \/ meta_file = <<>>
    \/ manager = "full" /\ ~saved.complete

\* recover reports success only of a loop that was stopped in order and of no
\* more traces than the validator reads, and only if it has restored the last
\* checkpoint, or restored nothing where there was none or none known.
SuccessIsEarned ==
    [][report' # report /\ report'.success
        => /\ state.status = "stopped"
           /\ Len(traces') <= MaxActive
           /\ \/ /\ saved.complete
                 /\ traces' = saved.traces /\ state' = saved.state
              \/ /\ report'.restored = 0 /\ UNCHANGED <<traces, state>>
                 /\ NothingKnown]_vars

=============================================================================
