-------------------------- MODULE DeltaCheckpoint --------------------------
(***************************************************************************)
(* recovery/delta_checkpoint.py: the checkpoint manager of the runtime     *)
(* loop.  A base holds a full snapshot; the checkpoints after it hold what *)
(* is new, until the next base.  Memory (_bases, _deltas,                  *)
(* _last_saved_trace_count) is lost in a crash and read back from          *)
(* bases.json; every file is written in place, so that a crash or a write  *)
(* error leaves a part of it that no reader accepts.                       *)
(*                                                                         *)
(* A cycle of this model is the block of cycles between two checkpoints of *)
(* RuntimeLoop._finalize_cycle: it adds one trace and one governance score *)
(* (the three score histories are treated alike), numbered through all     *)
(* processes, and ends with save.  A snapshot is the traces and scores it  *)
(* holds; its id is the number of the block.                               *)
(***************************************************************************)
EXTENDS Integers, FiniteSets, Sequences, SequencesExt

CONSTANTS
    BaseInterval,   \* base_interval, in blocks (500 / 100)
    MaxBases,       \* max_bases, 3
    HistorySize,    \* scores kept by GovernanceEngine, 20
    MaxBlocks       \* bound on the blocks run

ASSUME IntervalAssumption == BaseInterval \in Nat \ {0}
ASSUME BasesAssumption == MaxBases \in Nat \ {0, 1}
ASSUME HistoryAssumption == HistorySize \in Nat \ {0}
ASSUME BlocksAssumption == MaxBlocks \in Nat

VARIABLES
    block,          \* number of blocks run so far
    traces,         \* RuntimeLoop._traces of this process
    scores,         \* GovernanceEngine._score_history of this process
    bases,          \* _bases: what is known of each base, oldest first
    deltas,         \* _deltas: base id -> its delta segments
    last_saved,     \* _last_saved_trace_count
    base_files,     \* base id -> snapshot in its file, or Partial
    delta_files,    \* delta id -> its base id and whether its file is complete
    metadata,       \* bases.json
    cleared         \* history: bases whose files an interrupted clear removed

memory == <<traces, scores, bases, deltas, last_saved>>
disk == <<base_files, delta_files, metadata>>
vars == <<block, memory, disk, cleared>>

Partial == [traces |-> <<>>, scores |-> <<>>, complete |-> FALSE]
DeltaFile(base, complete) == [base_id |-> base, complete |-> complete]
Snapshot(t, s) == [traces |-> t, scores |-> s, complete |-> TRUE]

BaseMeta(id, t, s) == [base_id |-> id, cycle_count |-> Len(t),
                       score_count |-> Len(s)]

Segment(id, base, seq, t, s) ==
    [delta_id |-> id, base_id |-> base, sequence_no |-> seq,
     new_traces |-> t, new_scores |-> s]

NoDeltas == [b \in {} |-> <<>>]
Metadata(b, d) == [readable |-> TRUE, bases |-> b, deltas |-> d]
Unreadable == [readable |-> FALSE, bases |-> <<>>, deltas |-> NoDeltas]

With(f, x, v) == [y \in DOMAIN f \cup {x} |-> IF y = x THEN v ELSE f[y]]
Without(f, S) == [y \in DOMAIN f \ S |-> f[y]]

LatestBase == Last(bases)
Chain == IF LatestBase.base_id \in DOMAIN deltas
         THEN deltas[LatestBase.base_id] ELSE <<>>

-----------------------------------------------------------------------------
(* A block of cycles; its checkpoint sees the traces with the new one *)

Assess(history) ==
    LET grown == Append(history, block + 1)
    IN  IF Len(grown) > HistorySize THEN Tail(grown) ELSE grown

NewBlock ==
    /\ block < MaxBlocks
    /\ block' = block + 1
    /\ traces' = Append(traces, block + 1)
    /\ scores' = Assess(scores)

ShouldWriteBase ==
    bases # <<>> => Len(traces) + 1 - LatestBase.cycle_count >= BaseInterval

-----------------------------------------------------------------------------
(* _save_base *)

BasesWithNew == Append(bases, BaseMeta(block + 1, traces', scores'))

\* _prune_old_bases pops the oldest bases above the limit ...
PruneOldBases(b) ==
    IF Len(b) > MaxBases THEN SubSeq(b, Len(b) - MaxBases + 1, Len(b)) ELSE b

\* ... and removes their files.
PrunedIds(b) == {b[i].base_id : i \in DOMAIN b}
                  \ {PruneOldBases(b)[i].base_id : i \in DOMAIN PruneOldBases(b)}

NewBaseFile == With(base_files, block + 1, Snapshot(traces', scores'))

\* _write_metadata swallows its errors and leaves what it has written.  That
\* bases.json cannot even be opened is left out: the directory is the one just
\* written to.
WriteMetadata(b, d) == metadata' \in {Metadata(b, d), Unreadable}

\* Mutant: the counter of saved traces is left as it was.
SaveBaseKeepsCount ==
    /\ NewBlock
    /\ ShouldWriteBase
    /\ deltas' = NoDeltas
    /\ bases' = PruneOldBases(BasesWithNew)
    /\ base_files' = Without(NewBaseFile, PrunedIds(BasesWithNew))
    /\ WriteMetadata(bases', deltas')
    /\ UNCHANGED <<last_saved, delta_files, cleared>>

\* _deltas is cleared first, so the prune finds no delta files to remove.
SaveBase ==
    /\ NewBlock
    /\ ShouldWriteBase
    /\ deltas' = NoDeltas
    /\ bases' = PruneOldBases(BasesWithNew)
    /\ last_saved' = Len(traces')
    /\ base_files' = Without(NewBaseFile, PrunedIds(BasesWithNew))
    /\ WriteMetadata(bases', deltas')
    /\ UNCHANGED <<delta_files, cleared>>

\* Mutant: the base is registered before its file is written.
SaveBaseFailsLate ==
    /\ NewBlock
    /\ ShouldWriteBase
    /\ base_files' = With(base_files, block + 1, Partial)
    /\ bases' = PruneOldBases(BasesWithNew)
    /\ UNCHANGED <<deltas, last_saved, delta_files, metadata, cleared>>

\* The base file cannot be written: save returns "" and the chain goes on.
SaveBaseFails ==
    /\ NewBlock
    /\ ShouldWriteBase
    /\ base_files' = With(base_files, block + 1, Partial)
    /\ UNCHANGED <<bases, deltas, last_saved, delta_files, metadata, cleared>>

-----------------------------------------------------------------------------
(* _save_delta: the traces since the last save, the scores since the base *)

NextSequence == Len(Chain) + 1

NewSegment ==
    Segment(block + 1, LatestBase.base_id, NextSequence,
            SubSeq(traces', last_saved + 1, Len(traces')),
            SubSeq(scores', LatestBase.score_count + 1, Len(scores')))

ChainWithNew == With(deltas, LatestBase.base_id, Append(Chain, NewSegment))

SaveDelta ==
    /\ NewBlock
    /\ ~ShouldWriteBase
    /\ deltas' = ChainWithNew
    /\ last_saved' = Len(traces')
    /\ delta_files' = With(delta_files, block + 1,
                            DeltaFile(LatestBase.base_id, TRUE))
    /\ WriteMetadata(bases, deltas')
    /\ UNCHANGED <<bases, base_files, cleared>>

\* The delta file cannot be written: save returns "".
SaveDeltaFails ==
    /\ NewBlock
    /\ ~ShouldWriteBase
    /\ delta_files' = With(delta_files, block + 1,
                            DeltaFile(LatestBase.base_id, FALSE))
    /\ UNCHANGED <<bases, deltas, last_saved, base_files, metadata, cleared>>

(* clear removes the files of the bases and then of the deltas in memory, *)
(* oldest first, and then writes bases.json without them.                 *)

BaseIds(n) == {bases[i].base_id : i \in 1..n}
DeltaIds == {d.delta_id : d \in UNION {ToSet(deltas[b]) : b \in DOMAIN deltas}}
OldestDeltas(k) ==
    {d \in DeltaIds : Cardinality({e \in DeltaIds : e <= d}) <= k}

Clear ==
    /\ base_files' = Without(base_files, BaseIds(Len(bases)))
    /\ delta_files' = Without(delta_files, DeltaIds)
    /\ bases' = <<>>
    /\ deltas' = NoDeltas
    /\ WriteMetadata(bases', deltas')
    /\ UNCHANGED <<block, traces, scores, last_saved, cleared>>

-----------------------------------------------------------------------------
(* A crash of the process, and the next process *)

\* The next process reads bases.json, if it can, and starts without traces:
\* recovery does not restore any from this manager.
NextProcess(file) ==
    /\ metadata' = file
    /\ traces' = <<>>
    /\ scores' = <<>>
    /\ bases' = file.bases
    /\ deltas' = file.deltas
    /\ last_saved' = 0

Crash == /\ NextProcess(metadata)
         /\ UNCHANGED <<block, base_files, delta_files, cleared>>

\* A crash in _save_base: within the base file, after it, after the prune,
\* or within bases.json.
CrashInSaveBase ==
    /\ block < MaxBlocks
    /\ ShouldWriteBase
    /\ block' = block + 1
    /\ LET grown == Append(traces, block + 1)
           new == Append(bases, BaseMeta(block + 1, grown, Assess(scores)))
           written == With(base_files, block + 1,
                           Snapshot(grown, Assess(scores)))
           pruned == Without(written, PrunedIds(new))
       IN  \/ /\ base_files' = With(base_files, block + 1, Partial)
              /\ NextProcess(metadata)
           \/ base_files' = written /\ NextProcess(metadata)
           \/ base_files' = pruned /\ NextProcess(metadata)
           \/ base_files' = pruned /\ NextProcess(Unreadable)
    /\ UNCHANGED <<delta_files, cleared>>

\* A crash in _save_delta: at the delta file or within bases.json.
CrashInSaveDelta ==
    /\ block < MaxBlocks
    /\ ~ShouldWriteBase
    /\ block' = block + 1
    /\ \E complete \in BOOLEAN, file \in {metadata, Unreadable} :
          /\ complete \/ file = metadata
          /\ delta_files' = With(delta_files, block + 1,
                                  DeltaFile(LatestBase.base_id, complete))
          /\ NextProcess(file)
    /\ UNCHANGED <<base_files, cleared>>

\* A crash in clear: after n of the base files, after k of the delta files, or
\* within bases.json, which until then names what is gone.
CrashInClear ==
    /\ \E n \in 0..Len(bases), k \in 0..Cardinality(DeltaIds),
          file \in {metadata, Unreadable} :
          /\ k # 0 => n = Len(bases)
          /\ file # metadata => n = Len(bases) /\ k = Cardinality(DeltaIds)
          /\ base_files' = Without(base_files, BaseIds(n))
          /\ delta_files' = Without(delta_files, OldestDeltas(k))
          /\ cleared' = cleared \cup BaseIds(n)
          /\ NextProcess(file)
    /\ UNCHANGED block

-----------------------------------------------------------------------------
(* Loading *)

ApplyDeltas(base, chain) ==
    Snapshot(base.traces \o FlattenSeq([i \in DOMAIN chain |-> chain[i].new_traces]),
             base.scores \o FlattenSeq([i \in DOMAIN chain |-> chain[i].new_scores]))

\* A base without a readable file loads as nothing.
Loadable(b, id) == id \in DOMAIN b /\ b[id].complete

LoadLatest == ApplyDeltas(base_files[LatestBase.base_id], Chain)

-----------------------------------------------------------------------------
Init ==
    /\ block = 0
    /\ traces = <<>>
    /\ scores = <<>>
    /\ bases = <<>>
    /\ deltas = NoDeltas
    /\ last_saved = 0
    /\ base_files = NoDeltas
    /\ delta_files = NoDeltas
    /\ metadata = Metadata(<<>>, NoDeltas)
    /\ cleared = {}

Next ==
    \/ SaveBase
    \/ SaveBaseFails
    \/ SaveDelta
    \/ SaveDeltaFails
    \/ Clear
    \/ Crash
    \/ CrashInSaveBase
    \/ CrashInSaveDelta
    \/ CrashInClear

Spec == Init /\ [][Next]_vars

-----------------------------------------------------------------------------
(* Properties *)

\* The newest base that memory or a readable bases.json knows has its file,
\* complete: whatever write fails or is cut short, and whatever is pruned,
\* the last good checkpoint can be loaded.  The one exception is a clear that
\* a crash interrupts before it rewrites bases.json: the bases whose files it
\* removed are still named there, and load as nothing.
LatestLoadable ==
    \A known \in {bases, metadata.bases} :
        known # <<>> => \/ Loadable(base_files, Last(known).base_id)
                        \/ Last(known).base_id \in cleared

\* Loading the newest checkpoint gives every trace up to the last save of
\* this process, in order, after those of earlier processes, none twice.
TracesReconstructed ==
    bases # <<>> /\ Loadable(base_files, LatestBase.base_id) =>
        LET loaded == LoadLatest.traces
        IN  /\ IsInjective(loaded)
            /\ IsSuffix(SubSeq(traces, 1, last_saved), loaded)

=============================================================================
