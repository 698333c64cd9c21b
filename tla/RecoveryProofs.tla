--------------------------- MODULE RecoveryProofs ---------------------------
(***************************************************************************)
(* What a recovery restores and reports, for any limits, any number of     *)
(* cycles and processes and both checkpoint managers.                      *)
(***************************************************************************)
EXTENDS Recovery, TLAPS, SequenceTheorems

-----------------------------------------------------------------------------
(* The inductive invariant *)

RState == [status : {"stopped", "running"}, health : {"healthy", "degraded", "critical"},
           failures : Nat]

Agrees(s) ==
    /\ s \in RState
    /\ s.health = "critical" => s.failures >= CriticalAfter
    /\ s.health = "healthy" => s.failures < DegradedAfter

\* A snapshot, also the part of one: what is restored from it agrees again.
Sound(x) ==
    /\ x.complete \in BOOLEAN
    /\ x.traces \in Seq(Trace)
    /\ Agrees(x.state)
    /\ ~ x.complete => x.traces = <<>>

Typed ==
    /\ manager \in {"full", "delta"}
    /\ cycles \in Nat
    /\ traces \in Seq(Trace)
    /\ Agrees(state)

FilesSound == \A n \in DOMAIN files : Sound(files[n])

\* The checkpoints are known in the order they were written.
Numbered ==
    /\ metadata \in Seq(Nat)
    /\ \A i \in 1..Len(metadata) : metadata[i] <= cycles
    /\ \A i, j \in 1..Len(metadata) : i < j => metadata[i] < metadata[j]
    /\ manager = "delta" \/ metadata # <<>> => meta_file = metadata

\* The file of the newest one is there, whole, and the one the history kept,
\* unless a clear was interrupted that the metadata file does not know of.
LatestSaved ==
    /\ metadata = <<>> => saved = Partial
    /\ metadata # <<>> =>
          LET n == metadata[Len(metadata)]
          IN  \/ n \in DOMAIN files /\ files[n] = saved /\ saved.complete
              \/ n \notin DOMAIN files /\ saved = Partial /\ manager = "delta"

RInv == Typed /\ FilesSound /\ Numbered /\ LatestSaved

LEMMA Limits ==
    /\ DegradedAfter \in Nat /\ CriticalAfter \in Nat
    /\ 0 < DegradedAfter /\ DegradedAfter < CriticalAfter
  BY HealthAssumption

LEMMA FreshAgrees == Agrees(FreshState) /\ Sound(Partial)
<1>1. Agrees(FreshState)
  BY HealthAssumption DEF Agrees, FreshState, RState
<1>2. <<>> \in Seq(Trace)
  BY EmptySeq
<1> QED  BY <1>1, <1>2 DEF Sound, Partial

LEMMA InitRInv == Init => RInv
<1> SUFFICES ASSUME Init PROVE RInv
  OBVIOUS
<1>1. Typed
  BY FreshAgrees, EmptySeq DEF Init, Typed
<1>2. metadata = <<>> /\ metadata \in Seq(Nat) /\ Len(metadata) = 0 /\ meta_file = <<>>
  BY EmptySeq DEF Init
<1> QED  BY <1>1, <1>2 DEF Init, RInv, FilesSound, Numbered, LatestSaved

-----------------------------------------------------------------------------
(* The pieces of a step *)

\* record_cycle, after a success or a failure, and the mark of the stability
\* analysis.
LEMMA CycleAgrees ==
    ASSUME NEW s, Agrees(s),
           NEW u \in {RecordCycle(s, TRUE), RecordCycle(s, FALSE)}
                        \cup {[s EXCEPT !.health = "degraded"]}
    PROVE  Agrees(u)
<1>1. s \in RState /\ s.failures \in Nat
  BY DEF Agrees, RState
<1>2. CASE u = RecordCycle(s, TRUE)
  <2>1. u = [s EXCEPT !.failures = 0, !.health = "healthy"]
    BY <1>2 DEF RecordCycle
  <2> QED  BY <1>1, <2>1, Limits DEF Agrees, RState
<1>3. CASE u = RecordCycle(s, FALSE)
  <2> DEFINE n == s.failures + 1
  <2>1. PICK h : /\ u = [s EXCEPT !.failures = n, !.health = h]
                 /\ h = IF n >= CriticalAfter THEN "critical"
                        ELSE IF n >= DegradedAfter THEN "degraded"
                        ELSE s.health
    BY <1>3 DEF RecordCycle
  <2>2. n \in Nat /\ h \in {"healthy", "degraded", "critical"}
    BY <1>1, <2>1 DEF RState
  <2>3. u \in RState /\ u.failures = n /\ u.health = h
    BY <1>1, <2>1, <2>2 DEF RState
  <2> QED  BY <1>1, <2>1, <2>2, <2>3, Limits DEF Agrees
<1>4. CASE u = [s EXCEPT !.health = "degraded"]
  BY <1>1, <1>4 DEF Agrees, RState
<1> QED  BY <1>2, <1>3, <1>4

LEMMA CaptureSound ==
    ASSUME NEW t \in Seq(Trace), NEW s, Agrees(s)
    PROVE  Sound(Capture(t, s)) /\ Capture(t, s).complete
  BY DEF Sound, Capture

\* The list of known checkpoints with a new one: in order, and what the
\* pruning deletes is not the newest of either list.
LEMMA KnownWithNew ==
    ASSUME Typed, Numbered, NEW known \in {Append(metadata, cycles + 1)}
    PROVE  /\ known \in Seq(Nat) /\ Len(known) = Len(metadata) + 1
           /\ known[Len(known)] = cycles + 1
           /\ \A i \in 1..Len(known) : known[i] <= cycles + 1
           /\ \A i, j \in 1..Len(known) : i < j => known[i] < known[j]
           /\ cycles + 1 \notin Pruned(known)
           /\ metadata # <<>> => metadata[Len(metadata)] \notin Pruned(known)
           /\ Pruned(known) # {} => Pruned(known) = {known[1]} /\ Len(known) > 2
<1>1. metadata \in Seq(Nat) /\ Len(metadata) \in Nat /\ cycles \in Nat /\ cycles + 1 \in Nat
  BY LenProperties DEF Typed, Numbered
<1>2. /\ known \in Seq(Nat) /\ Len(known) = Len(metadata) + 1
      /\ known[Len(known)] = cycles + 1
      /\ \A i \in 1..Len(metadata) : known[i] = metadata[i]
  <2>1. known = Append(metadata, cycles + 1)
    OBVIOUS
  <2> QED  BY <1>1, <2>1, AppendProperties
<1>3. \A i \in 1..Len(metadata) : metadata[i] \in Nat
  BY <1>1, ElementOfSeq
<1>4. ASSUME NEW i \in 1..Len(known) PROVE known[i] <= cycles + 1
  <2>1. CASE i = Len(known)
    <3>1. cycles + 1 <= cycles + 1
      BY <1>1
    <3> QED  BY <1>2, <2>1, <3>1
  <2>2. CASE i # Len(known)
    <3>1. i \in 1..Len(metadata)
      BY <1>1, <1>2, <2>2
    <3>2. metadata[i] \in Nat /\ metadata[i] <= cycles /\ known[i] = metadata[i]
      BY <1>2, <1>3, <3>1 DEF Numbered
    <3> QED  BY <1>1, <3>2
  <2> QED  BY <2>1, <2>2
<1>5. \A i, j \in 1..Len(known) : i < j => known[i] < known[j]
  <2> SUFFICES ASSUME NEW i \in 1..Len(known), NEW j \in 1..Len(known), i < j
               PROVE  known[i] < known[j]
    OBVIOUS
  <2>1. i \in 1..Len(metadata) /\ known[i] = metadata[i] /\ metadata[i] <= cycles
    BY <1>1, <1>2 DEF Numbered
  <2>2. CASE j = Len(known)
    BY <1>1, <1>2, <1>3, <2>1, <2>2
  <2>3. CASE j # Len(known)
    <3>1. j \in 1..Len(metadata)
      BY <1>1, <1>2, <2>3
    <3>2. known[j] = metadata[j]
      BY <1>2, <3>1
    <3> QED  BY <2>1, <3>1, <3>2 DEF Numbered
  <2> QED  BY <2>2, <2>3
<1>6. Pruned(known) # {} => Pruned(known) = {known[1]} /\ Len(known) > 2
  <2>1. Head(known) = known[1]
    BY <1>1, <1>2, HeadTailProperties
  <2> QED  BY <1>1, <1>2, <2>1, CheckpointAssumption DEF Pruned
<1>7. /\ cycles + 1 \notin Pruned(known)
      /\ metadata # <<>> => metadata[Len(metadata)] \notin Pruned(known)
  <2> SUFFICES ASSUME Pruned(known) # {}
               PROVE  known[1] # cycles + 1 /\ metadata[Len(metadata)] # known[1]
    BY <1>6
  <2>1. 1 \in 1..Len(known) /\ Len(metadata) \in 1..Len(known) /\ 1 < Len(metadata)
    BY <1>1, <1>2, <1>6
  <2>2. known[1] < known[Len(metadata)] /\ known[1] < known[Len(known)]
    BY <1>1, <1>2, <1>5, <2>1
  <2>3. known[1] \in Nat /\ known[Len(metadata)] = metadata[Len(metadata)]
    BY <1>2, <2>1, ElementOfSeq
  <2>4. metadata[Len(metadata)] \in Nat
    BY <1>1, <1>3, <2>1
  <2> QED  BY <1>1, <1>2, <2>2, <2>3, <2>4
<1> QED  BY <1>2, <1>4, <1>5, <1>6, <1>7

LEMMA SaveRInv ==
    ASSUME RInv, NEW t \in Seq(Trace), NEW s, Agrees(s), Save(Capture(t, s)),
           cycles' = cycles + 1, manager' = manager
    PROVE  FilesSound' /\ Numbered' /\ LatestSaved'
<1> DEFINE known == Append(metadata, cycles + 1)
           x == Capture(t, s)
<1>1. Typed /\ Numbered /\ cycles \in Nat
  BY DEF RInv, Typed
<1>2. /\ known \in Seq(Nat) /\ Len(known) = Len(metadata) + 1
      /\ known[Len(known)] = cycles + 1
      /\ \A i \in 1..Len(known) : known[i] <= cycles + 1
      /\ \A i, j \in 1..Len(known) : i < j => known[i] < known[j]
      /\ cycles + 1 \notin Pruned(known)
      /\ Pruned(known) # {} => Pruned(known) = {known[1]} /\ Len(known) > 2
  BY <1>1, KnownWithNew
<1>3. /\ metadata' = IF Pruned(known) = {} THEN known ELSE Tail(known)
      /\ files' = Drop(Put(files, cycles + 1, x), Pruned(known))
      /\ meta_file' = metadata' /\ saved' = x
  BY DEF Save
<1>4. Sound(x) /\ x.complete
  BY CaptureSound
<1>5. Len(metadata) \in Nat
  BY <1>1, LenProperties DEF Numbered
<1> HIDE DEF known, x
<1>6. FilesSound'
  BY <1>3, <1>4 DEF RInv, FilesSound, Drop, Put
<1>7. cycles + 1 \in DOMAIN files' /\ files'[cycles + 1] = saved' /\ saved'.complete
  BY <1>2, <1>3, <1>4 DEF Drop, Put
<1>8. /\ metadata' \in Seq(Nat) /\ metadata'[Len(metadata')] = cycles + 1
      /\ \A i \in 1..Len(metadata') : metadata'[i] <= cycles + 1
      /\ \A i, j \in 1..Len(metadata') : i < j => metadata'[i] < metadata'[j]
  <2>1. CASE Pruned(known) = {}
    BY <1>2, <1>3, <2>1
  <2>2. CASE Pruned(known) # {}
    <3>1. /\ metadata' \in Seq(Nat) /\ Len(metadata') = Len(known) - 1
          /\ \A i \in 1..Len(metadata') : metadata'[i] = known[i + 1]
      BY <1>2, <1>3, <1>5, <2>2, HeadTailProperties
    <3>2. \A i \in 1..Len(metadata') : i + 1 \in 1..Len(known)
      BY <1>2, <1>5, <3>1
    <3>3. metadata'[Len(metadata')] = cycles + 1
      <4>1. Len(metadata') \in 1..Len(metadata') /\ Len(metadata') + 1 = Len(known)
        BY <1>2, <1>5, <2>2, <3>1
      <4> QED  BY <1>2, <3>1, <4>1
    <3>4. \A i, j \in 1..Len(metadata') : i < j => metadata'[i] < metadata'[j]
      <4> SUFFICES ASSUME NEW i \in 1..Len(metadata'), NEW j \in 1..Len(metadata'), i < j
                   PROVE  known[i + 1] < known[j + 1]
        BY <3>1
      <4>1. /\ i + 1 \in 1..Len(known) /\ j + 1 \in 1..Len(known) /\ i + 1 < j + 1
        BY <3>1, <3>2, LenProperties
      <4> QED  BY <1>2, <4>1
    <3> QED  BY <1>2, <3>1, <3>2, <3>3, <3>4
  <2> QED  BY <2>1, <2>2
<1>9. metadata' # <<>>
  <2>1. Len(metadata') > 0
    BY <1>2, <1>3, <1>5, <1>8, HeadTailProperties
  <2> QED  BY <2>1, EmptySeq
<1> QED  BY <1>3, <1>6, <1>7, <1>8, <1>9 DEF Numbered, LatestSaved

LEMMA CapturedAgrees ==
    ASSUME Typed, NEW s \in Captured, NEW success \in BOOLEAN
    PROVE  Agrees(s) /\ Agrees(RecordCycle(s, success))
<1>1. s = state \/ s \in {RecordCycle(state, TRUE), RecordCycle(state, FALSE)}
                            \cup {[state EXCEPT !.health = "degraded"]}
  BY DEF Captured
<1>2. Agrees(s)
  BY <1>1, CycleAgrees DEF Typed
<1>3. RecordCycle(s, success) \in {RecordCycle(s, TRUE), RecordCycle(s, FALSE)}
                                   \cup {[s EXCEPT !.health = "degraded"]}
  OBVIOUS
<1> QED  BY <1>2, <1>3, CycleAgrees

LEMMA CycleRInv == ASSUME RInv, Cycle PROVE RInv'
<1>1. Typed /\ Numbered /\ cycles' = cycles + 1 /\ cycles \in Nat /\ manager' = manager
  BY DEF RInv, Typed, Cycle
<1>2. ASSUME UNCHANGED <<metadata, disk, saved>>
      PROVE  FilesSound' /\ Numbered' /\ LatestSaved'
  <2>1. /\ metadata' = metadata /\ files' = files /\ meta_file' = meta_file
        /\ saved' = saved
    BY <1>2 DEF disk
  <2>2. \A i \in 1..Len(metadata) : metadata[i] \in Nat
    BY <1>1, ElementOfSeq DEF Numbered
  <2>3. Numbered'
    BY <1>1, <2>1, <2>2 DEF Numbered
  <2> QED  BY <1>1, <2>1, <2>3 DEF RInv, FilesSound, LatestSaved
<1>3. CASE FailsEarly
  <2>1. state' = RecordCycle(state, FALSE) /\ state \in Captured
    BY <1>3 DEF FailsEarly, Captured
  <2>2. Agrees(state)'
    BY <1>1, <2>1, CapturedAgrees
  <2>3. UNCHANGED <<metadata, disk, saved>> /\ traces' = traces
    BY <1>3 DEF FailsEarly
  <2>4. Typed'
    BY <1>1, <2>2, <2>3 DEF Typed
  <2> QED  BY <1>2, <2>3, <2>4 DEF RInv
<1>4. ASSUME NEW success \in BOOLEAN, Finalizes(success) PROVE RInv'
  <2>1. PICK t \in Trace, s \in Captured :
            /\ traces' = Append(traces, t)
            /\ state' = RecordCycle(s, success)
            /\ \/ Save(Capture(traces', s)) \/ SaveFails
               \/ UNCHANGED <<metadata, disk, saved>>
    BY <1>4 DEF Finalizes
  <2>2. traces' \in Seq(Trace)
    BY <1>1, <2>1, AppendProperties DEF Typed
  <2>3. Agrees(s) /\ Agrees(state)'
    BY <1>1, <2>1, CapturedAgrees
  <2>4. Typed'
    BY <1>1, <2>2, <2>3 DEF Typed
  <2>5. CASE Save(Capture(traces', s))
    BY <1>1, <2>2, <2>3, <2>4, <2>5, SaveRInv DEF RInv
  <2>6. CASE SaveFails
    <3>1. /\ files' = Put(files, cycles + 1, Partial) /\ metadata' = metadata
          /\ meta_file' = meta_file /\ saved' = saved
      BY <2>6 DEF SaveFails
    <3>2. \A i \in 1..Len(metadata) : metadata[i] \in Nat /\ metadata[i] # cycles + 1
      BY <1>1, ElementOfSeq DEF Numbered
    <3>3. Numbered'
      BY <1>1, <3>1, <3>2 DEF Numbered
    <3>4. FilesSound'
      BY <3>1, FreshAgrees DEF RInv, FilesSound, Put
    <3>5. metadata # <<>> => Len(metadata) \in 1..Len(metadata)
      BY <1>1, LenProperties, EmptySeq DEF Numbered
    <3>6. LatestSaved'
      BY <1>1, <3>1, <3>2, <3>5 DEF RInv, LatestSaved, Put
    <3> QED  BY <2>4, <3>3, <3>4, <3>6 DEF RInv
  <2> QED  BY <1>2, <2>1, <2>4, <2>5, <2>6 DEF RInv
<1> QED  BY <1>3, <1>4 DEF Cycle

LEMMA ClearRInv == ASSUME RInv, Clear PROVE RInv'
<1>1. /\ metadata' = <<>> /\ meta_file' = <<>> /\ files' = Drop(files, ToSet(metadata))
      /\ saved' = Partial /\ UNCHANGED <<manager, cycles, traces, state>>
  BY DEF Clear
<1>2. metadata' \in Seq(Nat) /\ Len(metadata') = 0
  BY <1>1, EmptySeq
<1> QED  BY <1>1, <1>2 DEF RInv, Typed, FilesSound, Numbered, LatestSaved, Drop

\* A crash in save touches only the file it was writing and the oldest one, and
\* a crash in clear may have removed the newest: no file is changed otherwise.
LEMMA CrashedFiles ==
    ASSUME RInv, CrashInSave \/ CrashInClear \/ UNCHANGED <<files, cycles>>
    PROVE  /\ FilesSound' /\ cycles' \in Nat /\ cycles <= cycles'
           /\ metadata # <<>> => LET n == metadata[Len(metadata)]
                                 IN  n \in DOMAIN files' =>
                                        n \in DOMAIN files /\ files'[n] = files[n]
<1>1. Typed /\ Numbered /\ cycles \in Nat
  BY DEF RInv, Typed
<1>2. CASE UNCHANGED <<files, cycles>>
  BY <1>1, <1>2 DEF RInv, FilesSound, LatestSaved
<1>3. CASE CrashInSave
  <2> DEFINE known == Append(metadata, cycles + 1)
  <2>1. PICK t \in Trace, s \in Captured, pruned \in BOOLEAN :
            /\ cycles' = cycles + 1
            /\ \/ files' = Put(files, cycles + 1, Partial)
               \/ files' = Drop(Put(files, cycles + 1, Capture(Append(traces, t), s)),
                                IF pruned THEN Pruned(known) ELSE {})
    BY <1>3 DEF CrashInSave
  <2> DEFINE x == Capture(Append(traces, t), s)
  <2>2. s = state \/ s \in {RecordCycle(state, TRUE), RecordCycle(state, FALSE)}
                              \cup {[state EXCEPT !.health = "degraded"]}
    BY DEF Captured
  <2>3. Agrees(s)
    BY <1>1, <2>2, CycleAgrees DEF Typed
  <2>4. Append(traces, t) \in Seq(Trace)
    BY <1>1, AppendProperties DEF Typed
  <2>5. Sound(x)
    BY <2>3, <2>4, CaptureSound
  <2>7. metadata # <<>> => metadata[Len(metadata)] # cycles + 1
    <3> SUFFICES ASSUME metadata # <<>> PROVE metadata[Len(metadata)] # cycles + 1
      OBVIOUS
    <3>1. metadata \in Seq(Nat) /\ Len(metadata) \in 1..Len(metadata)
      BY <1>1, LenProperties, EmptySeq DEF Numbered
    <3>2. metadata[Len(metadata)] \in Nat /\ metadata[Len(metadata)] <= cycles
      BY <1>1, <3>1, ElementOfSeq DEF Numbered
    <3> QED  BY <1>1, <3>2
  <2> HIDE DEF known, x
  <2>8. CASE files' = Put(files, cycles + 1, Partial)
    BY <1>1, <2>1, <2>7, <2>8, FreshAgrees DEF RInv, FilesSound, LatestSaved, Put
  <2>9. ASSUME NEW gone \in {{}, Pruned(known)},
               files' = Drop(Put(files, cycles + 1, x), gone)
        PROVE  /\ FilesSound'
               /\ metadata # <<>> => LET n == metadata[Len(metadata)]
                                     IN  n \in DOMAIN files' =>
                                            n \in DOMAIN files /\ files'[n] = files[n]
    <3> QED  BY <2>5, <2>7, <2>9 DEF RInv, FilesSound, LatestSaved, Put, Drop
  <2>10. cycles' \in Nat /\ cycles <= cycles'
    BY <1>1, <2>1
  <2> QED  BY <2>1, <2>8, <2>9, <2>10 DEF known, x
<1>4. CASE CrashInClear
  <2>1. PICK n : files' = Drop(files, ToSet(SubSeq(metadata, 1, n)))
    BY <1>4 DEF CrashInClear
  <2> QED  BY <1>1, <1>4, <2>1 DEF RInv, FilesSound, Drop, CrashInClear
<1> QED  BY <1>2, <1>3, <1>4

LEMMA RestartRInv == ASSUME RInv, Restart PROVE RInv'
<1>1. /\ FilesSound' /\ cycles' \in Nat /\ cycles <= cycles' /\ cycles \in Nat
      /\ metadata # <<>> => LET n == metadata[Len(metadata)]
                            IN  n \in DOMAIN files' =>
                                   n \in DOMAIN files /\ files'[n] = files[n]
  BY CrashedFiles DEF Restart, RInv, Typed
<1>2. /\ traces' = <<>> /\ state' = FreshState /\ manager' = manager
      /\ meta_file' = meta_file
      /\ metadata' = IF manager = "delta" THEN meta_file ELSE <<>>
      /\ saved' = IF metadata' # <<>> /\ metadata'[Len(metadata')] \in DOMAIN files'
                  THEN files'[metadata'[Len(metadata')]] ELSE Partial
  BY DEF Restart, Last
<1>3. Typed'
  BY <1>1, <1>2, FreshAgrees, EmptySeq DEF RInv, Typed
<1>4. /\ metadata' = <<>> \/ (metadata' = metadata /\ manager = "delta")
      /\ manager = "delta" => metadata' = metadata /\ meta_file = metadata
  BY <1>2 DEF RInv, Numbered
<1>5. Numbered'
  <2>1. <<>> \in Seq(Nat) /\ Len(<<>>) = 0
    BY EmptySeq
  <2>2. \A i \in 1..Len(metadata) : metadata[i] \in Nat /\ metadata[i] <= cycles
    BY ElementOfSeq DEF RInv, Numbered
  <2>3. \A i \in 1..Len(metadata) : metadata[i] <= cycles'
    BY <1>1, <2>2
  <2> QED  BY <1>2, <1>4, <2>1, <2>3 DEF RInv, Numbered
<1>6. LatestSaved'
  <2>1. CASE metadata' = <<>>
    BY <1>2, <2>1 DEF LatestSaved
  <2>2. CASE metadata' # <<>>
    <3> DEFINE n == metadata[Len(metadata)]
    <3>1. metadata' = metadata /\ manager = "delta"
      BY <1>4, <2>2
    <3>2. CASE n \in DOMAIN files'
      BY <1>1, <1>2, <2>2, <3>1, <3>2 DEF RInv, LatestSaved
    <3>3. CASE n \notin DOMAIN files'
      BY <1>2, <2>2, <3>1, <3>3 DEF LatestSaved
    <3> QED  BY <3>2, <3>3
  <2> QED  BY <2>1, <2>2
<1> QED  BY <1>1, <1>3, <1>5, <1>6 DEF RInv

\* What load_latest gives is the last checkpoint, or where none is known or its
\* file is gone, a part of one with nothing in it.
LEMMA LatestIsSaved ==
    ASSUME RInv
    PROVE  /\ Sound(LoadLatest) /\ LoadLatest = saved
           /\ saved.complete \/ saved = Partial
           /\ metadata # <<>> => saved.complete \/ manager = "delta"
           /\ metadata = <<>> => saved = Partial
  BY FreshAgrees DEF RInv, LatestSaved, FilesSound, LoadLatest, Last

LEMMA RecoverRInv == ASSUME RInv, Recover PROVE RInv'
<1>1. UNCHANGED <<manager, cycles, metadata, files, meta_file, saved>>
  BY DEF Recover, disk
<1>2. /\ LoadLatest.traces \in Seq(Trace) /\ Agrees(LoadLatest.state)
      /\ traces \in Seq(Trace) /\ Agrees(state)
  BY LatestIsSaved DEF Sound, RInv, Typed
<1>3. /\ traces' = traces \/ traces' = LoadLatest.traces
      /\ state' = state \/ state' = LoadLatest.state
  BY DEF Recover, ApplySnapshot
<1>4. Agrees(state)'
  BY <1>2, <1>3
<1>5. traces' \in Seq(Trace)
  BY <1>2, <1>3
<1> QED
  BY <1>1, <1>4, <1>5 DEF RInv, Typed, FilesSound, Numbered, LatestSaved

LEMMA NextRInv == RInv /\ [Next]_vars => RInv'
<1> SUFFICES ASSUME RInv, [Next]_vars PROVE RInv'
  OBVIOUS
<1>1. CASE Start \/ Stop
  <2>1. PICK v \in {"running", "stopped"} : state' = [state EXCEPT !.status = v]
    BY <1>1 DEF Start, Stop
  <2>2. Agrees(state)'
    BY <2>1 DEF RInv, Typed, Agrees, RState
  <2>3. UNCHANGED <<manager, cycles, traces, metadata, files, meta_file, saved>>
    BY <1>1 DEF Start, Stop, disk
  <2> QED  BY <2>2, <2>3 DEF RInv, Typed, FilesSound, Numbered, LatestSaved
<1>2. CASE UNCHANGED vars
  BY <1>2 DEF vars, memory, disk, RInv, Typed, FilesSound, Numbered, LatestSaved
<1> QED  BY <1>1, <1>2, CycleRInv, ClearRInv, RestartRInv, RecoverRInv DEF Next

-----------------------------------------------------------------------------
(* The theorems *)

\* What RInv says of the health, the report and the checkpoints holds in every
\* reachable state.
THEOREM RecoveryInvariance == Spec => []RInv
  BY InitRInv, NextRInv, PTL DEF Spec

\* The health a process has, after any failures, crashes and restores, is one
\* its count of failures justifies.
THEOREM HealthJustified == Spec => []HealthAgrees
<1>1. RInv => HealthAgrees
  BY DEF RInv, Typed, Agrees, HealthAgrees
<1> QED  BY <1>1, RecoveryInvariance, PTL

\* A report is written by recover, or wiped by the start of a process.
LEMMA ReportStep ==
    ASSUME Next, report' # report PROVE Recover \/ report' = NoReport
  BY DEF Next, Cycle, Start, Stop, Clear, Restart

\* What recover says it restored is the last checkpoint, and replaces all.
THEOREM RestoresLast == Spec => RestoresExactly
<1>1. ASSUME RInv, Next, report' # report, report'.restored > 0
      PROVE  traces' = saved.traces /\ state' = saved.state
  <2>1. Recover
    BY <1>1, ReportStep DEF NoReport
  <2>2. ~ LatestRaises /\ report'.restored = Len(LoadLatest.traces)
    BY <1>1, <2>1 DEF Recover, Report
  <2>3. Partial.traces = <<>> /\ Len(<<>>) = 0
    BY EmptySeq DEF Partial
  <2>4. LoadLatest = saved /\ saved.complete
    BY <1>1, <2>2, <2>3, LatestIsSaved DEF Sound
  <2> QED  BY <2>1, <2>2, <2>4 DEF Recover, ApplySnapshot
<1> QED  BY <1>1, RecoveryInvariance, PTL DEF Spec, RestoresExactly

\* The window the validator is given holds at most MaxActive traces.
LEMMA WindowBounded ==
    ASSUME NEW t \in Seq(Trace) PROVE Len(Window(t)) <= MaxActive
<1> DEFINE k == Len(t) - MaxActive + 1
           m == Max({1, k})
<1>1. Len(t) \in Nat /\ MaxActive \in Nat \ {0} /\ k \in Int
  BY LenProperties, CheckpointAssumption
<1>2. m \in {1, k} /\ m >= 1 /\ m >= k
  <2>1. \E x \in {1, k} : \A y \in {1, k} : x >= y
    BY <1>1
  <2> QED  BY <2>1 DEF Max
<1> HIDE DEF k, m
<1>3. CASE m > Len(t)
  BY <1>1, <1>2, <1>3, SubSeqProperties DEF Window, m, k
<1>4. CASE m <= Len(t)
  BY <1>1, <1>2, <1>4, SubSeqProperties DEF Window, m, k
<1> QED  BY <1>1, <1>2, <1>3, <1>4 DEF k

LEMMA ReportedSuccess ==
    ASSUME NEW valid \in BOOLEAN, Report(valid).success
    PROVE  ~ LatestRaises /\ ~ Unclean(traces, state) /\ valid
<1> DEFINE corruption == \/ Unclean(traces, state)
                         \/ LatestRaises
                         \/ LoadLatest.complete /\ ~ValidSnapshot(LoadLatest)
<1>1. Report(valid).success = (~ corruption /\ valid)
  BY DEF Report
<1> QED  BY <1>1

\* A success is reported only after an orderly stop, of no more traces than the
\* validator can read, and of the last checkpoint or, where there is none or
\* the manager cannot know of one, of nothing.
THEOREM SuccessEarned == Spec => SuccessIsEarned
<1>1. ASSUME RInv, Next, report' # report, report'.success
      PROVE  /\ state.status = "stopped"
             /\ Len(traces') <= MaxActive
             /\ \/ saved.complete /\ traces' = saved.traces /\ state' = saved.state
                \/ /\ report'.restored = 0 /\ UNCHANGED <<traces, state>>
                   /\ NothingKnown
  <2>1. Recover
    BY <1>1, ReportStep DEF NoReport
  <2> DEFINE original == IF LoadLatest.complete THEN LoadLatest.traces ELSE traces'
  <2>2. /\ ~ LatestRaises /\ ~ Unclean(traces, state)
        /\ ReplayValid(original, traces')
        /\ report'.restored = Len(LoadLatest.traces)
    <3> DEFINE valid == ReplayValid(original, traces')
    <3>1. valid \in BOOLEAN
      BY DEF ReplayValid
    <3>2. \/ LatestRaises /\ report' = Report(TRUE)
          \/ ~ LatestRaises /\ report' = Report(valid)
      BY <2>1 DEF Recover
    <3> HIDE DEF valid, original
    <3>3. LatestRaises => ~ report'.success
      BY <3>1, <3>2, ReportedSuccess
    <3>4. report' = Report(valid) /\ ~ LatestRaises
      BY <1>1, <3>2, <3>3
    <3>5. report'.restored = Len(LoadLatest.traces)
      BY <3>4 DEF Report
    <3> QED  BY <1>1, <3>1, <3>4, <3>5, ReportedSuccess DEF valid
  <2>3. /\ traces' = original
        /\ IF LoadLatest.complete
           THEN traces' = LoadLatest.traces /\ state' = LoadLatest.state
           ELSE UNCHANGED <<traces, state>>
    BY <2>1, <2>2 DEF Recover, ApplySnapshot
  <2>4. \/ saved.complete /\ traces' = saved.traces /\ state' = saved.state
        \/ /\ report'.restored = 0 /\ UNCHANGED <<traces, state>>
           /\ NothingKnown
    <3>1. CASE saved.complete
      BY <1>1, <2>3, <3>1, LatestIsSaved
    <3>2. CASE ~ saved.complete
      <4>1. LoadLatest = Partial /\ Partial.traces = <<>> /\ ~ Partial.complete
        BY <1>1, <3>2, LatestIsSaved DEF Partial
      <4>2. report'.restored = 0
        BY <2>2, <4>1, EmptySeq
      <4>3. manager = "full" \/ (manager = "delta" /\ metadata = <<>>)
        BY <1>1, <2>2 DEF RInv, Typed, LatestRaises
      <4>4. NothingKnown
        BY <1>1, <3>2, <4>3 DEF RInv, Numbered, NothingKnown
      <4> QED  BY <2>3, <4>1, <4>2, <4>4
    <3> QED  BY <3>1, <3>2
  <2>5. state.status = "stopped"
    BY <2>2 DEF Unclean
  <2>6. traces' \in Seq(Trace)
    BY <1>1, RecoverRInv, <2>1 DEF RInv, Typed
  <2>7. traces' # <<>> => traces' = Window(traces')
    BY <2>2, <2>3 DEF ReplayValid
  <2>8. Len(traces') <= MaxActive
    <3>1. CASE traces' = <<>>
      BY <3>1, EmptySeq, CheckpointAssumption
    <3>2. CASE traces' # <<>>
      BY <2>6, <2>7, <3>2, WindowBounded
    <3> QED  BY <3>1, <3>2
  <2> QED  BY <2>4, <2>5, <2>8
<1> QED  BY <1>1, RecoveryInvariance, PTL DEF Spec, SuccessIsEarned

=============================================================================
