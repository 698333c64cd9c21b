------------------------------ MODULE Telemetry ------------------------------
(***************************************************************************)
(* telemetry/: the probe, which looks at a runtime every few calls and     *)
(* compares the governance score with the scores it saw before, and the    *)
(* store, which keeps the newest snapshots and an aggregate of every       *)
(* WARM_INTERVAL of them.                                                  *)
(*                                                                         *)
(* A snapshot is its cycle number, the governance score, the entropy in    *)
(* percent and the oscillations so far; the other scores it carries are    *)
(* treated like these.  Nothing sets the health to "stalled", so the       *)
(* stall-free streak is the number of captures and is left out.            *)
(***************************************************************************)
EXTENDS Integers, Sequences, FiniteSets, SequencesExt, FiniteSetsExt

CONSTANTS
    HOT_MAX,        \* snapshots the store keeps, 1000
    WARM_INTERVAL,  \* captures between two aggregates, 1000
    WARM_MAX,       \* aggregates the store keeps, 500
    HysteresisMax   \* comparisons the hysteresis is taken over, 100

ASSUME TelemetryAssumption ==
    /\ {WARM_INTERVAL, WARM_MAX, HysteresisMax} \subseteq Nat \ {0}
    /\ HOT_MAX \in Nat /\ HOT_MAX >= WARM_INTERVAL

NoScore == -1

Newest(n, s) == SubSeq(s, Max({1, Len(s) - n + 1}), Len(s))

-----------------------------------------------------------------------------
(* TelemetryProbe *)

NewProbe == [calls |-> 0, last |-> NoScore, prev |-> NoScore, oscillations |-> 0,
             improvement |-> 0, degradation |-> 0, compared |-> 0]

Called(probe) == [probe EXCEPT !.calls = @ + 1]

\* history is the newest of the engine's scores, NoScore before the first one.
ExtractGovernanceScore(probe, history) ==
    IF history # NoScore THEN history
    ELSE IF probe.last # NoScore THEN probe.last ELSE 0

\* Mutant: the previous score is the one just read.
ComputeOscillationOfCurrent(probe, score) ==
    [probe EXCEPT !.oscillations = @ + (IF /\ probe.prev # NoScore /\ probe.last # NoScore
                                           /\ (probe.last - probe.prev) * (score - probe.last) < 0
                                        THEN 1 ELSE 0),
                  !.prev = score]

\* A change of direction; capture moves last on after this.
ComputeOscillation(probe, score) ==
    [probe EXCEPT !.oscillations = @ + (IF /\ probe.prev # NoScore /\ probe.last # NoScore
                                           /\ (probe.last - probe.prev) * (score - probe.last) < 0
                                        THEN 1 ELSE 0),
                  !.prev = probe.last]

ComputeHysteresis(probe, score) ==
    IF probe.last = NoScore \/ probe.compared >= HysteresisMax THEN probe
    ELSE [probe EXCEPT !.improvement = @ + Max({0, score - probe.last}),
                       !.degradation = @ + Max({0, probe.last - score}),
                       !.compared = @ + 1]

\* The hysteresis a snapshot reports, times the comparisons.
Hysteresis(probe) == Max({probe.improvement - probe.degradation,
                          probe.degradation - probe.improvement})

Observe(probe, score) ==
    [ComputeHysteresis(ComputeOscillation(probe, score), score) EXCEPT !.last = score]

-----------------------------------------------------------------------------
(* TelemetryStore *)

NewStore == [hot |-> <<>>, warm |-> <<>>, count |-> 0]

Total(F(_), window) == FoldLeft(LAMBDA a, s : a + F(s), 0, window)

\* Means are kept as totals.
Aggregate(window) ==
    [cycle_range |-> <<window[1].cycle, window[Len(window)].cycle>>,
     count |-> Len(window),
     governance |-> Total(LAMBDA s : s.governance, window),
     entropy |-> Total(LAMBDA s : s.entropy, window)]

Compress(store) ==
    [store EXCEPT !.warm = Newest(WARM_MAX, Append(@, Aggregate(Newest(WARM_INTERVAL, store.hot))))]

\* Mutant: the aggregate is made when the next snapshot comes in, before it.
RecordBehind(store, snapshot) ==
    LET before == IF store.count > 0 /\ (store.count + 1) % WARM_INTERVAL = 0
                  THEN Compress(store) ELSE store
    IN  [before EXCEPT !.hot = Newest(HOT_MAX, Append(@, snapshot)), !.count = @ + 1]

Record(store, snapshot) ==
    LET added == [store EXCEPT !.hot = Newest(HOT_MAX, Append(@, snapshot)), !.count = @ + 1]
    IN  IF added.count % WARM_INTERVAL = 0 THEN Compress(added) ELSE added

=============================================================================
