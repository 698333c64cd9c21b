-------------------------------- MODULE Epoch --------------------------------
(***************************************************************************)
(* epoch/living_epoch.py: an epoch takes a runtime through its phases,     *)
(* cycle by cycle, watches it with a telemetry probe and is called off     *)
(* when a velocity goes over its limit, or by abort() at any time.         *)
(*                                                                         *)
(* The runtime is a BenchmarkRuntime or a FederatedRuntime of two of them. *)
(* Its own capture comes before the epoch's, with the same probe: of the   *)
(* snapshots they take only those that fall on the epoch's call are        *)
(* tracked.  What the federation votes on is Federation's; an epoch never  *)
(* reads it.  Chaos injects nothing, and no runtime has the queue the mock *)
(* events are for.                                                         *)
(*                                                                         *)
(* Scores and entropies are what an assessment happens to give.  Probes    *)
(* assess as well (entropy, drift), so a capture leaves a new score in the *)
(* history it has just read.                                               *)
(***************************************************************************)
EXTENDS Telemetry

CONSTANTS
    Limit,              \* phase_cycle_limits: [phase -> cycles]
    BootMax,            \* cycles of a recovery boot at most, 50
    ReplayMax,          \* cycles of a replay validation at most, 100
    Intervals,          \* the capture intervals an epoch may be made with
    ReplayInterval,     \* capture interval of the replay's probes, 50
    AssessInterval,     \* cycles between two assessments, 10
    Window,             \* snapshots VelocityTracker keeps, 20
    MAX_EVENTS,         \* panic events PanicDetector keeps, 1000
    EntropyRunaway,     \* entropy_runaway_threshold, in percent per cycle
    OscillationExplosion, \* oscillation_explosion_threshold, per 100 cycles
    Scores,             \* governance scores an assessment may give
    Entropies           \* entropies it may give, in percent

Phase == {"WARMUP", "STABILIZATION", "CHAOS", "RECOVERY", "OBSERVATION", "SHUTDOWN",
          "RECOVERY_BOOT", "REPLAY_VALIDATION"}

ASSUME EpochAssumption ==
    /\ Limit \in [Phase -> Nat] /\ BootMax \in Nat /\ ReplayMax \in Nat
    /\ Intervals \cup {ReplayInterval, AssessInterval, Window, MAX_EVENTS} \subseteq Nat \ {0}
    /\ Scores \cup Entropies \subseteq Nat

VARIABLES
    kind,       \* "benchmark" or "federated": what runtime_factory makes
    chaos,      \* enable_chaos
    interval,   \* capture_interval
    phase,      \* number of the phase in the plan
    step,       \* where the epoch is: "phase", "cycle", "second" or "capture"
    ran,        \* phase_cycle
    cycles,     \* _cycle_count
    score,      \* newest governance score of the runtime's node, "a" or "b"
    probes,     \* the epoch's probe and those of the replay
    store,      \* the TelemetryStore they share
    tracker,    \* VelocityTracker._snapshots
    diverged,   \* VelocityTracker._replay_diverge_history
    events,     \* PanicDetector._events, the types
    aborted,    \* _aborted
    snapshots,  \* _phase_snapshots: phase and cycle
    report,     \* the report, {} before run returns
    captured    \* all captures: the snapshot, its probe and who asked for it
evars == <<kind, chaos, interval, phase, step, ran, cycles, score, probes, store, tracker,
           diverged, events, aborted, snapshots, report, captured>>
config == <<kind, chaos, interval>>

Plan == <<"WARMUP", "STABILIZATION">>
        \o (IF chaos THEN <<"CHAOS", "RECOVERY">> ELSE <<>>)
        \o <<"OBSERVATION", "SHUTDOWN", "RECOVERY_BOOT", "REPLAY_VALIDATION">>

\* The cycles a phase runs for; a federation is not replayed.
Length(p) == CASE p = "RECOVERY_BOOT" -> Min({Limit[p], BootMax})
               [] p = "REPLAY_VALIDATION" ->
                    IF kind = "federated" THEN 0 ELSE Min({Limit[p], ReplayMax})
               [] OTHER -> Limit[p]

EInit ==
    /\ kind \in {"benchmark", "federated"} /\ chaos \in BOOLEAN /\ interval \in Intervals
    /\ phase = 1 /\ step = "phase" /\ ran = 0 /\ cycles = 0
    /\ score = [n \in {"a", "b"} |-> NoScore]
    /\ probes = [p \in {"epoch", "a", "b"} |-> NewProbe]
    /\ store = NewStore
    /\ tracker = <<>> /\ diverged = <<>> /\ events = <<>>
    /\ aborted = FALSE /\ snapshots = <<>> /\ report = {} /\ captured = <<>>

Running == report = {}
Now == Plan[phase]
Fresh == Now \in {"RECOVERY_BOOT", "REPLAY_VALIDATION"}

-----------------------------------------------------------------------------
(* VelocityTracker and PanicDetector *)

Track(snaps, snapshot) == Newest(Window, Append(snaps, snapshot))

\* |b - a| over the cycles between them, in hundredths, is above limit; cycle
\* numbers that go back make no velocity.
Exceeds(a, b, from, to, limit) ==
    to > from /\ Max({100 * (b - a), 100 * (a - b)}) > limit * (to - from)

\* The replay's history is empty while this is called and nothing records a
\* latency: only two of the four panics come up.
Panics(snaps) ==
    LET a == snaps[1]
        b == snaps[Len(snaps)]
    IN  (IF Exceeds(a.oscillations, b.oscillations, a.cycle, b.cycle, OscillationExplosion)
         THEN <<"oscillation_explosion">> ELSE <<>>)
        \o (IF Exceeds(a.entropy, b.entropy, a.cycle, b.cycle, 100 * EntropyRunaway)
            THEN <<"entropy_runaway">> ELSE <<>>)

\* int(pair_div * 1000) of two entropies in percent.
Divergence(ref, sub) == 10 * Max({ref.entropy - sub.entropy, sub.entropy - ref.entropy})

DivergenceVelocity ==
    IF Len(diverged) < 2 THEN <<0, 1>>
    ELSE <<diverged[Len(diverged)] - diverged[1], Len(diverged)>>

-----------------------------------------------------------------------------
(* BenchmarkRuntime.cycle and TelemetryProbe.capture *)

\* _assess, on its schedule.
Assessed(n, cycle, s) == IF cycle % AssessInterval = 0 THEN s ELSE score[n]

IntervalOf(p) == IF p = "epoch" THEN interval ELSE ReplayInterval

\* capture of node n with probe p; by is who asks.  history is its newest score.
Capture(p, n, cycle, history, by) ==
    IF (probes[p].calls + 1) % IntervalOf(p) # 0
    THEN /\ probes' = [probes EXCEPT ![p] = Called(@)]
         /\ score' = [score EXCEPT ![n] = history]
         /\ UNCHANGED <<store, captured>>
    ELSE \E after \in Scores, entropy \in Entropies :
         LET seen == ExtractGovernanceScore(probes[p], history)
             snapshot == [cycle |-> cycle, governance |-> seen, entropy |-> entropy,
                          oscillations |-> Observe(probes[p], seen).oscillations]
         IN  /\ probes' = [probes EXCEPT ![p] = Observe(Called(@), seen)]
             /\ score' = [score EXCEPT ![n] = after]
             /\ store' = Record(store, snapshot)
             /\ captured' = Append(captured, [snapshot |-> snapshot, probe |-> p, by |-> by])

Taken == store'.count > store.count
Latest == store'.hot[Len(store'.hot)]

NodeCycle(p, n, cycle, by) ==
    \E s \in Scores : Capture(p, n, cycle, Assessed(n, cycle, s), by)

-----------------------------------------------------------------------------
(* LivingEpoch *)

StartPhase ==
    /\ Running /\ step = "phase" /\ ~aborted /\ phase <= Len(Plan)
    /\ step' = "cycle" /\ ran' = 0
    /\ score' = IF Fresh THEN [n \in {"a", "b"} |-> NoScore] ELSE score
    /\ UNCHANGED <<config, phase, cycles, probes, store, tracker, diverged, events, aborted,
                   snapshots, report, captured>>

Iterates == Running /\ step = "cycle" /\ ~aborted /\ ran < Length(Now)
Counted == cycles' = cycles + 1 /\ ran' = ran + 1

\* An iteration of a phase begins: the runtime, or its first node, cycles, and
\* the epoch drops what its capture returns.
PhaseCycle ==
    /\ Iterates /\ ~Fresh
    /\ Counted
    /\ NodeCycle("epoch", "a", cycles', "runtime")
    /\ step' = IF kind = "federated" THEN "second" ELSE "capture"
    /\ UNCHANGED <<config, phase, tracker, diverged, events, aborted, snapshots, report>>

\* The second node of a federation cycles with the same probe.
SecondNode ==
    /\ Running /\ step = "second" /\ ~Fresh
    /\ NodeCycle("epoch", "b", cycles, "runtime")
    /\ step' = "capture"
    /\ UNCHANGED <<config, phase, ran, cycles, tracker, diverged, events, aborted, snapshots, report>>

\* The end of an iteration: the epoch's own capture, and _check_panics.
EpochCapture ==
    /\ Running /\ step = "capture"
    /\ Capture("epoch", "a", cycles, score["a"], "epoch")
    /\ tracker' = IF Taken THEN Track(tracker, Latest) ELSE tracker
    /\ LET panics == IF Taken THEN Panics(tracker') ELSE <<>>
       IN  /\ events' = Newest(MAX_EVENTS, events \o panics)
           /\ aborted' = (aborted \/ panics # <<>>)
    /\ step' = "cycle"
    /\ UNCHANGED <<config, phase, ran, cycles, diverged, snapshots, report>>

\* The boot tracks what the capture of a fresh runtime returns, with the probe of
\* the epoch and without looking for panics; a federation is only counted.
BootCycle ==
    /\ Iterates /\ Now = "RECOVERY_BOOT"
    /\ Counted
    /\ IF kind = "federated" THEN UNCHANGED <<score, probes, store, captured>>
       ELSE NodeCycle("epoch", "a", ran', "boot")
    /\ tracker' = IF Taken THEN Track(tracker, Latest) ELSE tracker
    /\ UNCHANGED <<config, phase, step, diverged, events, aborted, snapshots, report>>

\* The replay: two fresh runtimes with probes of their own, which keep step.
ReplayCycle ==
    /\ Iterates /\ Now = "REPLAY_VALIDATION"
    /\ Counted
    /\ NodeCycle("a", "a", ran', "runtime")
    /\ step' = "second"
    /\ UNCHANGED <<config, phase, tracker, diverged, events, aborted, snapshots, report>>

ReplayPair ==
    /\ Running /\ step = "second" /\ Fresh
    /\ NodeCycle("b", "b", ran, "runtime")
    /\ diverged' = IF Taken THEN Newest(Window, Append(diverged, Divergence(store.hot[Len(store.hot)], Latest)))
                   ELSE diverged
    /\ step' = "cycle"
    /\ UNCHANGED <<config, phase, ran, cycles, tracker, events, aborted, snapshots, report>>

EndPhase ==
    /\ Running /\ step = "cycle" /\ (aborted \/ ran >= Length(Now))
    /\ snapshots' = Append(snapshots, [phase |-> Now, cycle |-> cycles])
    /\ phase' = phase + 1 /\ step' = "phase"
    /\ UNCHANGED <<config, ran, cycles, score, probes, store, tracker, diverged, events,
                   aborted, report, captured>>

Abort ==
    /\ Running /\ ~aborted
    /\ aborted' = TRUE
    /\ UNCHANGED <<config, phase, step, ran, cycles, score, probes, store, tracker, diverged,
                   events, snapshots, report, captured>>

\* Mutant: only the panics that were recorded count.
EvaluatePassFailByPanics ==
    ToSet(events) \cap {"entropy_runaway", "oscillation_explosion"} = {}

EvaluatePassFail ==
    ~aborted /\ ToSet(events) \cap {"entropy_runaway", "oscillation_explosion"} = {}

\* The phases are through, or were broken off.
Finish ==
    /\ Running /\ step = "phase" /\ (aborted \/ phase > Len(Plan))
    /\ report' = {[passed |-> EvaluatePassFail, captures |-> store.count,
                   divergence |-> DivergenceVelocity]}
    /\ UNCHANGED <<config, phase, step, ran, cycles, score, probes, store, tracker, diverged,
                   events, aborted, snapshots, captured>>

\* Whatever raises, run answers for it; what the epoch has gathered is lost.
Crash ==
    /\ Running
    /\ report' = {[passed |-> FALSE, captures |-> 0, divergence |-> <<0, 1>>]}
    /\ UNCHANGED <<config, phase, step, ran, cycles, score, probes, store, tracker, diverged,
                   events, aborted, snapshots, captured>>

ENext == \/ StartPhase \/ PhaseCycle \/ SecondNode \/ EpochCapture
         \/ BootCycle \/ ReplayCycle \/ ReplayPair \/ EndPhase \/ Abort \/ Finish \/ Crash

ESpec == EInit /\ [][ENext]_evars

-----------------------------------------------------------------------------
(* Properties *)

Snapshots == [i \in DOMAIN captured |-> captured[i].snapshot]

\* The captures of a sequence whose numbers are in `which', in their order.
Picked(caps, which) ==
    LET c[i \in 0..Len(caps)] ==
            IF i = 0 THEN <<>>
            ELSE IF i \in which THEN Append(c[i - 1], caps[i]) ELSE c[i - 1]
    IN  c[Len(caps)]

SeenBy(p) == Picked(captured, {i \in DOMAIN captured : captured[i].probe = p})
Checked == Picked(captured, {i \in DOMAIN captured : captured[i].by = "epoch"})

\* The store keeps the newest captures, whichever of the probes made them, and
\* its aggregates stand for consecutive stretches of the captures before, the
\* newest of which ends at the last full stretch: none is missed or told twice.
WarmCoversCaptures ==
    LET full == Len(captured) \div WARM_INTERVAL
        kept == Min({full, WARM_MAX})
        From(i) == (full - kept + i - 1) * WARM_INTERVAL
    IN  /\ store.hot = Newest(HOT_MAX, Snapshots)
        /\ store.warm = [i \in 1..kept |->
                            Aggregate(SubSeq(Snapshots, From(i) + 1, From(i) + WARM_INTERVAL))]

\* What a probe says of the governance is what the scores it captured say, in
\* whatever runtime: it counts each change of direction once, and its hysteresis
\* is the distance between the first and the last score it compared.
ProbeFollowsScores ==
    \A p \in DOMAIN probes :
        LET seen == SeenBy(p)
            g(i) == seen[i].snapshot.governance
            last == Min({Len(seen), HysteresisMax + 1})
        IN  /\ probes[p].oscillations =
                  Cardinality({i \in 3..Len(seen) : (g(i - 1) - g(i - 2)) * (g(i) - g(i - 1)) < 0})
            /\ Len(seen) > 1 => Hysteresis(probes[p]) = Max({g(last) - g(1), g(1) - g(last)})

\* The transitions of epoch_state.py, which nothing enforces.
PHASE_TRANSITIONS ==
    [WARMUP |-> {"STABILIZATION"}, STABILIZATION |-> {"CHAOS", "OBSERVATION"},
     CHAOS |-> {"RECOVERY", "OBSERVATION"}, RECOVERY |-> {"OBSERVATION", "CHAOS"},
     OBSERVATION |-> {"SHUTDOWN", "CHAOS", "RECOVERY"},
     SHUTDOWN |-> {"RECOVERY_BOOT", "POSTMORTEM"},
     RECOVERY_BOOT |-> {"REPLAY_VALIDATION", "POSTMORTEM"},
     REPLAY_VALIDATION |-> {"POSTMORTEM"}]

\* An epoch that passed was not called off, has run every phase of its plan for
\* its full length, one phase after another that may follow it, and no two
\* captures the epoch compared show a velocity above its limit.
PassedIsEarned ==
    \A r \in report : r.passed =>
        /\ ~aborted
        /\ [i \in DOMAIN snapshots |-> snapshots[i].phase] = Plan
        /\ \A i \in DOMAIN snapshots :
            /\ snapshots[i].cycle = Length(Plan[i]) + (IF i = 1 THEN 0 ELSE snapshots[i - 1].cycle)
            /\ i > 1 => Plan[i] \in PHASE_TRANSITIONS[Plan[i - 1]]
        /\ \A j \in DOMAIN Checked :
            LET a == Checked[Max({1, j - Window + 1})].snapshot
                b == Checked[j].snapshot
            IN  /\ ~Exceeds(a.entropy, b.entropy, a.cycle, b.cycle, 100 * EntropyRunaway)
                /\ ~Exceeds(a.oscillations, b.oscillations, a.cycle, b.cycle, OscillationExplosion)

=============================================================================
