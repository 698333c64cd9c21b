------------------------ MODULE GovernanceEvolution ------------------------
(***************************************************************************)
(* governance_evolution/: the thresholds of the governance, moved a little *)
(* every cycle by the metrics of the system and only with the consent of   *)
(* the guard.  A score is in ten-thousandths, which is what the engine     *)
(* rounds to.  Two things depend on the last bit of a float: which way a   *)
(* tie of the rounding goes, and on which side of the guard's limit a      *)
(* change of exactly the limit is found.  They are constants.              *)
(***************************************************************************)
EXTENDS Integers

CONSTANTS
    TiesUp,     \* <<v, n>> for which n tenths of v, a tie, are rounded up
    OverLimit   \* <<a, b>> whose difference is the limit, and found above it

Full == 10000
STABILITY_FREEZE_THRESHOLD == 7000
MAX_DELTA == 1000

ASSUME OverLimitAssumption == \A p \in OverLimit : p[1] - p[2] \in {-MAX_DELTA, MAX_DELTA}

Thresholds == {"drift_tolerance", "confidence_threshold", "stability_threshold"}

Defaults == [drift_tolerance |-> 1000, confidence_threshold |-> 7000,
             stability_threshold |-> 7000]

Lesser(a, b) == IF a < b THEN a ELSE b

\* GovernancePolicyEngine.evaluate
Evaluate(metrics) ==
    [stability |-> metrics.stability,
     drift |-> Full - Lesser(metrics.stability, metrics.confidence),
     fragmentation |-> Full - metrics.strength]

\* n tenths of the value, rounded.
Tenths(value, n) == (n * value + (IF <<value, n>> \in TiesUp THEN 5 ELSE 4)) \div 10

\* Mutant: one fifth.
ClampChangeTooFast(value, drift) ==
    IF 2 * drift > Full THEN Lesser(Full, Tenths(value, 12)) ELSE Tenths(value, 8)

\* _clamp_change
ClampChange(value, drift) ==
    IF 2 * drift > Full THEN Lesser(Full, Tenths(value, 11)) ELSE Tenths(value, 9)

\* GovernanceEvolutionEngine.evolve: no change of an unstable, a divided or a
\* calm system.
Evolve(state, m) ==
    IF \/ m.stability < STABILITY_FREEZE_THRESHOLD
       \/ m.fragmentation > state.drift_tolerance
       \/ m.drift <= state.drift_tolerance
    THEN state
    ELSE [f \in Thresholds |-> ClampChange(state[f], m.drift)]

InLimit(a, b) == a - b \in -MAX_DELTA..MAX_DELTA /\ <<a, b>> \notin OverLimit

Balanced(state) == state.stability_threshold <= state.confidence_threshold

\* GovernanceGuard.approve
Approve(current, proposed) ==
    /\ \A f \in Thresholds : InLimit(current[f], proposed[f]) /\ proposed[f] \in 0..Full
    /\ Balanced(proposed)

\* AdaptiveGovernanceLoop.tick
Tick(state, metrics) ==
    LET proposed == Evolve(state, Evaluate(metrics))
    IN  IF Approve(state, proposed) THEN proposed ELSE state

=============================================================================
