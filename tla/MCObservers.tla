---------------------------- MODULE MCObservers ----------------------------
(* Five traces of two events, one of them retried in four ways; the graph  *)
(* and the store work every second trace, the assessments more often than  *)
(* in the code so that several of them fit.                                *)
EXTENDS Observers

MCTrace == {Normalize(1, FALSE, "BLOCKED_BY_PREFLIGHT", "none", "", 20),
            Normalize(1, TRUE, "BLOCK", "risk", "FAILED", 95),
            Normalize(1, TRUE, "ALLOW", "none", "SUCCESS", 20),
            Normalize(1, TRUE, "ALLOW", "none", "FAILED", 95),
            Normalize(2, TRUE, "ALLOW", "none", "SUCCESS", 95)}

MCQueue == {[depth |-> 0, dead |-> 0, failed |-> 0, total |-> 2, latency |-> Scale],
            [depth |-> 120, dead |-> 2, failed |-> 2, total |-> 2, latency |-> 0]}

=============================================================================
