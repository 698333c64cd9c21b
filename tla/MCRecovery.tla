----------------------------- MODULE MCRecovery -----------------------------
(* Two checkpoints are kept of a run that writes one with every trace; two *)
(* processes; one trace is active and the others are archived, so that a   *)
(* checkpoint may hold more than the window.                               *)
EXTENDS Recovery

=============================================================================
