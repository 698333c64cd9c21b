------------------------- MODULE MCDeltaCheckpoint -------------------------
(* Bases three blocks apart carry up to two deltas each.                   *)
EXTENDS DeltaCheckpoint

=============================================================================
