----------------------------- MODULE MCPipeline -----------------------------
(* Pipeline on a small instance: see MCPipeline.cfg. *)
EXTENDS Pipeline, TLC

\* The identifiers are interchangeable: rows are ordered by sequence_no only.
Symmetry == Permutations(EventId)

=============================================================================
