--------------------------- MODULE MCTraceWindow ---------------------------
(* A window of two traces and segments of two: eight traces fill the       *)
(* window, then a segment, then more than one segment's worth.             *)
EXTENDS TraceWindow

=============================================================================
