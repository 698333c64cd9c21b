--------------------------- MODULE MCRuntimeDaemon ---------------------------
(* RuntimeDaemon on a small queue: a second event waits behind the first,  *)
(* is retried once and dead-lettered, and a third identifier is not needed *)
(* for a replay, which reuses the second one before it is pushed.          *)
EXTENDS RuntimeDaemon

=============================================================================
