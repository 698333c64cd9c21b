---------------------------- MODULE MCEventQueue ----------------------------
(* EventQueue on a small instance: see MCEventQueue.cfg. *)
EXTENDS EventQueue

=============================================================================
