------------------------------ MODULE MCGateway ------------------------------
(* Two events of one session, each blocked once or twice, compete for one  *)
(* receipt and for the places in the active window.                        *)
EXTENDS Gateway

MCSession == [e \in EventId |-> "s1"]

=============================================================================
