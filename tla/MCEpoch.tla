------------------------------- MODULE MCEpoch -------------------------------
(***************************************************************************)
(* A short epoch: two cycles where the source has hundreds, intervals and  *)
(* limits that make the captures fall inside and after a runtime's cycle.  *)
(***************************************************************************)
EXTENDS Epoch

MCLimit == [p \in Phase |->
                CASE p \in {"CHAOS", "OBSERVATION", "REPLAY_VALIDATION", "RECOVERY_BOOT"} -> 2
                  [] OTHER -> 1]

=============================================================================
