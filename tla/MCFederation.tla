---------------------------- MODULE MCFederation ----------------------------
(* Three nodes and four versions, two of them a gap and one a major away;    *)
(* scores at the threshold and at the top, so that groups tie, lose and come *)
(* close; metrics calm, far off, divided and unstable; traces that tie; the  *)
(* thresholds as they are by default, at the top, and out of balance.        *)
EXTENDS Federation

MCVersions == {<<1, 0, 0>>, <<1, 1, 0>>, <<1, 3, 0>>, <<2, 0, 0>>}
MCCurrent == <<1, 1, 0>>
MCScores == {<<70, 70>>, <<100, 100>>}
MCMetrics == {[stability |-> 9000, confidence |-> 7000, strength |-> 10000],
              [stability |-> 9000, confidence |-> 3000, strength |-> 9500],
              [stability |-> 7000, confidence |-> 9000, strength |-> 8900],
              [stability |-> 6000, confidence |-> 3000, strength |-> 10000]}

Start(drift, confidence, stability) ==
    [drift_tolerance |-> drift, confidence_threshold |-> confidence,
     stability_threshold |-> stability]
MCStarts == {Defaults, Start(500, 9996, 9995),
             Start(1000, 9500, 9900), Start(1000, 4000, 8000)}

\* What the floats do with the ties that are met from there, and with a change
\* of exactly the limit: 0.9996 - 0.8996 is above 0.10, and no other is.
MCTiesUp ==
    {<<v, 9>> : v \in {325, 405, 485, 665, 725, 805, 3175, 6175, 6495, 7145, 8385,
                       8465, 9405, 9995}}
        \cup {<<v, 11>> : v \in {325, 445, 485, 495, 545, 665, 805, 3175, 5905, 6175,
                                6925, 7145, 7935, 8015, 8385, 8465, 8625}}
MCOverLimit == {<<9996, 8996>>}

=============================================================================
