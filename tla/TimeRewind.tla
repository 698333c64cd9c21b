----------------------------- MODULE TimeRewind -----------------------------
(***************************************************************************)
(* time_rewind/: traces put on a timeline by session and sequence number,  *)
(* rewound to a point of it, and replayed.  A trace has an event, a        *)
(* session, a sequence number and a final status; time is the position in  *)
(* the timeline, from 0.  Traces of one session may tie: the sort keeps    *)
(* those in the order given.                                               *)
(***************************************************************************)
EXTENDS Consensus

Earlier(t, u) == \/ t.session < u.session
                 \/ t.session = u.session /\ t.sequence < u.sequence

\* Mutant: the traces stay as they came.
TimelineAsGiven(traces) == traces

\* build_timeline: a stable sort.
Timeline(traces) ==
    LET Precedes(i, j) == \/ Earlier(traces[i], traces[j])
                          \/ i < j /\ ~Earlier(traces[j], traces[i])
        Rank(i) == Cardinality({j \in DOMAIN traces : j # i /\ Precedes(j, i)})
    IN  [k \in DOMAIN traces |-> traces[CHOOSE i \in DOMAIN traces : Rank(i) = k - 1]]

\* trace_map: of the traces of one event the one given last.
TraceOf(traces, event) == traces[Max({i \in DOMAIN traces : traces[i].event = event})]

Rewind(time, traces) ==
    LET line == Timeline(traces)
    IN  [k \in 1..Min({time + 1, Len(line)}) |-> TraceOf(traces, line[k].event)]

\* DeterministicReplayEngine.replay, as what the hash of the state is over; the
\* graph of traces without a proposal is a chain for every event.
ReplayHash(timeline) ==
    <<Timeline(timeline), {t.event : t \in ToSet(timeline)}>>

\* validate_replay
SameHistory(original, replayed) == Timeline(original) = Timeline(replayed)

=============================================================================
