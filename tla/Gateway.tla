------------------------------- MODULE Gateway -------------------------------
(***************************************************************************)
(* runtime/gateway/local_runtime_gateway.py: the boundary the console and  *)
(* the adapters talk to.  submit_event pushes an event and hands out a     *)
(* receipt; get_status and get_result look for a trace of the event among  *)
(* the traces of the runtime loop.  A receipt stands for one event and is  *)
(* named by it here.  The gateway has no await: its calls fall between two *)
(* stretches of the loop's cycle (RuntimeLoop._process_event), which are   *)
(* here the steps of the consumer over the queue.                          *)
(*                                                                         *)
(* Iterating over the loop's traces gives the active window of TraceWindow *)
(* only.  The agent registry and list_traces, which only reads, are left   *)
(* out, as are risk scores and times.                                      *)
(***************************************************************************)
EXTENDS EventQueue, Sequences, SequencesExt

CONSTANTS
    SessionId,      \* identifiers of sessions
    Session,        \* the session each event is submitted in
    MaxPending,     \* LocalRuntimeGateway.MAX_PENDING, 1000
    MaxActive       \* TraceWindow(max_active), 1000

ASSUME SessionAssumption == Session \in [EventId -> SessionId]
ASSUME PendingAssumption == MaxPending \in Nat \ {0}
ASSUME ActiveAssumption == MaxActive \in Nat \ {0}

VARIABLES
    pending,        \* _pending: receipts, in the order of insertion
    traces,         \* the active window of the loop's traces
    answers         \* what the client has been told of each receipt, if anything

gvars == <<vars, pending, traces, answers>>

Trace(e, verdict, status) ==
    [event_id |-> e, session_id |-> Session[e],
     p4_verdict |-> verdict, execution_status |-> status]

\* trace_to_public
PublicOf(t) ==
    CASE t.p4_verdict = "ALLOW" /\ t.execution_status = "SUCCESS" -> "ALLOW"
      [] t.p4_verdict = "BLOCK"                                   -> "BLOCK"
      [] t.p4_verdict # "BLOCK" /\ t.execution_status = "FAILED"  -> "FAILED"
      [] OTHER                                                    -> "UNKNOWN"

\* TraceWindow.append, as iteration sees it.
AppendTrace(t) ==
    LET grown == Append(traces, t)
    IN  traces' = IF Len(grown) > MaxActive THEN Tail(grown) ELSE grown

-----------------------------------------------------------------------------
(* submit_event *)

\* popitem(last=False) above MAX_PENDING
Trim(p) == IF Len(p) > MaxPending THEN Tail(p) ELSE p

SubmitEvent(e) ==
    /\ Push(e)
    /\ pending' = Trim(Append(pending, e))
    /\ UNCHANGED <<traces, answers>>

-----------------------------------------------------------------------------
(* get_status, get_result; await_result is get_result again and again *)

\* Mutant: the first trace of the event's session.
TracesOfSession(e) == {i \in DOMAIN traces : traces[i].session_id = Session[e]}

TracesOf(e) == {i \in DOMAIN traces : traces[i].event_id = e}

\* _find_trace gives the first of them.
Found(e) == TracesOf(e) # {}
FindTrace(e) == PublicOf(traces[Min(TracesOf(e))])

\* _pending.pop(receipt_id)
Answer(e, told) ==
    /\ \E i \in DOMAIN pending :
           pending[i] = e /\ pending' = RemoveAt(pending, i)
    /\ answers' = [answers EXCEPT ![e] = told]
    /\ UNCHANGED <<vars, traces>>

\* Mutant: the receipt is taken before the trace is looked for.
GetStatusPopsFirst(e) ==
    /\ Contains(pending, e)
    /\ Answer(e, IF ~Found(e) THEN answers[e]
                 ELSE IF FindTrace(e) # "UNKNOWN" THEN "completed" ELSE "failed")

\* Without a trace the answer is "pending", and nothing changes.
GetStatus(e) ==
    /\ Contains(pending, e)
    /\ Found(e)
    /\ Answer(e, IF FindTrace(e) # "UNKNOWN" THEN "completed" ELSE "failed")

GetResult(e) ==
    /\ Contains(pending, e)
    /\ Found(e)
    /\ Answer(e, FindTrace(e))

-----------------------------------------------------------------------------
(* The consumer: one cycle of the runtime loop, cut at its awaits *)

\* The loop pops only once open has returned.
GTakeEvent(e) ==
    /\ conn = "open"
    /\ Pop(e)
    /\ UNCHANGED <<pending, traces, answers>>

\* Mutant: a failed execution leaves no trace.
ExecutedUntraced(e) ==
    /\ Ack(e)
    /\ \/ AppendTrace(Trace(e, "ALLOW", "SUCCESS"))
       \/ UNCHANGED traces
    /\ UNCHANGED <<pending, answers>>

Executed(e) ==
    /\ Ack(e)
    /\ \E status \in {"SUCCESS", "FAILED"} : AppendTrace(Trace(e, "ALLOW", status))
    /\ UNCHANGED <<pending, answers>>

Blocked(e) ==
    /\ Nack(e)
    /\ \E verdict \in {"BLOCK", "DEFER", "REVIEW"} :
           AppendTrace(Trace(e, verdict, "FAILED"))
    /\ UNCHANGED <<pending, answers>>

Rejected ==
    /\ Drop
    /\ AppendTrace(Trace(held, "BLOCKED_BY_PREFLIGHT", ""))
    /\ UNCHANGED <<pending, answers>>

\* A stage raises, or the cycle is cancelled: no trace.
Raised == Drop /\ UNCHANGED <<pending, traces, answers>>

OpenQueue ==
    /\ held = NoEvent
    /\ Open \/ OpenRaises
    /\ UNCHANGED <<pending, traces, answers>>

\* The daemon is shut down, and its connection closed, while no event is in
\* flight.
CloseQueue == held = NoEvent /\ Close /\ UNCHANGED <<pending, traces, answers>>

\* The next process has a new gateway and a new window.
GProcessCrash ==
    /\ \/ Crash
       \/ \E e \in EventId : NackInterrupted(e)
       \/ \E e, n \in EventId : ReplayInterrupted(e, n)
    /\ pending' = <<>>
    /\ traces' = <<>>
    /\ UNCHANGED answers

GReplay(e, n) == ReplayDeadLetter(e, n) /\ UNCHANGED <<pending, traces, answers>>

-----------------------------------------------------------------------------
GInit ==
    /\ Init
    /\ pending = <<>>
    /\ traces = <<>>
    /\ answers = [e \in EventId |-> "nothing"]

GNext ==
    \/ OpenQueue
    \/ CloseQueue
    \/ GProcessCrash
    \/ Rejected
    \/ Raised
    \/ \E e \in EventId :
          \/ SubmitEvent(e)
          \/ GetStatus(e)
          \/ GetResult(e)
          \/ GTakeEvent(e)
          \/ Executed(e)
          \/ Blocked(e)
          \/ \E n \in EventId : GReplay(e, n)

GSpec == GInit /\ [][GNext]_gvars

-----------------------------------------------------------------------------
(* Properties *)

\* What a client is told of its receipt is what became of its own event: a
\* trace is written after the queue has settled the event, and found under
\* the event's identifier only.  A blocked event may still be retried.
AnswersTrue ==
    \A e \in EventId :
        LET row == events[e]
            settled == row.status = "completed"
            blocked == row.retry_count > 0
        IN  CASE answers[e] = "ALLOW"     -> settled
              [] answers[e] = "BLOCK"     -> blocked
              [] answers[e] = "FAILED"    -> settled \/ blocked
              [] answers[e] = "completed" -> settled \/ blocked
              [] answers[e] \in {"UNKNOWN", "failed"} -> row.status = "processing"
              [] OTHER -> TRUE

ReceiptKept(e) ==
    Contains(pending, e) /\ ~Contains(pending', e) =>
        \/ answers'[e] # "nothing"
        \/ /\ Head(pending) = e /\ Len(pending) = MaxPending
           /\ pending' # <<>> /\ ~Contains(pending, Last(pending'))
        \/ GProcessCrash

\* A receipt leaves the map only with an answer, as the oldest of
\* MAX_PENDING, or with the process.
ReceiptsKept == [][\A e \in EventId : ReceiptKept(e)]_gvars

\* A result is there for the client that asks with its receipt, until newer
\* traces have filled the window.
ResultUntilEvicted ==
    \A e \in EventId :
        Contains(pending, e) /\ events[e].status = "completed" =>
            Found(e) \/ Len(traces) = MaxActive

=============================================================================
