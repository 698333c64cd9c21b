------------------------------ MODULE Pipeline ------------------------------
(***************************************************************************)
(* The event pipeline over the queue, with its two drivers:                *)
(*   substrate  SubstrateLoop.run: stamps the event, tells the tap, and    *)
(*              hands an allowed proposal straight to the worker;          *)
(*   runtime    RuntimeLoop.run: awaits under the liveness monitor, tells  *)
(*              the tap once P3 has answered, checks the proposal with     *)
(*              PreflightAnalyzer and runs it in a cell of the SandboxPool.*)
(* Both write the ObservationTap, whose entries are what heartbeats and    *)
(* the trace store know of an event; the queue's rows are what happened.   *)
(*                                                                         *)
(* A step is the code between two awaits that suspend.  P3, P4, the worker *)
(* and on_audit are external callables: they answer anything or raise, and *)
(* the task may be cancelled while it waits for them.  What the trace of   *)
(* the runtime driver feeds is in Observers; the daemon's coroutines are   *)
(* in RuntimeDaemon.  Decision rows, texts and times are left out, and a   *)
(* raise after the event is settled, which changes none of this state.     *)
(***************************************************************************)
EXTENDS EventQueue, Sequences

CONSTANT MaxTraces      \* ExecutionTraceStore(max_size), 1000 by default

ASSUME MaxTracesAssumption == MaxTraces \in Nat \ {0}

VARIABLES
    driver,         \* the loop that runs the pipeline
    stage,          \* the await the task is in: idle, p3, p4 or sandbox
    required,       \* required_capabilities of the proposal in flight
    tap,            \* ObservationTap._events
    clock,          \* TimeKernel._counter
    traces,         \* ExecutionTraceStore._traces
    active,         \* number of cells in SandboxPool._active
    pool,           \* SandboxStats
    restricted,     \* CapabilityEnforcer._restricted
    awaited         \* the phase of LivenessMonitor._current_await, or "none"

memory == <<tap, clock, traces, active, pool, restricted, awaited>>
pvars == <<vars, driver, stage, required, memory>>

-----------------------------------------------------------------------------
(* Proposals, preflight and capabilities *)

Known == {"filesystem.write", "network.http"}

\* What the rules of preflight ask of a proposal: whether action, event_id
\* and session_id are there and the two scores within 0..1, the target, and
\* the capabilities, one of which may be unknown to the contract.  A
\* capability may be a plain string, which preflight and the enforcer take
\* for its value and enriched_to_trace_dict does not: enums if none is.
Proposal == [complete : BOOLEAN, target : BOOLEAN, enums : BOOLEAN,
             required : SUBSET (Known \cup {"unheard.of"})]

\* No rule of severity BLOCK fires.
Valid(p) ==
    /\ p.complete
    /\ p.required # {}
    /\ p.required \subseteq Known
    /\ "filesystem.write" \in p.required => p.target

\* CapabilityEnforcer.check
Permitted(caps) == caps \subseteq Known \ restricted

-----------------------------------------------------------------------------
(* The tap *)

\* Of p3_proposal the entry tells whether a trace can be made with it.
NoEntry == [status |-> "untapped", sequence_no |-> 0, proposal |-> "none",
            verdict |-> "none", result |-> "none"]

\* Mutant: an event that is known already keeps its entry.
ReceivedOnce(e, n) ==
    IF tap[e] = NoEntry
    THEN [NoEntry EXCEPT !.status = "received", !.sequence_no = n]
    ELSE [tap[e] EXCEPT !.status = "received", !.sequence_no = n]

\* tap_event_received: a new entry for every attempt.
Received(e, n) == [NoEntry EXCEPT !.status = "received", !.sequence_no = n]

\* tap_p3_proposal
WithProposal(entry, p) ==
    [entry EXCEPT !.proposal = IF p.enums \/ p.required = {}
                               THEN "traceable" ELSE "untraceable"]

WithResult(entry, result) ==
    [entry EXCEPT !.result = result,
        !.status = IF result = "SUCCESS" THEN "completed" ELSE "failed"]

Blocked(entry) == [entry EXCEPT !.status = "blocked"]

P4Status == [ALLOW |-> "P4_ALLOW", BLOCK |-> "P4_BLOCK"]

\* The verdict recorded is never empty, so that of the three outcomes of
\* _derive_final_status the last one does not occur here.
FinalStatus(entry) ==
    IF entry.result = "FAILED"        THEN "SANDBOX_FAILED"
    ELSE IF entry.verdict # "none"    THEN P4Status[entry.verdict]
    ELSE IF entry.status = "blocked"  THEN "P4_BLOCKED_BY_PREFLIGHT"
    ELSE "P4_UNKNOWN"

Trace(e, entry) == [event |-> e, sequence_no |-> entry.sequence_no,
                    final_status |-> FinalStatus(entry)]

\* ExecutionTraceStore.add
Add(t) == IF Len(traces) = MaxTraces THEN Append(Tail(traces), t)
                                     ELSE Append(traces, t)

\* The entry is settled: the tap keeps it and stores its trace, unless
\* making the trace raises, which _emit_trace swallows.
Emit(e, entry) ==
    /\ tap' = [tap EXCEPT ![e] = entry]
    /\ traces' = IF entry.proposal = "untraceable" THEN traces
                 ELSE Add(Trace(e, entry))

-----------------------------------------------------------------------------
(* The pool *)

NoExecutions == [total |-> 0, completed |-> 0, failed |-> 0]

\* SandboxPool.execute up to its await: the cell is acquired.
Acquire ==
    /\ active' = active + 1
    /\ pool' = [pool EXCEPT !.total = @ + 1]

Counted(p, result) ==
    IF result = "SUCCESS" THEN [p EXCEPT !.completed = @ + 1]
                          ELSE [p EXCEPT !.failed = @ + 1]

Release(result) ==
    /\ active' = active - 1
    /\ pool' = Counted(pool, result)

\* The cell refuses at once: acquired, counted and released in one stretch.
Refused ==
    /\ pool' = Counted([pool EXCEPT !.total = @ + 1], "FAILED")
    /\ UNCHANGED active

\* Mutant: a finally clause returns the cell.
LoseCellReleased == active' = active - 1 /\ UNCHANGED pool

\* on_audit raises, in the cell or in the pool, before _release: the cell
\* stays in _active, and the execution has been counted or not.
LoseCell ==
    /\ UNCHANGED active
    /\ pool' \in {pool, Counted(pool, "SUCCESS"), Counted(pool, "FAILED")}

-----------------------------------------------------------------------------
(* The pipeline *)

Substrate == driver = "substrate"
Runtime == driver = "runtime"

Idle == stage' = "idle" /\ required' = {}

\* pop to the await of P3.
Take(e) ==
    /\ stage = "idle" /\ conn = "open"
    /\ Pop(e)
    /\ stage' = "p3"
    /\ \/ /\ Substrate
          /\ clock' = clock + 1
          /\ tap' = [tap EXCEPT ![e] = Received(e, clock')]
          /\ UNCHANGED awaited
       \/ /\ Runtime
          /\ awaited' = "p3"
          /\ UNCHANGED <<clock, tap>>
    /\ UNCHANGED <<driver, required, traces, active, pool, restricted>>

\* The substrate shows the proposal to the tap, P4 and the worker.
SubstrateProposes(p) ==
    /\ Substrate
    /\ tap' = [tap EXCEPT ![held] = WithProposal(@, p)]
    /\ UNCHANGED <<vars, required, clock, traces, active, pool, restricted,
                   awaited>>

\* The event was not stamped: sequence_of returns None, and `or 0' gives 0.
Proposed(p) == WithProposal(Received(held, 0), p)

RuntimeProposes(p) ==
    /\ Runtime
    /\ Valid(p)
    /\ required' = p.required
    /\ tap' = [tap EXCEPT ![held] = Proposed(p)]
    /\ awaited' = "p4"
    /\ UNCHANGED <<vars, clock, traces, active, pool, restricted>>

P3Answers(p) ==
    /\ stage = "p3"
    /\ stage' = "p4"
    /\ SubstrateProposes(p) \/ RuntimeProposes(p)
    /\ UNCHANGED driver

\* Preflight refuses: the event is let go without ack or nack.
PreflightRejects(p) ==
    /\ Runtime
    /\ stage = "p3"
    /\ ~Valid(p)
    /\ Emit(held, Blocked(Proposed(p)))
    /\ Drop
    /\ Idle
    /\ awaited' = "none"
    /\ UNCHANGED <<driver, clock, active, pool, restricted>>

Allowed == [tap[held] EXCEPT !.verdict = "ALLOW"]

P4Allows ==
    /\ stage = "p4"
    /\ Runtime => Permitted(required)
    /\ stage' = "sandbox"
    /\ tap' = [tap EXCEPT ![held] = Allowed]
    /\ \/ Runtime /\ Acquire /\ awaited' = "sandbox"
       \/ Substrate /\ UNCHANGED <<active, pool, awaited>>
    /\ UNCHANGED <<vars, driver, required, clock, traces, restricted>>

\* Allowed by P4 and refused by the capability enforcer of the cell: the
\* execution has failed and the event is acked, all in one stretch.
CellRefuses ==
    /\ Runtime
    /\ stage = "p4"
    /\ ~Permitted(required)
    /\ Emit(held, WithResult(Allowed, "FAILED"))
    /\ Ack(held)
    /\ Refused
    /\ Idle
    /\ awaited' = "none"
    /\ UNCHANGED <<driver, clock, restricted>>

P4Blocks ==
    /\ stage = "p4"
    /\ Emit(held, Blocked([tap[held] EXCEPT !.verdict = "BLOCK"]))
    /\ Nack(held)
    /\ Idle
    /\ awaited' = "none"
    /\ UNCHANGED <<driver, clock, active, pool, restricted>>

\* The worker returned, raised or ran out of time: in both drivers the event
\* is acked, also when the execution failed.
Executed(result) ==
    /\ stage = "sandbox"
    /\ Emit(held, WithResult(tap[held], result))
    /\ Ack(held)
    /\ Idle
    /\ \/ Runtime /\ Release(result) /\ awaited' = "none"
       \/ Substrate /\ UNCHANGED <<active, pool, awaited>>
    /\ UNCHANGED <<driver, clock, restricted>>

\* Mutant: the exception handler leaves the tap alone.
SubstrateRaisesUntold ==
    /\ Substrate
    /\ stage # "idle"
    /\ Nack(held)
    /\ Idle
    /\ UNCHANGED <<driver, memory>>

\* P3 or P4 raises, or ack after the worker returned an output that is no
\* JSON: SubstrateLoop.run nacks the event, executed or not, and tells the
\* tap that it failed.
SubstrateRaises ==
    /\ Substrate
    /\ stage # "idle"
    /\ Nack(held)
    /\ Emit(held, WithResult(tap[held], "FAILED"))
    /\ Idle
    /\ UNCHANGED <<driver, clock, active, pool, restricted, awaited>>

\* The await itself raises, and the liveness monitor stays in it: P3, P4, or
\* in the sandbox on_audit.
AwaitRaises ==
    /\ IF stage = "sandbox" THEN LoseCell ELSE UNCHANGED <<active, pool>>
    /\ UNCHANGED <<tap, awaited>>

\* What follows the await raises, over an answer it cannot use: preflight,
\* record_decision, or ack over an output that is no JSON.
AnswerRaises ==
    /\ awaited' = "none"
    /\ \/ /\ stage = "p3"
          /\ \E p \in Proposal : tap' = [tap EXCEPT ![held] = Proposed(p)]
          /\ UNCHANGED <<active, pool>>
       \/ stage = "p4" /\ UNCHANGED <<tap, active, pool>>
       \/ /\ stage = "sandbox"
          /\ \E result \in {"SUCCESS", "FAILED"} : Release(result)
          /\ UNCHANGED tap

\* RuntimeLoop.run records the error and takes the next event: no ack or
\* nack, and no outcome in the tap.
RuntimeRaises ==
    /\ Runtime
    /\ stage # "idle"
    /\ AwaitRaises \/ AnswerRaises
    /\ Drop
    /\ Idle
    /\ UNCHANGED <<driver, clock, traces, restricted>>

\* on_audit raises on the refusal of the cell, which stays in _active.
RefusalRaises ==
    /\ Runtime
    /\ stage = "p4"
    /\ ~Permitted(required)
    /\ tap' = [tap EXCEPT ![held] = Allowed]
    /\ active' = active + 1
    /\ LET begun == [pool EXCEPT !.total = @ + 1]
       IN  pool' \in {begun, Counted(begun, "FAILED")}
    /\ awaited' = "sandbox"
    /\ Drop
    /\ Idle
    /\ UNCHANGED <<driver, clock, traces, restricted>>

\* The task is cancelled at an await: the rest of the stretch, the return of
\* the cell included, is skipped.  Some task runs the
\* loop again.
Cancelled ==
    /\ stage # "idle"
    /\ Drop
    /\ Idle
    /\ UNCHANGED <<driver, memory>>

-----------------------------------------------------------------------------
(* What happens around it *)

Forbid(c) == restricted' = restricted \cup {c}
Allow(c) == restricted' = restricted \ {c}

SetCapabilities ==
    /\ \E c \in Known : Forbid(c) \/ Allow(c)
    /\ UNCHANGED <<vars, driver, stage, required, tap, clock, traces, active,
                   pool, awaited>>

\* Producers push at any await.  run opens the queue again, and pops only if
\* open has not raised.
Around ==
    /\ \/ \E e \in EventId : Push(e)
       \/ stage = "idle" /\ conn # "open" /\ (Open \/ OpenRaises)
    /\ UNCHANGED <<driver, stage, required, memory>>

NoEntries == [e \in EventId |-> NoEntry]

\* The process dies and another one starts.
Restart ==
    /\ Crash \/ \E e \in EventId : NackInterrupted(e)
    /\ Idle
    /\ tap' = NoEntries
    /\ clock' = 0
    /\ traces' = <<>>
    /\ active' = 0
    /\ pool' = NoExecutions
    /\ restricted' = {}
    /\ awaited' = "none"
    /\ UNCHANGED driver

PInit ==
    /\ Init
    /\ driver \in {"substrate", "runtime"}
    /\ stage = "idle"
    /\ required = {}
    /\ tap = NoEntries
    /\ clock = 0
    /\ traces = <<>>
    /\ active = 0
    /\ pool = NoExecutions
    /\ restricted = {}
    /\ awaited = "none"

PNext ==
    \/ \E e \in EventId : Take(e)
    \/ \E p \in Proposal : P3Answers(p) \/ PreflightRejects(p)
    \/ P4Allows
    \/ CellRefuses
    \/ P4Blocks
    \/ \E result \in {"SUCCESS", "FAILED"} : Executed(result)
    \/ SubstrateRaises
    \/ RuntimeRaises
    \/ RefusalRaises
    \/ Cancelled
    \/ SetCapabilities
    \/ Around
    \/ Restart

PSpec == PInit /\ [][PNext]_pvars

-----------------------------------------------------------------------------
(* Properties *)

FullCycle(e) == tap[e].verdict # "none" /\ tap[e].result # "none"

\* SubstrateLoop.run nacked an event that was executed: its ack raised.
NackedAfterRun(e) ==
    /\ Substrate
    /\ tap[e].verdict = "ALLOW" /\ tap[e].result = "FAILED"
    /\ events[e].status \in {"pending", "dead"}

\* ObservationTap.completed_cycles, which the heartbeat reports, against the
\* rows: a full cycle is that of an acked event or of one the substrate
\* nacked because its ack raised, and an acked event this process took has a
\* full cycle.  An entry left by an earlier attempt, a retry that raises, a
\* block or a cancellation never makes one.
CompletedCyclesTrue ==
    \A e \in EventId :
        /\ FullCycle(e) => events[e].status = "completed" \/ NackedAfterRun(e)
        /\ tap[e] # NoEntry /\ events[e].status = "completed" => FullCycle(e)

Attempts(e) == {i \in DOMAIN traces : traces[i].event = e}

Newest(e) == traces[Max(Attempts(e))]

MustHaveTrace(e) ==
    /\ tap[e] # NoEntry /\ tap[e].proposal # "untraceable"
    /\ events[e].status # "processing"

\* Of the substrate's trace store: traces stand in the order of their
\* attempts, no attempt has two, and an attempt the queue has settled has
\* its own until a full store has pushed it out, unless its proposal names a
\* capability by a plain string.  The newest trace of an event never reports
\* an allowed execution of a row that was not completed, through retries,
\* blocks, raising stages and traces that are missing.
TracesFollowAttempts ==
    Substrate =>
    /\ \A i, j \in DOMAIN traces :
           i < j => traces[i].sequence_no < traces[j].sequence_no
    /\ \A e \in EventId :
           /\ MustHaveTrace(e)
                 => \/ \E i \in Attempts(e) :
                           traces[i].sequence_no = tap[e].sequence_no
                    \/ /\ Len(traces) = MaxTraces
                       /\ tap[e].sequence_no < traces[1].sequence_no
           /\ Attempts(e) # {} /\ Newest(e).final_status = "P4_ALLOW"
                 => events[e].status = "completed"

\* SandboxPool: an execution that total_executions counts has completed, has
\* failed, or still has its cell in _active, whatever is cancelled or raised;
\* and a cell is in _active for good only after such an execution.
ExecutionsAccounted ==
    /\ pool.completed + pool.failed <= pool.total
    /\ pool.total - pool.completed - pool.failed <= active
    /\ active <= pool.total
    /\ Runtime /\ stage = "sandbox" => active > 0

=============================================================================
