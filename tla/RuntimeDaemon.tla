---------------------------- MODULE RuntimeDaemon ----------------------------
(***************************************************************************)
(* runtime/daemon/runtime_daemon.py over runtime/runtime_loop.py and the   *)
(* event queue: the coroutines of one asyncio event loop that share the    *)
(* daemon.  They are the daemon task (_run_forever and the pipeline of     *)
(* RuntimeLoop._process_event), the coroutine that called boot, the one    *)
(* that called shutdown, and the callers of pause, resume and push.        *)
(*                                                                         *)
(* asyncio switches between coroutines only at an await that suspends, so  *)
(* a step is the code between two of those.  Where such a stretch makes    *)
(* several changes to the queue it is split into steps, and Suspended      *)
(* keeps the other coroutines out until the last of them.                  *)
(*                                                                         *)
(* The context builder p3, the authority p4 and the sandbox are external   *)
(* callables: each returns either verdict or raises; so may the opening of *)
(* the queue, before or after it has set the connection.  Recovery is its  *)
(* effect on the daemon (it returns or raises); it changes no row of the   *)
(* queue.  Counters of the status page are left out.                       *)
(***************************************************************************)
EXTENDS EventQueue

VARIABLES
    lifecycle,      \* RuntimeDaemon._lifecycle
    task,           \* where the daemon task is; "none" before create_task
    cancelled,      \* task.cancel() has been called and not delivered yet
    boot,           \* the coroutine in boot()
    stopper,        \* the coroutine in shutdown()
    orchestrator,   \* RuntimeOrchestrator: _running, and status of the state
    recovered,      \* RuntimeLoop._recovery_completed
    start_time,     \* the local start_time of _run_forever is bound
    executed        \* history: the events the sandbox has been given so far

daemon == <<lifecycle, task, cancelled, boot, stopper, orchestrator, recovered,
            start_time>>
dvars == <<vars, daemon, executed>>

Transitions ==
    [STOPPED    |-> {"BOOTING"},
     BOOTING    |-> {"RUNNING", "SHUTDOWN"},
     RUNNING    |-> {"PAUSED", "RECOVERING", "SHUTDOWN"},
     PAUSED     |-> {"RUNNING", "RECOVERING", "SHUTDOWN"},
     RECOVERING |-> {"RUNNING", "SHUTDOWN"},
     SHUTDOWN   |-> {}]

CanTransition(to) == to \in Transitions[lifecycle]

\* Where the task waits for the event loop, and where it waits with an event
\* in flight; "top" (of the while loop), "crashed" (in the except clause) and
\* "unwinding" (in the finally clause) are stretches without an await.
Busy == {"p3", "p4", "sandbox"}
Waiting == {"ready", "idle"} \cup Busy
Suspended == task \in Waiting \cup {"none", "done"}

\* "not self._daemon_task.done()"
Alive == task \notin {"none", "done"}

-----------------------------------------------------------------------------
(* RuntimeOrchestrator *)

OrchestratorStart ==
    IF orchestrator.running THEN orchestrator
                            ELSE [running |-> TRUE, status |-> "running"]

OrchestratorStop ==
    IF orchestrator.running THEN [running |-> FALSE, status |-> "stopped"]
                            ELSE orchestrator

OrchestratorPause ==
    IF orchestrator.status = "running"
    THEN [orchestrator EXCEPT !.status = "paused"] ELSE orchestrator

OrchestratorResume ==
    IF orchestrator.status = "paused"
    THEN [orchestrator EXCEPT !.status = "running"] ELSE orchestrator

-----------------------------------------------------------------------------
(* boot *)

Boot ==
    /\ Suspended
    /\ lifecycle = "STOPPED"
    /\ lifecycle' = "BOOTING"
    /\ recovered' = TRUE
    /\ task' = "ready"
    /\ boot' = "polling"
    /\ UNCHANGED <<vars, cancelled, stopper, orchestrator, start_time>>

\* recover raises (its report goes to the observer outside of its try).
BootRecoveryRaises ==
    /\ Suspended
    /\ lifecycle = "STOPPED"
    /\ ~recovered
    /\ lifecycle' = "BOOTING"
    /\ boot' = "raised"
    /\ UNCHANGED <<vars, task, cancelled, stopper, orchestrator, recovered,
                   start_time>>

\* One look at is_running that finds it true ends boot, one way or another.
BootPoll ==
    /\ Suspended
    /\ boot = "polling"
    /\ orchestrator.running
    /\ IF CanTransition("RUNNING")
       THEN lifecycle' = "RUNNING" /\ boot' = "returned"
       ELSE boot' = "raised" /\ UNCHANGED lifecycle
    /\ UNCHANGED <<vars, task, cancelled, stopper, orchestrator, recovered,
                   start_time>>

\* 200 looks were in vain.  A task that is ready runs long before that.
BootTimeout ==
    /\ Suspended
    /\ boot = "polling"
    /\ ~orchestrator.running
    /\ task # "ready"
    /\ IF Alive
       THEN /\ cancelled' = TRUE
            /\ boot' = "cancelling"
            /\ UNCHANGED lifecycle
       ELSE /\ lifecycle' = "SHUTDOWN"
            /\ boot' = "raised"
            /\ UNCHANGED cancelled
    /\ UNCHANGED <<vars, task, stopper, orchestrator, recovered, start_time>>

BootGivesUp ==
    /\ boot = "cancelling"
    /\ task = "done"
    /\ lifecycle' = "SHUTDOWN"
    /\ boot' = "raised"
    /\ UNCHANGED <<vars, task, cancelled, stopper, orchestrator, recovered,
                   start_time>>

-----------------------------------------------------------------------------
(* shutdown, pause, resume *)

Shutdown ==
    /\ Suspended
    /\ CanTransition("SHUTDOWN")
    /\ orchestrator' = OrchestratorStop
    /\ IF Alive
       THEN /\ cancelled' = TRUE
            /\ stopper' = "waiting"
            /\ UNCHANGED lifecycle
       ELSE /\ lifecycle' = "SHUTDOWN"
            /\ UNCHANGED <<cancelled, stopper>>
    /\ UNCHANGED <<vars, task, boot, recovered, start_time>>

\* The awaited task is done: the direct assignment, without a check.
ShutdownReturns ==
    /\ stopper = "waiting"
    /\ task = "done"
    /\ lifecycle' = "SHUTDOWN"
    /\ stopper' = "none"
    /\ UNCHANGED <<vars, task, cancelled, boot, orchestrator, recovered,
                   start_time>>

Pause ==
    /\ Suspended
    /\ lifecycle = "RUNNING"
    /\ orchestrator' = OrchestratorPause
    /\ lifecycle' = "PAUSED"
    /\ UNCHANGED <<vars, task, cancelled, boot, stopper, recovered, start_time>>

Resume ==
    /\ Suspended
    /\ lifecycle = "PAUSED"
    /\ orchestrator' = OrchestratorResume
    /\ lifecycle' = "RUNNING"
    /\ UNCHANGED <<vars, task, cancelled, boot, stopper, recovered, start_time>>

-----------------------------------------------------------------------------
(* The daemon task *)

\* The first step of the coroutine.
TaskStart ==
    /\ task = "ready"
    /\ ~cancelled
    /\ orchestrator' = OrchestratorStart
    /\ Open
    /\ task' = "top"
    /\ UNCHANGED <<lifecycle, cancelled, boot, stopper, recovered, start_time>>

\* The queue is opened outside of the try: when that raises, in connect or
\* after it, the task ends at once, without the finally clause, and leaves the
\* orchestrator running and what there is of a connection where it is.
TaskOpenRaises ==
    /\ task = "ready"
    /\ ~cancelled
    /\ orchestrator' = OrchestratorStart
    /\ OpenRaises \/ UNCHANGED vars
    /\ task' = "done"
    /\ UNCHANGED <<lifecycle, cancelled, boot, stopper, recovered, start_time>>

\* A coroutine cancelled before its first step never runs any of its code.
TaskNeverStarts ==
    /\ task = "ready"
    /\ cancelled
    /\ task' = "done"
    /\ cancelled' = FALSE
    /\ UNCHANGED <<vars, lifecycle, boot, stopper, orchestrator, recovered,
                   start_time>>

\* Mutant: the except clause takes a cancellation for an ordinary failure.
CancellationSwallowed ==
    /\ task \in {"idle"} \cup Busy
    /\ cancelled
    /\ task' = "top"
    /\ cancelled' = FALSE
    /\ IF held # NoEvent THEN Drop ELSE UNCHANGED vars
    /\ UNCHANGED <<lifecycle, boot, stopper, orchestrator, recovered, start_time>>

\* CancelledError is raised at the await: break, then the finally clause.
\* The event in flight is neither acked nor nacked.
TaskCancelled ==
    /\ task \in {"idle"} \cup Busy
    /\ cancelled
    /\ task' = "unwinding"
    /\ cancelled' = FALSE
    /\ IF held # NoEvent THEN Drop ELSE UNCHANGED vars
    /\ UNCHANGED <<lifecycle, boot, stopper, orchestrator, recovered, start_time>>

\* Mutant: no finally clause.
UnwindOpen ==
    /\ task = "unwinding"
    /\ task' = "done"
    /\ UNCHANGED <<vars, lifecycle, cancelled, boot, stopper, orchestrator,
                   recovered, start_time>>

Unwind ==
    /\ task = "unwinding"
    /\ task' = "done"
    /\ Close
    /\ UNCHANGED <<lifecycle, cancelled, boot, stopper, orchestrator, recovered,
                   start_time>>

\* The top of the while loop is reached from a sleep, or without one.
AtTop == task = "top" \/ (task = "idle" /\ ~cancelled)

\* Mutant: the loop heeds the orchestrator's word for pause as well.
MayPopUnpaused ==
    /\ lifecycle \notin {"SHUTDOWN", "PAUSED", "RECOVERING"}
    /\ orchestrator.status = "running"

MayPop == lifecycle \notin {"SHUTDOWN", "PAUSED", "RECOVERING"}

TakeEvent(e) ==
    /\ AtTop
    /\ MayPop
    /\ Pop(e)
    /\ task' = "p3"
    /\ start_time' = TRUE
    /\ UNCHANGED <<lifecycle, cancelled, boot, stopper, orchestrator, recovered>>

\* Paused, or nothing to pop.
Sleep ==
    /\ task = "top"
    /\ MayPop => WithStatus("pending") = {}
    /\ task' = "idle"
    /\ UNCHANGED <<vars, lifecycle, cancelled, boot, stopper, orchestrator,
                   recovered, start_time>>

\* pop raises.  sqlite3's errors are none of the classes and hold none of the
\* words CrashBoundary calls recoverable, so this is a fatal crash; but until
\* an event has been popped start_time is unbound, the except clause itself
\* raises, and the task ends without telling the lifecycle.
PopRaises ==
    /\ AtTop
    /\ MayPop
    /\ lifecycle' = IF start_time THEN "SHUTDOWN" ELSE lifecycle
    /\ task' = "unwinding"
    /\ UNCHANGED <<vars, cancelled, boot, stopper, orchestrator, recovered,
                   start_time>>

\* One stage of _process_event ends, and with it the await: the task moves on.
Step(from, to) ==
    /\ task = from
    /\ ~cancelled
    /\ task' = to
    /\ UNCHANGED <<lifecycle, cancelled, boot, stopper, orchestrator, recovered,
                   start_time>>

PreflightPasses == Step("p3", "p4") /\ UNCHANGED vars

\* Blocked by preflight: a trace is written and the event is let go.
PreflightRejects == Step("p3", "idle") /\ Drop

P4Allows == Step("p4", "sandbox") /\ UNCHANGED vars

\* Any other verdict: nack.  What follows (trace, _finalize_cycle) may raise.
P4Blocks(e) == \E to \in {"idle", "crashed"} : Step("p4", to) /\ Nack(e)

\* The sandbox reports every outcome of the worker in its result: ack.
SandboxReturns(e) ==
    \E to \in {"idle", "crashed"} : Step("sandbox", to) /\ Ack(e)

\* Mutant: the except clause nacks the event, as the substrate loop does.
StageRaisesNacks == \E from \in Busy : Step(from, "crashed") /\ Nack(held)

\* p3, p4, the pool, a tap, the ack or the nack raises: the event is let go.
StageRaises == \E from \in Busy : Step(from, "crashed") /\ Drop

-----------------------------------------------------------------------------
(* _handle_event_crash *)

CrashRecovered ==
    /\ task = "crashed"
    /\ CanTransition("RECOVERING")
    /\ lifecycle' = "RUNNING"
    /\ task' = "top"
    /\ UNCHANGED <<vars, cancelled, boot, stopper, orchestrator, recovered,
                   start_time>>

\* Non-recoverable, or recovery raises: SHUTDOWN, and the while loop ends.
CrashFatal ==
    /\ task = "crashed"
    /\ CanTransition("SHUTDOWN")
    /\ lifecycle' = "SHUTDOWN"
    /\ task' = "unwinding"
    /\ UNCHANGED <<vars, cancelled, boot, stopper, orchestrator, recovered,
                   start_time>>

\* BOOTING has no edge to RECOVERING: _transition raises out of the task.
CrashUnhandled ==
    /\ task = "crashed"
    /\ ~CanTransition("RECOVERING")
    /\ task' = "unwinding"
    /\ UNCHANGED <<vars, lifecycle, cancelled, boot, stopper, orchestrator,
                   recovered, start_time>>

-----------------------------------------------------------------------------
(* The process, and the callers of the queue *)

\* The process dies, at any point; the next one builds a new daemon.
NewProcess ==
    /\ lifecycle' = "STOPPED"
    /\ task' = "none"
    /\ cancelled' = FALSE
    /\ boot' = "none"
    /\ stopper' = "none"
    /\ orchestrator' = [running |-> FALSE, status |-> "stopped"]
    /\ recovered' = FALSE
    /\ start_time' = FALSE

ProcessCrash ==
    /\ NewProcess
    /\ \/ Crash
       \/ task = "p4" /\ \E e \in EventId : NackInterrupted(e)
       \/ Suspended /\ \E e, n \in EventId : ReplayInterrupted(e, n)

Submit(e) == Suspended /\ Push(e) /\ UNCHANGED daemon

Replay(e, n) == Suspended /\ ReplayDeadLetter(e, n) /\ UNCHANGED daemon

-----------------------------------------------------------------------------
DInit ==
    /\ Init
    /\ lifecycle = "STOPPED"
    /\ task = "none"
    /\ cancelled = FALSE
    /\ boot = "none"
    /\ stopper = "none"
    /\ orchestrator = [running |-> FALSE, status |-> "stopped"]
    /\ recovered = FALSE
    /\ start_time = FALSE
    /\ executed = {}

\* What the event loop runs without anybody asking for it.
TaskNext ==
    \/ TaskStart
    \/ TaskOpenRaises
    \/ TaskNeverStarts
    \/ TaskCancelled
    \/ Unwind
    \/ Sleep
    \/ PopRaises
    \/ PreflightPasses
    \/ PreflightRejects
    \/ P4Allows
    \/ StageRaises
    \/ CrashRecovered
    \/ CrashFatal
    \/ CrashUnhandled
    \/ \E e \in EventId : TakeEvent(e) \/ P4Blocks(e) \/ SandboxReturns(e)

CallerNext == BootPoll \/ BootTimeout \/ BootGivesUp \/ ShutdownReturns

DNext ==
    \/ TaskNext
    \/ CallerNext
    \/ Boot
    \/ BootRecoveryRaises
    \/ Shutdown
    \/ Pause
    \/ Resume
    \/ ProcessCrash
    \/ \E e \in EventId : Submit(e)
    \/ \E e, n \in EventId : Replay(e, n)

\* The history of what the sandbox is given.
Noted == executed' = executed \cup IF task' = "sandbox" THEN {held'} ELSE {}

\* The event loop runs every coroutine that can run; p3, p4 and the sandbox
\* come back (the sandbox has a time limit).
DSpec ==
    /\ DInit
    /\ [][DNext /\ Noted]_dvars
    /\ WF_dvars(TaskNext /\ Noted)
    /\ WF_dvars(CallerNext /\ Noted)

-----------------------------------------------------------------------------
(* Properties *)

\* The queue is open exactly while the task can use it, and an event is in
\* flight exactly while a stage of the pipeline awaits: whatever is
\* cancelled, paused or raised, no connection that was opened and no event is
\* leaked, and after SHUTDOWN nothing is left to run an event.  What an open
\* that raised leaves of a connection outlives its task: no task uses it.
QueueFollowsTask ==
    /\ conn = "open" <=> task \in Busy \cup {"idle", "top", "crashed", "unwinding"}
    /\ conn = "raised" => task = "done"
    /\ held # NoEvent <=> task \in Busy
    /\ lifecycle = "SHUTDOWN" => task \in {"none", "unwinding", "done"}

\* No event is given to the sandbox twice.  It may be let go there (a raise,
\* a cancellation, a crash of the process) with its row still processing, and
\* recovery, a new daemon, retries of others and replays come after that: the
\* effects of its proposal are never repeated, at the price that an event
\* once let go is never delivered again.
ExecutedOnce ==
    [][task # "sandbox" /\ task' = "sandbox" => held' \notin executed]_dvars

\* An event that waits while the daemon runs is taken: the events before it
\* are retried at most max_retries times and leave the head of the queue.
NoStarvation ==
    \A e \in EventId :
        events[e].status = "pending" /\ lifecycle = "RUNNING" /\ Alive
            ~> \/ events[e].status # "pending"
               \/ lifecycle # "RUNNING"
               \/ ~Alive

\* shutdown() returns, wherever the task is when it is called.
ShutdownCompletes ==
    stopper = "waiting" ~> stopper = "none" /\ lifecycle \in {"SHUTDOWN", "STOPPED"}

\* While the runtime's state says paused, no event is taken.
PausedTakesNothing ==
    [][orchestrator.status = "paused" => held' \in {held, NoEvent}]_dvars

=============================================================================
