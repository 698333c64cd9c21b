# A verification of the Stocky cognitive runtime

TLA+ specifications of the runtime in `cognitive_runtime/`, the configurations
that model-check them with TLC, and theorems about them checked by TLAPS. The
code is Python 3.12 on asyncio: one process, one event loop, one SQLite
database, checkpoint files. `PROJECT.json` maps every definition to the lines
it translates.

## The system

    callers ──push──► EventQueue (SQLite) ──pop──► RuntimeDaemon task
       ▲                    ▲    ▲                      │ _process_event
       │ receipt            │    └─ack / nack / nothing─┤ P3 → preflight → P4 → sandbox
    Gateway ◄──traces── TraceWindow ◄──_finalize_cycle──┘
                            │ every 100 cycles
                            ▼
                  DeltaCheckpointManager ──files──► RecoveryCoordinator (at boot, after a crash)

| Part | State | Operations | What is hard | What makes it correct |
|---|---|---|---|---|
| Event queue (`substrate/event_queue.py`) | tables `events`, `dead_letter`, `results`; counters; connection | open, close, push, pop, ack, nack, prune, replay | several commits in one call, crashes between them, counters lost and recounted | order, bounded retries, final outcomes, nothing lost |
| Daemon (`runtime/daemon/`, `runtime_orchestrator.py`) | lifecycle, task, orchestrator status | boot, shutdown, pause, resume, task with crash boundary | five coroutines; cancellation at any await; boot polls while the task may die | legal lifecycle, no leak, shutdown and boot end, no starvation |
| Event cycle (`runtime/runtime_loop.py`) | event in flight, traces, health | the pipeline stages, `_finalize_cycle` | exceptions after half a cycle | every event gets an outcome and a trace |
| Trace window (`runtime/trace_window.py`) | active deque, archived segments, digests | append, archive, prune, clear, index, slice | borders between archive and window | reads as one list, bounded, verifiable |
| Delta checkpoints (`recovery/delta_checkpoint.py`) | bases, delta chains, `bases.json`, files | save, load, prune, clear | failed writes, crashes within a save, restarts | the last good checkpoint loads, no gap, no repetition |
| Recovery (`recovery/recovery_coordinator.py` and helpers) | report, runtime state it restores | recover | a phase that raises, recovery during a run | restores exactly the checkpoint, reports the truth |
| Gateway (`runtime/gateway/`) | bounded map of pending receipts | submit, status, result, list, agents | retried events have several traces; eviction; polling from a thread | a receipt leads to the result of its event |
| Health (`runtime_state.py`, `coherence_monitor.py`) | consecutive failures, health, drift, errors | record_cycle, record_error | writers that overwrite each other | degraded and critical at their thresholds |
| Sandbox (`sandbox/`) | pool of cells, counters of executions | acquire, execute with time limit, release | timeouts, cancellation while a cell is held | every execution is accounted for |
| Substrate loop, tap (`substrate/`) | enriched events, trace store | run, process, on_* | exceptions at each stage, entries left by an earlier attempt | every popped event is settled, and told so |
| Intelligence (`intelligence/`, `contracts/causal_graph.py`) | causal graph, patterns, eviction order | build, mine, compress, evict, explain, compare | schedules that differ, retried events, a store at its limit | the graph is current and sound, no drift escapes |
| Stability, confidence, governance | bounded histories, gradient, anomalies | assess | levels near a border | failures never raise a score, no flapping |
| Consensus, schema, rewind, governance evolution | proposals, lineage of versions, timeline, thresholds | register, propose, vote, resolve, migrate, rewind, tick | order of arrival, gaps and majors, rounding | one verdict, legal migrations, a rewind is a prefix |
| Telemetry (`telemetry/`) and epochs (`epoch/`) | probe, hot and warm tier, tracker, panics, phases | capture, record, compress, run phase, boot, replay, abort | a probe shared by several runtimes that changes what it reads; abort at any time | aggregates cover the captures, a passed epoch is complete |
| Kernel (`core/`, `state/`, `events/`, `execution/`, bridges) | bus, state machine, plan, agents, tasks, newest memory record | tick, handle, transition, dispatch, complete, fail | answers that are ignored, states that time out | a plan that ran ends COMPLETED, an agent serves one task |
| Console, capabilities, adapters, observation, legacy, chaos | none or I/O | | | not modelled, see the end |

The queue, the daemon and the loop share the process and its single thread:
everything between two awaits is atomic to the others. The loop hands each trace
to the observers; the daemon hands crashes to recovery, which reads what the
checkpoints wrote; gateway clients read the window the loop fills. The kernel,
the federation and the epochs are separate programs over the same libraries.

## Modules

| Module | Models | Notes |
|---|---|---|
| `DeliveryContract` | what a consumer may expect of a queue | abstract: stages of an event, tries, tickets |
| `EventQueue` | `substrate/event_queue.py` | one action per method, one more for every point where a crash cuts a method in two |
| `EventQueueProofs` | theorems about `EventQueue` | |
| `RuntimeDaemon` | `runtime/daemon/*`, `runtime_orchestrator.py`, `RuntimeLoop._process_event` | extends `EventQueue`: the daemon's actions are conjunctions with the queue's |
| `TraceWindow` | `runtime/trace_window.py` | slicing as operators, compared with a list of all traces |
| `DeltaCheckpoint` | `recovery/delta_checkpoint.py`, the checkpoint of `_finalize_cycle` | a step is the block of cycles between two checkpoints |
| `Gateway` | `runtime/gateway/local_runtime_gateway.py` | extends `EventQueue`; the consumer's cycle in its outcomes only |
| `Recovery` | `recovery/recovery_coordinator.py` and helpers, `checkpoint_manager.py`, `runtime_state.py` | both checkpoint managers, several processes |
| `Pipeline` | `substrate_loop.py`, `observation_tap.py`, `RuntimeLoop._process_event`, `sandbox/`, preflight, the trace store, the liveness monitor's phase | extends `EventQueue`; the two drivers of the pipeline |
| `CausalGraph` | traces, `contracts/causal_graph.py`, `intelligence/` | operators |
| `Assessment` | `stability/`, `confidence/`, `governance/` | operators, extends `CausalGraph` |
| `Observers` | `RuntimeLoop._finalize_cycle`, coherence, feedback, compression and eviction | extends `Assessment` |
| `SchemaEvolution`, `Consensus`, `TimeRewind`, `GovernanceEvolution` | the packages of these names, `distributed_schema/` | operators |
| `Federation` | the nodes that register, propose, vote, record and tick | extends the four above |
| `Telemetry` | `telemetry/` | operators |
| `Epoch` | `epoch/living_epoch.py`, tracker, panic detector, benchmark and federated runtime | extends `Telemetry` |
| `ExecutionGraph` | `execution/` | operators, recursive functions |
| `Kernel` | `core/`, `state/`, `events/`, `agents_bridge/`, `control_bridge/`, `doctrine/`, `memory/` | extends `ExecutionGraph` |
| `QueueUsersProofs` | theorems about `RuntimeDaemon` and `Gateway` | extends both and `EventQueueProofs` |
| `PipelineProofs` | theorems about `Pipeline` | extends `EventQueueProofs` |
| `RecoveryProofs`, `DeltaCheckpointProofs`, `ObserversProofs`, `FederationProofs` | theorems about the module of the name | with the operators it extends |
| `StandaloneProofs` | theorems about `TraceWindow`, `Kernel` and `Epoch` | extends the three, which share nothing |
| `MC*` | instances for TLC | one or more `.cfg` each |

### EventQueue

`events` has a row for every identifier (`NoRow` when absent); `dead_letter`
gives a row its rank by `created_at`, 0 for no row. The methods contain no
await, so they are atomic except for crashes: `NackInterrupted` and
`ReplayInterrupted` are the two places where a method commits twice. `conn` is
`raised` after an `open` that raised once it was connected: the methods can be
called, nobody believes the queue open. `held` is
the local variable of the consumer's loop; `Drop` is what the runtime loop does
with an event that preflight rejects or whose cycle raises. Payloads, artifacts and
the `decisions` and `artifacts` tables, which nothing reads back, are left out.

### RuntimeDaemon

asyncio switches only at an await, so an action is the code between two awaits.
`task` says at which await the daemon task is; `boot` and `stopper` are the
coroutines inside `boot()` and `shutdown()`. `top`, `crashed` and `unwinding`
are points inside a stretch without await: while the task is there `Suspended`
is false and nobody else moves. p3, p4 and the sandbox are external callables
that return either verdict or raise. A process crash can happen anywhere.
`open()` stands before the `try` of the task: if it raises, the task ends without
its `finally` and leaves a connection that nobody closes (`TaskOpenRaises`).
`executed` is not in the code: it collects what was given to the sandbox, for
`ExecutedOnce`. `BootTimeout` requires `task # "ready"`: a ready task is run in the next turn of
the event loop, 200 sleeps earlier.

### TraceWindow

Two reads matter: the code's (`AllTraces`, `GetSlice`, `GetIndex`) and Python's
on a plain list (`PySlice`, `PyIndex`), for every start, stop, step and index. The
two agree except in two cases, which the property states instead: a slice that
starts in the active window with a step other than 1 reads the first
`(stop - start) // step` traces in a row, and an index before the first trace wraps round
once more where a list raises. An explicit step of 0, which the code takes
for 1, is left out. Digests are symbolic (`Digest` of a sequence of
chunks, equal only if the chunks are), so a digest comparison is exact.

### DeltaCheckpoint

Memory and disk are separate variables; `Crash*` keep the disk and reload
memory from `bases.json`. Files are written in place: a failed or interrupted
write leaves `Partial`, which no reader accepts. `clear` removes base files, delta
files and then rewrites `bases.json`; `CrashInClear` stops it anywhere between.
`cleared` is not in the code: it holds the bases such a crash has removed while
`bases.json` still names them. That `bases.json` cannot be
opened at all, right after a file was written to the same directory, is left
out. The three score histories are alike, so one stands for all.

### Gateway

A receipt is named by the event it stands for; `pending` is the insertion order
of `_pending`. The consumer's cycle ends as `Executed`, `Blocked`, `Rejected` or
`Raised`: the queue is told and the trace written with no await between, so each
is one action and a client's call falls before or after it. `answers` is not in
the code: it records what the client was last told of each receipt, for the
properties. A result is promised until its trace leaves the window only:
`_find_trace` does not look into the archive, and from then on `get_status`
says pending for ever. `list_traces`, which changes nothing, is left out; its
`next_cursor` is the page size whatever page was asked for.

### Recovery

`manager` is the kind of checkpoint manager, fixed at the start. A process writes
checkpoints with its cycles, a write may fail or be cut short by a crash, and
`recover` runs at boot or in the crash boundary of a running daemon. `saved` is
not in the code: it is what the newest checkpoint holds, for the properties. A cycle
that fails does so before its trace (`FailsEarly`), or in `_finalize_cycle` after
it, with or without the checkpoint (`Finalizes`). With
the delta manager `recover` reads a field the metadata does not have, and the
exception is swallowed: the model has that, and `SuccessIsEarned` says that no
success is claimed for it. The full manager never reads the metadata of an earlier
process, so after a restart it finds no checkpoint and reports a success of
having restored nothing; `NothingKnown` lists the cases in which that may happen,
this one by name. `RuntimeLoop` makes the delta manager only. Rows of the queue are not rebuilt by recovery.

### Pipeline

`driver` says which of the two loops runs. An action is the code between two
awaits that suspend; P3, P4, the worker and `on_audit` answer anything or raise,
and the task may be cancelled while it waits. The tap's entries and the trace
store are what the program says of an event, the rows of the queue what happened
to it, and the properties compare the two. Whatever follows an await may raise as well:
`ack` serialises the output before it writes, so that an output which is no JSON
raises after the worker has run (`SubstrateRaises`, `AnswerRaises`). A proposal whose
capabilities are plain strings passes every check, but no trace can be made with
it, and the tap swallows that (`Emit`).

### CausalGraph, Assessment, Observers

A trace is what the tools tell apart: event, preflight, verdict, rule, execution
status, risk, final status. The graph's nodes and edges are built stage by stage
as in the code, retried events included. Scores are whole ten-thousandths; the
code rounds where the model cuts, which no comparison here depends on. A cycle
of `Observers` is one step because `_finalize_cycle` contains no await; each
analysis runs at its own interval. Clock readings come in as parameters.

### Federation

The vote, the history and the governance share no state, so the bounds let one
of them run at a time. Weights are exact integers; with three nodes a competing
group has at most two members, so sums of floats in the code commute. Means are
exact for groups of up to six and cut beyond.

Thresholds are in ten-thousandths, to which the engine rounds. The last bit of
a float decides two things, which are constants: which way a tie of the rounding goes
(`TiesUp`) and whether a change of exactly the limit is found above it
(`OverLimit`). The instance has what Python computes: about half of the ties go
down, and of all pairs at the limit only 0.9996 to 0.8996 is refused. A loop made with
thresholds of more than four digits is left out.

Sequence numbers of traces may tie, and do: the loop writes 1 into each, the
benchmark one number into all of a cycle, and the time kernel, which could tell
them apart, stamps events only. The sort of the timeline is stable, so ties stay in the
order in which they are given. The
handshakes and the log of the registry are left out.

### Epoch

An iteration of a phase is one action per node plus the epoch's own capture, so
that `abort()` can come in between. The runtime's capture and the epoch's use
the same probe: with interval 3 and two calls a cycle, every second snapshot falls
into the runtime's call and is never tracked. Probes assess the governance
while they read it: `Capture` replaces the score it has just read. A fresh runtime
starts its cycle numbers again; the replay of a federation is skipped. `captured`
is not in the code: it lists all captures, for the properties. The vote of a
federation is in `Federation`; an epoch never reads it.

### Kernel

`handle` is synchronous, so an action is one call of it. A plan is built node by
node and edge by edge by a client; in the run it is submitted from two fixed
ones, one of them refused. Drift is in thousandths, with either outcome where the
sum of floats falls on the limit of 800. One agent suffices: tasks compete for it.

The recursions of `execution/` are functions of a depth that the number of nodes
bounds: no search of `detect_cycles` is nested deeper (a node on the path is not
entered again), and without a cycle no path is longer. `critical_path` is only
called on a graph that validates; on a cycle its recursion would not end.

## Runs

| Run | Bounds | Shows |
|---|---|---|
| `event_queue` | 3 events, 2 retries, 1 dead letter | two events compete for the only place among the dead letters while a third replays one; the queue properties and the refinement of `DeliveryContract` |
| `runtime_daemon` | 2 events | every interleaving of boot, shutdown, pause, resume, submit, replay and crash with the task: nothing is leaked but by an open that raised, nothing is executed twice, nothing starves, shutdown ends |
| `trace_window` | window of 2, 8 traces | archive, window and every border between them; every slice and index up to one past the ends, and twice that before the first |
| `delta_checkpoint` | interval 3, 2 bases, 7 blocks, history of 4 | three bases (one pruned), chains of two deltas, restarts at every point, in clear as well |
| `gateway` | 2 events of one session, 1 receipt, window of 2 | eviction of receipts and of traces, several traces per event, crashes between a client's calls |
| `recovery` | 3 cycles, 2 processes, 2 checkpoints, both managers | recovery at every point, over torn files, over a clear cut short and over a loop that ran on |
| `pipeline` | 2 interchangeable events, 2 retries, store of 2 traces | retries and restarts with both drivers, every stage, ack and trace raising or cancelled |
| `observers` | 4 traces out of five, window of 3, store of 2 | every retry path of one event beside another event, eviction with both strategies, levels that change |
| `federation` | 3 nodes, 4 versions, 5 registrations and proposals; 3 traces of 2 numbers; 5 ticks from 4 starts | gaps and majors, ties and close groups in every order of arrival; histories with ties in every order; thresholds at the top and out of balance |
| `kernel` | plans of 3 steps and 3 dependencies, 1 event on the bus | every small graph, self-loops and doubled edges included; every order of handling |
| `epoch` | up to 10 cycles, intervals 3 and 4, 2 scores, 2 entropies, tiers of 2 | whole epochs of both runtimes, aborted at every point, panics of both kinds, aggregates dropped at their limit |

`paused_takes_nothing` checks what a test of the repository asserts of a paused
daemon and ends in a violation, which `findings` in `PROJECT.json` explains.

Larger bounds add length, not cases: retry limits are compared with one counter,
eviction looks at the oldest entry only, chains restart at every base, a vote is
decided by the groups and their order. Deadlock is not checked where the
program ends (`epoch`, `kernel`) or where a bound ends it (`federation`,
`observers`).

### Known divergences

Met while modelling and kept in the models as the code has them; the hazards in
`PROJECT.json` carry most of them. No property claims the opposite.

- The archive of the trace window grows for ever: `SEGMENT_SIZE` is never read.
  `verify_integrity` fails on an untouched window of two traces.
- A slice of the active window with a step, and an index before the first trace, do not
  read as those of a list (see TraceWindow).
- `clear` cut short leaves `bases.json` naming bases whose files are gone: until the
  next base is due `load_latest` gives nothing and deltas are chained to a base
  that does not exist.
- Recovery with the full checkpoint manager reports success after a restart
  though a checkpoint is on disk, because the manager does not look for it.
- A cycle that fails in `_finalize_cycle` leaves its trace and may leave its checkpoint.
- The scores of a chain of deltas are repeated from the second delta on, and the
  delta files of pruned bases are never removed.
- Recovery does not put events that were in flight back into the queue.
- `boot` may return over a task that has died; the lifecycle says RUNNING. A task
  that died in `open()` leaves its connection open.
- When `ack` raises, the substrate loop nacks an event it has executed and tells
  the tap FAILED: the heartbeat counts a full cycle, and the event is executed
  again. The runtime loop lets the event go, with its row processing for ever.
- An attempt whose capabilities are plain strings leaves no trace in the store.
- `contracts/frozen/runtime_contract.py:80` promises a strict order of traces by
  session and sequence number. The numbers tie, so that rewind, replay hash and
  `validate_replay` depend on the order in which traces are given.
- The guard refuses a change of exactly its limit from 0.9996 to 0.8996 and admits
  every other one.
- A group's weight in the vote is a mean, so a single node with high scores can
  outweigh two (CONS-002 says it cannot).
- An epoch's verdict ignores the replay, whose divergence only appears in the
  report, and the panics of recovery latency and replay divergence can never be
  raised: nothing records a latency, and no check follows the replay. With the
  defaults an oscillation explosion needs more changes of direction than captures
  can show.
- `load_cold` repeats aggregates and exceeds the warm limit; nothing calls it.

### Fairness

Only `RuntimeDaemon` has liveness properties. `WF(TaskNext)` says that the event
loop runs the daemon task when it can run and that p3, p4 and the sandbox
return (the sandbox has a time limit; p3 and p4 are the caller's and a hang there
would hang the daemon). `WF(CallerNext)` says the same of `boot` and `shutdown`,
which poll or await the task. Nothing is assumed of callers, crashes or
recovery; an action that a caller may or may not take is never fair.

## Proofs

Each theorem holds for every value of the constants that the named assumptions
of its module allow. TLC evaluates those assumptions on every run. Lemmas about operators
come first in a module, then the inductive invariant with one lemma per action
or group of actions, then the theorems.

### The queue and those who use it

`EventQueueProofs` proves, for every finite set of identifiers, every retry
limit and every dead-letter limit, all properties of the run `event_queue`, the
refinement included, and four more that only the proofs state: type correctness,
the bound of the dead letters, that the event in flight is processing, and that
a settled row never changes. Assumptions: those named in `EventQueue`
(`EventIdAssumption`, `RetriesAssumption`, `DeadLetterAssumption`).

The inductive invariant `IInv` is the conjunction of the type invariant and the
safety invariants with three strengthenings: ranks in `dead_letter` are bounded
by their maximum (so that inserting is well defined), sequence numbers of absent
rows are 0 and the others at most `MaxSequence` (so that the next one is new),
and `results` holds completed events only (so that a dead letter has no
result). `MaxOfBounded`, `PruneRows`, `InsertRow`, `MaxSequenceBounds` are the
lemmas about the operators; `RowUpdate` and `NackedRow` say what a step does to
one row; each action has a lemma. Action properties and the refinement follow
from `IInv` and the same lemmas: the refinement maps a row to its stage, tries
and ticket, and every action to one action of `DeliveryContract` or to a stutter.

The daemon, the gateway and the pipeline extend the queue, so their proofs
start with one fact: a step of theirs is a step of the queue or leaves it alone.
`IInv` and the contract of delivery then hold under each of them
(`QueueSafeUnderDaemon`, `PipelineUsesQueue`).

- *Daemon.* `QueueFollowsTask` is inductive with `CreatedByBoot`: while the
  lifecycle is STOPPED no task exists. Without it boot could start a second
  task over the connection of the first. `ExecutedOnce` follows from `ExecutedStays`: what
  the sandbox was given is in it, completed, or processing and let go. Neither a
  nack, which needs the event in flight, nor a replay, which takes dead rows, nor a
  pop, which takes pending ones, comes back to it.
- *Gateway.* `AnswersTrue` says too little to be inductive: an answer is true
  because of a trace, so `GInv` adds that every trace in the window tells the truth
  about its event (`TracesTrue`), that what was answered stays true of the row
  (`AnswersKept`), and that a receipt has a row (`ReceiptsHaveRows`). With
  `ResultUntilEvicted` in the same invariant, `ReceiptsKept` follows for each step.
- *Pipeline.* `PoolInv` adds to `ExecutionsAccounted` that an execution under
  way is not counted yet (`RunningUncounted`). `TapInv` relates the stage of the
  cycle to the event in flight and to the tap's entry, which is what
  `CompletedCyclesTrue` needs. `TracesFollowAttempts` needs `StoreInv` on top, with
  the substrate driver: traces in the order of their stamps, the newest stamp on
  the attempt in flight, a trace for every settled attempt until a full store has
  pushed it out or none can be made, and an ALLOW trace only of a completed row.

### Traces, checkpoints, recovery

- *Trace window.* `WInv`: the archive has one segment, and segment and window
  together are all that was appended. One segment is the point: pruning, which
  keeps the newest segments, then never takes anything, because `SEGMENT_SIZE` is not
  read. `ReadsAsList` follows for whole reads, for slices with any bounds and any step
  but those named, and for indices of either sign, past both ends as well.
- *Delta checkpoints.* `DInv`: bases are in order, the newest base and its chain are
  on disk (`LatestKept`) unless an interrupted clear has removed it (`Lost`), and read as the traces saved (`LatestReads`: the
  history, in order and once, after whatever older traces the base began with). Joining
  the chain is a recursive function of the library; that it exists, is unique and
  absorbs one more delta (`FlattenAppend`) is proved by taking the least
  counterexample, which needs no induction theorem. `BasesAssumption` asks for two
  bases at least, as the pruning may otherwise take the newest.
- *Recovery.* `RInv`: a file is sound or partial, files are numbered by the cycles
  and known in order, and the newest sound one is what was saved last
  (`LatestSaved`), or a clear has removed it without the knowledge of the metadata. The health agrees with the failures in every state and in every
  file, so that a restore cannot bring back a pair that disagrees.
  `RestoresExactly` and `SuccessIsEarned` are proved of the step `Recover` under `RInv`.

### Kernel

- *Agents.* `KInv` adds to `TaskHoldsAgent` that no two tasks hold the same agent
  (`OneTaskEach`): the end of one would otherwise take the agent from the other. An agent
  that was given a task is never idle again, for any finite set of agents (`AgentAssumption`).
- *State machine.* `PlansComplete` follows from `KernelTypes` alone: it goes
  through the machine from whatever state the events before the plan left.
- *Graphs.* `GraphsAgree` proves `GraphAlgorithmsAgree` of every plan a client can
  build, self-loops and repeated edges included. `PlanTyped` is the invariant; the rest
  holds of every well-formed graph, in five parts:
  1. A turn of the sort, or a batch, counts for every waiting node the edges from
     waiting nodes (`EdgesCounted`), so both give *schedules* (`Schedules`): a node comes
     after all it depends on, and one left out depends on one left out.
  2. `OnCycle`: a walk that repeats a node ends there. A schedule never holds
     such a node (positions would fall for ever), and holds all others: going back
     from one left out, through nodes left out, repeats a node, by the pigeonhole
     principle. `PlansOrdered` is the result. `OnCycleIs` shows the walks to be the
     same as reachability, which the property defines by closed sets.
  3. A search of `detect_cycles` reports closed walks only (`CycleToIs`). When it
     reports none, the nodes it is done with have ranks that fall along every edge
     (`Ranked`, `SearchFromFinds`), so no cycle is among them. A search nested `k` deep
     is complete if at most `k` nodes are new (`DeepestFinds`).
  4. Every node of a batch waited for one of the batch before (`BatchesTight`), so some
     path has a node in every batch, and no path can have two in one.
  5. By batches, last to first, the lengths of `critical_path` are those of longest
     paths (`LengthsSettle`), the start has the greatest, and following gives a path
     of that length (`FollowingEnds`, `CriticalPathIs`).

### Epoch

- `WarmCoversCaptures`: the invariant `SInv` says what the store keeps of a
  sequence of captures: the newest in the hot tier, one aggregate for every full stretch
  in the warm one, the oldest of which have left. `TelemetryAssumption` asks that
  the hot tier holds a stretch, as its constants do; otherwise an aggregate would
  miss captures.
- `ProbeFollowsScores`: `PInv` gives for each probe its last score, its changes of
  direction and its distance as functions of what that probe captured, whatever the
  others captured between.
- `PassedIsEarned`: `Placed` says where in the plan the epoch is and that all phases before
  have had their full length; `Watched` that the tracker holds the newest of what
  was compared. A verdict is given in the last step and on these alone.

### Observers

- `GraphIsCurrentWhenUsed` needs `IntervalAssumption`: the intervals are
  positive, and those who read the graph do so at multiples of its own
  interval, as the constants of the runtime loop do. The invariant
  `CurrentGraph` says that at such a count the graph is that of the window.
- `GraphIsSound`: the graph is always the one built of some window (`GraphBuilt`), and
  what building does is told stage by stage for each trace: which
  links it adds, that they lead forward only, and where a walk stands after each
  (`FollowsAre`). From every host event the traversal of first children and the
  search through all of them then come to an outcome.
- `ExplainedAlike` holds of each trace by itself (`WindowTyped` says what a trace
  is): the signature of the failure and the path through the graph blame the same
  layer, for every combination of verdict, status and rule.
- `DriftSeen`: every event of the window has a node in the graph
  (`EventsAreInGraph`), so the fingerprint tells its attempts one by one, and another
  outcome of any of them, not only of the last, changes what it tells.
- `FailureLowersScores`: the rates of a window are counts over its length; one more
  failure raises the count of failures by one and no count of successes, and each
  score is monotone in them under its rounding. `Digests` says that the pattern store
  is keyed by the digests of what it holds; `MeasureAssumption`, that risk and
  the figures of the queue are naturals.
- `EvictsOldestFirst`: `OrderKept` says that the strategy has the stored keys in the
  order in which they came, after at most one that has left. `SeenAssumption` asks that there be no more signatures than the
  miner remembers (50000 in the code). One that was forgotten would be taken for new, and its
  pattern could come back as the newest under its old key.
- `NoFlapping` speaks of the last four scores, so `HistoryAssumption` asks for a
  history of four at least (the code keeps many more). The invariant `GuardInv`
  says that fewer readings are waiting than the threshold, and that a level with a
  reading waiting is the level of one of as many newest scores.

### Federation

- `PathsAreLegal`: `WellRanked` says that no version is registered before its
  first parent, by giving each the number of versions there were; the ranks end
  every lineage at a root within as many steps as the recursion is given. The
  lineage exists by least counterexample (`ClimbsExists`), and its neighbours are a
  first parent and its child (`ClimbsToRoot`), which makes the steps of a supported
  migration transitions that the rules allow. Versions are triples of naturals
  (`FederationAssumption`).
- `EvolutionApproved`: thresholds stay on the scale (`OnScale`), which is the whole
  invariant. A tenth, rounded either way at a tie, is at most a tenth of the
  scale and reaches it only at the very top (`ClampBounds`), and keeps the order of two
  thresholds (`ClampMonotone`). Assumed are thresholds on the scale at the start
  and that `OverLimit` holds changes of exactly the limit (`OverLimitAssumption`); nothing
  of the metrics nor of the ties.
- `RewindIsPrefix`: positions of a list of traces are totally ordered by session, number
  and position (`GoesOrders`), so each has one place (`PlacesAreTaken`) and the timeline
  has the traces by place (`TimelineAt`). A reordering that keeps ties as they were maps the
  places of one list to those of the other (`OneLine`).
- `OrderMattersOnlyInConflict`: groups and their weights depend on the set of proposals
  only; the order of arrival can choose between groups of equal weight, and equal weights
  are a close margin. The sums are folds over sets, proved independent of the
  order. `Electorate` bounds the proposals by one for each node, and scores are pairs of
  naturals (`FederationAssumption`).
- `OneVerdictOnAVersion`: a node that is rejected speaks another version than the
  winner's (`Electorate`), and of two different versions the vote asks just what the
  synchronisation asks (`VerdictOfVote`); the guard asks the same of a version
  without traces, and with one also whether the migration raises (`VerdictOfGuard`).

### Recursion and folds without induction theorems

Loops and recursions are modelled as recursive functions, folds as the community
modules define them (a recursive function on sets of positions). That such a function
exists is proved by least counterexample (`RecursionExists`, `FoldExists`), and so
is everything it computes: each of the loops above has a lemma for one turn and
one that no turn is the first to break it.

## Only model-checked

The liveness of the daemon (`DSpec`'s temporal properties under fairness), which
is outside the prover's reach. Every other property of a passing run is a theorem.

## Open

1. Rows of the queue, traces and receipts are each related to one consumer; a
   theorem across gateway, pipeline and checkpoints would need them composed.
2. Four hazards in `PROJECT.json` have no property, since the code does
   what they warn of or the models take the steps as one; each has its note.
3. The queries of `observation/` read what the models hold, and could be stated as
   operators over `Observers`.

## Not modelled

- Observation queries, the physiology summary, latency statistics, the causal
  health score and the cold archive only read or have no caller.
- Console, capabilities and the editor adapter are I/O around the gateway.
- `legacy/` is declared outside the runtime by ARCHITECTURE.md.
- The chaos harness injects faults, which the modules have as actions.
- The frozen contracts are data classes with checks of their fields;
  `LifecycleManager` and the handshakes of the schema registry have no part in
  the flows above.
- The event generators of the epochs draw random profiles: the models take any.
- A raise between the `ack` of an event and the append of its trace
  (`runtime_loop.py:235-293`) in the gateway's model, which takes both in one step.
- Python's recursion limit, which a very long chain of dependencies reaches in
  `detect_cycles`; wall time that passes inside one `handle` (`state_context.py:62-64`
  reads the clock again); an abort between the evaluation of an epoch and its message.
