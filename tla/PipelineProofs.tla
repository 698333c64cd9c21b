--------------------------- MODULE PipelineProofs ---------------------------
(***************************************************************************)
(* What the tap, the trace store and the pool tell of the events, for any  *)
(* events and limits and in both drivers: they agree with the queue's rows *)
(* and with the executions, through retries, refusals, raising stages,     *)
(* cancellations and crashes.                                              *)
(***************************************************************************)
EXTENDS Pipeline, EventQueueProofs, SequenceTheorems

-----------------------------------------------------------------------------
(* The pool *)

PoolTyped ==
    /\ active \in Nat
    /\ pool \in [total : Nat, completed : Nat, failed : Nat]

\* The execution that awaits its worker has not been counted as finished: with
\* this a release never counts one execution twice.
RunningUncounted ==
    Runtime /\ stage = "sandbox" => pool.completed + pool.failed < pool.total

PoolInv == PoolTyped /\ RunningUncounted /\ ExecutionsAccounted

LEMMA InitPool == PInit => PoolInv
  BY DEF PInit, NoExecutions, PoolInv, PoolTyped, RunningUncounted,
         ExecutionsAccounted, Runtime

\* What the operations of the pool do to its counters.
LEMMA PoolCounts ==
    ASSUME PoolTyped, NEW result \in {"SUCCESS", "FAILED"},
           NEW p \in [total : Nat, completed : Nat, failed : Nat]
    PROVE  /\ Counted(p, result) \in [total : Nat, completed : Nat, failed : Nat]
           /\ Counted(p, result).total = p.total
           /\ Counted(p, result).completed + Counted(p, result).failed
                 = p.completed + p.failed + 1
  BY DEF Counted

LEMMA NextPool == PoolInv /\ [PNext]_pvars => PoolInv'
<1> SUFFICES ASSUME PoolInv, [PNext]_pvars PROVE PoolInv'
  OBVIOUS
<1> DEFINE Pool == [total : Nat, completed : Nat, failed : Nat]
           begun == [pool EXCEPT !.total = @ + 1]
<1>1. pool \in Pool /\ active \in Nat
  BY DEF PoolInv, PoolTyped
<1>2. /\ begun \in Pool /\ begun.total = pool.total + 1
      /\ begun.completed = pool.completed /\ begun.failed = pool.failed
  BY <1>1
<1>3. PoolTyped
  BY DEF PoolInv
<1> HIDE DEF Pool, begun
<1> USE DEF PoolInv, RunningUncounted, ExecutionsAccounted, Runtime, Idle
<1>4. CASE UNCHANGED <<active, pool, driver>> /\ (stage' = stage \/ stage' # "sandbox")
  BY <1>4 DEF PoolTyped
<1>5. CASE P4Allows
  <2>1. CASE Substrate
    BY <1>5, <2>1 DEF P4Allows, Substrate, PoolTyped
  <2>2. CASE Runtime
    <3>1. active' = active + 1 /\ pool' = begun /\ driver' = driver
      BY <1>5, <2>2 DEF P4Allows, Substrate, Acquire, begun
    <3> QED  BY <1>1, <1>2, <3>1 DEF PoolTyped, Pool
  <2> QED  BY <1>5, <2>1, <2>2 DEF P4Allows
<1>6. CASE CellRefuses
  <2>1. /\ pool' = Counted(begun, "FAILED") /\ active' = active
        /\ driver' = driver /\ stage' = "idle"
    BY <1>6 DEF CellRefuses, Refused, begun
  <2> QED  BY <1>1, <1>2, <1>3, <2>1, PoolCounts DEF PoolTyped, Pool
<1>7. ASSUME NEW result \in {"SUCCESS", "FAILED"}, Executed(result) PROVE PoolInv'
  <2>1. CASE Substrate
    BY <1>7, <2>1 DEF Executed, Substrate, PoolTyped
  <2>2. CASE Runtime
    <3>1. /\ active' = active - 1 /\ pool' = Counted(pool, result)
          /\ driver' = driver /\ stage = "sandbox" /\ stage' = "idle"
      BY <1>7, <2>2 DEF Executed, Substrate, Release
    <3> QED  BY <1>1, <1>3, <2>2, <3>1, PoolCounts DEF PoolTyped, Pool
  <2> QED  BY <1>7, <2>1, <2>2 DEF Executed
<1>8. CASE RuntimeRaises
  <2>1. CASE stage = "sandbox" /\ AwaitRaises
    <3>1. /\ active' = active /\ driver' = driver /\ stage' = "idle" /\ Runtime
          /\ pool' \in {pool, Counted(pool, "SUCCESS"), Counted(pool, "FAILED")}
      BY <1>8, <2>1 DEF RuntimeRaises, AwaitRaises, LoseCell
    <3> QED  BY <1>1, <1>3, <2>1, <3>1, PoolCounts DEF PoolTyped, Pool
  <2>2. CASE stage = "sandbox" /\ AnswerRaises
    <3>1. PICK result \in {"SUCCESS", "FAILED"} : Release(result)
      BY <2>2 DEF AnswerRaises
    <3>2. /\ active' = active - 1 /\ pool' = Counted(pool, result)
          /\ driver' = driver /\ stage' = "idle" /\ Runtime
      BY <1>8, <3>1 DEF RuntimeRaises, Release
    <3> QED  BY <1>1, <1>3, <2>2, <3>2, PoolCounts DEF PoolTyped, Pool
  <2>3. CASE stage # "sandbox"
    BY <1>4, <1>8, <2>3 DEF RuntimeRaises, AwaitRaises, AnswerRaises
  <2> QED  BY <1>8, <2>1, <2>2, <2>3 DEF RuntimeRaises
<1>9. CASE RefusalRaises
  <2>1. /\ active' = active + 1 /\ driver' = driver /\ stage' = "idle"
        /\ pool' \in {begun, Counted(begun, "FAILED")}
    BY <1>9 DEF RefusalRaises, begun
  <2> QED  BY <1>1, <1>2, <1>3, <2>1, PoolCounts DEF PoolTyped, Pool
<1>10. CASE Restart
  BY <1>10 DEF Restart, NoExecutions, PoolTyped
<1> QED
  BY <1>4, <1>5, <1>6, <1>7, <1>8, <1>9, <1>10
  DEF PNext, Take, P3Answers, SubstrateProposes, RuntimeProposes, PreflightRejects,
      P4Blocks, SubstrateRaises, Cancelled, SetCapabilities, Around, pvars, memory

\* Every execution the pool counts has completed, has failed, or has its cell
\* in _active.
THEOREM PoolAccounts == PSpec => []ExecutionsAccounted
<1>1. PoolInv => ExecutionsAccounted
  BY DEF PoolInv
<1> QED  BY <1>1, InitPool, NextPool, PTL DEF PSpec

-----------------------------------------------------------------------------
(* The tap *)

Verdict == {"none", "ALLOW", "BLOCK"}
Outcome == {"none", "SUCCESS", "FAILED"}

Entry == [status : {"untapped", "received", "completed", "failed", "blocked"},
          sequence_no : Nat, proposal : {"none", "traceable", "untraceable"},
          verdict : Verdict, result : Outcome]

TapTyped ==
    /\ driver \in {"substrate", "runtime"}
    /\ stage \in {"idle", "p3", "p4", "sandbox"}
    /\ tap \in [EventId -> Entry]
    /\ clock \in Nat

StageHolds == stage # "idle" <=> held # NoEvent

\* What the entry of the event in flight says at each await: no outcome yet,
\* and a verdict exactly once P4 has given it.  The entry of an earlier
\* attempt is still there until the runtime driver hears from P3.
EntryInFlight ==
    /\ stage = "p4" \/ (stage = "p3" /\ Substrate) =>
           tap[held].verdict = "none" /\ tap[held].result = "none"
    /\ stage = "sandbox" => tap[held].verdict = "ALLOW" /\ tap[held].result = "none"

TapInv ==
    /\ IInv
    /\ TapTyped
    /\ StageHolds
    /\ EntryInFlight
    /\ CompletedCyclesTrue

LEMMA InitTap == PInit => TapInv
<1> SUFFICES ASSUME PInit PROVE TapInv
  OBVIOUS
<1>1. IInv
  BY InitIInv DEF PInit
<1>2. TapTyped
  BY DEF PInit, TapTyped, NoEntries, NoEntry, Entry, Verdict, Outcome
<1>3. StageHolds /\ EntryInFlight
  BY DEF PInit, Init, StageHolds, EntryInFlight
<1>4. CompletedCyclesTrue
  BY DEF PInit, CompletedCyclesTrue, FullCycle, NoEntries, NoEntry
<1> QED  BY <1>1, <1>2, <1>3, <1>4 DEF TapInv

\* The event in flight is being processed.
LEMMA InFlight ==
    ASSUME TapInv, stage # "idle"
    PROVE  /\ held \in EventId /\ events[held].status = "processing"
           /\ tap[held] \in Entry
  BY DEF TapInv, StageHolds, TapTyped, IInv, TypeOK, HeldIsProcessing

\* The entries of a proposal.
LEMMA ProposalEntry ==
    ASSUME NEW x \in Entry, NEW p
    PROVE  /\ WithProposal(x, p) \in Entry
           /\ WithProposal(x, p).verdict = x.verdict
           /\ WithProposal(x, p).result = x.result
           /\ WithProposal(x, p).sequence_no = x.sequence_no
<1>1. ASSUME NEW kept \in {"traceable", "untraceable"}
      PROVE  LET y == [x EXCEPT !.proposal = kept]
             IN  /\ y \in Entry /\ y.verdict = x.verdict
                 /\ y.result = x.result /\ y.sequence_no = x.sequence_no
  BY DEF Entry
<1> QED  BY <1>1 DEF WithProposal

LEMMA ReceivedEntry ==
    ASSUME NEW e, NEW n \in Nat
    PROVE  /\ Received(e, n) \in Entry /\ Received(e, n).sequence_no = n
           /\ Received(e, n).verdict = "none" /\ Received(e, n).result = "none"
  BY DEF Received, NoEntry, Entry, Verdict, Outcome

LEMMA ProposedEntry ==
    ASSUME NEW p
    PROVE  /\ Proposed(p) \in Entry
           /\ Proposed(p).verdict = "none" /\ Proposed(p).result = "none"
  BY ReceivedEntry, ProposalEntry DEF Proposed

\* The driver and the consumer use the queue as its specification allows.
LEMMA PipelineStep == TapInv /\ [PNext]_pvars => [Next]_vars
<1> SUFFICES ASSUME TapInv, PNext PROVE [Next]_vars
  BY DEF pvars, vars
<1>1. ASSUME NEW e \in EventId, Take(e) PROVE Next
  BY <1>1 DEF Take, Next
<1>2. ASSUME NEW p, P3Answers(p) \/ PreflightRejects(p) PROVE [Next]_vars
  BY <1>2 DEF P3Answers, SubstrateProposes, RuntimeProposes, PreflightRejects, Next
<1>3. CASE P4Allows \/ SetCapabilities
  BY <1>3 DEF P4Allows, SetCapabilities
<1>4. CASE CellRefuses \/ P4Blocks \/ SubstrateRaises
           \/ \E result \in {"SUCCESS", "FAILED"} : Executed(result)
  <2>1. stage # "idle" /\ (Ack(held) \/ Nack(held))
    BY <1>4 DEF CellRefuses, P4Blocks, SubstrateRaises, Executed
  <2>2. held \in EventId
    BY <2>1, InFlight
  <2> QED  BY <2>1, <2>2 DEF Next
<1>5. CASE RuntimeRaises \/ RefusalRaises \/ Cancelled
  BY <1>5 DEF RuntimeRaises, RefusalRaises, Cancelled, Next
<1>6. CASE Around \/ Restart
  BY <1>6 DEF Around, Restart, Next
<1> QED  BY <1>1, <1>2, <1>3, <1>4, <1>5, <1>6 DEF PNext

\* What CompletedCyclesTrue asks of an entry beside the status of the row.
Agrees(x, status) ==
    /\ x.verdict # "none" /\ x.result # "none"
          => \/ status = "completed"
             \/ /\ Substrate /\ x.verdict = "ALLOW" /\ x.result = "FAILED"
                /\ status \in {"pending", "dead"}
    /\ x # NoEntry /\ status = "completed" => x.verdict # "none" /\ x.result # "none"

LEMMA AgreesIsCompletedCyclesTrue ==
    CompletedCyclesTrue <=> \A f \in EventId : Agrees(tap[f], events[f].status)
  BY DEF CompletedCyclesTrue, FullCycle, NackedAfterRun, Agrees

\* A step that rewrites one entry, and at most the row of the same event.
LEMMA EntryUpdate ==
    ASSUME TapInv, NEW e \in EventId, NEW x \in Entry,
           tap' = [tap EXCEPT ![e] = x], driver' = driver,
           \A f \in EventId \ {e} : events'[f] = events[f],
           Agrees(x, events'[e].status)
    PROVE  /\ tap' \in [EventId -> Entry] /\ tap'[e] = x
           /\ CompletedCyclesTrue'
<1>1. /\ tap' \in [EventId -> Entry] /\ tap'[e] = x
      /\ \A f \in EventId \ {e} : tap'[f] = tap[f]
  BY DEF TapInv, TapTyped
<1>2. \A f \in EventId : Agrees(tap[f], events[f].status)
  BY AgreesIsCompletedCyclesTrue DEF TapInv
<1>3. \A f \in EventId : Agrees(tap'[f], events'[f].status)
  BY <1>1, <1>2
<1> QED  BY <1>1, <1>3 DEF CompletedCyclesTrue, FullCycle, NackedAfterRun, Agrees, Substrate

\* A step that leaves the tap alone, completes no row, and takes none from
\* the substrate's pending and dead.
LEMMA EntriesStay ==
    ASSUME TapInv, [Next]_vars, tap' = tap, driver' = driver,
           \A f \in EventId : events'[f].status = "completed" => events[f].status = "completed",
           Substrate => \A f \in EventId : events[f].status \in {"pending", "dead"}
                                            => events'[f].status = events[f].status
    PROVE  CompletedCyclesTrue'
<1> SUFFICES ASSUME NEW f \in EventId
             PROVE  /\ FullCycle(f) => \/ events'[f].status = "completed"
                                       \/ NackedAfterRun(f)'
                    /\ tap[f] # NoEntry /\ events'[f].status = "completed" => FullCycle(f)
  BY DEF CompletedCyclesTrue, FullCycle
<1>1. events[f].status = "completed" => events'[f].status = "completed"
  BY RowStep DEF TapInv, vars
<1>2. NackedAfterRun(f) => NackedAfterRun(f)'
  BY DEF NackedAfterRun, Substrate
<1> QED  BY <1>1, <1>2 DEF TapInv, CompletedCyclesTrue

LEMMA TakeTap == ASSUME TapInv, NEW e \in EventId, Take(e) PROVE TapInv'
<1>1. IInv'
  BY PipelineStep, NextIInv DEF TapInv, PNext
<1>2. /\ stage' = "p3" /\ driver' = driver /\ held' = e /\ e # NoEvent
      /\ events \in [EventId -> Row] /\ events[e].status = "pending"
      /\ events' = [events EXCEPT ![e].status = "processing"]
  BY EventIdAssumption DEF Take, Pop, FirstPending, TapInv, IInv, TypeOK
<1>3. events'[e].status = "processing" /\ \A f \in EventId \ {e} : events'[f] = events[f]
  BY <1>2
<1>4. CASE Substrate
  <2> DEFINE x == Received(e, clock + 1)
  <2>1. tap' = [tap EXCEPT ![e] = x] /\ clock' = clock + 1 /\ clock \in Nat
    BY <1>4 DEF Take, Substrate, Runtime, TapInv, TapTyped
  <2>2. x \in Entry /\ x.verdict = "none" /\ x.result = "none"
    <3>1. clock + 1 \in Nat
      BY <2>1
    <3> QED  BY <3>1, ReceivedEntry
  <2> HIDE DEF x
  <2>3. Agrees(x, events'[e].status)
    BY <1>3, <2>2 DEF Agrees
  <2>4. tap' \in [EventId -> Entry] /\ tap'[e] = x /\ CompletedCyclesTrue'
    BY <1>2, <1>3, <2>1, <2>2, <2>3, EntryUpdate
  <2> QED  BY <1>1, <1>2, <2>1, <2>2, <2>4
           DEF TapInv, TapTyped, StageHolds, EntryInFlight
<1>5. CASE Runtime
  <2>1. tap' = tap /\ clock' = clock /\ ~ Substrate
    BY <1>5 DEF Take, Substrate, Runtime
  <2>2. CompletedCyclesTrue'
    BY <1>2, <1>3, <2>1, EntriesStay, PipelineStep DEF PNext
  <2> QED  BY <1>1, <1>2, <1>5, <2>1, <2>2
           DEF TapInv, TapTyped, StageHolds, EntryInFlight, Substrate, Runtime
<1> QED  BY <1>4, <1>5 DEF Take

\* Steps that leave the tap alone: a raise or a cancellation lets the event go,
\* producers push, capabilities change.
LEMMA QuietTap ==
    ASSUME TapInv, \/ RuntimeRaises /\ tap' = tap
                   \/ Cancelled \/ SetCapabilities \/ Around
    PROVE  TapInv'
<1>1. IInv' /\ [Next]_vars
  BY PipelineStep, NextIInv DEF TapInv, PNext
<1>2. /\ tap' = tap /\ clock' = clock /\ driver' = driver
      /\ \/ stage' = stage /\ held' = held
         \/ stage' = "idle" /\ held' = NoEvent
  BY DEF RuntimeRaises, Cancelled, SetCapabilities, Around, Idle, Drop, Push, Open,
         OpenRaises, memory, vars
<1>3. \A f \in EventId : \/ events'[f].status = events[f].status
                         \/ events[f].status = "absent" /\ events'[f].status = "pending"
  <2>1. CASE events' = events
    BY <2>1
  <2>2. ASSUME NEW e \in EventId, Push(e)
        PROVE  \A f \in EventId :
                  \/ events'[f].status = events[f].status
                  \/ events[f].status = "absent" /\ events'[f].status = "pending"
    <3>1. /\ events[e].status = "absent" /\ events'[e].status = "pending"
          /\ \A f \in EventId \ {e} : events'[f] = events[f]
      BY <2>2 DEF Push, PushedRow, NoRow, TapInv, IInv, TypeOK
    <3> QED  BY <3>1
  <2> QED
    BY <2>1, <2>2 DEF RuntimeRaises, Cancelled, SetCapabilities, Around, Drop, Open,
                      OpenRaises, tables, vars
<1>4. CompletedCyclesTrue'
  BY <1>1, <1>2, <1>3, EntriesStay
<1> QED  BY <1>1, <1>2, <1>4 DEF TapInv, TapTyped, StageHolds, EntryInFlight, Substrate

\* What a settlement or a raise does to the row of the event in flight.
LEMMA SettledRow ==
    ASSUME TapInv, NEW e \in EventId, held = e, Ack(e) \/ Nack(e) \/ Drop
    PROVE  /\ held' = NoEvent
           /\ \A f \in EventId \ {e} : events'[f] = events[f]
           /\ Ack(e) => events'[e].status = "completed"
           /\ Nack(e) => events'[e].status \in {"pending", "dead"}
           /\ Drop => events'[e].status = "processing"
<1>1. /\ events \in [EventId -> Row] /\ events[e] \in Row
      /\ events[e].status = "processing"
  BY EventIdAssumption DEF TapInv, IInv, TypeOK, HeldIsProcessing
<1>2. ASSUME Ack(e)
      PROVE  /\ held' = NoEvent /\ events'[e].status = "completed"
             /\ \A f \in EventId \ {e} : events'[f] = events[f]
  BY <1>1, <1>2 DEF Ack, Row
<1>3. ASSUME Nack(e)
      PROVE  /\ held' = NoEvent /\ events'[e].status \in {"pending", "dead"}
             /\ \A f \in EventId \ {e} : events'[f] = events[f]
  <2>1. CASE Requeue(e)
    BY <1>1, <1>3, <2>1 DEF Nack, Requeue, Row
  <2>2. CASE GiveUp(e)
    <3>1. events' = [events EXCEPT ![e].status = "dead", ![e].retry_count = Retries(e)]
      BY <2>2 DEF GiveUp
    <3> QED  BY <1>1, <1>3, <3>1 DEF Nack, Row
  <2> QED  BY <1>3, <2>1, <2>2 DEF Nack
<1>4. ASSUME Drop PROVE held' = NoEvent /\ events' = events
  BY <1>4 DEF Drop, tables
<1> QED  BY <1>1, <1>2, <1>3, <1>4

\* The pipeline lets go of the event in flight with the entry x: a full one
\* if it acks the event, and only then.
LEMMA SettleTap ==
    ASSUME TapInv, PNext, NEW e \in EventId, held = e, NEW x \in Entry,
           tap' = [tap EXCEPT ![e] = x],
           stage' = "idle", driver' = driver, clock' = clock,
           \/ Ack(e) /\ x.verdict # "none" /\ x.result # "none"
           \/ (Nack(e) \/ Drop) /\ (x.verdict = "none" \/ x.result = "none")
           \/ Nack(e) /\ Substrate /\ x.verdict = "ALLOW" /\ x.result = "FAILED"
    PROVE  TapInv'
<1>1. IInv'
  BY PipelineStep, NextIInv DEF TapInv
<1>2. /\ held' = NoEvent
      /\ \A f \in EventId \ {e} : events'[f] = events[f]
      /\ Ack(e) => events'[e].status = "completed"
      /\ Nack(e) => events'[e].status \in {"pending", "dead"}
      /\ Drop => events'[e].status = "processing"
  BY SettledRow
<1>3. Agrees(x, events'[e].status)
  BY <1>2 DEF Agrees
<1>4. tap' \in [EventId -> Entry] /\ CompletedCyclesTrue'
  BY <1>2, <1>3, EntryUpdate
<1> QED  BY <1>1, <1>2, <1>4
         DEF TapInv, TapTyped, StageHolds, EntryInFlight, Substrate

\* The pipeline goes on with the event in flight and the entry x, which has
\* no result yet.
LEMMA GoOnTap ==
    ASSUME TapInv, PNext, stage # "idle", NEW e \in EventId, held = e,
           NEW x \in Entry, tap' = [tap EXCEPT ![e] = x],
           driver' = driver, clock' = clock, UNCHANGED vars,
           x.result = "none",
           \/ stage' = "p4" /\ x.verdict = "none"
           \/ stage' = "sandbox" /\ x.verdict = "ALLOW"
    PROVE  TapInv'
<1>1. IInv'
  BY PipelineStep, NextIInv DEF TapInv
<1>2. held' = held /\ events' = events /\ events[e].status = "processing"
  BY InFlight DEF vars
<1>3. Agrees(x, events'[e].status)
  BY <1>2 DEF Agrees
<1>4. tap' \in [EventId -> Entry] /\ tap'[e] = x /\ CompletedCyclesTrue'
  BY <1>2, <1>3, EntryUpdate
<1> QED  BY <1>1, <1>2, <1>4
         DEF TapInv, TapTyped, StageHolds, EntryInFlight, Substrate

LEMMA P3AnswersTap == ASSUME TapInv, NEW p, PNext, P3Answers(p) PROVE TapInv'
<1>1. PICK e \in EventId : held = e /\ tap[e] \in Entry
  BY InFlight DEF P3Answers
<1>2. CASE SubstrateProposes(p)
  <2> DEFINE x == WithProposal(tap[e], p)
  <2>1. /\ tap' = [tap EXCEPT ![e] = x] /\ clock' = clock
        /\ driver' = driver /\ UNCHANGED vars
        /\ stage # "idle" /\ stage' = "p4"
    BY <1>1, <1>2 DEF P3Answers, SubstrateProposes
  <2>2. tap[e].verdict = "none" /\ tap[e].result = "none"
    BY <1>1, <1>2 DEF TapInv, EntryInFlight, P3Answers, SubstrateProposes
  <2>3. x \in Entry /\ x.verdict = "none" /\ x.result = "none"
    BY <1>1, <2>2, ProposalEntry
  <2> HIDE DEF x
  <2> QED  BY <1>1, <2>1, <2>3, GoOnTap
<1>3. CASE RuntimeProposes(p)
  <2> DEFINE x == Proposed(p)
  <2>1. /\ tap' = [tap EXCEPT ![e] = x] /\ clock' = clock
        /\ driver' = driver /\ UNCHANGED vars
        /\ stage # "idle" /\ stage' = "p4"
    BY <1>1, <1>3 DEF P3Answers, RuntimeProposes
  <2>2. x \in Entry /\ x.verdict = "none" /\ x.result = "none"
    BY ProposedEntry
  <2> HIDE DEF x
  <2> QED  BY <1>1, <2>1, <2>2, GoOnTap
<1> QED  BY <1>2, <1>3 DEF P3Answers

LEMMA PreflightRejectsTap ==
    ASSUME TapInv, NEW p, PNext, PreflightRejects(p) PROVE TapInv'
<1>1. PICK e \in EventId : held = e
  BY InFlight DEF PreflightRejects
<1> DEFINE x == Blocked(Proposed(p))
<1>2. x \in Entry /\ x.result = "none"
  <2>1. /\ Proposed(p) \in Entry /\ Proposed(p).result = "none"
    BY ProposedEntry
  <2> QED  BY <2>1 DEF Blocked, Entry
<1>3. /\ tap' = [tap EXCEPT ![e] = x] /\ stage' = "idle" /\ driver' = driver
      /\ clock' = clock /\ Drop
  BY <1>1 DEF PreflightRejects, Emit, Idle
<1> HIDE DEF x
<1> QED  BY <1>1, <1>2, <1>3, SettleTap

LEMMA P4AllowsTap == ASSUME TapInv, PNext, P4Allows PROVE TapInv'
<1>1. PICK e \in EventId : held = e /\ tap[e] \in Entry
  BY InFlight DEF P4Allows
<1> DEFINE x == [tap[e] EXCEPT !.verdict = "ALLOW"]
<1>2. tap[e].result = "none"
  BY <1>1 DEF TapInv, EntryInFlight, P4Allows
<1>3. x \in Entry /\ x.result = "none" /\ x.verdict = "ALLOW"
  BY <1>1, <1>2 DEF Entry, Verdict
<1>4. /\ tap' = [tap EXCEPT ![e] = x] /\ stage # "idle" /\ stage' = "sandbox"
      /\ driver' = driver /\ clock' = clock /\ UNCHANGED vars
  BY <1>1 DEF P4Allows, Allowed
<1> HIDE DEF x
<1> QED  BY <1>1, <1>3, <1>4, GoOnTap

LEMMA CellRefusesTap == ASSUME TapInv, PNext, CellRefuses PROVE TapInv'
<1>1. PICK e \in EventId : held = e /\ tap[e] \in Entry
  BY InFlight DEF CellRefuses
<1> DEFINE x == WithResult([tap[e] EXCEPT !.verdict = "ALLOW"], "FAILED")
<1>2. x \in Entry /\ x.verdict = "ALLOW" /\ x.result = "FAILED"
  BY <1>1 DEF WithResult, Entry, Verdict, Outcome
<1>3. /\ tap' = [tap EXCEPT ![e] = x] /\ stage' = "idle" /\ driver' = driver
      /\ clock' = clock /\ Ack(e)
  BY <1>1 DEF CellRefuses, Allowed, Emit, Idle
<1> HIDE DEF x
<1> QED  BY <1>1, <1>2, <1>3, SettleTap

LEMMA P4BlocksTap == ASSUME TapInv, PNext, P4Blocks PROVE TapInv'
<1>1. PICK e \in EventId : held = e /\ tap[e] \in Entry
  BY InFlight DEF P4Blocks
<1> DEFINE x == Blocked([tap[e] EXCEPT !.verdict = "BLOCK"])
<1>2. tap[e].result = "none"
  BY <1>1 DEF TapInv, EntryInFlight, P4Blocks
<1>3. x \in Entry /\ x.result = "none"
  BY <1>1, <1>2 DEF Blocked, Entry, Verdict, Outcome
<1>4. /\ tap' = [tap EXCEPT ![e] = x] /\ stage' = "idle" /\ driver' = driver
      /\ clock' = clock /\ Nack(e)
  BY <1>1 DEF P4Blocks, Emit, Idle
<1> HIDE DEF x
<1> QED  BY <1>1, <1>3, <1>4, SettleTap

LEMMA ExecutedTap ==
    ASSUME TapInv, PNext, NEW result \in {"SUCCESS", "FAILED"}, Executed(result)
    PROVE  TapInv'
<1>1. PICK e \in EventId : held = e /\ tap[e] \in Entry
  BY InFlight DEF Executed
<1> DEFINE x == WithResult(tap[e], result)
<1>2. tap[e].verdict = "ALLOW"
  BY <1>1 DEF TapInv, EntryInFlight, Executed
<1>3. x \in Entry /\ x.verdict = "ALLOW" /\ x.result # "none"
  BY <1>1, <1>2 DEF WithResult, Entry, Verdict, Outcome
<1>4. /\ tap' = [tap EXCEPT ![e] = x] /\ stage' = "idle" /\ driver' = driver
      /\ clock' = clock /\ Ack(e)
  BY <1>1 DEF Executed, Emit, Idle
<1> HIDE DEF x
<1> QED  BY <1>1, <1>3, <1>4, SettleTap

LEMMA SubstrateRaisesTap == ASSUME TapInv, PNext, SubstrateRaises PROVE TapInv'
<1>1. PICK e \in EventId : held = e /\ tap[e] \in Entry
  BY InFlight DEF SubstrateRaises
<1> DEFINE x == WithResult(tap[e], "FAILED")
<1>2. tap[e].verdict \in {"none", "ALLOW"} /\ Substrate
  BY <1>1 DEF TapInv, TapTyped, EntryInFlight, SubstrateRaises
<1>3. x \in Entry /\ x.verdict \in {"none", "ALLOW"} /\ x.result = "FAILED"
  BY <1>1, <1>2 DEF WithResult, Entry, Outcome
<1>4. /\ tap' = [tap EXCEPT ![e] = x] /\ stage' = "idle" /\ driver' = driver
      /\ clock' = clock /\ Nack(e)
  BY <1>1 DEF SubstrateRaises, Emit, Idle
<1> HIDE DEF x
<1> QED  BY <1>1, <1>2, <1>3, <1>4, SettleTap

LEMMA RuntimeRaisesTap == ASSUME TapInv, PNext, RuntimeRaises PROVE TapInv'
<1>1. CASE tap' = tap
  BY <1>1, QuietTap
<1>2. CASE tap' # tap
  <2>1. PICK e \in EventId : held = e
    BY InFlight DEF RuntimeRaises
  <2>2. PICK p : tap' = [tap EXCEPT ![held] = Proposed(p)]
    BY <1>2 DEF RuntimeRaises, AwaitRaises, AnswerRaises
  <2> DEFINE x == Proposed(p)
  <2>3. x \in Entry /\ x.result = "none"
    BY ProposedEntry
  <2>4. /\ tap' = [tap EXCEPT ![e] = x] /\ stage' = "idle" /\ driver' = driver
        /\ clock' = clock /\ Drop
    BY <2>1, <2>2 DEF RuntimeRaises, Idle
  <2> HIDE DEF x
  <2> QED  BY <2>1, <2>3, <2>4, SettleTap
<1> QED  BY <1>1, <1>2

LEMMA RefusalRaisesTap == ASSUME TapInv, PNext, RefusalRaises PROVE TapInv'
<1>1. PICK e \in EventId : held = e /\ tap[e] \in Entry
  BY InFlight DEF RefusalRaises
<1> DEFINE x == [tap[e] EXCEPT !.verdict = "ALLOW"]
<1>2. tap[e].result = "none"
  BY <1>1 DEF TapInv, EntryInFlight, RefusalRaises
<1>3. x \in Entry /\ x.result = "none"
  BY <1>1, <1>2 DEF Entry, Verdict
<1>4. /\ tap' = [tap EXCEPT ![e] = x] /\ stage' = "idle" /\ driver' = driver
      /\ clock' = clock /\ Drop
  BY <1>1 DEF RefusalRaises, Allowed, Idle
<1> HIDE DEF x
<1> QED  BY <1>1, <1>3, <1>4, SettleTap

LEMMA RestartTap == ASSUME TapInv, PNext, Restart PROVE TapInv'
<1>1. IInv'
  BY PipelineStep, NextIInv DEF TapInv
<1>2. /\ tap' = NoEntries /\ clock' = 0 /\ stage' = "idle" /\ driver' = driver
      /\ held' = NoEvent
  BY DEF Restart, Idle, Crash, NackInterrupted, LoseMemory
<1>3. \A f \in EventId : tap'[f] = NoEntry
  BY <1>2 DEF NoEntries
<1>4. tap' \in [EventId -> Entry] /\ CompletedCyclesTrue'
  BY <1>2, <1>3
  DEF NoEntries, NoEntry, Entry, Verdict, Outcome, CompletedCyclesTrue, FullCycle
<1> QED  BY <1>1, <1>2, <1>4 DEF TapInv, TapTyped, StageHolds, EntryInFlight, Substrate

LEMMA NextTap == TapInv /\ [PNext]_pvars => TapInv'
<1>1. ASSUME TapInv, PNext PROVE TapInv'
  <2>1. ASSUME NEW e \in EventId, Take(e) PROVE TapInv'
    BY <1>1, <2>1, TakeTap
  <2>2. ASSUME NEW p \in Proposal, P3Answers(p) \/ PreflightRejects(p) PROVE TapInv'
    BY <1>1, <2>2, P3AnswersTap, PreflightRejectsTap
  <2>3. CASE P4Allows \/ CellRefuses \/ P4Blocks
    BY <1>1, <2>3, P4AllowsTap, CellRefusesTap, P4BlocksTap
  <2>4. ASSUME NEW result \in {"SUCCESS", "FAILED"}, Executed(result) PROVE TapInv'
    BY <1>1, <2>4, ExecutedTap
  <2>5. CASE SubstrateRaises \/ RuntimeRaises \/ RefusalRaises \/ Restart
    BY <1>1, <2>5, SubstrateRaisesTap, RuntimeRaisesTap, RefusalRaisesTap, RestartTap
  <2>6. CASE Cancelled \/ SetCapabilities \/ Around
    BY <1>1, <2>6, QuietTap
  <2> QED  BY <1>1, <2>1, <2>2, <2>3, <2>4, <2>5, <2>6 DEF PNext
<1>2. ASSUME TapInv, UNCHANGED pvars PROVE TapInv'
  <2>1. IInv'
    BY <1>2, NextIInv DEF TapInv, pvars, vars
  <2> QED
    BY <1>2, <2>1 DEF TapInv, TapTyped, StageHolds, EntryInFlight, Substrate,
       CompletedCyclesTrue, FullCycle, NackedAfterRun, pvars, memory, vars
<1> QED  BY <1>1, <1>2

\* The full cycles the heartbeat reports are the events that were executed
\* and acked, and those the substrate executed and nacked since ack raised.
THEOREM CyclesCounted == PSpec => []CompletedCyclesTrue
<1>1. TapInv => CompletedCyclesTrue
  BY DEF TapInv
<1> QED  BY <1>1, InitTap, NextTap, PTL DEF PSpec

\* Whatever driver runs the pipeline, and wherever it is cancelled or raises,
\* it uses the queue as the queue's specification allows: delivery keeps its
\* contract.
THEOREM PipelineUsesQueue == PSpec => Spec /\ KeepsContract
<1>1. PInit => Init
  BY DEF PInit
<1>2. PSpec => Spec
  BY <1>1, InitTap, NextTap, PipelineStep, PTL DEF PSpec, Spec
<1> QED  BY <1>2, ContractKept

-----------------------------------------------------------------------------
(* The trace store of the substrate *)

TraceRow == [event : EventId, sequence_no : Nat,
             final_status : {"SANDBOX_FAILED", "P4_ALLOW", "P4_BLOCK",
                             "P4_BLOCKED_BY_PREFLIGHT", "P4_UNKNOWN"}]

TracesTyped == traces \in Seq(TraceRow) /\ Len(traces) <= MaxTraces

Ordered ==
    \A i, j \in DOMAIN traces :
        i < j => traces[i].sequence_no < traces[j].sequence_no

\* The attempt in flight has the newest stamp, and no trace yet.
Stamped ==
    /\ \A i \in DOMAIN traces : traces[i].sequence_no <= clock
    /\ stage # "idle" => /\ tap[held].sequence_no = clock
                         /\ \A i \in DOMAIN traces : traces[i].sequence_no < clock

\* An attempt that must have a trace has it until a full store has pushed it
\* out.
Traced(e) ==
    \/ \E i \in DOMAIN traces :
          traces[i].event = e /\ traces[i].sequence_no = tap[e].sequence_no
    \/ /\ Len(traces) = MaxTraces
       /\ tap[e].sequence_no < traces[1].sequence_no

SettledTraced == \A e \in EventId : MustHaveTrace(e) => Traced(e)

\* Of every trace, not of the newest only: a completed row is never retried.
AllowedCompleted ==
    \A i \in DOMAIN traces :
        traces[i].final_status = "P4_ALLOW"
            => events[traces[i].event].status = "completed"

StoreInv == Ordered /\ Stamped /\ SettledTraced /\ AllowedCompleted

TraceInv == TapInv /\ TracesTyped /\ (Substrate => StoreInv)

LEMMA InitTrace == PInit => TraceInv
<1> SUFFICES ASSUME PInit PROVE TraceInv
  OBVIOUS
<1>1. traces = <<>> /\ stage = "idle" /\ \A e \in EventId : tap[e] = NoEntry
  BY DEF PInit, NoEntries
<1>2. traces \in Seq(TraceRow) /\ Len(traces) = 0 /\ DOMAIN traces = {}
  BY <1>1, EmptySeq, LenProperties
<1> QED
  BY <1>1, <1>2, InitTap, MaxTracesAssumption
  DEF TraceInv, TracesTyped, StoreInv, Ordered, Stamped, SettledTraced, MustHaveTrace,
      AllowedCompleted

LEMMA TraceOf ==
    ASSUME NEW e \in EventId, NEW x \in Entry
    PROVE  /\ Trace(e, x) \in TraceRow
           /\ Trace(e, x).event = e /\ Trace(e, x).sequence_no = x.sequence_no
           /\ Trace(e, x).final_status = "P4_ALLOW"
                 => x.verdict = "ALLOW" /\ x.result # "FAILED"
<1>1. x.verdict \in Verdict /\ x.sequence_no \in Nat
  BY DEF Entry
<1>2. CASE x.result = "FAILED"
  BY <1>1, <1>2 DEF Trace, TraceRow, FinalStatus
<1>3. CASE x.result # "FAILED" /\ x.verdict = "none"
  <2>1. FinalStatus(x) \in {"P4_BLOCKED_BY_PREFLIGHT", "P4_UNKNOWN"}
    BY <1>3 DEF FinalStatus
  <2> QED  BY <1>1, <2>1 DEF Trace, TraceRow
<1>4. CASE x.result # "FAILED" /\ x.verdict # "none"
  <2>1. FinalStatus(x) = P4Status[x.verdict]
    BY <1>4 DEF FinalStatus
  <2>2. P4Status["ALLOW"] = "P4_ALLOW" /\ P4Status["BLOCK"] = "P4_BLOCK"
    BY DEF P4Status
  <2> QED  BY <1>1, <1>4, <2>1, <2>2 DEF Trace, TraceRow, Verdict
<1> QED  BY <1>2, <1>3, <1>4

\* ExecutionTraceStore.add: t is the last trace, the others move down by k,
\* which is 1 in a full store and 0 before.
LEMMA AddTrace ==
    ASSUME TracesTyped, NEW t \in TraceRow, NEW u \in {Add(t)}
    PROVE  /\ u \in Seq(TraceRow) /\ Len(u) \in 1..MaxTraces /\ u[Len(u)] = t
           /\ \E k \in {0, 1} :
                 /\ Len(u) = Len(traces) + 1 - k
                 /\ k = 1 <=> Len(traces) = MaxTraces
                 /\ \A i \in 1..(Len(u) - 1) :
                       i + k \in 1..Len(traces) /\ u[i] = traces[i + k]
<1>1. traces \in Seq(TraceRow) /\ Len(traces) \in 0..MaxTraces
  BY LenProperties DEF TracesTyped
<1>2. CASE Len(traces) = MaxTraces
  <2> DEFINE s == Tail(traces)
  <2>1. /\ s \in Seq(TraceRow) /\ Len(s) = MaxTraces - 1
        /\ \A i \in 1..Len(s) : s[i] = traces[i + 1]
    BY <1>1, <1>2, HeadTailProperties, MaxTracesAssumption
  <2>2. u = Append(s, t)
    BY <1>2 DEF Add
  <2> HIDE DEF s
  <2>3. /\ u \in Seq(TraceRow) /\ Len(u) = MaxTraces /\ u[Len(u)] = t
        /\ \A i \in 1..(Len(u) - 1) : u[i] = s[i]
    BY <2>1, <2>2, AppendProperties, MaxTracesAssumption
  <2>4. /\ Len(u) = Len(traces) + 1 - 1
        /\ \A i \in 1..(Len(u) - 1) : i + 1 \in 1..Len(traces) /\ u[i] = traces[i + 1]
    BY <1>2, <2>1, <2>3, MaxTracesAssumption
  <2> QED  BY <1>2, <2>3, <2>4, MaxTracesAssumption
<1>3. CASE Len(traces) # MaxTraces
  <2>1. u = Append(traces, t)
    BY <1>3 DEF Add
  <2>2. /\ u \in Seq(TraceRow) /\ Len(u) = Len(traces) + 1 /\ u[Len(u)] = t
        /\ \A i \in 1..(Len(u) - 1) : u[i] = traces[i]
    BY <1>1, <2>1, AppendProperties
  <2>3. /\ Len(u) = Len(traces) + 1 - 0
        /\ \A i \in 1..(Len(u) - 1) : i + 0 \in 1..Len(traces) /\ u[i] = traces[i + 0]
    BY <1>1, <2>2
  <2> QED  BY <1>1, <1>3, <2>2, <2>3, MaxTracesAssumption
<1> QED  BY <1>2, <1>3

\* A step that stores no trace, and settles no event and forgets no attempt.
LEMMA StoreStays ==
    ASSUME TraceInv, Substrate, [Next]_vars, TapInv', traces' = traces, Stamped',
           \A f \in EventId :
               MustHaveTrace(f)' => /\ MustHaveTrace(f)
                                    /\ tap'[f].sequence_no = tap[f].sequence_no
    PROVE  StoreInv'
<1>1. Ordered'
  BY DEF TraceInv, StoreInv, Ordered
<1>2. SettledTraced'
  BY DEF TraceInv, StoreInv, SettledTraced, Traced
<1>3. AllowedCompleted'
  <2> SUFFICES ASSUME NEW i \in DOMAIN traces, traces[i].final_status = "P4_ALLOW"
               PROVE  events'[traces[i].event].status = "completed"
    BY DEF AllowedCompleted
  <2>1. traces \in Seq(TraceRow) /\ i \in 1..Len(traces)
    BY LenProperties DEF TraceInv, TracesTyped
  <2>2. traces[i] \in TraceRow
    BY <2>1, ElementOfSeq
  <2>3. /\ events[traces[i].event].status = "completed"
        /\ traces[i].event \in EventId
    BY <2>2 DEF TraceInv, StoreInv, AllowedCompleted, TraceRow
  <2> QED  BY <2>3, RowStep DEF TraceInv, TapInv, vars
<1> QED  BY <1>1, <1>2, <1>3 DEF StoreInv

\* The event in flight is settled with the entry x, and its trace is stored.
LEMMA StoredTrace ==
    ASSUME TraceInv, Substrate, PNext, TapInv', stage # "idle",
           NEW e \in EventId, held = e, NEW x \in Entry,
           tap' = [tap EXCEPT ![e] = x], traces' = Add(Trace(e, x)),
           x.sequence_no = tap[e].sequence_no,
           stage' = "idle", clock' = clock,
           \/ Ack(e)
           \/ Nack(e) /\ (x.verdict # "ALLOW" \/ x.result = "FAILED")
    PROVE  StoreInv'
<1> DEFINE t == Trace(e, x)
<1>1. /\ t \in TraceRow /\ t.event = e /\ t.sequence_no = clock
      /\ t.final_status = "P4_ALLOW" => x.verdict = "ALLOW" /\ x.result # "FAILED"
  BY TraceOf DEF TraceInv, StoreInv, Stamped
<1>2. /\ traces \in Seq(TraceRow) /\ clock \in Nat /\ Len(traces) \in Nat
      /\ tap \in [EventId -> Entry]
      /\ \A i \in 1..Len(traces) : traces[i] \in TraceRow /\ traces[i].sequence_no < clock
  BY ElementOfSeq, LenProperties
  DEF TraceInv, TracesTyped, TapInv, TapTyped, StoreInv, Stamped
<1> HIDE DEF t
<1>3. PICK k \in {0, 1} :
          /\ traces' \in Seq(TraceRow) /\ Len(traces') \in 1..MaxTraces
          /\ traces'[Len(traces')] = t
          /\ Len(traces') = Len(traces) + 1 - k
          /\ k = 1 <=> Len(traces) = MaxTraces
          /\ \A i \in 1..(Len(traces') - 1) :
                i + k \in 1..Len(traces) /\ traces'[i] = traces[i + k]
  BY <1>1, AddTrace DEF TraceInv, t
<1>4. \A i \in 1..Len(traces') :
          \/ i = Len(traces') /\ traces'[i] = t
          \/ i < Len(traces') /\ i + k \in 1..Len(traces) /\ traces'[i] = traces[i + k]
  BY <1>3
<1>5. Ordered'
  <2> SUFFICES ASSUME NEW i \in 1..Len(traces'), NEW j \in 1..Len(traces'), i < j
               PROVE  traces'[i].sequence_no < traces'[j].sequence_no
    BY <1>3, LenProperties DEF Ordered
  <2>1. i < Len(traces') /\ i + k \in 1..Len(traces) /\ traces'[i] = traces[i + k]
    BY <1>3, <1>4
  <2>2. CASE j = Len(traces')
    BY <1>1, <1>2, <1>3, <2>1, <2>2
  <2>3. CASE j # Len(traces')
    <3>1. j + k \in 1..Len(traces) /\ traces'[j] = traces[j + k]
      BY <1>3, <1>4, <2>3
    <3> QED  BY <1>2, <2>1, <3>1 DEF TraceInv, StoreInv, Ordered
  <2> QED  BY <2>2, <2>3
<1>6. Stamped'
  <2> SUFFICES ASSUME NEW i \in 1..Len(traces') PROVE traces'[i].sequence_no <= clock
    BY <1>3, LenProperties DEF Stamped
  <2>1. CASE i = Len(traces')
    BY <1>1, <1>2, <1>3, <2>1
  <2>2. CASE i # Len(traces')
    <3>1. i + k \in 1..Len(traces) /\ traces'[i] = traces[i + k]
      BY <1>3, <1>4, <2>2
    <3>2. traces[i + k].sequence_no < clock /\ traces[i + k].sequence_no \in Nat
      BY <1>2, <3>1 DEF TraceRow
    <3> QED  BY <1>2, <3>1, <3>2
  <2> QED  BY <2>1, <2>2
<1>7. /\ \A f \in EventId \ {e} : events'[f] = events[f] /\ tap'[f] = tap[f]
      /\ tap'[e] = x /\ events \in [EventId -> Row]
      /\ Ack(e) => events'[e].status = "completed"
  BY <1>2, SettledRow DEF TraceInv, TapInv, IInv, TypeOK
<1>8. SettledTraced'
  <2> SUFFICES ASSUME NEW f \in EventId, MustHaveTrace(f)' PROVE Traced(f)'
    BY DEF SettledTraced
  <2>1. CASE f = e
    <3>1. Len(traces') \in DOMAIN traces' /\ traces'[Len(traces')] = t
      BY <1>3, LenProperties
    <3> QED  BY <1>1, <1>7, <2>1, <3>1 DEF Traced, TraceInv, StoreInv, Stamped
  <2>2. CASE f # e
    <3> DEFINE n == tap[f].sequence_no
    <3>1. tap'[f] = tap[f] /\ Traced(f) /\ n \in Nat
      BY <1>2, <1>7, <2>2 DEF TraceInv, StoreInv, SettledTraced, MustHaveTrace, Entry
    <3> HIDE DEF n
    <3>2. CASE Len(traces) = MaxTraces /\ n < traces[1].sequence_no
      <4>1. k = 1 /\ Len(traces') = MaxTraces /\ 1 \in 1..Len(traces)
        BY <1>2, <1>3, <3>2, MaxTracesAssumption
      <4>2. n < traces'[1].sequence_no
        <5>1. CASE Len(traces') = 1
          BY <1>1, <1>2, <1>3, <3>1, <3>2, <4>1, <5>1 DEF TraceRow
        <5>2. CASE Len(traces') # 1
          <6>1. 2 \in 1..Len(traces) /\ traces'[1] = traces[2]
            BY <1>3, <4>1, <5>2
          <6>2. traces[1].sequence_no < traces[2].sequence_no
            BY <1>2, <4>1, <6>1, LenProperties DEF TraceInv, StoreInv, Ordered
          <6>3. traces[1].sequence_no \in Nat /\ traces[2].sequence_no \in Nat
            BY <1>2, <4>1, <6>1 DEF TraceRow
          <6> QED  BY <3>1, <3>2, <6>1, <6>2, <6>3
        <5> QED  BY <5>1, <5>2
      <4> QED  BY <3>1, <4>1, <4>2 DEF Traced, n
    <3>3. ASSUME NEW i \in 1..Len(traces), traces[i].event = f,
                 traces[i].sequence_no = n
          PROVE  Traced(f)'
      <4>1. CASE i - k \in 1..(Len(traces') - 1)
        <5>1. traces'[i - k] = traces[i] /\ i - k \in DOMAIN traces'
          BY <1>3, <4>1, LenProperties
        <5> QED  BY <3>1, <3>3, <5>1 DEF Traced, n
      <4>2. CASE i - k \notin 1..(Len(traces') - 1)
        <5>1. k = 1 /\ i = 1 /\ Len(traces') = MaxTraces
          BY <1>2, <1>3, <4>2
        <5>2. n < traces'[1].sequence_no
          <6>1. CASE Len(traces') = 1
            BY <1>1, <1>2, <1>3, <3>3, <5>1, <6>1
          <6>2. CASE Len(traces') # 1
            <7>1. 2 \in 1..Len(traces) /\ traces'[1] = traces[2]
              BY <1>3, <5>1, <6>2
            <7>2. traces[1].sequence_no < traces[2].sequence_no
              BY <1>2, <5>1, <7>1, LenProperties DEF TraceInv, StoreInv, Ordered
            <7> QED  BY <3>3, <5>1, <7>1, <7>2
          <6> QED  BY <6>1, <6>2
        <5> QED  BY <3>1, <5>1, <5>2 DEF Traced, n
      <4> QED  BY <4>1, <4>2
    <3> QED  BY <1>2, <3>1, <3>2, <3>3, LenProperties DEF Traced, n
  <2> QED  BY <2>1, <2>2
<1>9. AllowedCompleted'
  <2> SUFFICES ASSUME NEW i \in 1..Len(traces'), traces'[i].final_status = "P4_ALLOW"
               PROVE  events'[traces'[i].event].status = "completed"
    BY <1>3, LenProperties DEF AllowedCompleted
  <2>1. CASE traces'[i] = t
    BY <1>1, <1>7, <2>1
  <2>2. ASSUME NEW j \in 1..Len(traces), traces'[i] = traces[j]
        PROVE  events'[traces'[i].event].status = "completed"
    <3>1. /\ events[traces[j].event].status = "completed"
          /\ traces[j].event \in EventId
      BY <1>2, <2>2, LenProperties DEF TraceInv, StoreInv, AllowedCompleted, TraceRow
    <3> QED  BY <2>2, <3>1, RowStep, PipelineStep DEF TraceInv, TapInv, vars
  <2> QED  BY <1>4, <2>1, <2>2
<1> QED  BY <1>5, <1>6, <1>8, <1>9 DEF StoreInv

\* The event in flight is settled with the entry x.
LEMMA EmitStore ==
    ASSUME TraceInv, Substrate, PNext, TapInv', stage # "idle",
           NEW e \in EventId, held = e, NEW x \in Entry, Emit(e, x),
           x.sequence_no = tap[e].sequence_no,
           stage' = "idle", clock' = clock,
           \/ Ack(e)
           \/ Nack(e) /\ (x.verdict # "ALLOW" \/ x.result = "FAILED")
    PROVE  StoreInv'
<1>1. tap' = [tap EXCEPT ![e] = x] /\ tap \in [EventId -> Entry]
  BY DEF Emit, TraceInv, TapInv, TapTyped
<1>2. CASE x.proposal # "untraceable"
  <2>1. traces' = Add(Trace(e, x))
    BY <1>2 DEF Emit
  <2> QED  BY <1>1, <2>1, StoredTrace
<1>3. CASE x.proposal = "untraceable"
  <2>1. traces' = traces
    BY <1>3 DEF Emit
  <2>2. /\ tap'[e] = x
        /\ \A f \in EventId \ {e} : tap'[f] = tap[f] /\ events'[f] = events[f]
    BY <1>1, SettledRow DEF TraceInv
  <2>3. Stamped'
    <3>1. Stamped /\ stage # "idle"
      BY DEF TraceInv, StoreInv
    <3>2. \A i \in DOMAIN traces : traces[i].sequence_no <= clock
      BY <3>1 DEF Stamped
    <3> QED  BY <2>1, <3>2 DEF Stamped
  <2>4. \A f \in EventId :
           MustHaveTrace(f)' => /\ MustHaveTrace(f)
                                /\ tap'[f].sequence_no = tap[f].sequence_no
    BY <1>3, <2>2 DEF MustHaveTrace
  <2> QED  BY <2>1, <2>3, <2>4, StoreStays, PipelineStep DEF TraceInv
<1> QED  BY <1>2, <1>3

LEMMA TakeStore ==
    ASSUME TraceInv, Substrate, PNext, TapInv', NEW e \in EventId, Take(e)
    PROVE  StoreInv'
<1> DEFINE x == Received(e, clock + 1)
<1>1. /\ clock \in Nat /\ tap \in [EventId -> Entry]
      /\ tap' = [tap EXCEPT ![e] = x] /\ clock' = clock + 1
      /\ traces' = traces /\ stage' = "p3" /\ held' = e
  BY DEF TraceInv, TapInv, TapTyped, Take, Pop, Substrate, Runtime
<1>2. clock + 1 \in Nat
  BY <1>1
<1>3. x.sequence_no = clock + 1
  BY <1>2 DEF Received, NoEntry
<1> HIDE DEF x
<1>4. /\ events \in [EventId -> Row]
      /\ events' = [events EXCEPT ![e].status = "processing"]
  BY DEF TraceInv, TapInv, IInv, TypeOK, Take, Pop
<1>5. Stamped'
  <2>1. \A i \in DOMAIN traces :
            traces[i].sequence_no \in Nat /\ traces[i].sequence_no <= clock
    <3> SUFFICES ASSUME NEW i \in DOMAIN traces
                 PROVE  traces[i].sequence_no \in Nat /\ traces[i].sequence_no <= clock
      OBVIOUS
    <3>1. traces \in Seq(TraceRow) /\ i \in 1..Len(traces)
      BY LenProperties DEF TraceInv, TracesTyped
    <3>2. traces[i] \in TraceRow
      BY <3>1, ElementOfSeq
    <3> QED  BY <3>2 DEF TraceInv, StoreInv, Stamped, TraceRow
  <2> QED  BY <1>1, <1>3, <2>1 DEF Stamped
<1>6. /\ \A f \in EventId \ {e} : tap'[f] = tap[f] /\ events'[f] = events[f]
      /\ events'[e].status = "processing"
  BY <1>1, <1>4 DEF Row
<1>7. \A f \in EventId :
         MustHaveTrace(f)' => /\ MustHaveTrace(f)
                              /\ tap'[f].sequence_no = tap[f].sequence_no
  BY <1>6 DEF MustHaveTrace
<1> QED  BY <1>1, <1>5, <1>7, StoreStays, PipelineStep DEF TraceInv

\* Steps that leave the stamps alone and settle nothing.
LEMMA QuietStore ==
    ASSUME TraceInv, Substrate, PNext, TapInv',
           (\E p \in Proposal : P3Answers(p)) \/ P4Allows \/ Cancelled
              \/ SetCapabilities \/ Around
    PROVE  StoreInv'
<1>1. CASE P4Allows \/ \E p \in Proposal : P3Answers(p)
  <2>1. PICK e \in EventId : held = e /\ tap[e] \in Entry
                              /\ events[e].status = "processing"
    BY <1>1, InFlight DEF TraceInv, P4Allows, P3Answers
  <2>2. PICK x \in Entry : x.sequence_no = tap[e].sequence_no
                           /\ tap' = [tap EXCEPT ![e] = x]
    <3>1. CASE P4Allows
      <4> DEFINE y == [tap[e] EXCEPT !.verdict = "ALLOW"]
      <4>1. y \in Entry /\ y.sequence_no = tap[e].sequence_no
        BY <2>1 DEF Entry, Verdict
      <4>2. tap' = [tap EXCEPT ![e] = y]
        BY <2>1, <3>1 DEF P4Allows, Allowed
      <4> QED  BY <4>1, <4>2
    <3>2. ASSUME NEW p, P3Answers(p)
          PROVE  \E x \in Entry : x.sequence_no = tap[e].sequence_no
                                  /\ tap' = [tap EXCEPT ![e] = x]
      <4>1. tap' = [tap EXCEPT ![e] = WithProposal(tap[e], p)]
        BY <2>1, <3>2 DEF P3Answers, SubstrateProposes, RuntimeProposes, Substrate, Runtime
      <4> QED  BY <2>1, <4>1, ProposalEntry
    <3> QED  BY <1>1, <3>1, <3>2
  <2>3. /\ tap \in [EventId -> Entry]
        /\ clock' = clock /\ traces' = traces /\ stage # "idle" /\ stage' # "idle"
        /\ held' = e /\ events' = events
    BY <1>1, <2>1 DEF TraceInv, TapInv, TapTyped, P4Allows, P3Answers, SubstrateProposes,
       RuntimeProposes, Substrate, Runtime, vars
  <2>4. /\ \A f \in EventId \ {e} : tap'[f] = tap[f]
        /\ tap'[e].sequence_no = tap[e].sequence_no
    BY <2>2, <2>3
  <2>5. Stamped'
    BY <2>1, <2>3, <2>4 DEF TraceInv, StoreInv, Stamped
  <2>6. \A f \in EventId :
           MustHaveTrace(f)' => /\ MustHaveTrace(f)
                                /\ tap'[f].sequence_no = tap[f].sequence_no
    BY <2>1, <2>3, <2>4 DEF MustHaveTrace
  <2> QED  BY <2>3, <2>5, <2>6, StoreStays, PipelineStep DEF TraceInv
<1>2. CASE Cancelled \/ SetCapabilities \/ Around
  <2>1. /\ tap' = tap /\ clock' = clock /\ traces' = traces
        /\ \/ stage # "idle" /\ held' = held
           \/ stage' = "idle"
           \/ stage' = stage /\ held' = held
    BY <1>2 DEF Cancelled, SetCapabilities, Around, Idle, Push, Open, OpenRaises,
       memory, vars
  <2>2. Stamped'
    BY <2>1 DEF TraceInv, StoreInv, Stamped
  <2>3. \A f \in EventId : events'[f].status # "processing"
                               => events[f].status # "processing"
    <3>1. CASE events' = events
      BY <3>1
    <3>2. ASSUME NEW e \in EventId, Push(e)
          PROVE  \A f \in EventId : events'[f].status # "processing"
                                       => events[f].status # "processing"
      <4>1. /\ events[e].status = "absent"
            /\ \A f \in EventId \ {e} : events'[f] = events[f]
        BY <3>2 DEF Push, NoRow, TraceInv, TapInv, IInv, TypeOK
      <4> QED  BY <4>1
    <3> QED
      BY <1>2, <3>1, <3>2 DEF Cancelled, SetCapabilities, Around, Drop, Open,
         OpenRaises, tables, vars
  <2>4. \A f \in EventId :
           MustHaveTrace(f)' => /\ MustHaveTrace(f)
                                /\ tap'[f].sequence_no = tap[f].sequence_no
    BY <2>1, <2>3 DEF MustHaveTrace
  <2> QED  BY <2>1, <2>2, <2>4, StoreStays, PipelineStep DEF TraceInv
<1> QED  BY <1>1, <1>2

LEMMA SettleStore ==
    ASSUME TraceInv, Substrate, PNext, TapInv',
           \/ P4Blocks \/ SubstrateRaises
           \/ \E result \in {"SUCCESS", "FAILED"} : Executed(result)
    PROVE  StoreInv'
<1>1. PICK e \in EventId : held = e /\ tap[e] \in Entry /\ stage # "idle"
  BY InFlight DEF TraceInv, P4Blocks, SubstrateRaises, Executed
<1>2. CASE P4Blocks
  <2> DEFINE x == Blocked([tap[e] EXCEPT !.verdict = "BLOCK"])
  <2>1. x \in Entry /\ x.verdict = "BLOCK" /\ x.sequence_no = tap[e].sequence_no
    BY <1>1 DEF Blocked, Entry, Verdict
  <2>2. Emit(e, x) /\ stage' = "idle" /\ clock' = clock /\ Nack(e)
    BY <1>1, <1>2 DEF P4Blocks, Idle
  <2> HIDE DEF x
  <2> QED  BY <1>1, <2>1, <2>2, EmitStore
<1>3. CASE SubstrateRaises
  <2> DEFINE x == WithResult(tap[e], "FAILED")
  <2>1. x \in Entry /\ x.result = "FAILED" /\ x.sequence_no = tap[e].sequence_no
    BY <1>1 DEF WithResult, Entry, Outcome
  <2>2. Emit(e, x) /\ stage' = "idle" /\ clock' = clock /\ Nack(e)
    BY <1>1, <1>3 DEF SubstrateRaises, Idle
  <2> HIDE DEF x
  <2> QED  BY <1>1, <2>1, <2>2, EmitStore
<1>4. ASSUME NEW result \in {"SUCCESS", "FAILED"}, Executed(result) PROVE StoreInv'
  <2> DEFINE x == WithResult(tap[e], result)
  <2>1. x \in Entry /\ x.sequence_no = tap[e].sequence_no
    BY <1>1 DEF WithResult, Entry, Outcome
  <2>2. Emit(e, x) /\ stage' = "idle" /\ clock' = clock /\ Ack(e)
    BY <1>1, <1>4 DEF Executed, Idle
  <2> HIDE DEF x
  <2> QED  BY <1>1, <2>1, <2>2, EmitStore
<1> QED  BY <1>2, <1>3, <1>4

LEMMA RestartStore == ASSUME Restart PROVE StoreInv' /\ TracesTyped'
<1>1. /\ traces' = <<>> /\ stage' = "idle"
      /\ \A e \in EventId : tap'[e] = NoEntry
  BY DEF Restart, Idle, NoEntries
<1>2. traces' \in Seq(TraceRow) /\ Len(traces') = 0 /\ DOMAIN traces' = {}
  BY <1>1, EmptySeq, LenProperties
<1> QED
  BY <1>1, <1>2, MaxTracesAssumption
  DEF TracesTyped, StoreInv, Ordered, Stamped, SettledTraced, MustHaveTrace, AllowedCompleted

\* The store keeps its bound and its rows their types, in both drivers.
LEMMA NextTyped == ASSUME TraceInv, PNext, ~ Restart PROVE TracesTyped'
<1>1. CASE traces' = traces
  BY <1>1 DEF TraceInv, TracesTyped
<1>2. ASSUME NEW e \in EventId, NEW x \in Entry, traces' = Add(Trace(e, x))
      PROVE  TracesTyped'
  BY <1>2, TraceOf, AddTrace, MaxTracesAssumption DEF TraceInv, TracesTyped
<1>3. CASE PNext /\ traces' # traces
  <2>1. /\ stage # "idle"
        /\ \/ \E p : PreflightRejects(p)
           \/ CellRefuses \/ P4Blocks \/ SubstrateRaises
           \/ \E result \in {"SUCCESS", "FAILED"} : Executed(result)
    BY <1>3 DEF PNext, Take, P3Answers, SubstrateProposes, RuntimeProposes, P4Allows,
       RuntimeRaises, RefusalRaises, Cancelled, SetCapabilities, Around, memory,
       PreflightRejects, CellRefuses, P4Blocks, SubstrateRaises, Executed
  <2>2. PICK e \in EventId : held = e /\ tap[e] \in Entry
    BY <2>1, InFlight DEF TraceInv
  <2> DEFINE r == [tap[e] EXCEPT !.verdict = "ALLOW"]
             b == [tap[e] EXCEPT !.verdict = "BLOCK"]
  <2>3. /\ \A p : Blocked(Proposed(p)) \in Entry
        /\ Blocked(b) \in Entry
        /\ \A y \in {tap[e], r}, result \in {"SUCCESS", "FAILED"} :
              WithResult(y, result) \in Entry
    <3>1. /\ b \in Entry /\ r \in Entry /\ \A p : Proposed(p) \in Entry
      BY <2>2, ProposedEntry DEF Entry, Verdict
    <3>2. /\ \A x \in Entry : Blocked(x) \in Entry
          /\ \A x \in Entry, result \in {"SUCCESS", "FAILED"} : WithResult(x, result) \in Entry
      BY DEF Blocked, WithResult, Entry, Outcome
    <3> HIDE DEF b, r
    <3> QED  BY <2>2, <3>1, <3>2
  <2>4. \E x \in Entry : traces' = Add(Trace(e, x))
    <3>1. ASSUME NEW p, PreflightRejects(p) PROVE \E x \in Entry : traces' = Add(Trace(e, x))
      <4>1. traces' = Add(Trace(e, Blocked(Proposed(p))))
        BY <1>3, <2>2, <3>1 DEF PreflightRejects, Emit
      <4> QED  BY <2>3, <4>1
    <3>2. CASE CellRefuses
      BY <1>3, <2>2, <2>3, <3>2 DEF CellRefuses, Emit, Allowed
    <3>3. CASE P4Blocks
      BY <1>3, <2>2, <2>3, <3>3 DEF P4Blocks, Emit
    <3>4. CASE SubstrateRaises
      BY <1>3, <2>2, <2>3, <3>4 DEF SubstrateRaises, Emit
    <3>5. ASSUME NEW result \in {"SUCCESS", "FAILED"}, Executed(result)
          PROVE  \E x \in Entry : traces' = Add(Trace(e, x))
      BY <1>3, <2>2, <2>3, <3>5 DEF Executed, Emit
    <3> QED  BY <2>1, <3>1, <3>2, <3>3, <3>4, <3>5
  <2> QED  BY <2>4, <1>2
<1> QED  BY <1>1, <1>3

LEMMA NextTrace == TraceInv /\ [PNext]_pvars => TraceInv'
<1>1. ASSUME TraceInv, PNext PROVE TraceInv'
  <2>1. TapInv' /\ driver' = driver
    BY <1>1, NextTap DEF TraceInv, PNext, Take, P3Answers, PreflightRejects, P4Allows,
       CellRefuses, P4Blocks, Executed, SubstrateRaises, RuntimeRaises, RefusalRaises,
       Cancelled, SetCapabilities, Around, Restart
  <2>2. TracesTyped'
    BY <1>1, NextTyped, RestartStore
  <2>3. ASSUME Substrate PROVE StoreInv'
    <3>1. ~ Runtime
      BY <2>3 DEF Substrate, Runtime
    <3>2. CASE Restart
      BY <3>2, RestartStore
    <3>3. CASE \E e \in EventId : Take(e)
      BY <1>1, <2>1, <2>3, <3>3, TakeStore
    <3>4. CASE \/ (\E p \in Proposal : P3Answers(p)) \/ P4Allows \/ Cancelled
               \/ SetCapabilities \/ Around
      BY <1>1, <2>1, <2>3, <3>4, QuietStore
    <3>5. CASE \/ P4Blocks \/ SubstrateRaises
               \/ \E result \in {"SUCCESS", "FAILED"} : Executed(result)
      BY <1>1, <2>1, <2>3, <3>5, SettleStore
    <3> QED
      BY <1>1, <3>1, <3>2, <3>3, <3>4, <3>5
      DEF PNext, PreflightRejects, CellRefuses, RuntimeRaises, RefusalRaises
  <2> QED  BY <2>1, <2>2, <2>3 DEF TraceInv, Substrate
<1>2. ASSUME TraceInv, UNCHANGED pvars PROVE TraceInv'
  <2>1. TapInv'
    BY <1>2, NextTap DEF TraceInv
  <2> QED
    BY <1>2, <2>1 DEF TraceInv, TracesTyped, Substrate, StoreInv, Ordered, Stamped,
       SettledTraced, MustHaveTrace, Traced, AllowedCompleted, pvars, memory, vars
<1> QED  BY <1>1, <1>2

\* The newest trace of an event is one of its traces.
LEMMA NewestTrace ==
    ASSUME TracesTyped, NEW e \in EventId, Attempts(e) # {}
    PROVE  \E i \in DOMAIN traces : traces[i].event = e /\ Newest(e) = traces[i]
<1>1. Len(traces) \in Nat /\ DOMAIN traces = 1..Len(traces)
  BY LenProperties DEF TracesTyped
<1> DEFINE A == Attempts(e)
<1>2. A \subseteq Nat /\ A # {} /\ \A i \in A : i <= Len(traces)
  BY <1>1 DEF Attempts
<1> HIDE DEF A
<1>3. Max(A) \in A
  BY <1>1, <1>2, MaxOfBounded
<1> QED  BY <1>3 DEF A, Attempts, Newest

\* The traces of the substrate follow the attempts, the settled ones and no
\* other, and the newest trace of an event agrees with its row.
THEOREM StoreFollows == PSpec => []TracesFollowAttempts
<1>1. TraceInv => TracesFollowAttempts
  <2> SUFFICES ASSUME TraceInv, Substrate PROVE TracesFollowAttempts
    BY DEF TracesFollowAttempts
  <2>1. StoreInv /\ TracesTyped
    BY DEF TraceInv
  <2>2. ASSUME NEW e \in EventId, MustHaveTrace(e)
        PROVE  \/ \E i \in Attempts(e) : traces[i].sequence_no = tap[e].sequence_no
               \/ /\ Len(traces) = MaxTraces
                  /\ tap[e].sequence_no < traces[1].sequence_no
    BY <2>1, <2>2 DEF StoreInv, SettledTraced, Traced, Attempts
  <2>3. ASSUME NEW e \in EventId, Attempts(e) # {}, Newest(e).final_status = "P4_ALLOW"
        PROVE  events[e].status = "completed"
    BY <2>1, <2>3, NewestTrace DEF StoreInv, AllowedCompleted
  <2> QED  BY <2>1, <2>2, <2>3 DEF StoreInv, Ordered, TracesFollowAttempts
<1> QED  BY <1>1, InitTrace, NextTrace, PTL DEF PSpec

=============================================================================
