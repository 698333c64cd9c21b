-------------------------- MODULE QueueUsersProofs --------------------------
(***************************************************************************)
(* What those who use the queue guarantee, for any set of events and any   *)
(* limits.  The daemon uses its queue only as the queue's specification    *)
(* allows, so that every theorem about the queue holds under the daemon,   *)
(* the queue's connection and the event in flight follow the daemon task,  *)
(* and no event is executed twice.  A client of the gateway gets as answers what became of its       *)
(* events, and receipts and results do not get lost on the way.            *)
(***************************************************************************)
EXTENDS RuntimeDaemon, Gateway, EventQueueProofs, SequenceTheorems

-----------------------------------------------------------------------------
(* THE DAEMON *)

-----------------------------------------------------------------------------
(* The inductive invariant *)

\* Whether the task has been created is told by the lifecycle: without this
\* boot could create a second task while the first still uses the queue.
CreatedByBoot == lifecycle = "STOPPED" => task = "none"

DInv == QueueFollowsTask /\ CreatedByBoot

LEMMA InitDInv == DInit => DInv
  BY DEF DInit, Init, DInv, QueueFollowsTask, CreatedByBoot, Busy

\* The steps of the daemon task keep the invariant.
LEMMA TaskDInv == ASSUME DInv, TaskNext PROVE DInv'
<1> USE DEF DInv, QueueFollowsTask, CreatedByBoot, Busy
<1>1. CASE TaskStart
  BY <1>1 DEF TaskStart, Open
<1>12. CASE TaskOpenRaises
  BY <1>12 DEF TaskOpenRaises, OpenRaises, vars
<1>2. CASE TaskNeverStarts
  BY <1>2 DEF TaskNeverStarts, vars
<1>3. CASE TaskCancelled
  <2>1. held' = NoEvent /\ conn' = conn
    BY <1>3 DEF TaskCancelled, Drop, vars
  <2> QED  BY <1>3, <2>1 DEF TaskCancelled
<1>4. CASE Unwind
  BY <1>4 DEF Unwind, Close
<1>5. CASE Sleep
  BY <1>5 DEF Sleep, vars
<1>6. CASE PopRaises
  BY <1>6 DEF PopRaises, AtTop, vars
<1>7. CASE PreflightPasses \/ P4Allows
  BY <1>7 DEF PreflightPasses, P4Allows, Step, vars
<1>8. CASE PreflightRejects \/ StageRaises
  BY <1>8 DEF PreflightRejects, StageRaises, Step, Drop
<1>9. CASE CrashRecovered \/ CrashFatal \/ CrashUnhandled
  BY <1>9 DEF CrashRecovered, CrashFatal, CrashUnhandled, vars
<1>10. ASSUME NEW e \in EventId, TakeEvent(e) PROVE DInv'
  <2>1. held' = e /\ e # NoEvent /\ conn' = conn
    BY <1>10, EventIdAssumption DEF TakeEvent, Pop
  <2> QED  BY <1>10, <2>1 DEF TakeEvent, AtTop
<1>11. ASSUME NEW e \in EventId, P4Blocks(e) \/ SandboxReturns(e) PROVE DInv'
  BY <1>11 DEF P4Blocks, SandboxReturns, Step, Nack, Ack
<1> QED
  BY <1>1, <1>2, <1>3, <1>4, <1>5, <1>6, <1>7, <1>8, <1>9, <1>10, <1>11,
     <1>12
  DEF TaskNext

\* So do the coroutines in boot and shutdown, the callers, and a crash.
LEMMA CallersDInv ==
    ASSUME DInv,
           \/ CallerNext
           \/ Boot \/ BootRecoveryRaises \/ Shutdown \/ Pause \/ Resume
           \/ ProcessCrash
           \/ \E e \in EventId : Submit(e)
           \/ \E e, n \in EventId : Replay(e, n)
    PROVE  DInv'
<1> USE DEF DInv, QueueFollowsTask, CreatedByBoot, Busy
<1>1. CASE CallerNext
  BY <1>1 DEF CallerNext, BootPoll, BootTimeout, BootGivesUp, ShutdownReturns,
              Alive, vars
<1>2. CASE Boot \/ BootRecoveryRaises
  BY <1>2 DEF Boot, BootRecoveryRaises, vars
<1>3. CASE Shutdown
  BY <1>3 DEF Shutdown, Alive, vars
<1>4. CASE Pause \/ Resume
  BY <1>4 DEF Pause, Resume, vars
<1>5. CASE ProcessCrash
  <2>1. conn' = "none" /\ held' = NoEvent
    BY <1>5 DEF ProcessCrash, Crash, NackInterrupted, ReplayInterrupted, LoseMemory
  <2> QED  BY <1>5, <2>1 DEF ProcessCrash, NewProcess
<1>6. ASSUME NEW e \in EventId, Submit(e) PROVE DInv'
  BY <1>6 DEF Submit, Push, daemon
<1>7. ASSUME NEW e \in EventId, NEW n \in EventId, Replay(e, n) PROVE DInv'
  BY <1>7 DEF Replay, ReplayDeadLetter, daemon
<1> QED  BY <1>1, <1>2, <1>3, <1>4, <1>5, <1>6, <1>7

LEMMA NextDInv == DInv /\ [DNext /\ Noted]_dvars => DInv'
<1> SUFFICES ASSUME DInv, [DNext /\ Noted]_dvars PROVE DInv'
  OBVIOUS
<1>1. CASE DNext
  BY <1>1, TaskDInv, CallersDInv DEF DNext
<1>2. CASE UNCHANGED dvars
  BY <1>2 DEF dvars, vars, daemon, DInv, QueueFollowsTask, CreatedByBoot
<1> QED  BY <1>1, <1>2

\* What the invariants need of the specification: its safety part.
LEMMA SafetyPart == DSpec => DInit /\ [][DNext /\ Noted]_dvars
  BY PTL DEF DSpec

LEMMA DaemonInvariance == DSpec => []DInv
  BY InitDInv, NextDInv, SafetyPart, PTL

\* No connection and no event is leaked whatever is cancelled, paused or
\* raised, what an open that raised leaves is used by no task, and after
\* SHUTDOWN nothing is left to run an event (runtime_daemon.py's finally
\* clause; boot creates one task only).
THEOREM QueueFollows == DSpec => []QueueFollowsTask
<1>1. DInv => QueueFollowsTask
  BY DEF DInv
<1> QED  BY <1>1, DaemonInvariance, PTL

-----------------------------------------------------------------------------
(* The daemon implements the queue's specification *)

LEMMA TaskUsesQueue == TaskNext => [Next]_vars
<1> SUFFICES ASSUME TaskNext PROVE [Next]_vars
  OBVIOUS
<1>1. CASE TaskStart
  BY <1>1 DEF TaskStart, Next
<1>8. CASE TaskOpenRaises
  BY <1>8 DEF TaskOpenRaises, Next
<1>2. CASE TaskNeverStarts \/ Sleep \/ PopRaises \/ PreflightPasses \/ P4Allows
  BY <1>2 DEF TaskNeverStarts, Sleep, PopRaises, PreflightPasses, P4Allows
<1>3. CASE TaskCancelled
  BY <1>3 DEF TaskCancelled, Next
<1>4. CASE Unwind
  BY <1>4 DEF Unwind, Next
<1>5. CASE PreflightRejects \/ StageRaises
  BY <1>5 DEF PreflightRejects, StageRaises, Next
<1>6. CASE CrashRecovered \/ CrashFatal \/ CrashUnhandled
  BY <1>6 DEF CrashRecovered, CrashFatal, CrashUnhandled
<1>7. ASSUME NEW e \in EventId, TakeEvent(e) \/ P4Blocks(e) \/ SandboxReturns(e)
      PROVE  Next
  BY <1>7 DEF TakeEvent, P4Blocks, SandboxReturns, Next
<1> QED  BY <1>1, <1>2, <1>3, <1>4, <1>5, <1>6, <1>7, <1>8 DEF TaskNext

LEMMA DaemonStep == [DNext /\ Noted]_dvars => [Next]_vars
<1> SUFFICES ASSUME [DNext /\ Noted]_dvars PROVE [Next]_vars
  OBVIOUS
<1>1. CASE UNCHANGED dvars
  BY <1>1 DEF dvars
<1>2. CASE TaskNext
  BY <1>2, TaskUsesQueue
<1>3. CASE CallerNext
  BY <1>3 DEF CallerNext, BootPoll, BootTimeout, BootGivesUp, ShutdownReturns
<1>4. CASE Boot \/ BootRecoveryRaises \/ Shutdown \/ Pause \/ Resume
  BY <1>4 DEF Boot, BootRecoveryRaises, Shutdown, Pause, Resume
<1>5. CASE ProcessCrash
  BY <1>5 DEF ProcessCrash, Next
<1>6. ASSUME NEW e \in EventId, Submit(e) PROVE Next
  BY <1>6 DEF Submit, Next
<1>7. ASSUME NEW e \in EventId, NEW n \in EventId, Replay(e, n) PROVE Next
  BY <1>7 DEF Replay, Next
<1> QED  BY <1>1, <1>2, <1>3, <1>4, <1>5, <1>6, <1>7 DEF DNext

\* The invariants of the queue hold under the daemon, with its cancellations,
\* restarts and dropped events, and so does the contract of delivery.
THEOREM QueueSafeUnderDaemon == DSpec => []IInv /\ KeepsContract
<1>1. DInit => Init
  BY DEF DInit
<1>2. DSpec => Spec
  BY <1>1, DaemonStep, SafetyPart, PTL DEF Spec
<1> QED  BY <1>2, Invariance, ContractKept, PTL

-----------------------------------------------------------------------------
(* Nothing is executed twice *)

\* What the sandbox has been given is in it, completed, or let go for good.
ExecutedStays ==
    /\ executed \subseteq EventId
    /\ \A e \in executed : events[e].status \in {"processing", "completed"}
    /\ \A e \in executed : held = e => task = "sandbox"
    /\ task = "sandbox" => held \in executed

\* The one way into the sandbox.
LEMMA IntoSandbox ==
    ASSUME DInv, DNext, task' = "sandbox"
    PROVE  /\ held' = held /\ held # NoEvent
           /\ task # "sandbox" => events' = events /\ task = "p4"
<1>1. CASE TaskNext
  <2>1. P4Allows
    BY <1>1 DEF TaskNext, TaskStart, TaskOpenRaises, TaskNeverStarts,
         TaskCancelled, Unwind, Sleep, PopRaises, PreflightPasses,
         PreflightRejects, StageRaises, CrashRecovered, CrashFatal,
         CrashUnhandled, TakeEvent, P4Blocks, SandboxReturns, Step
  <2> QED  BY <2>1 DEF P4Allows, Step, vars, DInv, QueueFollowsTask, Busy
<1>2. CASE CallerNext \/ Boot \/ BootRecoveryRaises \/ Shutdown \/ Pause \/ Resume
  <2>1. UNCHANGED <<vars, task>>
    BY <1>2 DEF CallerNext, BootPoll, BootTimeout, BootGivesUp, ShutdownReturns,
                Boot, BootRecoveryRaises, Shutdown, Pause, Resume
  <2> QED  BY <2>1 DEF vars, DInv, QueueFollowsTask, Busy
<1>3. CASE ProcessCrash
  BY <1>3 DEF ProcessCrash, NewProcess
<1>4. ASSUME NEW e \in EventId, Submit(e) \/ \E n \in EventId : Replay(e, n)
      PROVE  held' = held /\ task' = task
  BY <1>4 DEF Submit, Replay, Push, ReplayDeadLetter, daemon
<1> QED  BY <1>1, <1>2, <1>3, <1>4 DEF DNext, DInv, QueueFollowsTask, Busy

\* A step while an event is in the sandbox acks it, lets it go with its row
\* as it is, or pushes another.
LEMMA InSandbox ==
    ASSUME DInv, DNext, task = "sandbox", NEW f \in EventId, held = f,
           events \in [EventId -> Row], events[f].status = "processing"
    PROVE  /\ events'[f].status \in {"processing", "completed"}
           /\ held' = f => task' = "sandbox"
<1>0. f # NoEvent
  BY EventIdAssumption
<1>1. CASE TaskNext
  <2>1. TaskCancelled \/ StageRaises \/ \E e \in EventId : SandboxReturns(e)
    BY <1>1 DEF TaskNext, TaskStart, TaskOpenRaises, TaskNeverStarts, Unwind,
         Sleep, PopRaises, PreflightPasses, PreflightRejects, P4Allows,
         CrashRecovered, CrashFatal, CrashUnhandled, TakeEvent, AtTop, P4Blocks,
         Step
  <2>2. CASE TaskCancelled \/ StageRaises
    BY <2>2, <1>0 DEF TaskCancelled, StageRaises, Step, Drop, tables
  <2>3. ASSUME NEW e \in EventId, SandboxReturns(e)
        PROVE  events'[f].status = "completed" /\ held' = NoEvent
    <3>1. e = f /\ held' = NoEvent /\ events' = [events EXCEPT ![e].status = "completed"]
      BY <2>3 DEF SandboxReturns, Ack
    <3> QED  BY <3>1 DEF Row
  <2>4. CASE \E e \in EventId : SandboxReturns(e)
    BY <2>3, <2>4, <1>0
  <2> QED  BY <2>1, <2>2, <2>4
<1>2. CASE CallerNext \/ Boot \/ BootRecoveryRaises \/ Shutdown \/ Pause \/ Resume
  <2>1. UNCHANGED vars /\ (task' = task \/ Boot)
    BY <1>2 DEF CallerNext, BootPoll, BootTimeout, BootGivesUp, ShutdownReturns,
                Boot, BootRecoveryRaises, Shutdown, Pause, Resume
  <2> QED  BY <2>1 DEF vars, Boot, DInv, CreatedByBoot
<1>3. CASE ProcessCrash
  <2>1. held' = NoEvent
    BY <1>3 DEF ProcessCrash, Crash, NackInterrupted, ReplayInterrupted, LoseMemory
  <2>2. CASE Crash \/ \E e \in EventId : NackInterrupted(e)
    BY <2>1, <2>2, <1>0 DEF Crash, NackInterrupted, tables
  <2>3. ASSUME NEW e \in EventId, NEW n \in EventId, ReplayInterrupted(e, n)
        PROVE  n # f /\ events' = [events EXCEPT ![n] = PushedRow]
    BY <2>3 DEF ReplayInterrupted, NoRow
  <2> QED  BY <1>3, <2>1, <2>2, <2>3, <1>0 DEF ProcessCrash
<1>4. ASSUME NEW e \in EventId, Submit(e) \/ \E n \in EventId : Replay(n, e)
      PROVE  /\ events'[f] = events[f] /\ task' = task
  <2>1. events[e] = NoRow /\ events' = [events EXCEPT ![e] = PushedRow] /\ task' = task
    BY <1>4 DEF Submit, Replay, Push, ReplayDeadLetter, daemon
  <2> QED  BY <2>1 DEF NoRow
<1> QED  BY <1>1, <1>2, <1>3, <1>4 DEF DNext

\* The task has no row of its own: what it holds is a popped event.
LEMMA HeldWhereFrom ==
    ASSUME DInv, DNext, NEW f \in EventId, held # f, held' = f
    PROVE  events[f].status = "pending"
<1>0. f # NoEvent
  BY EventIdAssumption
<1>1. CASE TaskNext
  <2>1. \E e \in EventId : TakeEvent(e)
    BY <1>1, <1>0 DEF TaskNext, TaskStart, TaskOpenRaises, TaskNeverStarts,
         TaskCancelled, Unwind, Sleep, PopRaises, PreflightPasses,
         PreflightRejects, P4Allows, StageRaises, CrashRecovered, CrashFatal,
         CrashUnhandled, P4Blocks, SandboxReturns, Open, OpenRaises, Close,
         Drop, Ack, Nack, Step, vars
  <2> QED  BY <2>1 DEF TakeEvent, Pop, FirstPending
<1>2. CASE CallerNext \/ Boot \/ BootRecoveryRaises \/ Shutdown \/ Pause \/ Resume
  BY <1>2 DEF CallerNext, BootPoll, BootTimeout, BootGivesUp, ShutdownReturns,
              Boot, BootRecoveryRaises, Shutdown, Pause, Resume, vars
<1>3. CASE ProcessCrash
  BY <1>3, <1>0 DEF ProcessCrash, Crash, NackInterrupted, ReplayInterrupted, LoseMemory
<1>4. ASSUME NEW e \in EventId, Submit(e) \/ \E n \in EventId : Replay(e, n)
      PROVE  held' = held
  BY <1>4 DEF Submit, Replay, Push, ReplayDeadLetter
<1> QED  BY <1>1, <1>2, <1>3, <1>4 DEF DNext

LEMMA NextExecuted ==
    IInv /\ DInv /\ ExecutedStays /\ [DNext /\ Noted]_dvars => ExecutedStays'
<1> SUFFICES ASSUME IInv, DInv, ExecutedStays, [DNext /\ Noted]_dvars
             PROVE  ExecutedStays'
  OBVIOUS
<1>1. CASE UNCHANGED dvars
  BY <1>1 DEF dvars, vars, daemon, ExecutedStays
<1>2. CASE DNext /\ Noted
  <2>1. events \in [EventId -> Row] /\ held \in EventId \cup {NoEvent}
    BY DEF IInv, TypeOK
  <2>2. [Next]_vars
    BY <1>2, DaemonStep
  <2>3. task' = "sandbox" => held' = held /\ held' \in EventId /\ held' \in executed'
    BY <1>2, <2>1, IntoSandbox DEF Noted
  <2>4. \A f \in executed' : f \in executed \/ (task' = "sandbox" /\ f = held)
    BY <1>2, <2>3 DEF Noted
  <2>5. ASSUME NEW f \in executed
        PROVE  /\ events'[f].status \in {"processing", "completed"}
               /\ held' = f => task' = "sandbox"
    <3>1. f \in EventId /\ events[f].status \in {"processing", "completed"}
      BY DEF ExecutedStays
    <3>2. CASE held = f
      <4>1. task = "sandbox" /\ events[f].status = "processing"
        BY <3>1, <3>2, EventIdAssumption DEF ExecutedStays, IInv, HeldIsProcessing
      <4> QED  BY <4>1, <3>1, <3>2, <2>1, <1>2, InSandbox
    <3>3. CASE held # f
      <4>1. events'[f] = events[f]
        <5>1. CASE Next
          BY <5>1, <3>1, <3>3, RowStep
        <5>2. CASE UNCHANGED vars
          BY <5>2 DEF vars
        <5> QED  BY <5>1, <5>2, <2>2
      <4>2. held' # f
        BY <3>1, <3>3, <1>2, HeldWhereFrom
      <4> QED  BY <4>1, <4>2, <3>1
    <3> QED  BY <3>2, <3>3
  <2>6. ASSUME task' = "sandbox"
        PROVE  events'[held].status \in {"processing", "completed"}
    <3>1. CASE task = "sandbox"
      BY <3>1, <2>5 DEF ExecutedStays
    <3>2. CASE task # "sandbox"
      BY <3>2, <2>6, <1>2, IntoSandbox DEF IInv, HeldIsProcessing
    <3> QED  BY <3>1, <3>2
  <2> QED  BY <2>3, <2>4, <2>5, <2>6 DEF ExecutedStays
<1> QED  BY <1>1, <1>2

\* No event is given to the sandbox twice, whatever is cancelled, raised,
\* recovered, restarted or replayed (runtime_loop.py acks or lets go of an
\* event that was in the sandbox, and never nacks it).
THEOREM OnceInSandbox == DSpec => ExecutedOnce
<1>1. DInit => ExecutedStays
  BY DEF DInit, ExecutedStays
<1>2. DSpec => []IInv
  BY QueueSafeUnderDaemon, PTL
<1>3. DSpec => []ExecutedStays
  BY <1>1, <1>2, NextExecuted, DaemonInvariance, SafetyPart, PTL
<1>4. ASSUME DInv, ExecutedStays, [DNext /\ Noted]_dvars
      PROVE  [task # "sandbox" /\ task' = "sandbox" => held' \notin executed]_dvars
  BY <1>4, IntoSandbox DEF ExecutedStays
<1> QED  BY <1>3, <1>4, DaemonInvariance, SafetyPart, PTL DEF ExecutedOnce

-----------------------------------------------------------------------------
(* THE GATEWAY *)

-----------------------------------------------------------------------------
(* Sequences *)

\* Appending to a sequence of at most n elements and dropping its head above
\* n, which is what the receipts and the window of traces do.
LEMMA BoundedAppend ==
    ASSUME NEW S, NEW s \in Seq(S), NEW x \in S,
           NEW n \in Nat \ {0}, Len(s) <= n,
           NEW t, t = IF Len(Append(s, x)) > n THEN Tail(Append(s, x))
                                               ELSE Append(s, x)
    PROVE  /\ t \in Seq(S) /\ Len(t) \in 1..n /\ t[Len(t)] = x
           /\ Len(s) < n => /\ Len(t) = Len(s) + 1
                            /\ \A i \in 1..Len(s) : t[i] = s[i]
           /\ Len(s) = n => /\ Len(t) = n
                            /\ \A i \in 1..(n - 1) : t[i] = s[i + 1]
<1> DEFINE a == Append(s, x)
<1>1. /\ a \in Seq(S) /\ Len(a) = Len(s) + 1 /\ a # <<>>
      /\ \A i \in 1..Len(s) : a[i] = s[i]
      /\ a[Len(s) + 1] = x
  BY AppendProperties
<1>2. /\ Tail(a) \in Seq(S) /\ Len(Tail(a)) = Len(a) - 1
      /\ \A i \in 1..Len(Tail(a)) : Tail(a)[i] = a[i + 1]
  BY <1>1, HeadTailProperties
<1>3. t = IF Len(a) > n THEN Tail(a) ELSE a
  OBVIOUS
<1> HIDE DEF a
<1>4. CASE Len(s) < n
  BY <1>1, <1>3, <1>4
<1>5. CASE Len(s) = n
  BY <1>1, <1>2, <1>3, <1>5
<1> QED  BY <1>4, <1>5, LenProperties

\* Removing one place of a sequence leaves every other element.
LEMMA RemovePlace ==
    ASSUME NEW S, NEW s \in Seq(S), NEW i \in 1..Len(s),
           NEW t \in {RemoveAt(s, i)}
    PROVE  /\ t \in Seq(S) /\ Len(t) = Len(s) - 1
           /\ \A j \in 1..Len(t) : \E k \in 1..Len(s) : t[j] = s[k]
           /\ \A k \in 1..Len(s) : k # i => \E j \in 1..Len(t) : t[j] = s[k]
<1> DEFINE l == SubSeq(s, 1, i - 1)
           r == SubSeq(s, i + 1, Len(s))
<1>1. /\ l \in Seq(S) /\ Len(l) = i - 1
      /\ \A j \in 1..(i - 1) : l[j] = s[j]
  BY SubSeqProperties, LenProperties, ElementOfSeq
<1>2. /\ r \in Seq(S) /\ Len(r) = Len(s) - i
      /\ \A j \in 1..(Len(s) - i) : r[j] = s[i + j]
  BY SubSeqProperties, LenProperties, ElementOfSeq
<1>3. t = l \o r
  BY DEF RemoveAt
<1> HIDE DEF l, r
<1>4. /\ t \in Seq(S) /\ Len(t) = Len(s) - 1
      /\ \A j \in 1..(i - 1) : t[j] = s[j]
      /\ \A j \in i..(Len(s) - 1) : t[j] = s[j + 1]
  <2>1. t \in Seq(S) /\ Len(t) = Len(s) - 1
    BY <1>1, <1>2, <1>3, ConcatProperties, LenProperties
  <2>2. ASSUME NEW j \in 1..(i - 1) PROVE t[j] = s[j]
    BY <1>1, <1>2, <1>3
  <2>3. ASSUME NEW j \in i..(Len(s) - 1) PROVE t[j] = s[j + 1]
    <3>1. t[j] = r[j - (i - 1)]
      BY <1>1, <1>2, <1>3
    <3>2. r[j - (i - 1)] = s[i + (j - (i - 1))]
      BY <1>2
    <3> QED  BY <3>1, <3>2
  <2> QED  BY <2>1, <2>2, <2>3
<1>5. ASSUME NEW j \in 1..Len(t)
      PROVE  \E k \in 1..Len(s) : t[j] = s[k]
  <2>1. CASE j < i
    BY <2>1, <1>4
  <2>2. CASE j >= i
    <3>1. j + 1 \in 1..Len(s) /\ t[j] = s[j + 1]
      BY <2>2, <1>4
    <3> QED  BY <3>1
  <2> QED  BY <2>1, <2>2
<1>6. ASSUME NEW k \in 1..Len(s), k # i
      PROVE  \E j \in 1..Len(t) : t[j] = s[k]
  <2>1. CASE k < i
    BY <2>1, <1>4
  <2>2. CASE k > i
    <3>1. k - 1 \in i..(Len(s) - 1) /\ t[k - 1] = s[(k - 1) + 1]
      BY <2>2, <1>4
    <3> QED  BY <3>1, <1>4
  <2> QED  BY <1>6, <2>1, <2>2
<1> QED  BY <1>4, <1>5, <1>6

-----------------------------------------------------------------------------
(* The inductive invariant *)

Told == {"nothing", "ALLOW", "BLOCK", "FAILED", "UNKNOWN", "completed", "failed"}

Refused == {"BLOCK", "DEFER", "REVIEW"}

TraceRecord ==
    [event_id : EventId, session_id : SessionId,
     p4_verdict : {"ALLOW", "BLOCKED_BY_PREFLIGHT"} \cup Refused,
     execution_status : {"SUCCESS", "FAILED", ""}]

MemoryTyped ==
    /\ pending \in Seq(EventId) /\ Len(pending) <= MaxPending
    /\ traces \in Seq(TraceRecord) /\ Len(traces) <= MaxActive
    /\ answers \in [EventId -> Told]

Processing(e) == events[e].status = "processing" /\ held # e

\* What a trace tells of its event stays true: the row is completed, or it
\* has a retry, or nobody will ever take it again.
TraceTrue(t) ==
    /\ t.p4_verdict = "ALLOW" =>
           t.execution_status # "" /\ events[t.event_id].status = "completed"
    /\ t.p4_verdict \in Refused =>
           t.execution_status = "FAILED" /\ events[t.event_id].retry_count > 0
    /\ t.p4_verdict = "BLOCKED_BY_PREFLIGHT" =>
           t.execution_status = "" /\ Processing(t.event_id)

\* So does what is answered from it.
AnswerTrue(e, told) ==
    /\ told = "ALLOW" => events[e].status = "completed"
    /\ told = "BLOCK" => events[e].retry_count > 0
    /\ told \in {"FAILED", "completed"} =>
           events[e].status = "completed" \/ events[e].retry_count > 0
    /\ told \in {"UNKNOWN", "failed"} => Processing(e)

TracesTrue == \A i \in 1..Len(traces) : TraceTrue(traces[i])
AnswersKept == \A e \in EventId : AnswerTrue(e, answers[e])
ReceiptsHaveRows == \A i \in 1..Len(pending) : events[pending[i]].status # "absent"

GInv ==
    /\ IInv
    /\ MemoryTyped
    /\ TracesTrue
    /\ AnswersKept
    /\ ReceiptsHaveRows
    /\ ResultUntilEvicted

LEMMA InitGInv == GInit => GInv
<1> SUFFICES ASSUME GInit PROVE GInv
  OBVIOUS
<1>1. IInv
  BY InitIInv DEF GInit
<1>2. pending = <<>> /\ traces = <<>> /\ answers = [e \in EventId |-> "nothing"]
  BY DEF GInit
<1>3. MemoryTyped
  BY <1>2, PendingAssumption, ActiveAssumption, EmptySeq DEF MemoryTyped, Told
<1>4. TracesTrue /\ ReceiptsHaveRows /\ ResultUntilEvicted
  BY <1>2 DEF TracesTrue, ReceiptsHaveRows, ResultUntilEvicted, Contains
<1>5. AnswersKept
  BY <1>2 DEF AnswersKept, AnswerTrue
<1> QED  BY <1>1, <1>3, <1>4, <1>5 DEF GInv

-----------------------------------------------------------------------------
(* Traces and answers *)

\* A step of the queue, or none at all, keeps traces, answers and receipts
\* true: the rows they speak of change only as RowStep says.
LEMMA TraceStays ==
    ASSUME IInv, [Next]_vars, NEW t \in TraceRecord, TraceTrue(t)
    PROVE  TraceTrue(t)'
<1>1. t.event_id \in EventId
  BY DEF TraceRecord
<1>2. CASE UNCHANGED vars
  BY <1>2 DEF TraceTrue, Processing, vars
<1>3. CASE Next
  BY <1>1, <1>3, RowStep DEF TraceTrue, Processing
<1> QED  BY <1>2, <1>3

LEMMA AnswerStays ==
    ASSUME IInv, [Next]_vars, NEW e \in EventId, NEW told, AnswerTrue(e, told)
    PROVE  AnswerTrue(e, told)'
<1>1. CASE UNCHANGED vars
  BY <1>1 DEF AnswerTrue, Processing, vars
<1>2. CASE Next
  BY <1>2, RowStep DEF AnswerTrue, Processing
<1> QED  BY <1>1, <1>2

LEMMA ReceiptsStay ==
    ASSUME GInv, [Next]_vars
    PROVE  \A i \in 1..Len(pending) : events'[pending[i]].status # "absent"
<1> SUFFICES ASSUME NEW i \in 1..Len(pending)
             PROVE  events'[pending[i]].status # "absent"
  OBVIOUS
<1>1. pending[i] \in EventId /\ events[pending[i]].status # "absent"
  BY ElementOfSeq DEF GInv, MemoryTyped, ReceiptsHaveRows
<1>2. CASE UNCHANGED vars
  BY <1>1, <1>2 DEF vars
<1>3. CASE Next
  BY <1>1, <1>3, RowStep DEF GInv
<1> QED  BY <1>2, <1>3

\* _find_trace answers with a trace of the event, and truly.
LEMMA FoundTrace ==
    ASSUME GInv, NEW e \in EventId, Found(e)
    PROVE  /\ FindTrace(e) \in {"ALLOW", "BLOCK", "FAILED", "UNKNOWN"}
           /\ AnswerTrue(e, FindTrace(e))
           /\ AnswerTrue(e, IF FindTrace(e) # "UNKNOWN" THEN "completed" ELSE "failed")
<1> DEFINE t == traces[Min(TracesOf(e))]
<1>1. TracesOf(e) \subseteq Nat /\ TracesOf(e) # {}
  BY LenProperties DEF TracesOf, Found, GInv, MemoryTyped
<1>2. Min(TracesOf(e)) \in TracesOf(e)
  BY <1>1, LeastNat DEF Min
<1>3. Min(TracesOf(e)) \in 1..Len(traces) /\ t.event_id = e
  BY <1>2, LenProperties DEF TracesOf, GInv, MemoryTyped
<1>4. t \in TraceRecord /\ TraceTrue(t)
  BY <1>3, ElementOfSeq DEF GInv, MemoryTyped, TracesTrue
<1>5. FindTrace(e) = PublicOf(t)
  BY DEF FindTrace
<1> HIDE DEF t
<1>6. /\ PublicOf(t) \in {"ALLOW", "BLOCK", "FAILED", "UNKNOWN"}
      /\ PublicOf(t) = "ALLOW" => t.p4_verdict = "ALLOW"
      /\ PublicOf(t) = "BLOCK" => t.p4_verdict = "BLOCK"
      /\ PublicOf(t) = "FAILED" => t.p4_verdict \in {"ALLOW"} \cup Refused
      /\ PublicOf(t) = "UNKNOWN" => t.p4_verdict = "BLOCKED_BY_PREFLIGHT"
  BY <1>4 DEF PublicOf, TraceTrue, TraceRecord, Refused
<1> QED  BY <1>3, <1>4, <1>5, <1>6 DEF TraceTrue, AnswerTrue, Refused

\* An answer is given only with a trace at hand, and takes the receipt.
LEMMA AnswerGInv ==
    ASSUME GInv, NEW e \in EventId, NEW told \in Told, AnswerTrue(e, told),
           Answer(e, told)
    PROVE  GInv'
<1>1. UNCHANGED vars /\ UNCHANGED traces
  BY DEF Answer
<1>2. IInv'
  BY <1>1, StutterIInv DEF GInv
<1>3. PICK i \in 1..Len(pending) : pending' = RemoveAt(pending, i)
  BY LenProperties DEF Answer, GInv, MemoryTyped
<1>4. /\ pending' \in Seq(EventId) /\ Len(pending') = Len(pending) - 1
      /\ \A j \in 1..Len(pending') : \E k \in 1..Len(pending) : pending'[j] = pending[k]
  <2>1. pending \in Seq(EventId)
    BY DEF GInv, MemoryTyped
  <2>2. i \in 1..Len(pending) /\ pending' \in {RemoveAt(pending, i)}
    BY <1>3
  <2> QED  BY <2>1, <2>2, RemovePlace
<1>5. answers' = [answers EXCEPT ![e] = told]
  BY DEF Answer
<1>6. MemoryTyped'
  <2>1. answers' \in [EventId -> Told]
    BY <1>5 DEF GInv, MemoryTyped
  <2>2. Len(pending') <= MaxPending
    BY <1>4, LenProperties, PendingAssumption DEF GInv, MemoryTyped
  <2> QED  BY <1>1, <1>4, <2>1, <2>2 DEF GInv, MemoryTyped
<1>7. AnswersKept'
  <2> SUFFICES ASSUME NEW f \in EventId PROVE AnswerTrue(f, answers[f])'
    BY DEF AnswersKept
  <2>1. AnswerTrue(f, answers'[f])
    BY <1>5 DEF GInv, MemoryTyped, AnswersKept
  <2> QED  BY <2>1, <1>1 DEF AnswerTrue, Processing, vars
<1>8. TracesTrue'
  BY <1>1 DEF GInv, TracesTrue, TraceTrue, Processing, vars
<1>9. ReceiptsHaveRows'
  BY <1>1, <1>4 DEF GInv, ReceiptsHaveRows, vars
<1>10. ResultUntilEvicted'
  <2> SUFFICES ASSUME NEW f \in EventId, Contains(pending', f),
                      events[f].status = "completed"
               PROVE  (Found(f) \/ Len(traces) = MaxActive)'
    BY <1>1 DEF ResultUntilEvicted, vars
  <2>1. Contains(pending, f)
    BY <1>4 DEF Contains
  <2>2. Found(f) \/ Len(traces) = MaxActive
    BY <2>1 DEF GInv, ResultUntilEvicted
  <2> QED  BY <2>2, <1>1 DEF Found, TracesOf
<1> QED  BY <1>2, <1>6, <1>7, <1>8, <1>9, <1>10 DEF GInv

-----------------------------------------------------------------------------
(* Steps of the consumer *)

NewlyCompleted(f) == events[f].status # "completed" /\ events'[f].status = "completed"

\* A step of the queue that writes no trace completes no row.
LEMMA QuietGInv ==
    ASSUME GInv, [Next]_vars, UNCHANGED <<pending, traces, answers>>,
           \A f \in EventId : ~NewlyCompleted(f)
    PROVE  GInv'
<1>1. IInv'
  BY NextIInv DEF GInv
<1>2. MemoryTyped'
  BY DEF GInv, MemoryTyped
<1>3. TracesTrue'
  <2> SUFFICES ASSUME NEW i \in 1..Len(traces) PROVE TraceTrue(traces[i])'
    BY DEF TracesTrue
  <2>1. traces[i] \in TraceRecord /\ TraceTrue(traces[i])
    BY ElementOfSeq DEF GInv, MemoryTyped, TracesTrue
  <2>2. traces'[i] = traces[i]
    OBVIOUS
  <2> QED  BY <2>1, <2>2, TraceStays DEF GInv, TraceTrue, Processing
<1>4. AnswersKept'
  BY AnswerStays DEF GInv, AnswersKept, AnswerTrue, Processing
<1>5. ReceiptsHaveRows'
  BY ReceiptsStay DEF ReceiptsHaveRows
<1>6. ResultUntilEvicted'
  BY DEF GInv, ResultUntilEvicted, NewlyCompleted, Found, TracesOf
<1> QED  BY <1>1, <1>2, <1>3, <1>4, <1>5, <1>6 DEF GInv

\* A settled event gets its trace in the step that settles it.
LEMMA AppendGInv ==
    ASSUME GInv, Next, UNCHANGED <<pending, answers>>,
           NEW t \in TraceRecord, AppendTrace(t), TraceTrue(t)',
           \A f \in EventId : NewlyCompleted(f) => f = t.event_id
    PROVE  GInv'
<1> DEFINE n == Len(traces)
<1>1. IInv'
  BY NextIInv DEF GInv
<1>2. traces \in Seq(TraceRecord) /\ n <= MaxActive /\ n \in Nat
  BY LenProperties DEF GInv, MemoryTyped
<1>3. traces' = IF Len(Append(traces, t)) > MaxActive THEN Tail(Append(traces, t))
                                                      ELSE Append(traces, t)
  BY DEF AppendTrace
<1>4. /\ traces' \in Seq(TraceRecord)
      /\ Len(traces') \in 1..MaxActive
      /\ traces'[Len(traces')] = t
      /\ n < MaxActive => /\ Len(traces') = n + 1
                          /\ \A i \in 1..n : traces'[i] = traces[i]
      /\ n = MaxActive => /\ Len(traces') = MaxActive
                          /\ \A i \in 1..(MaxActive - 1) : traces'[i] = traces[i + 1]
  BY <1>2, <1>3, BoundedAppend, ActiveAssumption
<1>5. MemoryTyped'
  BY <1>4, ActiveAssumption DEF GInv, MemoryTyped
<1>6. \A i \in 1..Len(traces') :
          traces'[i] = t \/ \E j \in 1..n : traces'[i] = traces[j]
  <2>1. CASE n < MaxActive
    BY <2>1, <1>2, <1>4
  <2>2. CASE n = MaxActive
    <3> SUFFICES ASSUME NEW i \in 1..Len(traces'), i # MaxActive
                 PROVE  \E j \in 1..n : traces'[i] = traces[j]
      BY <2>2, <1>4
    <3>1. i + 1 \in 1..n /\ traces'[i] = traces[i + 1]
      BY <2>2, <1>2, <1>4, ActiveAssumption
    <3> QED  BY <3>1
  <2> QED  BY <1>2, <2>1, <2>2, ActiveAssumption
<1>7. TracesTrue'
  <2> SUFFICES ASSUME NEW i \in 1..Len(traces') PROVE TraceTrue(traces[i])'
    BY DEF TracesTrue
  <2>1. CASE traces'[i] = t
    BY <2>1 DEF TraceTrue, Processing
  <2>2. ASSUME NEW j \in 1..n, traces'[i] = traces[j]
        PROVE  TraceTrue(traces[i])'
    <3>1. traces[j] \in TraceRecord /\ TraceTrue(traces[j])
      BY ElementOfSeq DEF GInv, MemoryTyped, TracesTrue
    <3> DEFINE u == traces[j]
    <3>2. TraceTrue(u) /\ u \in TraceRecord /\ traces'[i] = u
      BY <3>1, <2>2
    <3> HIDE DEF u
    <3> QED  BY <3>2, TraceStays DEF GInv, TraceTrue, Processing
  <2> QED  BY <1>6, <2>1, <2>2
<1>8. AnswersKept'
  BY AnswerStays DEF GInv, AnswersKept, AnswerTrue, Processing
<1>9. ReceiptsHaveRows'
  BY ReceiptsStay DEF ReceiptsHaveRows
<1>10. ASSUME NEW f \in EventId, Contains(pending, f),
              events'[f].status = "completed", n < MaxActive
       PROVE  \E i \in 1..Len(traces') : traces'[i].event_id = f
  <2>1. CASE f = t.event_id
    BY <2>1, <1>4
  <2>2. CASE f # t.event_id
    <3>1. events[f].status = "completed"
      BY <1>10, <2>2 DEF NewlyCompleted
    <3>2. Found(f)
      BY <1>10, <3>1 DEF GInv, ResultUntilEvicted
    <3>3. PICK i \in 1..n : traces[i].event_id = f
      BY <3>2, <1>2, LenProperties DEF Found, TracesOf
    <3> QED  BY <1>10, <3>3, <1>2, <1>4
  <2> QED  BY <2>1, <2>2
<1>11. ResultUntilEvicted'
  <2> SUFFICES ASSUME NEW f \in EventId, Contains(pending, f),
                      events'[f].status = "completed"
               PROVE  Found(f)' \/ Len(traces') = MaxActive
    BY DEF ResultUntilEvicted
  <2>1. CASE n = MaxActive
    BY <2>1, <1>4
  <2>2. CASE n < MaxActive
    <3>1. DOMAIN traces' = 1..Len(traces')
      BY <1>4, LenProperties
    <3> QED  BY <2>2, <1>10, <3>1 DEF Found, TracesOf
  <2> QED  BY <2>1, <2>2, <1>2, ActiveAssumption
<1> QED  BY <1>1, <1>5, <1>7, <1>8, <1>9, <1>11 DEF GInv

-----------------------------------------------------------------------------
(* Submission, and the steps together *)

\* A receipt comes in behind the others, of which the oldest may go.
LEMMA SubmittedReceipts ==
    ASSUME GInv, NEW e \in EventId, SubmitEvent(e)
    PROVE  /\ pending' \in Seq(EventId) /\ Len(pending') \in 1..MaxPending
           /\ pending'[Len(pending')] = e
           /\ \A i \in 1..Len(pending') :
                  pending'[i] = e \/ \E j \in 1..Len(pending) : pending'[i] = pending[j]
           /\ Len(pending) < MaxPending =>
                  \A i \in 1..Len(pending) : i \in 1..Len(pending') /\ pending'[i] = pending[i]
           /\ \A i \in 2..Len(pending) : \E j \in 1..Len(pending') : pending'[j] = pending[i]
<1> DEFINE n == Len(pending)
<1>1. pending \in Seq(EventId) /\ n <= MaxPending /\ n \in Nat
  BY LenProperties DEF GInv, MemoryTyped
<1>2. pending' = IF Len(Append(pending, e)) > MaxPending THEN Tail(Append(pending, e))
                                                         ELSE Append(pending, e)
  BY DEF SubmitEvent, Trim
<1>3. /\ pending' \in Seq(EventId)
      /\ Len(pending') \in 1..MaxPending
      /\ pending'[Len(pending')] = e
      /\ n < MaxPending => /\ Len(pending') = n + 1
                           /\ \A i \in 1..n : pending'[i] = pending[i]
      /\ n = MaxPending => /\ Len(pending') = MaxPending
                           /\ \A i \in 1..(MaxPending - 1) : pending'[i] = pending[i + 1]
  BY <1>1, <1>2, BoundedAppend, PendingAssumption
<1>4. CASE n < MaxPending
  BY <1>1, <1>3, <1>4
<1>5. CASE n = MaxPending
  <2>1. ASSUME NEW i \in 1..Len(pending'), i # MaxPending
        PROVE  \E j \in 1..n : pending'[i] = pending[j]
    <3>1. i + 1 \in 1..n /\ pending'[i] = pending[i + 1]
      BY <2>1, <1>1, <1>3, <1>5, PendingAssumption
    <3> QED  BY <3>1
  <2>2. ASSUME NEW i \in 2..n
        PROVE  \E j \in 1..Len(pending') : pending'[j] = pending[i]
    <3>1. i - 1 \in 1..(MaxPending - 1) /\ pending'[i - 1] = pending[(i - 1) + 1]
      BY <2>2, <1>1, <1>3, <1>5, PendingAssumption
    <3> QED  BY <3>1, <1>3, <1>5, PendingAssumption
  <2> QED  BY <2>1, <2>2, <1>3, <1>5
<1> QED  BY <1>1, <1>4, <1>5, PendingAssumption

LEMMA SubmitGInv == ASSUME GInv, NEW e \in EventId, SubmitEvent(e) PROVE GInv'
<1>1. /\ Next /\ UNCHANGED <<traces, answers>>
      /\ events[e] = NoRow /\ events' = [events EXCEPT ![e] = PushedRow]
  BY DEF SubmitEvent, Push, Next
<1>2. IInv'
  BY <1>1, NextIInv DEF GInv
<1>3. events \in [EventId -> Row]
  BY DEF GInv, IInv, TypeOK
<1>4. /\ events'[e].status = "pending" /\ events[e].status = "absent"
      /\ \A f \in EventId \ {e} : events'[f] = events[f]
  BY <1>1, <1>3 DEF PushedRow, NoRow
<1>5. MemoryTyped'
  BY <1>1, SubmittedReceipts, PendingAssumption DEF GInv, MemoryTyped
<1>6. TracesTrue'
  <2> SUFFICES ASSUME NEW i \in 1..Len(traces) PROVE TraceTrue(traces[i])'
    BY <1>1 DEF TracesTrue
  <2>1. traces[i] \in TraceRecord /\ TraceTrue(traces[i])
    BY ElementOfSeq DEF GInv, MemoryTyped, TracesTrue
  <2> QED  BY <2>1, <1>1, TraceStays DEF GInv, TraceTrue, Processing
<1>7. AnswersKept'
  BY <1>1, AnswerStays DEF GInv, AnswersKept, AnswerTrue, Processing
<1>8. ReceiptsHaveRows'
  <2> SUFFICES ASSUME NEW i \in 1..Len(pending') PROVE events'[pending'[i]].status # "absent"
    BY DEF ReceiptsHaveRows
  <2> QED  BY <1>1, <1>4, SubmittedReceipts, ReceiptsStay
<1>9. ResultUntilEvicted'
  <2> SUFFICES ASSUME NEW f \in EventId, Contains(pending', f),
                      events'[f].status = "completed"
               PROVE  Found(f) \/ Len(traces) = MaxActive
    BY <1>1 DEF ResultUntilEvicted, Found, TracesOf
  <2>1. f # e /\ events[f].status = "completed"
    BY <1>4
  <2>2. Contains(pending, f)
    BY <2>1, SubmittedReceipts DEF Contains
  <2> QED  BY <2>1, <2>2 DEF GInv, ResultUntilEvicted
<1> QED  BY <1>2, <1>5, <1>6, <1>7, <1>8, <1>9 DEF GInv

\* Whatever the gateway and the consumer do to the queue, the queue's
\* specification allows.
LEMMA GatewayStep == [GNext]_gvars => [Next]_vars
<1> SUFFICES ASSUME GNext PROVE [Next]_vars
  BY DEF gvars, vars
<1>1. CASE OpenQueue \/ CloseQueue \/ GProcessCrash \/ Rejected \/ Raised
  BY <1>1 DEF OpenQueue, CloseQueue, GProcessCrash, Rejected, Raised, Next
<1>2. ASSUME NEW e \in EventId, GetStatus(e) \/ GetResult(e) PROVE UNCHANGED vars
  BY <1>2 DEF GetStatus, GetResult, Answer
<1>3. ASSUME NEW e \in EventId,
             \/ SubmitEvent(e) \/ GTakeEvent(e) \/ Executed(e) \/ Blocked(e)
             \/ \E n \in EventId : GReplay(e, n)
      PROVE  Next
  BY <1>3 DEF SubmitEvent, GTakeEvent, Executed, Blocked, GReplay, Next
<1> QED  BY <1>1, <1>2, <1>3 DEF GNext

LEMMA NextGInv == GInv /\ [GNext]_gvars => GInv'
<1> SUFFICES ASSUME GInv, [GNext]_gvars PROVE GInv'
  OBVIOUS
<1>1. [Next]_vars
  BY GatewayStep
<1>2. events \in [EventId -> Row]
  BY DEF GInv, IInv, TypeOK
<1>3. CASE OpenQueue \/ CloseQueue \/ Raised
  <2>1. events' = events /\ UNCHANGED <<pending, traces, answers>>
    BY <1>3 DEF OpenQueue, CloseQueue, Raised, Open, OpenRaises, Close, Drop, tables
  <2> QED  BY <2>1, <1>1, QuietGInv DEF NewlyCompleted
<1>4. CASE GProcessCrash
  <2>1. /\ pending' = <<>> /\ traces' = <<>> /\ answers' = answers
    BY <1>4 DEF GProcessCrash
  <2>2. IInv'
    BY <1>1, NextIInv DEF GInv
  <2>3. MemoryTyped'
    BY <2>1, EmptySeq, PendingAssumption, ActiveAssumption DEF GInv, MemoryTyped
  <2>4. TracesTrue' /\ ReceiptsHaveRows' /\ ResultUntilEvicted'
    BY <2>1 DEF TracesTrue, ReceiptsHaveRows, ResultUntilEvicted, Contains
  <2>5. AnswersKept'
    BY <2>1, <1>1, AnswerStays DEF GInv, AnswersKept, AnswerTrue, Processing
  <2> QED  BY <2>2, <2>3, <2>4, <2>5 DEF GInv
<1>5. CASE Rejected
  <2>1. Drop /\ UNCHANGED <<pending, answers>> /\ Next
    BY <1>5 DEF Rejected, Next
  <2>2. PICK e \in EventId : held = e /\ Processing(e)'
    BY <2>1, EventIdAssumption
    DEF Drop, GInv, IInv, TypeOK, HeldIsProcessing, Processing, tables
  <2> DEFINE t == Trace(e, "BLOCKED_BY_PREFLIGHT", "")
  <2>3. /\ t \in TraceRecord
        /\ t.event_id = e /\ t.p4_verdict = "BLOCKED_BY_PREFLIGHT"
        /\ t.execution_status = ""
    BY SessionAssumption DEF Trace, TraceRecord, Refused
  <2>4. events' = events /\ AppendTrace(t)
    BY <1>5, <2>2 DEF Rejected, Drop, tables
  <2> HIDE DEF t
  <2>5. TraceTrue(t)'
    BY <2>2, <2>3 DEF TraceTrue, Refused, Processing
  <2> QED  BY <2>1, <2>3, <2>4, <2>5, AppendGInv DEF NewlyCompleted
<1>6. ASSUME NEW e \in EventId, SubmitEvent(e) PROVE GInv'
  BY <1>6, SubmitGInv
<1>7. ASSUME NEW e \in EventId, GetStatus(e) \/ GetResult(e) PROVE GInv'
  BY <1>7, FoundTrace, AnswerGInv DEF GetStatus, GetResult, Told
<1>8. ASSUME NEW e \in EventId, GTakeEvent(e) PROVE GInv'
  <2>1. events'[e].status = "processing" /\ \A f \in EventId \ {e} : events'[f] = events[f]
    BY <1>8, <1>2 DEF GTakeEvent, Pop
  <2> QED  BY <2>1, <1>1, <1>8, QuietGInv DEF GTakeEvent, NewlyCompleted
<1>9. ASSUME NEW e \in EventId, NEW n \in EventId, GReplay(e, n) PROVE GInv'
  <2>1. events'[n].status = "pending" /\ \A f \in EventId \ {n} : events'[f] = events[f]
    BY <1>9, <1>2 DEF GReplay, ReplayDeadLetter, PushedRow
  <2> QED  BY <2>1, <1>1, <1>9, QuietGInv DEF GReplay, NewlyCompleted
<1>10. ASSUME NEW e \in EventId, Executed(e) PROVE GInv'
  <2>1. PICK status \in {"SUCCESS", "FAILED"} : AppendTrace(Trace(e, "ALLOW", status))
    BY <1>10 DEF Executed
  <2> DEFINE t == Trace(e, "ALLOW", status)
  <2>2. /\ t \in TraceRecord /\ t.event_id = e /\ t.p4_verdict = "ALLOW"
        /\ t.execution_status # ""
    BY SessionAssumption DEF Trace, TraceRecord, Refused
  <2>3. /\ events'[e].status = "completed"
        /\ \A f \in EventId \ {e} : events'[f] = events[f]
    BY <1>10, <1>2 DEF Executed, Ack
  <2>4. Next /\ UNCHANGED <<pending, answers>>
    BY <1>10 DEF Executed, Next
  <2>5. TraceTrue(t)'
    BY <2>2, <2>3 DEF TraceTrue, Refused, Trace
  <2> QED  BY <2>1, <2>2, <2>3, <2>4, <2>5, AppendGInv DEF NewlyCompleted
<1>11. ASSUME NEW e \in EventId, Blocked(e) PROVE GInv'
  <2>1. PICK verdict \in Refused : AppendTrace(Trace(e, verdict, "FAILED"))
    BY <1>11 DEF Blocked, Refused
  <2> DEFINE t == Trace(e, verdict, "FAILED")
  <2>2. /\ t \in TraceRecord /\ t.event_id = e /\ t.p4_verdict \in Refused
        /\ t.execution_status = "FAILED"
    BY SessionAssumption DEF Trace, TraceRecord, Refused
  <2>3. /\ events'[e].status \in {"pending", "dead"}
        /\ events'[e].retry_count > 0
        /\ \A f \in EventId \ {e} : events'[f] = events[f]
    BY <1>11, <1>2 DEF Blocked, Nack, Requeue, GiveUp, Retries, Row
  <2>4. Next /\ UNCHANGED <<pending, answers>>
    BY <1>11 DEF Blocked, Next
  <2>5. TraceTrue(t)'
    BY <2>2, <2>3 DEF TraceTrue, Refused, Trace
  <2> QED  BY <2>1, <2>2, <2>3, <2>4, <2>5, AppendGInv DEF NewlyCompleted
<1>12. CASE UNCHANGED gvars
  BY <1>1, <1>12, QuietGInv DEF gvars, vars, NewlyCompleted
<1> QED
  BY <1>3, <1>4, <1>5, <1>6, <1>7, <1>8, <1>9, <1>10, <1>11, <1>12 DEF GNext

-----------------------------------------------------------------------------
(* The theorems *)

\* What GInv says of receipts, traces and rows holds in every reachable state, on
\* top of the queue's own invariant.
THEOREM GatewayInvariance == GSpec => []GInv
  BY InitGInv, NextGInv, PTL DEF GSpec

\* An answer, once given, stays the truth about the client's own event.
THEOREM AnswersCorrect == GSpec => []AnswersTrue
<1>1. GInv => AnswersTrue
  <2> SUFFICES ASSUME AnswersKept PROVE AnswersTrue
    BY DEF GInv
  <2> QED  BY DEF AnswersKept, AnswerTrue, Processing, AnswersTrue
<1> QED  BY <1>1, GatewayInvariance, PTL

\* A completed event whose receipt is held has its result in the window, until
\* the window is full.
THEOREM ResultsStay == GSpec => []ResultUntilEvicted
<1>1. GInv => ResultUntilEvicted
  BY DEF GInv
<1> QED  BY <1>1, GatewayInvariance, PTL

\* A receipt leaves the map with an answer, as the oldest of MAX_PENDING, or
\* with the process.
THEOREM ReceiptsLeaveAnswered == GSpec => ReceiptsKept
<1>1. ASSUME GInv, GNext, NEW e \in EventId,
             Contains(pending, e), ~Contains(pending', e), ~GProcessCrash
      PROVE  \/ answers'[e] # "nothing"
             \/ /\ Head(pending) = e /\ Len(pending) = MaxPending
                /\ pending' # <<>> /\ ~Contains(pending, Last(pending'))
  <2>1. pending' # pending
    BY <1>1 DEF Contains
  <2>2. CASE \E n \in EventId : GetStatus(n) \/ GetResult(n)
    <3>1. PICK n \in EventId : GetStatus(n) \/ GetResult(n)
      BY <2>2
    <3>2. PICK told \in Told \ {"nothing"} : Answer(n, told)
      BY <3>1, <1>1, FoundTrace DEF GetStatus, GetResult, Told
    <3>3. answers'[n] # "nothing"
      BY <3>2, <1>1 DEF Answer, GInv, MemoryTyped
    <3>4. PICK i \in 1..Len(pending) : pending[i] = n /\ pending' = RemoveAt(pending, i)
      BY <3>2, <1>1, LenProperties DEF Answer, GInv, MemoryTyped
    <3>5. pending \in Seq(EventId) /\ pending' \in {RemoveAt(pending, i)}
      BY <3>4, <1>1 DEF GInv, MemoryTyped
    <3>6. \A k \in 1..Len(pending) : k # i => \E j \in 1..Len(pending') : pending'[j] = pending[k]
      BY <3>5, RemovePlace
    <3>7. e = n
      BY <3>4, <3>6, <1>1 DEF Contains
    <3> QED  BY <3>3, <3>7
  <2>3. CASE \E n \in EventId : SubmitEvent(n)
    <3>1. PICK n \in EventId : SubmitEvent(n)
      BY <2>3
    <3>2. PICK k \in 1..Len(pending) : pending[k] = e
      BY <1>1 DEF Contains
    <3>3. Len(pending) \in Nat /\ Len(pending) <= MaxPending /\ pending \in Seq(EventId)
      BY <1>1, LenProperties DEF GInv, MemoryTyped
    <3>4. k = 1 /\ Len(pending) = MaxPending
      BY <3>1, <3>2, <3>3, <1>1, SubmittedReceipts, PendingAssumption DEF Contains
    <3>5. Head(pending) = e
      BY <3>2, <3>3, <3>4, PendingAssumption
    <3>6. pending' # <<>> /\ Last(pending') = n
      BY <3>1, <1>1, SubmittedReceipts, EmptySeq DEF Last
    <3>7. events[n].status = "absent"
      BY <3>1 DEF SubmitEvent, Push, NoRow
    <3>8. ~Contains(pending, n)
      BY <3>7, <1>1 DEF Contains, GInv, ReceiptsHaveRows
    <3> QED  BY <3>4, <3>5, <3>6, <3>8
  <2> QED  BY <1>1, <2>1, <2>2, <2>3 DEF GNext, OpenQueue, CloseQueue, Rejected, Raised,
              GTakeEvent, Executed, Blocked, GReplay
<1>2. GInv /\ [GNext]_gvars => [\A e \in EventId : ReceiptKept(e)]_gvars
  BY <1>1 DEF ReceiptKept
<1> QED  BY <1>2, GatewayInvariance, PTL DEF GSpec, ReceiptsKept

=============================================================================
