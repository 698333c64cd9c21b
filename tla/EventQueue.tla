----------------------------- MODULE EventQueue -----------------------------
(***************************************************************************)
(* substrate/event_queue.py: the SQLite-backed event queue every runtime   *)
(* loop of the system pops from.  The tables events, dead_letter and       *)
(* results survive a crash of the process; stats, the connection and the   *)
(* event a consumer has popped (the local variable `event' of the loop     *)
(* that called pop) are memory.                                            *)
(*                                                                         *)
(* One process and one consumer use the database (boot/first_boot.py).     *)
(* Every method runs without an await, so its steps interleave with        *)
(* nothing; it can only be cut short by a crash of the process, between    *)
(* two of its commits, or by an error: while the database is opened, or    *)
(* before its first write (a payload or output that is not JSON, a read),  *)
(* which changes nothing here.  Errors of the writes themselves are left   *)
(* out.  So are payloads, error texts and times: of created_at in          *)
(* dead_letter only the order of the rows matters.                         *)
(***************************************************************************)
EXTENDS Integers, FiniteSets, FiniteSetsExt

CONSTANTS
    EventId,        \* the identifiers (uuid4) events may be pushed under
    NoEvent,        \* the value None of the consumer's local variable
    MaxRetries,     \* EventQueue(max_retries), 3 by default
    MaxDeadLetter   \* EventQueue.MAX_DEAD_LETTER, 1000

ASSUME EventIdAssumption == NoEvent \notin EventId /\ IsFiniteSet(EventId)
ASSUME RetriesAssumption == MaxRetries \in Nat \ {0}
ASSUME DeadLetterAssumption == MaxDeadLetter \in Nat \ {0}

VARIABLES
    events,         \* table events: one row for every identifier
    dead_letter,    \* table dead_letter: 0 = no row, else rank by created_at
    results,        \* table results: the events with a row
    stats,          \* QueueStats, in memory
    conn,           \* self._conn: "none", "open", or "raised" when the open
                    \* that set it raised afterwards
    held            \* the event the consumer popped and has not settled yet

tables == <<events, dead_letter, results>>
vars == <<events, dead_letter, results, stats, conn, held>>

Status == {"absent", "pending", "processing", "completed", "dead"}

Row == [status : Status, retry_count : Nat, sequence_no : Nat]

NoRow == [status |-> "absent", retry_count |-> 0, sequence_no |-> 0]

QueueStats == [total_events : Nat, processed : Nat, failed : Nat,
               dead_lettered : Nat, queue_depth : Nat]

InitStats == [total_events |-> 0, processed |-> 0, failed |-> 0,
              dead_lettered |-> 0, queue_depth |-> 0]

WithStatus(s) == {e \in EventId : events[e].status = s}

DeadLetters == {e \in EventId : dead_letter[e] # 0}

-----------------------------------------------------------------------------
(* Lifecycle of the connection *)

\* count_by_status and the COUNT over dead_letter.  The running total of
\* pushes is not recomputed, and `failed' takes the number of pending rows.
RefreshStats(st) ==
    [st EXCEPT !.processed     = Cardinality(WithStatus("completed")),
               !.failed        = Cardinality(WithStatus("pending")),
               !.queue_depth   = Cardinality(WithStatus("pending")),
               !.dead_lettered = Cardinality(DeadLetters)]

\* Mutant: open forgets to recount.
OpenStale ==
    /\ conn' = "open"
    /\ UNCHANGED <<tables, stats, held>>

Open ==
    /\ conn' = "open"
    /\ stats' = RefreshStats(stats)
    /\ UNCHANGED <<tables, held>>

\* A PRAGMA, the schema or one of the two counts raises: _conn is set by then,
\* and only the dead letters may be left uncounted.  (When connect itself
\* raises nothing has changed.)
OpenRaises ==
    /\ conn' = "raised"
    /\ stats' \in {stats, [RefreshStats(stats) EXCEPT
                              !.dead_lettered = stats.dead_lettered]}
    /\ UNCHANGED <<tables, held>>

\* self._conn is not None: the methods below can be called.
Connected == conn # "none"

Close ==
    /\ Connected
    /\ conn' = "none"
    /\ UNCHANGED <<tables, stats, held>>

\* The process dies: memory is lost, committed rows stay as they are.
LoseMemory ==
    /\ conn' = "none"
    /\ stats' = InitStats
    /\ held' = NoEvent

Crash == LoseMemory /\ UNCHANGED tables

-----------------------------------------------------------------------------
(* Event lifecycle *)

\* Mutant: MAX(sequence_no) over the pending rows only.
MaxPendingSequence ==
    Max({events[e].sequence_no : e \in WithStatus("pending")} \cup {0})

\* COALESCE(MAX(sequence_no), 0); identifiers without a row carry a 0.
MaxSequence == Max({events[e].sequence_no : e \in EventId} \cup {0})

PushedRow == [status |-> "pending", retry_count |-> 0,
              sequence_no |-> MaxSequence + 1]

Push(e) ==
    /\ Connected
    /\ events[e] = NoRow
    /\ events' = [events EXCEPT ![e] = PushedRow]
    /\ stats' = [stats EXCEPT !.total_events = @ + 1]
    /\ UNCHANGED <<dead_letter, results, conn, held>>

\* Mutant: ORDER BY sequence_no DESC.
LastPending(e) ==
    /\ events[e].status = "pending"
    /\ \A f \in WithStatus("pending") :
           events[e].sequence_no >= events[f].sequence_no

\* SELECT ... WHERE status = 'pending' ORDER BY sequence_no ASC LIMIT 1
FirstPending(e) ==
    /\ events[e].status = "pending"
    /\ \A f \in WithStatus("pending") :
           events[e].sequence_no <= events[f].sequence_no

Pop(e) ==
    /\ Connected
    /\ held = NoEvent
    /\ FirstPending(e)
    /\ events' = [events EXCEPT ![e].status = "processing"]
    /\ held' = e
    /\ UNCHANGED <<dead_letter, results, stats, conn>>

Ack(e) ==
    /\ Connected
    /\ held = e
    /\ events' = [events EXCEPT ![e].status = "completed"]
    /\ results' = results \cup {e}
    /\ stats' = [stats EXCEPT !.processed = @ + 1]
    /\ held' = NoEvent
    /\ UNCHANGED <<dead_letter, conn>>

Retries(e) == events[e].retry_count + 1

\* INSERT OR IGNORE: a row that is there keeps its place, a new one is the
\* newest.
InsertDeadLetter(e) ==
    [dead_letter EXCEPT
        ![e] = IF @ = 0 THEN Max({dead_letter[f] : f \in EventId}) + 1 ELSE @]

\* How many rows of d the prune deletes, and which: those with fewer than
\* that many older rows.
Excess(d) == Cardinality({e \in EventId : d[e] # 0}) - MaxDeadLetter

Oldest(d) ==
    {e \in EventId :
        /\ d[e] # 0
        /\ Cardinality({f \in EventId : d[f] # 0 /\ d[f] < d[e]}) < Excess(d)}

Prune(d) == [e \in EventId |-> IF e \in Oldest(d) THEN 0 ELSE d[e]]

\* Mutant: one retry too many.
RequeueOnceMore(e) ==
    /\ Retries(e) <= MaxRetries
    /\ events' = [events EXCEPT ![e].status = "pending",
                               ![e].retry_count = Retries(e)]
    /\ stats' = [stats EXCEPT !.failed = @ + 1]
    /\ UNCHANGED dead_letter

\* nack below the retry limit: the row goes back to pending and keeps its
\* sequence number, so it is the next one popped.
Requeue(e) ==
    /\ Retries(e) < MaxRetries
    /\ events' = [events EXCEPT ![e].status = "pending",
                               ![e].retry_count = Retries(e)]
    /\ stats' = [stats EXCEPT !.failed = @ + 1]
    /\ UNCHANGED dead_letter

\* Mutant: the row is copied to the dead letters and stays pending.
GiveUpPending(e) ==
    /\ Retries(e) >= MaxRetries
    /\ dead_letter' = Prune(InsertDeadLetter(e))
    /\ events' = [events EXCEPT ![e].status = "pending"]
    /\ stats' = [stats EXCEPT !.dead_lettered = @ + 1]

\* nack at the retry limit: the row moves to the dead letters.
GiveUp(e) ==
    /\ Retries(e) >= MaxRetries
    /\ dead_letter' = Prune(InsertDeadLetter(e))
    /\ events' = [events EXCEPT ![e].status = "dead",
                               ![e].retry_count = Retries(e)]
    /\ stats' = [stats EXCEPT !.dead_lettered = @ + 1]

Nack(e) ==
    /\ Connected
    /\ held = e
    /\ Requeue(e) \/ GiveUp(e)
    /\ held' = NoEvent
    /\ UNCHANGED <<results, conn>>

\* _prune_dead_letter commits when it deletes, before nack marks the row
\* dead: a crash after that commit leaves the dead letter of a row that is
\* still processing.
NackInterrupted(e) ==
    /\ Connected
    /\ held = e
    /\ Retries(e) >= MaxRetries
    /\ Excess(InsertDeadLetter(e)) > 0
    /\ dead_letter' = Prune(InsertDeadLetter(e))
    /\ LoseMemory
    /\ UNCHANGED <<events, results>>

\* The consumer lets go of the event without ack or nack: the runtime loop
\* does so with an event preflight rejects and one whose cycle raises.
Drop ==
    /\ held # NoEvent
    /\ held' = NoEvent
    /\ UNCHANGED <<tables, stats, conn>>

-----------------------------------------------------------------------------
(* Replay of a dead letter, under a fresh identifier *)

ReplayDeadLetter(e, n) ==
    /\ Connected
    /\ dead_letter[e] # 0
    /\ events[n] = NoRow
    /\ events' = [events EXCEPT ![n] = PushedRow]
    /\ stats' = [stats EXCEPT !.total_events = @ + 1]
    /\ dead_letter' = [dead_letter EXCEPT ![e] = 0]
    /\ UNCHANGED <<results, conn, held>>

\* Mutant: the delete is committed first, and the crash comes before push.
ReplayDeletesFirst(e, n) ==
    /\ Connected
    /\ dead_letter[e] # 0
    /\ events[n] = NoRow
    /\ dead_letter' = [dead_letter EXCEPT ![e] = 0]
    /\ LoseMemory
    /\ UNCHANGED <<events, results>>

\* A crash after push has committed and before the delete.
ReplayInterrupted(e, n) ==
    /\ Connected
    /\ dead_letter[e] # 0
    /\ events[n] = NoRow
    /\ events' = [events EXCEPT ![n] = PushedRow]
    /\ LoseMemory
    /\ UNCHANGED <<dead_letter, results>>

-----------------------------------------------------------------------------
Init ==
    /\ events = [e \in EventId |-> NoRow]
    /\ dead_letter = [e \in EventId |-> 0]
    /\ results = {}
    /\ stats = InitStats
    /\ conn = "none"
    /\ held = NoEvent

Next ==
    \/ Open
    \/ OpenRaises
    \/ Close
    \/ Crash
    \/ Drop
    \/ \E e \in EventId :
          \/ Push(e)
          \/ Pop(e)
          \/ Ack(e)
          \/ Nack(e)
          \/ NackInterrupted(e)
          \/ \E n \in EventId : \/ ReplayDeadLetter(e, n)
                               \/ ReplayInterrupted(e, n)

Spec == Init /\ [][Next]_vars

-----------------------------------------------------------------------------
(* Properties *)

\* The tables and the memory of event_queue.py hold values of their types.
TypeOK ==
    /\ events \in [EventId -> Row]
    /\ dead_letter \in [EventId -> Nat]
    /\ results \subseteq EventId
    /\ stats \in QueueStats
    /\ conn \in {"none", "raised", "open"}
    /\ held \in EventId \cup {NoEvent}

\* Sequence numbers, which alone order the queue, are never given out twice:
\* _next_sequence counts rows in every status, also after a crash, a retry
\* or a replay.
SequenceUnique ==
    \A e, f \in EventId :
        /\ e # f
        /\ events[e].status # "absent"
        /\ events[f].status # "absent"
        => events[e].sequence_no # events[f].sequence_no

\* nack spends the retry budget exactly: a row that may still be delivered
\* has some of it left, and a row that is dead has spent all of it.
RetryBudget ==
    \A e \in EventId :
        /\ events[e].status \in {"pending", "processing"}
              => events[e].retry_count < MaxRetries
        /\ events[e].status = "dead" => events[e].retry_count = MaxRetries

\* What is in dead_letter will not be delivered again, and what is pending
\* or has a result is not in dead_letter: a replay never runs beside a retry
\* of the same event or after its success.  (After a crash inside nack the
\* row is left processing.)
DeadLetterSettled ==
    \A e \in DeadLetters :
        /\ events[e].status \in {"dead", "processing"}
        /\ e \notin results
        /\ held # e

\* MEM-BOUND-007: dead_letter never holds more than MAX_DEAD_LETTER rows.
DeadLetterBounded == Cardinality(DeadLetters) <= MaxDeadLetter

\* Once open has returned the counter stats.processed is the number of
\* completed rows, across acks, restarts, reopening and opens that raised
\* before; dead_lettered counts every row of dead_letter and the ones evicted
\* or replayed since.
StatsAgree ==
    conn = "open" =>
            /\ stats.processed = Cardinality(WithStatus("completed"))
            /\ stats.dead_lettered >= Cardinality(DeadLetters)

\* The consumer holds only an event whose row says processing: no other
\* delivery of it can start before it is settled.
HeldIsProcessing == held # NoEvent => events[held].status = "processing"

RowFinal(e) == events[e].status \in {"completed", "dead"}
                   => events'[e] = events[e]

\* completed and dead are final: no retry, crash or replay ever changes the
\* row again.
SettledIsFinal == [][\A e \in EventId : RowFinal(e)]_vars

\* A newer row comes in, or a new event is pushed, in this step.
Evicted == \E f \in EventId : dead_letter[f] = 0 /\ dead_letter'[f] # 0
CarriedOn == \E n \in EventId : events[n] = NoRow /\ events'[n].status = "pending"

LetterKept(e) == dead_letter[e] # 0 /\ dead_letter'[e] = 0
                     => Evicted \/ CarriedOn

\* A row leaves dead_letter only if a newer dead letter evicts it or a new
\* event carries its payload on; a crash in the middle of a replay may
\* replay it twice but never loses it.
DeadLetterNeverLost == [][\A e \in EventId : LetterKept(e)]_vars

\* The contract sees an event's status, its failed deliveries and its place.
StageName == [absent |-> "unknown", pending |-> "waiting",
              processing |-> "taken", completed |-> "done",
              dead |-> "given_up"]

Stages  == [e \in EventId |-> StageName[events[e].status]]
Tries   == [e \in EventId |-> events[e].retry_count]
Tickets == [e \in EventId |-> events[e].sequence_no]

Contract == INSTANCE DeliveryContract
            WITH stage <- Stages, tries <- Tries, ticket <- Tickets

\* EventQueue implements DeliveryContract: delivery in order of acceptance,
\* a bounded number of deliveries and final outcomes, whatever crashes.
KeepsContract == Contract!CSpec

=============================================================================
