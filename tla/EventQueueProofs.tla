-------------------------- MODULE EventQueueProofs --------------------------
(***************************************************************************)
(* What EventQueue guarantees for any set of events, retry limit and bound *)
(* on the dead letters.                                                    *)
(***************************************************************************)
EXTENDS EventQueue, TLAPS, FiniteSetTheorems, WellFoundedInduction

-----------------------------------------------------------------------------
(* Numbers and finite sets *)

\* A non-empty set of naturals has a least element.
LEMMA LeastNat ==
    ASSUME NEW S, S \subseteq Nat, S # {}
    PROVE  \E m \in S : \A x \in S : m <= x
<1>1. PICK m \in S : \A y \in S : ~ (<<y, m>> \in OpToRel(<, Nat))
  BY NatLessThanWellFounded, WFMin, Zenon
<1>2. ASSUME NEW y \in S PROVE m <= y
  <2>1. y \in Nat /\ m \in Nat
    OBVIOUS
  <2>2. y < m => <<y, m>> \in OpToRel(<, Nat)
    BY <2>1 DEF OpToRel
  <2>3. ~ (y < m)
    BY <2>2, <1>1, Zenon
  <2> QED  BY <2>1, <2>3
<1> QED  BY <1>2

\* A bounded, non-empty set of naturals has a maximum, and Max is it.
LEMMA MaxOfBounded ==
    ASSUME NEW S, S \subseteq Nat, S # {},
           NEW b \in Nat, \A x \in S : x <= b
    PROVE  /\ Max(S) \in S
           /\ \A x \in S : x <= Max(S)
<1> DEFINE U == {u \in Nat : \A x \in S : x <= u}
<1>1. PICK u \in U : \A v \in U : u <= v
  <2>1. U \subseteq Nat /\ b \in U
    OBVIOUS
  <2> QED  BY <2>1, LeastNat
<1>2. u \in S
  <2> SUFFICES ASSUME u \notin S PROVE FALSE
    OBVIOUS
  <2>1. \A x \in S : x < u
    BY <1>1
  <2>2. u - 1 \in Nat
    <3>1. PICK x : x \in S
      BY Zenon
    <3> QED  BY <3>1, <2>1
  <2>3. u - 1 \in U
    BY <2>1, <2>2, <1>1
  <2> QED  BY <2>3, <1>1
<1>3. \E x \in S : \A y \in S : x >= y
  BY <1>2, <1>1
<1> QED  BY <1>3 DEF Max

-----------------------------------------------------------------------------
(* The dead letters: what a prune and an insertion do *)

Rows(d) == {e \in EventId : d[e] # 0}

Bounded(d) == \E b \in Nat : \A e \in EventId : d[e] <= b

\* The sets the model counts are finite.
LEMMA FiniteRows ==
    ASSUME NEW S, S \subseteq EventId
    PROVE  IsFiniteSet(S) /\ Cardinality(S) \in Nat
BY EventIdAssumption, FS_Subset, FS_CardinalityType

\* _prune_dead_letter on a table with at most one row too many: the bound
\* holds again, nothing is deleted from a table within it, and a row with an
\* older one beside it stays.
LEMMA PruneRows ==
    ASSUME NEW d \in [EventId -> Nat],
           Cardinality(Rows(d)) <= MaxDeadLetter + 1
    PROVE  /\ Prune(d) \in [EventId -> Nat]
           /\ \A e \in EventId : Prune(d)[e] = 0 \/ Prune(d)[e] = d[e]
           /\ Cardinality(Rows(Prune(d))) <= MaxDeadLetter
           /\ Cardinality(Rows(d)) <= MaxDeadLetter => Prune(d) = d
           /\ \A e, f \in EventId : d[f] # 0 /\ d[f] < d[e]
                                       => Prune(d)[e] = d[e]
<1> DEFINE Older(e) == {f \in EventId : d[f] # 0 /\ d[f] < d[e]}
           n == Cardinality(Rows(d))
<1>1. n \in Nat /\ IsFiniteSet(Rows(d))
  BY FiniteRows DEF Rows
<1>2. \A e \in EventId : Cardinality(Older(e)) \in Nat /\ IsFiniteSet(Older(e))
  BY FiniteRows
<1>3. Excess(d) = n - MaxDeadLetter /\ Excess(d) <= 1
  BY <1>1, DeadLetterAssumption DEF Excess, Rows
<1>4. Prune(d) \in [EventId -> Nat]
  BY DEF Prune
<1>5. \A e \in EventId : Prune(d)[e] = 0 \/ Prune(d)[e] = d[e]
  BY DEF Prune
<1>6. \A e \in EventId : e \in Oldest(d) <=>
                           d[e] # 0 /\ Cardinality(Older(e)) < Excess(d)
  BY DEF Oldest
<1>7. n <= MaxDeadLetter => Prune(d) = d
  <2> SUFFICES ASSUME n <= MaxDeadLetter PROVE Prune(d) = d
    OBVIOUS
  <2>1. Excess(d) \in Int /\ Excess(d) <= 0
    BY <1>1, <1>3, DeadLetterAssumption
  <2>2. ASSUME NEW e \in EventId PROVE e \notin Oldest(d)
    <3>1. ~ (Cardinality(Older(e)) < Excess(d))
      <4> HIDE DEF Older
      <4> QED  BY <2>1, <1>2
    <3> QED  BY <3>1, <1>6
  <2> QED  BY <2>2 DEF Prune
<1>8. \A e, f \in EventId : d[f] # 0 /\ d[f] < d[e] => Prune(d)[e] = d[e]
  <2> SUFFICES ASSUME NEW e \in EventId, NEW f \in EventId,
                      d[f] # 0, d[f] < d[e]
               PROVE  Prune(d)[e] = d[e]
    OBVIOUS
  <2>1. Older(e) # {}
    OBVIOUS
  <2>2. Cardinality(Older(e)) # 0
    BY <2>1, <1>2, FS_EmptySet
  <2>3. e \notin Oldest(d)
    BY <2>2, <1>1, <1>2, <1>3, <1>6, DeadLetterAssumption
  <2> QED  BY <2>3 DEF Prune
<1>9. Cardinality(Rows(Prune(d))) <= MaxDeadLetter
  <2>1. CASE n <= MaxDeadLetter
    BY <2>1, <1>7
  <2>2. CASE n = MaxDeadLetter + 1
    <3>1. Rows(d) # {}
      BY <2>2, <1>1, FS_EmptySet, DeadLetterAssumption
    <3> DEFINE R == {d[e] : e \in Rows(d)}
    <3>2. R \subseteq Nat /\ R # {}
      BY <3>1 DEF Rows
    <3>3. PICK m \in R : \A x \in R : m <= x
      BY <3>2, LeastNat
    <3>4. PICK e \in Rows(d) : d[e] = m
      BY <3>3
    <3>5. Older(e) = {}
      <4> SUFFICES ASSUME NEW f \in EventId, d[f] # 0, d[f] < d[e] PROVE FALSE
        BY Zenon
      <4>1. d[f] \in R
        BY DEF Rows
      <4>2. m <= d[f]
        BY <3>3, <4>1
      <4>3. d[f] \in Nat /\ m \in Nat /\ d[f] < m
        BY <3>2, <3>4
      <4> HIDE DEF R
      <4> QED  BY <4>2, <4>3
    <3>6. e \in Oldest(d)
      BY <3>4, <3>5, <2>2, <1>1, <1>3, <1>6, FS_EmptySet, DeadLetterAssumption
         DEF Rows
    <3>7. Rows(Prune(d)) \subseteq Rows(d) \ {e}
      BY <3>6 DEF Prune, Rows
    <3>8. /\ IsFiniteSet(Rows(d) \ {e})
          /\ Cardinality(Rows(d) \ {e}) = MaxDeadLetter
      BY <3>4, <2>2, <1>1, FS_RemoveElement, DeadLetterAssumption
    <3> QED  BY <3>7, <3>8, FS_Subset
  <2> QED  BY <2>1, <2>2, <1>1, DeadLetterAssumption
<1> QED  BY <1>4, <1>5, <1>7, <1>8, <1>9

\* INSERT OR IGNORE of a row that is not there: it becomes the newest.
LEMMA InsertRow ==
    ASSUME NEW e \in EventId,
           dead_letter \in [EventId -> Nat], Bounded(dead_letter),
           dead_letter[e] = 0
    PROVE  LET d == InsertDeadLetter(e)
           IN  /\ d \in [EventId -> Nat]
               /\ Bounded(d)
               /\ \A f \in EventId : dead_letter[f] < d[e]
               /\ \A f \in EventId \ {e} : d[f] = dead_letter[f]
               /\ Rows(d) = DeadLetters \cup {e}
               /\ Cardinality(Rows(d)) = Cardinality(DeadLetters) + 1
<1> DEFINE R == {dead_letter[f] : f \in EventId}
           d == InsertDeadLetter(e)
<1>1. PICK b \in Nat : \A f \in EventId : dead_letter[f] <= b
  BY DEF Bounded
<1>2. R \subseteq Nat /\ R # {} /\ \A x \in R : x <= b
  BY <1>1
<1>3. Max(R) \in Nat /\ \A f \in EventId : dead_letter[f] <= Max(R)
  BY <1>2, MaxOfBounded
<1> HIDE DEF R
<1>4. d = [dead_letter EXCEPT ![e] = Max(R) + 1]
  BY DEF InsertDeadLetter, R
<1>5. d \in [EventId -> Nat]
  BY <1>3, <1>4
<1>6. \A f \in EventId : dead_letter[f] < d[e]
  BY <1>3, <1>4
<1>7. \A f \in EventId \ {e} : d[f] = dead_letter[f]
  BY <1>4
<1>8. Bounded(d)
  <2>1. \A f \in EventId : d[f] <= Max(R) + 1
    BY <1>3, <1>4
  <2> QED  BY <2>1, <1>3 DEF Bounded
<1>9. Rows(d) = DeadLetters \cup {e}
  BY <1>3, <1>4 DEF Rows, DeadLetters
<1>10. Cardinality(DeadLetters \cup {e}) = Cardinality(DeadLetters) + 1
  <2>1. e \notin DeadLetters /\ DeadLetters \subseteq EventId
    BY DEF DeadLetters
  <2> QED  BY <2>1, FiniteRows, FS_AddElement
<1> QED  BY <1>5, <1>6, <1>7, <1>8, <1>9, <1>10

\* _move_to_dlq within nack keeps the table within its bound, adds no other
\* row and does not evict the row it has just inserted.
LEMMA MoveToDlq ==
    ASSUME NEW e \in EventId,
           dead_letter \in [EventId -> Nat], Bounded(dead_letter),
           DeadLetterBounded,
           dead_letter[e] = 0,
           dead_letter' = Prune(InsertDeadLetter(e))
    PROVE  /\ dead_letter' \in [EventId -> Nat]
           /\ Bounded(dead_letter)'
           /\ DeadLetterBounded'
           /\ DeadLetters' \subseteq DeadLetters \cup {e}
           /\ Cardinality(DeadLetters') <= Cardinality(DeadLetters) + 1
           /\ dead_letter'[e] # 0
<1> DEFINE d == InsertDeadLetter(e)
<1>1. /\ d \in [EventId -> Nat]
      /\ Bounded(d)
      /\ \A f \in EventId : dead_letter[f] < d[e]
      /\ \A f \in EventId \ {e} : d[f] = dead_letter[f]
      /\ Rows(d) = DeadLetters \cup {e}
      /\ Cardinality(Rows(d)) = Cardinality(DeadLetters) + 1
  BY InsertRow
<1>2. /\ Cardinality(DeadLetters) \in Nat
      /\ IsFiniteSet(Rows(d))
      /\ DeadLetters' = Rows(Prune(d))
  BY FiniteRows DEF DeadLetters, Rows
<1> HIDE DEF d
<1>3. Cardinality(Rows(d)) <= MaxDeadLetter + 1
  BY <1>1, <1>2, DeadLetterAssumption DEF DeadLetterBounded
<1>4. /\ Prune(d) \in [EventId -> Nat]
      /\ \A f \in EventId : Prune(d)[f] = 0 \/ Prune(d)[f] = d[f]
      /\ Cardinality(Rows(Prune(d))) <= MaxDeadLetter
      /\ Cardinality(Rows(d)) <= MaxDeadLetter => Prune(d) = d
      /\ \A g, f \in EventId : d[f] # 0 /\ d[f] < d[g] => Prune(d)[g] = d[g]
  BY <1>1, <1>3, PruneRows
<1>5. dead_letter' = Prune(d)
  BY DEF d
<1>6. DeadLetterBounded'
  BY <1>2, <1>4 DEF DeadLetterBounded
<1>7. Bounded(dead_letter)'
  <2>1. PICK b \in Nat : \A f \in EventId : d[f] <= b
    BY <1>1 DEF Bounded
  <2>2. \A f \in EventId : dead_letter'[f] <= b
    BY <2>1, <1>1, <1>4, <1>5
  <2> QED  BY <2>2 DEF Bounded
<1>8. Rows(Prune(d)) \subseteq Rows(d)
  BY <1>4 DEF Rows
<1>9. dead_letter'[e] # 0
  <2>1. d[e] # 0
    BY <1>1
  <2>2. CASE DeadLetters = {}
    <3>1. Cardinality(Rows(d)) <= MaxDeadLetter
      BY <2>2, <1>1, FS_EmptySet, DeadLetterAssumption
    <3> QED  BY <3>1, <2>1, <1>4, <1>5
  <2>3. CASE DeadLetters # {}
    <3>1. PICK f \in EventId : dead_letter[f] # 0
      BY <2>3 DEF DeadLetters
    <3>2. d[f] # 0 /\ d[f] < d[e]
      BY <3>1, <1>1
    <3> QED  BY <3>2, <2>1, <1>4, <1>5
  <2> QED  BY <2>2, <2>3
<1>10. Cardinality(DeadLetters') <= Cardinality(DeadLetters) + 1
  BY <1>1, <1>2, <1>8, FS_Subset
<1> QED  BY <1>1, <1>2, <1>4, <1>5, <1>6, <1>7, <1>8, <1>9, <1>10

-----------------------------------------------------------------------------
(* The inductive invariant *)

SequencesBounded ==
    \E b \in Nat : \A e \in EventId : events[e].sequence_no <= b

\* ack writes the status and the result in one transaction.
ResultsCompleted == \A e \in results : events[e].status = "completed"

IInv ==
    /\ TypeOK
    /\ Bounded(dead_letter)
    /\ SequencesBounded
    /\ ResultsCompleted
    /\ SequenceUnique
    /\ RetryBudget
    /\ DeadLetterSettled
    /\ DeadLetterBounded
    /\ StatsAgree
    /\ HeldIsProcessing

\* MAX(sequence_no) is defined and bounds every row's sequence number.
LEMMA MaxSequenceBounds ==
    ASSUME TypeOK, SequencesBounded
    PROVE  /\ MaxSequence \in Nat
           /\ \A e \in EventId : events[e].sequence_no <= MaxSequence
<1> DEFINE S == {events[e].sequence_no : e \in EventId} \cup {0}
<1>1. PICK b \in Nat : \A e \in EventId : events[e].sequence_no <= b
  BY DEF SequencesBounded
<1>2. S \subseteq Nat /\ S # {} /\ \A x \in S : x <= b
  BY <1>1 DEF TypeOK, Row
<1>3. Max(S) \in S /\ \A x \in S : x <= Max(S)
  BY <1>2, MaxOfBounded
<1>4. MaxSequence = Max(S)
  BY DEF MaxSequence
<1>5. \A e \in EventId : events[e].sequence_no \in S
  OBVIOUS
<1> HIDE DEF S
<1> QED  BY <1>2, <1>3, <1>4, <1>5

LEMMA InitIInv == Init => IInv
<1> SUFFICES ASSUME Init PROVE IInv
  OBVIOUS
<1>1. TypeOK
  BY DEF Init, TypeOK, NoRow, Row, Status, InitStats, QueueStats
<1>2. Bounded(dead_letter) /\ SequencesBounded
  BY DEF Init, Bounded, SequencesBounded, NoRow
<1>3. DeadLetters = {}
  BY DEF Init, DeadLetters
<1>4. DeadLetterBounded
  BY <1>3, FS_EmptySet, DeadLetterAssumption DEF DeadLetterBounded
<1>5. DeadLetterSettled
  BY <1>3 DEF DeadLetterSettled
<1>6. /\ ResultsCompleted
      /\ SequenceUnique
      /\ RetryBudget
      /\ StatsAgree
      /\ HeldIsProcessing
  BY DEF Init, ResultsCompleted, SequenceUnique, RetryBudget, StatsAgree,
         HeldIsProcessing, NoRow
<1> QED  BY <1>1, <1>2, <1>4, <1>5, <1>6 DEF IInv

\* Steps that leave the tables alone: open, close, a crash, a dropped event.
LEMMA MemoryStep ==
    ASSUME IInv, UNCHANGED tables,
           stats' \in QueueStats, conn' \in {"none", "raised", "open"},
           held' = held \/ held' = NoEvent,
           StatsAgree'
    PROVE  IInv'
<1>1. TypeOK'
  BY DEF IInv, TypeOK, tables
<1>2. /\ Bounded(dead_letter)'
      /\ SequencesBounded'
      /\ ResultsCompleted'
      /\ SequenceUnique'
      /\ RetryBudget'
  BY DEF IInv, tables, Bounded, SequencesBounded, ResultsCompleted,
         SequenceUnique, RetryBudget
<1>3. DeadLetters' = DeadLetters
  BY DEF DeadLetters, tables
<1>4. DeadLetterBounded'
  BY <1>3 DEF IInv, DeadLetterBounded
<1>5. DeadLetterSettled'
  <2>1. \A e \in DeadLetters : e # NoEvent
    BY EventIdAssumption DEF DeadLetters
  <2> QED  BY <1>3, <2>1 DEF IInv, DeadLetterSettled, tables
<1>6. HeldIsProcessing'
  BY DEF IInv, HeldIsProcessing, tables
<1> QED  BY <1>1, <1>2, <1>4, <1>5, <1>6 DEF IInv

LEMMA OpenIInv == ASSUME IInv, Open PROVE IInv'
<1>1. /\ WithStatus("completed") \subseteq EventId
      /\ WithStatus("pending") \subseteq EventId
      /\ DeadLetters \subseteq EventId
  BY DEF WithStatus, DeadLetters
<1>2. /\ Cardinality(WithStatus("completed")) \in Nat
      /\ Cardinality(WithStatus("pending")) \in Nat
      /\ Cardinality(DeadLetters) \in Nat
  BY <1>1, FiniteRows
<1>3. stats' \in QueueStats
  BY <1>2 DEF Open, RefreshStats, IInv, TypeOK, QueueStats
<1>4. /\ WithStatus("completed")' = WithStatus("completed")
      /\ DeadLetters' = DeadLetters
  BY DEF Open, tables, WithStatus, DeadLetters
<1>5. StatsAgree'
  BY <1>2, <1>4 DEF Open, RefreshStats, StatsAgree, IInv, TypeOK, QueueStats
<1> QED  BY <1>3, <1>5, MemoryStep DEF Open

LEMMA OpenRaisesIInv == ASSUME IInv, OpenRaises PROVE IInv'
<1>1. /\ WithStatus("completed") \subseteq EventId
      /\ WithStatus("pending") \subseteq EventId
  BY DEF WithStatus
<1>2. /\ Cardinality(WithStatus("completed")) \in Nat
      /\ Cardinality(WithStatus("pending")) \in Nat
  BY <1>1, FiniteRows
<1>3. stats' \in QueueStats
  BY <1>2 DEF OpenRaises, RefreshStats, IInv, TypeOK, QueueStats
<1>4. StatsAgree'
  BY DEF OpenRaises, StatsAgree
<1> QED  BY <1>3, <1>4, MemoryStep DEF OpenRaises

LEMMA CloseIInv == ASSUME IInv, Close PROVE IInv'
<1>1. StatsAgree' /\ stats' \in QueueStats
  BY DEF Close, StatsAgree, IInv, TypeOK
<1> QED  BY <1>1, MemoryStep DEF Close

LEMMA CrashIInv == ASSUME IInv, Crash PROVE IInv'
<1>1. StatsAgree' /\ stats' \in QueueStats
  BY DEF Crash, LoseMemory, StatsAgree, InitStats, QueueStats
<1> QED  BY <1>1, MemoryStep DEF Crash, LoseMemory

LEMMA DropIInv == ASSUME IInv, Drop PROVE IInv'
<1>1. /\ WithStatus("completed")' = WithStatus("completed")
      /\ DeadLetters' = DeadLetters
  BY DEF Drop, tables, WithStatus, DeadLetters
<1>2. StatsAgree'
  BY <1>1 DEF Drop, StatsAgree, IInv
<1> QED  BY <1>2, MemoryStep DEF Drop, IInv, TypeOK

LEMMA StutterIInv == ASSUME IInv, UNCHANGED vars PROVE IInv'
<1>1. /\ WithStatus("completed")' = WithStatus("completed")
      /\ DeadLetters' = DeadLetters
  BY DEF vars, WithStatus, DeadLetters
<1>2. StatsAgree'
  BY <1>1 DEF vars, StatsAgree, IInv
<1> QED  BY <1>2, MemoryStep DEF vars, tables, IInv, TypeOK

\* What push does to the table of events.
LEMMA PushRow ==
    ASSUME IInv, NEW n \in EventId, events[n] = NoRow,
           events' = [events EXCEPT ![n] = PushedRow]
    PROVE  /\ events' \in [EventId -> Row]
           /\ SequencesBounded'
           /\ SequenceUnique'
           /\ RetryBudget'
           /\ WithStatus("completed")' = WithStatus("completed")
           /\ n \notin results /\ n \notin DeadLetters /\ n # held
<1>1. /\ MaxSequence \in Nat
      /\ \A e \in EventId : events[e].sequence_no <= MaxSequence
  BY MaxSequenceBounds DEF IInv
<1>2. PushedRow \in Row
  BY <1>1 DEF PushedRow, Row, Status
<1>3. events' \in [EventId -> Row]
  BY <1>2 DEF IInv, TypeOK
<1>4. /\ events'[n] = PushedRow
      /\ \A e \in EventId \ {n} : events'[e] = events[e]
  BY DEF IInv, TypeOK
<1>5. /\ PushedRow.sequence_no = MaxSequence + 1
      /\ PushedRow.status = "pending"
      /\ PushedRow.retry_count = 0
  BY DEF PushedRow
<1>6. events \in [EventId -> Row]
  BY DEF IInv, TypeOK
<1>7. SequencesBounded'
  <2>1. \A e \in EventId : events'[e].sequence_no <= MaxSequence + 1
    BY <1>1, <1>4, <1>5, <1>6 DEF Row
  <2> QED  BY <2>1, <1>1 DEF SequencesBounded
<1>8. SequenceUnique'
  BY <1>1, <1>4, <1>5, <1>6 DEF IInv, SequenceUnique, Row
<1>9. RetryBudget'
  BY <1>4, <1>5, RetriesAssumption DEF IInv, RetryBudget
<1>10. WithStatus("completed")' = WithStatus("completed")
  BY <1>4, <1>5 DEF WithStatus, NoRow
<1>11. n \notin results /\ n \notin DeadLetters /\ n # held
  BY EventIdAssumption
     DEF IInv, ResultsCompleted, DeadLetterSettled, HeldIsProcessing, NoRow
<1> QED  BY <1>3, <1>7, <1>8, <1>9, <1>10, <1>11

LEMMA PushIInv == ASSUME IInv, NEW n \in EventId, Push(n) PROVE IInv'
<1>1. /\ events' \in [EventId -> Row]
      /\ SequencesBounded'
      /\ SequenceUnique'
      /\ RetryBudget'
      /\ WithStatus("completed")' = WithStatus("completed")
      /\ n \notin results /\ n \notin DeadLetters /\ n # held
  BY PushRow DEF Push
<1>2. \A e \in EventId \ {n} : events'[e] = events[e]
  BY DEF Push, IInv, TypeOK
<1>3. TypeOK'
  BY <1>1 DEF Push, IInv, TypeOK, QueueStats
<1>4. DeadLetters' = DeadLetters /\ DeadLetters \subseteq EventId
  BY DEF Push, DeadLetters
<1>5. Bounded(dead_letter)' /\ DeadLetterBounded'
  BY <1>4 DEF Push, IInv, Bounded, DeadLetterBounded
<1>6. DeadLetterSettled'
  BY <1>1, <1>2, <1>4 DEF Push, IInv, DeadLetterSettled
<1>7. StatsAgree'
  BY <1>1, <1>4 DEF Push, IInv, StatsAgree, TypeOK, QueueStats
<1>8. ResultsCompleted' /\ HeldIsProcessing'
  BY <1>1, <1>2 DEF Push, IInv, ResultsCompleted, HeldIsProcessing, TypeOK
<1> QED  BY <1>1, <1>3, <1>5, <1>6, <1>7, <1>8 DEF IInv

\* A step that rewrites one row of events and keeps its sequence number.
LEMMA RowUpdate ==
    ASSUME IInv, NEW e \in EventId, NEW r \in Row,
           events' = [events EXCEPT ![e] = r],
           events[e].status # "absent",
           r.sequence_no = events[e].sequence_no
    PROVE  /\ events' \in [EventId -> Row]
           /\ events'[e] = r
           /\ \A f \in EventId \ {e} : events'[f] = events[f]
           /\ SequencesBounded'
           /\ SequenceUnique'
<1>1. events \in [EventId -> Row]
  BY DEF IInv, TypeOK
<1>2. \A f \in EventId : events'[f].sequence_no = events[f].sequence_no
  BY <1>1
<1>3. SequencesBounded'
  BY <1>2 DEF IInv, SequencesBounded
<1>4. \A f \in EventId : f # e => events'[f] = events[f]
  BY <1>1
<1>5. SequenceUnique'
  BY <1>2, <1>4 DEF IInv, SequenceUnique
<1> QED  BY <1>1, <1>3, <1>4, <1>5

LEMMA PopIInv == ASSUME IInv, NEW e \in EventId, Pop(e) PROVE IInv'
<1> DEFINE r == [events[e] EXCEPT !.status = "processing"]
<1>1. /\ events[e] \in Row
      /\ events[e].status = "pending"
      /\ held = NoEvent /\ held' = e
      /\ UNCHANGED <<dead_letter, results, stats, conn>>
  BY DEF Pop, FirstPending, IInv, TypeOK
<1>2. /\ r \in Row
      /\ r.sequence_no = events[e].sequence_no
      /\ r.status = "processing"
      /\ r.retry_count = events[e].retry_count
  BY <1>1 DEF Row, Status
<1>3. events' = [events EXCEPT ![e] = r]
  BY DEF Pop
<1> HIDE DEF r
<1>4. /\ events' \in [EventId -> Row]
      /\ events'[e] = r
      /\ \A f \in EventId \ {e} : events'[f] = events[f]
      /\ SequencesBounded'
      /\ SequenceUnique'
  BY <1>1, <1>2, <1>3, RowUpdate
<1>5. TypeOK'
  BY <1>1, <1>4 DEF IInv, TypeOK
<1>6. DeadLetters' = DeadLetters /\ e \notin DeadLetters
  BY <1>1 DEF DeadLetters, IInv, DeadLetterSettled
<1>7. Bounded(dead_letter)' /\ DeadLetterBounded'
  BY <1>1, <1>6 DEF IInv, Bounded, DeadLetterBounded
<1>8. DeadLetterSettled'
  BY <1>1, <1>4, <1>6 DEF IInv, DeadLetterSettled, DeadLetters
<1>9. WithStatus("completed")' = WithStatus("completed")
  BY <1>1, <1>2, <1>4 DEF WithStatus
<1>10. StatsAgree'
  BY <1>1, <1>6, <1>9 DEF IInv, StatsAgree
<1>11. RetryBudget'
  BY <1>1, <1>2, <1>4 DEF IInv, RetryBudget
<1>12. ResultsCompleted' /\ HeldIsProcessing'
  BY <1>1, <1>2, <1>4 DEF IInv, ResultsCompleted, HeldIsProcessing, TypeOK
<1> QED  BY <1>4, <1>5, <1>7, <1>8, <1>10, <1>11, <1>12 DEF IInv

LEMMA AckIInv == ASSUME IInv, NEW e \in EventId, Ack(e) PROVE IInv'
<1> DEFINE r == [events[e] EXCEPT !.status = "completed"]
<1>1. /\ events[e] \in Row
      /\ events[e].status = "processing"
      /\ Connected /\ held = e /\ held' = NoEvent
      /\ results' = results \cup {e}
      /\ UNCHANGED <<dead_letter, conn>>
  BY EventIdAssumption DEF Ack, IInv, TypeOK, HeldIsProcessing
<1>2. /\ r \in Row
      /\ r.sequence_no = events[e].sequence_no
      /\ r.status = "completed"
  BY <1>1 DEF Row, Status
<1>3. events' = [events EXCEPT ![e] = r]
  BY DEF Ack
<1> HIDE DEF r
<1>4. /\ events' \in [EventId -> Row]
      /\ events'[e] = r
      /\ \A f \in EventId \ {e} : events'[f] = events[f]
      /\ SequencesBounded'
      /\ SequenceUnique'
  BY <1>1, <1>2, <1>3, RowUpdate
<1>5. TypeOK'
  BY <1>1, <1>4 DEF IInv, TypeOK, Ack, QueueStats
<1>6. DeadLetters' = DeadLetters /\ e \notin DeadLetters /\ NoEvent \notin DeadLetters
  BY <1>1, EventIdAssumption DEF DeadLetters, IInv, DeadLetterSettled
<1>7. Bounded(dead_letter)' /\ DeadLetterBounded'
  BY <1>1, <1>6 DEF IInv, Bounded, DeadLetterBounded
<1>8. DeadLetterSettled'
  BY <1>1, <1>4, <1>6 DEF IInv, DeadLetterSettled, DeadLetters
<1>9. /\ WithStatus("completed")' = WithStatus("completed") \cup {e}
      /\ e \notin WithStatus("completed")
      /\ WithStatus("completed") \subseteq EventId
  BY <1>1, <1>2, <1>4 DEF WithStatus
<1>10. Cardinality(WithStatus("completed")')
         = Cardinality(WithStatus("completed")) + 1
  BY <1>9, FiniteRows, FS_AddElement
<1>11. StatsAgree'
  BY <1>1, <1>6, <1>10 DEF IInv, StatsAgree, Ack, TypeOK, QueueStats
<1>12. RetryBudget'
  BY <1>1, <1>2, <1>4 DEF IInv, RetryBudget
<1>13. ResultsCompleted' /\ HeldIsProcessing'
  BY <1>1, <1>2, <1>4 DEF IInv, ResultsCompleted, HeldIsProcessing, TypeOK
<1> QED  BY <1>4, <1>5, <1>7, <1>8, <1>11, <1>12, <1>13 DEF IInv

\* The part of nack that both outcomes share.
LEMMA NackedRow ==
    ASSUME IInv, NEW e \in EventId, held = e
    PROVE  /\ events[e] \in Row
           /\ events[e].status = "processing"
           /\ Retries(e) \in Nat
           /\ Retries(e) <= MaxRetries
           /\ dead_letter[e] = 0
           /\ e \notin results
<1>1. events[e].status = "processing" /\ events[e] \in Row
  BY EventIdAssumption DEF IInv, TypeOK, HeldIsProcessing
<1>2. events[e].retry_count < MaxRetries
  BY <1>1 DEF IInv, RetryBudget
<1>3. dead_letter[e] = 0
  BY DEF IInv, DeadLetterSettled, DeadLetters
<1>4. e \notin results
  BY <1>1 DEF IInv, ResultsCompleted
<1> QED  BY <1>1, <1>2, <1>3, <1>4, RetriesAssumption DEF Retries, Row

LEMMA RequeueIInv ==
    ASSUME IInv, NEW e \in EventId, Nack(e), Requeue(e) PROVE IInv'
<1> DEFINE r == [events[e] EXCEPT !.status = "pending",
                                 !.retry_count = Retries(e)]
<1>1. /\ events[e] \in Row
      /\ events[e].status = "processing"
      /\ Retries(e) \in Nat /\ Retries(e) < MaxRetries
      /\ dead_letter[e] = 0
      /\ e \notin results
      /\ held = e /\ held' = NoEvent
      /\ UNCHANGED <<dead_letter, results, conn>>
  BY NackedRow DEF Nack, Requeue
<1>2. /\ r \in Row
      /\ r.sequence_no = events[e].sequence_no
      /\ r.status = "pending"
      /\ r.retry_count < MaxRetries
  BY <1>1 DEF Row, Status
<1>3. events' = [events EXCEPT ![e] = r]
  BY DEF Requeue
<1> HIDE DEF r
<1>4. /\ events' \in [EventId -> Row]
      /\ events'[e] = r
      /\ \A f \in EventId \ {e} : events'[f] = events[f]
      /\ SequencesBounded'
      /\ SequenceUnique'
  BY <1>1, <1>2, <1>3, RowUpdate
<1>5. TypeOK'
  BY <1>1, <1>4 DEF IInv, TypeOK, Requeue, QueueStats
<1>6. DeadLetters' = DeadLetters /\ e \notin DeadLetters /\ NoEvent \notin DeadLetters
  BY <1>1, EventIdAssumption DEF DeadLetters
<1>7. Bounded(dead_letter)' /\ DeadLetterBounded'
  BY <1>1, <1>6 DEF IInv, Bounded, DeadLetterBounded
<1>8. DeadLetterSettled'
  BY <1>1, <1>4, <1>6 DEF IInv, DeadLetterSettled, DeadLetters
<1>9. WithStatus("completed")' = WithStatus("completed")
  BY <1>1, <1>2, <1>4 DEF WithStatus
<1>10. StatsAgree'
  BY <1>1, <1>6, <1>9 DEF IInv, StatsAgree, Requeue, TypeOK, QueueStats
<1>11. RetryBudget'
  BY <1>1, <1>2, <1>4 DEF IInv, RetryBudget
<1>12. ResultsCompleted' /\ HeldIsProcessing'
  BY <1>1, <1>4 DEF IInv, ResultsCompleted, HeldIsProcessing, TypeOK
<1> QED  BY <1>4, <1>5, <1>7, <1>8, <1>10, <1>11, <1>12 DEF IInv

LEMMA GiveUpIInv ==
    ASSUME IInv, NEW e \in EventId, Nack(e), GiveUp(e) PROVE IInv'
<1> DEFINE r == [events[e] EXCEPT !.status = "dead",
                                 !.retry_count = Retries(e)]
<1>1. /\ events[e] \in Row
      /\ events[e].status = "processing"
      /\ Retries(e) \in Nat /\ Retries(e) = MaxRetries
      /\ dead_letter[e] = 0
      /\ e \notin results
      /\ held = e /\ held' = NoEvent
      /\ UNCHANGED <<results, conn>>
  BY NackedRow, RetriesAssumption DEF Nack, GiveUp
<1>2. /\ r \in Row
      /\ r.sequence_no = events[e].sequence_no
      /\ r.status = "dead"
      /\ r.retry_count = MaxRetries
  BY <1>1 DEF Row, Status
<1>3. events' = [events EXCEPT ![e] = r]
  BY DEF GiveUp
<1> HIDE DEF r
<1>4. /\ events' \in [EventId -> Row]
      /\ events'[e] = r
      /\ \A f \in EventId \ {e} : events'[f] = events[f]
      /\ SequencesBounded'
      /\ SequenceUnique'
  BY <1>1, <1>2, <1>3, RowUpdate
<1>5. /\ dead_letter' \in [EventId -> Nat]
      /\ Bounded(dead_letter)'
      /\ DeadLetterBounded'
      /\ DeadLetters' \subseteq DeadLetters \cup {e}
      /\ Cardinality(DeadLetters') <= Cardinality(DeadLetters) + 1
  BY <1>1, MoveToDlq DEF IInv, TypeOK, GiveUp
<1>6. TypeOK'
  BY <1>1, <1>4, <1>5 DEF IInv, TypeOK, GiveUp, QueueStats
<1>7. DeadLetterSettled'
  <2>1. DeadLetters \cup {e} \subseteq EventId
    BY DEF DeadLetters
  <2> QED  BY <2>1, <1>1, <1>2, <1>4, <1>5, EventIdAssumption
           DEF IInv, DeadLetterSettled
<1>8. WithStatus("completed")' = WithStatus("completed")
  BY <1>1, <1>2, <1>4 DEF WithStatus
<1>9. StatsAgree'
  <2>1. Cardinality(DeadLetters) \in Nat /\ Cardinality(DeadLetters') \in Nat
    BY FiniteRows DEF DeadLetters
  <2> QED  BY <2>1, <1>1, <1>5, <1>8
           DEF IInv, StatsAgree, GiveUp, TypeOK, QueueStats
<1>10. RetryBudget'
  BY <1>1, <1>2, <1>4 DEF IInv, RetryBudget
<1>11. ResultsCompleted' /\ HeldIsProcessing'
  BY <1>1, <1>4 DEF IInv, ResultsCompleted, HeldIsProcessing, TypeOK
<1> QED  BY <1>4, <1>5, <1>6, <1>7, <1>9, <1>10, <1>11 DEF IInv

LEMMA NackInterruptedIInv ==
    ASSUME IInv, NEW e \in EventId, NackInterrupted(e) PROVE IInv'
<1>1. /\ events[e].status = "processing"
      /\ dead_letter[e] = 0
      /\ e \notin results
      /\ held' = NoEvent /\ conn' = "none"
      /\ stats' \in QueueStats
      /\ UNCHANGED <<events, results>>
  BY NackedRow DEF NackInterrupted, LoseMemory, InitStats, QueueStats
<1>2. /\ dead_letter' \in [EventId -> Nat]
      /\ Bounded(dead_letter)'
      /\ DeadLetterBounded'
      /\ DeadLetters' \subseteq DeadLetters \cup {e}
  BY <1>1, MoveToDlq DEF IInv, TypeOK, NackInterrupted
<1>3. TypeOK'
  BY <1>1, <1>2 DEF IInv, TypeOK
<1>4. DeadLetterSettled'
  <2>1. DeadLetters \cup {e} \subseteq EventId
    BY DEF DeadLetters
  <2> QED  BY <2>1, <1>1, <1>2, EventIdAssumption DEF IInv, DeadLetterSettled
<1>5. /\ SequencesBounded'
      /\ ResultsCompleted'
      /\ SequenceUnique'
      /\ RetryBudget'
      /\ StatsAgree'
      /\ HeldIsProcessing'
  BY <1>1 DEF IInv, SequencesBounded, ResultsCompleted, SequenceUnique,
              RetryBudget, StatsAgree, HeldIsProcessing
<1> QED  BY <1>2, <1>3, <1>4, <1>5 DEF IInv

LEMMA ReplayDeadLetterIInv ==
    ASSUME IInv, NEW e \in EventId, NEW n \in EventId, ReplayDeadLetter(e, n)
    PROVE  IInv'
<1>1. /\ events' \in [EventId -> Row]
      /\ SequencesBounded'
      /\ SequenceUnique'
      /\ RetryBudget'
      /\ WithStatus("completed")' = WithStatus("completed")
      /\ n \notin results /\ n \notin DeadLetters /\ n # held
  BY PushRow DEF ReplayDeadLetter
<1>2. \A f \in EventId \ {n} : events'[f] = events[f]
  BY DEF ReplayDeadLetter, IInv, TypeOK
<1>3. TypeOK'
  BY <1>1 DEF ReplayDeadLetter, IInv, TypeOK, QueueStats
<1>4. /\ DeadLetters' = DeadLetters \ {e}
      /\ DeadLetters \subseteq EventId
      /\ e \in DeadLetters
  BY DEF ReplayDeadLetter, DeadLetters, IInv, TypeOK
<1>5. /\ Cardinality(DeadLetters) \in Nat
      /\ Cardinality(DeadLetters') = Cardinality(DeadLetters) - 1
  BY <1>4, FiniteRows, FS_RemoveElement
<1>6. DeadLetterBounded'
  BY <1>5, DeadLetterAssumption DEF IInv, DeadLetterBounded
<1>7. Bounded(dead_letter)'
  <2>1. PICK b \in Nat : \A f \in EventId : dead_letter[f] <= b
    BY DEF IInv, Bounded
  <2>2. \A f \in EventId : dead_letter'[f] <= b
    BY <2>1 DEF ReplayDeadLetter, IInv, TypeOK
  <2> QED  BY <2>2 DEF Bounded
<1>8. DeadLetterSettled'
  BY <1>1, <1>2, <1>4 DEF ReplayDeadLetter, IInv, DeadLetterSettled
<1>9. StatsAgree'
  BY <1>1, <1>5 DEF ReplayDeadLetter, IInv, StatsAgree, TypeOK, QueueStats
<1>10. ResultsCompleted' /\ HeldIsProcessing'
  BY <1>1, <1>2
     DEF ReplayDeadLetter, IInv, ResultsCompleted, HeldIsProcessing, TypeOK
<1> QED  BY <1>1, <1>3, <1>6, <1>7, <1>8, <1>9, <1>10 DEF IInv

LEMMA ReplayInterruptedIInv ==
    ASSUME IInv, NEW e \in EventId, NEW n \in EventId, ReplayInterrupted(e, n)
    PROVE  IInv'
<1>1. /\ events' \in [EventId -> Row]
      /\ SequencesBounded'
      /\ SequenceUnique'
      /\ RetryBudget'
      /\ n \notin results /\ n \notin DeadLetters
  BY PushRow DEF ReplayInterrupted
<1>2. /\ \A f \in EventId \ {n} : events'[f] = events[f]
      /\ held' = NoEvent /\ conn' = "none"
      /\ stats' \in QueueStats
      /\ UNCHANGED <<dead_letter, results>>
  BY DEF ReplayInterrupted, LoseMemory, InitStats, QueueStats, IInv, TypeOK
<1>3. TypeOK'
  BY <1>1, <1>2 DEF IInv, TypeOK
<1>4. DeadLetters' = DeadLetters /\ DeadLetters \subseteq EventId
  BY <1>2 DEF DeadLetters
<1>5. Bounded(dead_letter)' /\ DeadLetterBounded'
  BY <1>2, <1>4 DEF IInv, Bounded, DeadLetterBounded
<1>6. DeadLetterSettled'
  BY <1>1, <1>2, <1>4, EventIdAssumption DEF IInv, DeadLetterSettled
<1>7. StatsAgree' /\ ResultsCompleted' /\ HeldIsProcessing'
  BY <1>1, <1>2
     DEF IInv, StatsAgree, ResultsCompleted, HeldIsProcessing, TypeOK
<1> QED  BY <1>1, <1>3, <1>5, <1>6, <1>7 DEF IInv

LEMMA NextIInv == IInv /\ [Next]_vars => IInv'
<1> SUFFICES ASSUME IInv, [Next]_vars PROVE IInv'
  OBVIOUS
<1>1. CASE Open \/ OpenRaises
  BY <1>1, OpenIInv, OpenRaisesIInv
<1>2. CASE Close
  BY <1>2, CloseIInv
<1>3. CASE Crash
  BY <1>3, CrashIInv
<1>4. CASE Drop
  BY <1>4, DropIInv
<1>5. ASSUME NEW e \in EventId, Push(e) PROVE IInv'
  BY <1>5, PushIInv
<1>6. ASSUME NEW e \in EventId, Pop(e) PROVE IInv'
  BY <1>6, PopIInv
<1>7. ASSUME NEW e \in EventId, Ack(e) PROVE IInv'
  BY <1>7, AckIInv
<1>8. ASSUME NEW e \in EventId, Nack(e) PROVE IInv'
  <2>1. Requeue(e) \/ GiveUp(e)
    BY <1>8 DEF Nack
  <2> QED  BY <2>1, <1>8, RequeueIInv, GiveUpIInv
<1>9. ASSUME NEW e \in EventId, NackInterrupted(e) PROVE IInv'
  BY <1>9, NackInterruptedIInv
<1>10. ASSUME NEW e \in EventId, NEW n \in EventId, ReplayDeadLetter(e, n)
       PROVE  IInv'
  BY <1>10, ReplayDeadLetterIInv
<1>11. ASSUME NEW e \in EventId, NEW n \in EventId, ReplayInterrupted(e, n)
       PROVE  IInv'
  BY <1>11, ReplayInterruptedIInv
<1>12. CASE UNCHANGED vars
  BY <1>12, StutterIInv
<1> QED  BY <1>1, <1>2, <1>3, <1>4, <1>5, <1>6, <1>7, <1>8, <1>9, <1>10,
            <1>11, <1>12 DEF Next

-----------------------------------------------------------------------------
(* The theorems *)

\* The inductive invariant holds in every reachable state.
THEOREM Invariance == Spec => []IInv
<1>1. Init => IInv
  BY InitIInv
<1>2. IInv /\ [Next]_vars => IInv'
  BY NextIInv
<1> QED  BY <1>1, <1>2, PTL DEF Spec

\* The tables and the memory of the queue keep their types.
THEOREM TypeCorrect == Spec => []TypeOK
<1>1. IInv => TypeOK
  BY DEF IInv
<1> QED  BY <1>1, Invariance, PTL

\* _next_sequence never gives out a number twice.
THEOREM SequencesDistinct == Spec => []SequenceUnique
<1>1. IInv => SequenceUnique
  BY DEF IInv
<1> QED  BY <1>1, Invariance, PTL

\* nack spends the retry budget exactly.
THEOREM RetriesExact == Spec => []RetryBudget
<1>1. IInv => RetryBudget
  BY DEF IInv
<1> QED  BY <1>1, Invariance, PTL

\* An event in dead_letter is neither deliverable nor completed.
THEOREM DeadLettersSettled == Spec => []DeadLetterSettled
<1>1. IInv => DeadLetterSettled
  BY DEF IInv
<1> QED  BY <1>1, Invariance, PTL

\* MEM-BOUND-007, for every value of MAX_DEAD_LETTER.
THEOREM DeadLettersBounded == Spec => []DeadLetterBounded
<1>1. IInv => DeadLetterBounded
  BY DEF IInv
<1> QED  BY <1>1, Invariance, PTL

\* The counters agree with the tables while the queue is open.
THEOREM StatsCorrect == Spec => []StatsAgree
<1>1. IInv => StatsAgree
  BY DEF IInv
<1> QED  BY <1>1, Invariance, PTL

\* A popped event stays marked processing until it is settled.
THEOREM HeldProcessing == Spec => []HeldIsProcessing
<1>1. IInv => HeldIsProcessing
  BY DEF IInv
<1> QED  BY <1>1, Invariance, PTL

\* What one step of the queue may do to a row: settled rows and rows without
\* a consumer stay, a failure once counted stays counted, a row never
\* disappears, and it is completed by an ack of its event only.
LEMMA RowStep ==
    ASSUME IInv, Next, NEW f \in EventId
    PROVE  /\ events[f].status \in {"completed", "dead"} => events'[f] = events[f]
           /\ events[f].status = "processing" /\ held # f
                 => events'[f] = events[f] /\ held' # f
           /\ events[f].retry_count > 0 => events'[f].retry_count > 0
           /\ events[f].status # "absent" => events'[f].status # "absent"
           /\ events[f].status # "completed" /\ events'[f].status = "completed"
                 => Ack(f)
<1>1. events \in [EventId -> Row] /\ f # NoEvent
  BY EventIdAssumption DEF IInv, TypeOK
<1>2. held = f => events[f].status = "processing"
  BY <1>1 DEF IInv, HeldIsProcessing
<1>3. CASE Open \/ OpenRaises \/ Close \/ Crash \/ Drop
  BY <1>3, <1>1 DEF Open, OpenRaises, Close, Crash, LoseMemory, Drop, tables
<1>4. ASSUME NEW e \in EventId,
             \/ Push(e)
             \/ \E n \in EventId : ReplayDeadLetter(n, e) \/ ReplayInterrupted(n, e)
      PROVE  /\ events[f] # NoRow => events'[f] = events[f]
             /\ events[f] = NoRow => events'[f] = events[f] \/ events'[f] = PushedRow
             /\ held' = held \/ held' = NoEvent
  <2>1. events[e] = NoRow /\ events' = [events EXCEPT ![e] = PushedRow]
    BY <1>4 DEF Push, ReplayDeadLetter, ReplayInterrupted
  <2>2. held' = held \/ held' = NoEvent
    BY <1>4 DEF Push, ReplayDeadLetter, ReplayInterrupted, LoseMemory
  <2> QED  BY <2>1, <2>2, <1>1
<1>5. CASE \E e \in EventId :
              \/ Push(e)
              \/ \E n \in EventId : ReplayDeadLetter(n, e) \/ ReplayInterrupted(n, e)
  <2>1. /\ NoRow.status = "absent" /\ NoRow.retry_count = 0
        /\ PushedRow.status = "pending"
    BY DEF NoRow, PushedRow
  <2> QED  BY <1>4, <1>5, <1>1, <2>1
<1>6. ASSUME NEW e \in EventId, Pop(e)
      PROVE  /\ e # f => events'[f] = events[f]
             /\ e = f => /\ events[f].status = "pending"
                         /\ events'[f].status = "processing"
                         /\ events'[f].retry_count = events[f].retry_count
             /\ held' = e
  BY <1>6, <1>1 DEF Pop, FirstPending, Row
<1>7. ASSUME NEW e \in EventId, Ack(e)
      PROVE  /\ e # f => events'[f] = events[f]
             /\ held = e /\ held' = NoEvent
             /\ events'[f].retry_count = events[f].retry_count
             /\ e = f => events'[f].status = "completed"
  BY <1>7, <1>1 DEF Ack, Row
<1>8. ASSUME NEW e \in EventId, Nack(e) \/ NackInterrupted(e)
      PROVE  /\ e # f => events'[f] = events[f]
             /\ held = e /\ held' = NoEvent
             /\ events'[f] # events[f]
                   => /\ events'[f].retry_count = events[f].retry_count + 1
                      /\ events'[f].status \in {"pending", "dead"}
  BY <1>8, <1>1 DEF Nack, Requeue, GiveUp, NackInterrupted, LoseMemory, Retries, Row
<1>9. events[f].retry_count \in Nat
  BY <1>1 DEF Row
<1> QED
  <2>1. CASE \E e \in EventId : Pop(e)
    BY <2>1, <1>6, <1>1, <1>2
  <2>2. CASE \E e \in EventId : Ack(e)
    BY <2>2, <1>7, <1>1, <1>2, <1>9
  <2>3. CASE \E e \in EventId : Nack(e) \/ NackInterrupted(e)
    BY <2>3, <1>8, <1>1, <1>2, <1>9
  <2> QED  BY <1>3, <1>5, <2>1, <2>2, <2>3, <1>1 DEF Next

\* completed and dead rows never change again.
THEOREM SettledForGood == Spec => SettledIsFinal
<1>1. IInv /\ [Next]_vars => [\A e \in EventId : RowFinal(e)]_vars
  BY RowStep DEF RowFinal
<1> QED  BY <1>1, Invariance, PTL DEF Spec, SettledIsFinal

\* A dead letter disappears only by eviction or into a replay.
THEOREM DeadLettersKept == Spec => DeadLetterNeverLost
<1>1. ASSUME IInv, Next, NEW g \in EventId,
             dead_letter[g] # 0, dead_letter'[g] = 0
      PROVE  Evicted \/ CarriedOn
  <2>1. dead_letter' # dead_letter
    BY <1>1
  <2>2. PICK e \in EventId :
            \/ Nack(e)
            \/ NackInterrupted(e)
            \/ \E n \in EventId : ReplayDeadLetter(e, n)
    BY <2>1, <1>1 DEF Next, Open, OpenRaises, Close, Crash, Drop, Push, Pop, Ack,
                      ReplayInterrupted, tables
  <2>3. CASE Nack(e) \/ NackInterrupted(e)
    <3>1. held = e /\ dead_letter' = Prune(InsertDeadLetter(e))
      BY <2>1, <2>3 DEF Nack, Requeue, GiveUp, NackInterrupted
    <3>2. dead_letter[e] = 0
      BY <3>1, <1>1, NackedRow
    <3>3. dead_letter'[e] # 0
      BY <3>1, <3>2, <1>1, MoveToDlq DEF IInv, TypeOK
    <3> QED  BY <3>2, <3>3 DEF Evicted
  <2>4. CASE \E n \in EventId : ReplayDeadLetter(e, n)
    <3>1. PICK n \in EventId : ReplayDeadLetter(e, n)
      BY <2>4
    <3>2. events[n] = NoRow /\ events'[n].status = "pending"
      BY <3>1, <1>1 DEF ReplayDeadLetter, PushedRow, IInv, TypeOK
    <3> QED  BY <3>2 DEF CarriedOn
  <2> QED  BY <2>2, <2>3, <2>4
<1>2. IInv /\ [Next]_vars => [\A e \in EventId : LetterKept(e)]_vars
  BY <1>1 DEF LetterKept
<1> QED  BY <1>2, Invariance, PTL DEF Spec, DeadLetterNeverLost

-----------------------------------------------------------------------------
(* EventQueue implements DeliveryContract *)

LEMMA InitContract == Init => Contract!CInit
BY DEF Init, Contract!CInit, Stages, Tries, Tickets, StageName, NoRow

\* A step that leaves the table of events alone is invisible.
LEMMA InvisibleStep ==
    ASSUME events' = events PROVE UNCHANGED Contract!cvars
BY DEF Contract!cvars, Stages, Tries, Tickets, StageName

\* A function over EventId that differs from another one at e only.
LEMMA UpdatedAt ==
    ASSUME NEW g, NEW h, NEW e \in EventId, NEW v,
           g = [f \in EventId |-> g[f]], h = [f \in EventId |-> h[f]],
           h[e] = v, \A f \in EventId : f # e => h[f] = g[f]
    PROVE  h = [g EXCEPT ![e] = v]
OBVIOUS

\* The contract's view of a step that changes the row of e only.
LEMMA ViewOfRow ==
    ASSUME NEW e \in EventId,
           \A f \in EventId : f # e => events'[f] = events[f]
    PROVE  /\ Stages' = [Stages EXCEPT ![e] = Stages'[e]]
           /\ Tries' = [Tries EXCEPT ![e] = Tries'[e]]
           /\ Tickets' = [Tickets EXCEPT ![e] = Tickets'[e]]
<1>1. /\ Stages = [f \in EventId |-> Stages[f]]
      /\ Stages' = [f \in EventId |-> Stages'[f]]
      /\ Tries = [f \in EventId |-> Tries[f]]
      /\ Tries' = [f \in EventId |-> Tries'[f]]
      /\ Tickets = [f \in EventId |-> Tickets[f]]
      /\ Tickets' = [f \in EventId |-> Tickets'[f]]
  BY DEF Stages, Tries, Tickets
<1>2. \A f \in EventId : f # e => /\ Stages'[f] = Stages[f]
                                  /\ Tries'[f] = Tries[f]
                                  /\ Tickets'[f] = Tickets[f]
  BY DEF Stages, Tries, Tickets
<1>3. Stages' = [Stages EXCEPT ![e] = Stages'[e]]
  BY <1>1, <1>2, UpdatedAt
<1>4. Tries' = [Tries EXCEPT ![e] = Tries'[e]]
  BY <1>1, <1>2, UpdatedAt
<1>5. Tickets' = [Tickets EXCEPT ![e] = Tickets'[e]]
  BY <1>1, <1>2, UpdatedAt
<1> QED  BY <1>3, <1>4, <1>5

LEMMA PushAccepts ==
    ASSUME IInv, NEW n \in EventId, events[n] = NoRow,
           events' = [events EXCEPT ![n] = PushedRow]
    PROVE  Contract!Accept(n)
<1>1. /\ MaxSequence \in Nat
      /\ \A e \in EventId : events[e].sequence_no <= MaxSequence
      /\ events \in [EventId -> Row]
  BY MaxSequenceBounds DEF IInv, TypeOK
<1>2. /\ events'[n] = PushedRow
      /\ \A e \in EventId : e # n => events'[e] = events[e]
  BY <1>1
<1>3. /\ PushedRow.sequence_no = MaxSequence + 1
      /\ PushedRow.status = "pending"
      /\ PushedRow.retry_count = 0
  BY DEF PushedRow
<1>4. Stages[n] = "unknown"
  BY DEF Stages, StageName, NoRow
<1>5. Stages' = [Stages EXCEPT ![n] = "waiting"]
  <2>1. Stages'[n] = "waiting"
    BY <1>2, <1>3 DEF Stages, StageName
  <2> QED  BY <2>1, <1>2, ViewOfRow
<1>6. Tries' = Tries
  BY <1>2, <1>3 DEF Tries, NoRow
<1>7. Tickets' = [Tickets EXCEPT ![n] = Tickets'[n]]
  BY <1>2, ViewOfRow
<1>8. \A f \in EventId : Tickets[f] < Tickets'[n]
  BY <1>1, <1>2, <1>3 DEF Tickets, Row
<1> QED  BY <1>4, <1>5, <1>6, <1>7, <1>8 DEF Contract!Accept

LEMMA PopTakes ==
    ASSUME IInv, NEW e \in EventId, Pop(e) PROVE Contract!Take(e)
<1>1. /\ events \in [EventId -> Row]
      /\ events[e].status = "pending"
      /\ events' = [events EXCEPT ![e].status = "processing"]
  BY DEF Pop, FirstPending, IInv, TypeOK
<1>2. \A f \in EventId : Stages[f] = "waiting" => events[f].status = "pending"
  BY <1>1 DEF Stages, StageName, Row, Status
<1>3. \A f \in EventId \ {e} : Stages[f] = "waiting" => Tickets[e] < Tickets[f]
  BY <1>1, <1>2
     DEF Pop, FirstPending, WithStatus, IInv, SequenceUnique, Tickets, Row
<1>4. Stages[e] = "waiting" /\ Stages' = [Stages EXCEPT ![e] = "taken"]
  <2>1. \A f \in EventId : f # e => events'[f] = events[f]
    BY <1>1
  <2>2. Stages[e] = "waiting" /\ Stages'[e] = "taken"
    BY <1>1 DEF Stages, StageName, Row
  <2> QED  BY <2>1, <2>2, ViewOfRow
<1>5. Tries' = Tries /\ Tickets' = Tickets
  BY <1>1 DEF Tries, Tickets
<1> QED  BY <1>3, <1>4, <1>5 DEF Contract!Take

LEMMA AckSucceeds ==
    ASSUME IInv, NEW e \in EventId, Ack(e) PROVE Contract!Succeed(e)
<1>1. /\ events \in [EventId -> Row]
      /\ events[e].status = "processing"
      /\ events' = [events EXCEPT ![e].status = "completed"]
  BY EventIdAssumption DEF Ack, HeldIsProcessing, IInv, TypeOK
<1>2. Stages[e] = "taken" /\ Stages' = [Stages EXCEPT ![e] = "done"]
  <2>1. \A f \in EventId : f # e => events'[f] = events[f]
    BY <1>1
  <2>2. Stages[e] = "taken" /\ Stages'[e] = "done"
    BY <1>1 DEF Stages, StageName, Row
  <2> QED  BY <2>1, <2>2, ViewOfRow
<1>3. Tries' = Tries /\ Tickets' = Tickets
  BY <1>1 DEF Tries, Tickets
<1> QED  BY <1>2, <1>3 DEF Contract!Succeed

LEMMA NackFails ==
    ASSUME IInv, NEW e \in EventId, Nack(e) PROVE Contract!Fail(e)
<1>1. /\ events \in [EventId -> Row]
      /\ events[e].status = "processing"
      /\ events[e].retry_count \in Nat
      /\ Retries(e) = events[e].retry_count + 1
      /\ Retries(e) <= MaxRetries
  BY NackedRow DEF Nack, IInv, TypeOK, Retries, Row
<1>2. Stages[e] = "taken" /\ Tries[e] = events[e].retry_count
  BY <1>1 DEF Stages, StageName, Tries
<1>3. Tries[e] < MaxRetries
  BY <1>1, <1>2, RetriesAssumption
<1>4. CASE Requeue(e)
  <2>1. /\ events' = [events EXCEPT ![e].status = "pending",
                                    ![e].retry_count = Retries(e)]
        /\ Retries(e) # MaxRetries
    BY <1>4, <1>1, RetriesAssumption DEF Requeue
  <2>2. \A f \in EventId : f # e => events'[f] = events[f]
    BY <2>1, <1>1
  <2>3. Stages'[e] = "waiting" /\ Tries'[e] = Tries[e] + 1
    BY <2>1, <1>1, <1>2 DEF Stages, StageName, Tries, Row
  <2>4. Tickets' = Tickets
    BY <2>1, <1>1 DEF Tickets, Row
  <2>5. /\ Stages' = [Stages EXCEPT ![e] = "waiting"]
        /\ Tries' = [Tries EXCEPT ![e] = Tries[e] + 1]
    BY <2>2, <2>3, ViewOfRow
  <2> QED  BY <2>1, <2>4, <2>5, <1>1, <1>2, <1>3 DEF Contract!Fail
<1>5. CASE GiveUp(e)
  <2>1. /\ events' = [events EXCEPT ![e].status = "dead",
                                    ![e].retry_count = Retries(e)]
        /\ Retries(e) = MaxRetries
    BY <1>5, <1>1, RetriesAssumption DEF GiveUp
  <2>2. \A f \in EventId : f # e => events'[f] = events[f]
    BY <2>1, <1>1
  <2>3. Stages'[e] = "given_up" /\ Tries'[e] = Tries[e] + 1
    BY <2>1, <1>1, <1>2 DEF Stages, StageName, Tries, Row
  <2>4. Tickets' = Tickets
    BY <2>1, <1>1 DEF Tickets, Row
  <2>5. /\ Stages' = [Stages EXCEPT ![e] = "given_up"]
        /\ Tries' = [Tries EXCEPT ![e] = Tries[e] + 1]
    BY <2>2, <2>3, ViewOfRow
  <2> QED  BY <2>1, <2>4, <2>5, <1>1, <1>2, <1>3 DEF Contract!Fail
<1> QED  BY <1>4, <1>5 DEF Nack

LEMMA NextContract == IInv /\ [Next]_vars => [Contract!CNext]_(Contract!cvars)
<1> SUFFICES ASSUME IInv, [Next]_vars
             PROVE  Contract!CNext \/ UNCHANGED Contract!cvars
  OBVIOUS
<1>1. CASE Open \/ OpenRaises \/ Close \/ Crash \/ Drop
  BY <1>1, InvisibleStep DEF Open, OpenRaises, Close, Crash, Drop, tables
<1>2. ASSUME NEW e \in EventId,
             \/ Push(e)
             \/ \E n \in EventId : ReplayDeadLetter(n, e) \/ ReplayInterrupted(n, e)
      PROVE  Contract!Accept(e)
  BY <1>2, PushAccepts DEF Push, ReplayDeadLetter, ReplayInterrupted
<1>3. ASSUME NEW e \in EventId, Pop(e) PROVE Contract!Take(e)
  BY <1>3, PopTakes
<1>4. ASSUME NEW e \in EventId, Ack(e) PROVE Contract!Succeed(e)
  BY <1>4, AckSucceeds
<1>5. ASSUME NEW e \in EventId, Nack(e) PROVE Contract!Fail(e)
  BY <1>5, NackFails
<1>6. ASSUME NEW e \in EventId, NackInterrupted(e) PROVE UNCHANGED Contract!cvars
  BY <1>6, InvisibleStep DEF NackInterrupted
<1>7. CASE UNCHANGED vars
  BY <1>7, InvisibleStep DEF vars
<1> QED  BY <1>1, <1>2, <1>3, <1>4, <1>5, <1>6, <1>7 DEF Next, Contract!CNext

\* The queue implements its contract: delivery in order of acceptance, at
\* most max_retries failed deliveries, and final outcomes, across crashes.
THEOREM ContractKept == Spec => KeepsContract
<1>1. Init => Contract!CInit
  BY InitContract
<1>2. IInv /\ [Next]_vars => [Contract!CNext]_(Contract!cvars)
  BY NextContract
<1> QED  BY <1>1, <1>2, Invariance, PTL DEF Spec, KeepsContract, Contract!CSpec

=============================================================================
