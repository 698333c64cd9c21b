-------------------------- MODULE DeliveryContract --------------------------
(***************************************************************************)
(* What the event queue promises its producers and its consumer, without   *)
(* tables, dead letters, statistics or connections: an accepted event is   *)
(* handed out in the order of acceptance, at most MaxRetries times, until  *)
(* it is done or given up, and both are final.  Crashes and restarts of    *)
(* the process are invisible here.                                         *)
(***************************************************************************)
EXTENDS Naturals

CONSTANTS EventId, MaxRetries

VARIABLES
    stage,    \* how far each event has come
    tries,    \* failed deliveries of each event
    ticket    \* order of acceptance, 0 before it

cvars == <<stage, tries, ticket>>

Stage == {"unknown", "waiting", "taken", "done", "given_up"}

CInit ==
    /\ stage = [e \in EventId |-> "unknown"]
    /\ tries = [e \in EventId |-> 0]
    /\ ticket = [e \in EventId |-> 0]

\* An event joins the queue behind every event accepted before it.
Accept(e) ==
    /\ stage[e] = "unknown"
    /\ stage' = [stage EXCEPT ![e] = "waiting"]
    /\ \A f \in EventId : ticket[f] < ticket'[e]
    /\ ticket' = [ticket EXCEPT ![e] = ticket'[e]]
    /\ UNCHANGED tries

\* The waiting event accepted first is handed out.
Take(e) ==
    /\ stage[e] = "waiting"
    /\ \A f \in EventId \ {e} : stage[f] = "waiting" => ticket[e] < ticket[f]
    /\ stage' = [stage EXCEPT ![e] = "taken"]
    /\ UNCHANGED <<tries, ticket>>

Succeed(e) ==
    /\ stage[e] = "taken"
    /\ stage' = [stage EXCEPT ![e] = "done"]
    /\ UNCHANGED <<tries, ticket>>

\* A failed delivery: the event waits again, or is given up for good when
\* MaxRetries deliveries have failed.
Fail(e) ==
    /\ stage[e] = "taken"
    /\ tries[e] < MaxRetries
    /\ tries' = [tries EXCEPT ![e] = @ + 1]
    /\ stage' = [stage EXCEPT
                   ![e] = IF tries[e] + 1 = MaxRetries THEN "given_up"
                                                       ELSE "waiting"]
    /\ UNCHANGED ticket

CNext == \E e \in EventId : Accept(e) \/ Take(e) \/ Succeed(e) \/ Fail(e)

CSpec == CInit /\ [][CNext]_cvars

=============================================================================
