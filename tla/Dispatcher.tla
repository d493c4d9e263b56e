------------------------------ MODULE Dispatcher ------------------------------
(* The dispatcher of platform events: a pass takes the oldest rows that are   *)
(* due and sends them one by one, each send an await.  A pass starts at boot, *)
(* every thirty seconds and at every posted event, and not while one runs.    *)
EXTENDS Integers, Sequences, FiniteSets

CONSTANTS
  Events,
  Refused,       \* the events Inngest never takes
  Slots,         \* passes that could be under way at once, were it not for `running`
  PassLimit      \* the limit of a pass

ASSUME DispatcherAssumption ==
  /\ IsFiniteSet(Events) /\ Refused \subseteq Events
  /\ PassLimit \in Nat \ {0}

VARIABLES
  event,      \* platform_events: status, attempts and, in ticks of the timer,
              \* what is left until next_attempt_at
  received,   \* the order of received_at, 0 when there is no row
  taken,      \* Inngest: the ids it has
  running,    \* `running`
  pass        \* the rows a pass has left; the oldest of them is being sent

dispatcherVars == <<event, received, taken, running, pass>>

MaxAttempt == 7   \* more attempts change nothing: backoffSeconds caps them
More(attempts) == IF attempts < MaxAttempt THEN attempts + 1 ELSE MaxAttempt

(* backoffSeconds: 5 * 2^min(attempt, 7), which never comes to its 900; and   *)
(* how many ticks of thirty seconds that is.                                  *)
BackoffSeconds == <<10, 20, 40, 80, 160, 320, 640>>
Backoff(attempt) == (BackoffSeconds[attempt] + 29) \div 30

Event == [status : {"none", "received", "retry", "dispatched"}, attempts : 0..MaxAttempt, wait : Nat]
Idle == [pc |-> "idle", rows |-> {}]

DispatcherTypeOK ==
  /\ event \in [Events -> Event]
  /\ received \in [Events -> Nat]
  /\ taken \subseteq Events
  /\ running \in BOOLEAN
  /\ pass \in [Slots -> [pc : {"idle", "sending", "taken"}, rows : SUBSET Events]]

-----------------------------------------------------------------------------
Rows(statuses) == {e \in Events : event[e].status \in statuses}
HasRow == Rows({"received", "retry", "dispatched"})

(* The rows a pass finds: of the due ones the oldest, as many as its limit.   *)
DueOf(table, order) ==
  LET due == {e \in Events : table[e].status \in {"received", "retry"} /\ table[e].wait = 0}
  IN {e \in due : Cardinality({f \in due : order[f] < order[e]}) < PassLimit}

(* The rest of a pass, or its end.                                            *)
Rest(rows) == IF rows = {} THEN Idle ELSE [pc |-> "sending", rows |-> rows]

(* A pass is at event e.                                                      *)
At(s, e) == e \in pass[s].rows /\ \A f \in pass[s].rows : received[e] <= received[f]

(* dispatchPendingEvents, up to its first await.                              *)
TryPass ==
  LET due == DueOf(event', received')
  IN IF running \/ due = {} THEN UNCHANGED <<running, pass>>
     ELSE \E s \in Slots :
            /\ pass[s].pc = "idle"
            /\ pass' = [pass EXCEPT ![s] = Rest(due)]
            /\ running' = TRUE

(* POST of an event: a known id is answered as a duplicate.                   *)
Receive(e) ==
  /\ event[e].status = "none"
  /\ event' = [event EXCEPT ![e].status = "received"]
  /\ received' = [received EXCEPT ![e] = Cardinality(HasRow) + 1]
  /\ TryPass
  /\ UNCHANGED taken

(* Thirty seconds: the timer.                                                 *)
Tick ==
  /\ event' = [e \in Events |-> [event[e] EXCEPT !.wait = IF @ = 0 THEN 0 ELSE @ - 1]]
  /\ UNCHANGED <<received, taken>>
  /\ TryPass

(* Inngest takes the event a pass is at: the id is its own, so a second copy  *)
(* is dropped.                                                                *)
Take(e) ==
  /\ e \notin Refused
  /\ \E s \in Slots :
       /\ pass[s].pc = "sending" /\ At(s, e)
       /\ pass' = [pass EXCEPT ![s].pc = "taken"]
  /\ taken' = taken \cup {e}
  /\ UNCHANGED <<event, received, running>>

(* A pass goes on, and its last row releases `running`.                       *)
GoOn(s, e) ==
  /\ pass' = [pass EXCEPT ![s] = Rest(@.rows \ {e})]
  /\ running' = (pass[s].rows # {e})
  /\ UNCHANGED <<received, taken>>

(* The send was answered.                                                     *)
Dispatched(e) ==
  \E s \in Slots :
    /\ pass[s].pc = "taken" /\ At(s, e)
    /\ event' = [event EXCEPT ![e] = [status |-> "dispatched", attempts |-> More(@.attempts), wait |-> 0]]
    /\ GoOn(s, e)

\* Mutant: no backoff, so the oldest failing rows are every pass.
FailedAt(row) == [row EXCEPT !.status = "retry"]

(* The row of an event whose send failed.                                     *)
Retried(row) ==
  [status |-> "retry", attempts |-> More(row.attempts), wait |-> Backoff(More(row.attempts))]

(* The send threw: refused, not answered, or taken and the answer lost.       *)
Failed(e) ==
  \E s \in Slots :
    /\ pass[s].pc # "idle" /\ At(s, e)
    /\ event' = [event EXCEPT ![e] = Retried(@)]
    /\ GoOn(s, e)

(* The process ends and starts again, which starts a pass.                    *)
Restart ==
  LET due == DueOf(event, received)
  IN /\ UNCHANGED <<event, received, taken>>
     /\ running' = (due # {})
     /\ \E s \in Slots : pass' = [x \in Slots |-> IF x = s THEN Rest(due) ELSE Idle]

DispatcherInit ==
  /\ event = [e \in Events |-> [status |-> "none", attempts |-> 0, wait |-> 0]]
  /\ received = [e \in Events |-> 0]
  /\ taken = {}
  /\ running = FALSE
  /\ pass = [s \in Slots |-> Idle]

DispatcherNext ==
  \/ \E e \in Events : Receive(e) \/ Take(e) \/ Dispatched(e) \/ Failed(e)
  \/ Tick \/ Restart

(* The timer fires for ever, a send ends, and Inngest takes and answers for   *)
(* an event it does not refuse if it is asked often enough.                   *)
DispatcherFairness ==
  /\ WF_dispatcherVars(Tick)
  /\ \A e \in Events : WF_dispatcherVars(Dispatched(e) \/ Failed(e))
  /\ \A e \in Events \ Refused : SF_dispatcherVars(Take(e)) /\ SF_dispatcherVars(Dispatched(e))

DispatcherSpec == DispatcherInit /\ [][DispatcherNext]_dispatcherVars /\ DispatcherFairness

-----------------------------------------------------------------------------
(* The mapping onto EventDelivery.                                            *)
Promise == INSTANCE EventDelivery WITH
  accepted <- HasRow,
  handed   <- taken,
  closed   <- Rows({"dispatched"})

(* The dispatcher delivers what EventDelivery promises: through refusals, lost *)
(* answers and restarts an event is closed only when Inngest has it, stays     *)
(* closed, and is delivered although older events fail for ever ("the event    *)
(* remains in the local ledger and is retried later", eventDispatcher.ts:31). *)
ImplementsDelivery == Promise!Delivery

(* The part of it that needs no fairness.                                      *)
ClosedIsDelivered == Promise!DeliverySafety
=============================================================================
