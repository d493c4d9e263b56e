---------------------------- MODULE TimersProofs ----------------------------
(* What runs by itself, for any number of rows, runs and ticks: the dispatcher *)
(* implements the safety of EventDelivery, with any limit of a pass and any    *)
(* number of passes that might overlap; the timer of the integrations begins   *)
(* none that is paused and none before its time; collections chase no paid     *)
(* invoice and none twice in a day; and mail by the clock goes out once in its *)
(* period.                                                                     *)
EXTENDS Dispatcher, SyncTimer, ScheduledMail, Collections, FiniteSetTheorems, TLAPS

-----------------------------------------------------------------------------
(* The dispatcher.                                                            *)


Open == Rows({"received", "retry"})
Busy(s) == pass[s].pc # "idle"

(* The order of received_at is one: no two rows have the same place.          *)
Ordered ==
  /\ \A e \in HasRow : received[e] <= Cardinality(HasRow)
  /\ \A e, f \in HasRow : received[e] = received[f] => e = f

(* `running` keeps the passes apart.                                          *)
OnePass ==
  /\ \A s \in Slots : Busy(s) => running
  /\ \A s, t \in Slots : Busy(s) /\ Busy(t) => s = t

(* A pass has only rows that are not dispatched, and when its send was taken  *)
(* Inngest has the event it is at.                                            *)
PassRows == \A s \in Slots : Busy(s) => pass[s].rows \subseteq Open
HeadTaken == \A s \in Slots, e \in Events : pass[s].pc = "taken" /\ At(s, e) => e \in taken

ClosedTaken == Rows({"dispatched"}) \subseteq taken

DInv ==
  /\ DispatcherTypeOK /\ Ordered /\ OnePass
  /\ PassRows /\ HeadTaken /\ ClosedTaken

-----------------------------------------------------------------------------
(* backoffSeconds gives a number, for every number of attempts it is asked.   *)
LEMMA BackoffType == \A n \in 1..MaxAttempt : Backoff(n) \in Nat
<1>1. BackoffSeconds \in Seq(Nat) /\ Len(BackoffSeconds) = MaxAttempt
  BY DEF BackoffSeconds, MaxAttempt
<1>2. \A n \in 1..MaxAttempt : BackoffSeconds[n] \in Nat
  BY <1>1
<1> QED BY <1>2 DEF Backoff

LEMMA MoreType == \A n \in 0..MaxAttempt : More(n) \in 1..MaxAttempt
  BY DEF More, MaxAttempt

LEMMA RestType == \A rows \in SUBSET Events :
                    Rest(rows) \in [pc : {"idle", "sending", "taken"}, rows : SUBSET Events]
  BY DEF Rest, Idle

(* The start of a pass, as TryPass has it, keeps what is said of passes.      *)
LEMMA TryPassOK ==
  ASSUME DInv, TryPass,
         event' \in [Events -> Event], received' \in [Events -> Nat],
         taken' = taken,
         \A e \in Open : e \in Open' /\ received'[e] = received[e]
  PROVE  /\ running' \in BOOLEAN
         /\ pass' \in [Slots -> [pc : {"idle", "sending", "taken"}, rows : SUBSET Events]]
         /\ OnePass' /\ PassRows' /\ HeadTaken'
<1> DEFINE due == DueOf(event', received')
<1>1. due \subseteq Open'
  BY DEF DueOf, Open, Rows
<1>2. due \subseteq Events
  BY DEF DueOf
<1>3. CASE UNCHANGED <<running, pass>>
  <2>1. OnePass'
    BY <1>3 DEF DInv, OnePass, Busy
  <2>2. PassRows'
    BY <1>3 DEF DInv, PassRows, Busy
  <2>3. HeadTaken'
    <3> SUFFICES ASSUME NEW s \in Slots, NEW e \in Events, pass'[s].pc = "taken", At(s, e)'
                 PROVE  e \in taken'
      BY DEF HeadTaken
    <3>1. pass[s].rows \subseteq Open
      BY <1>3 DEF DInv, PassRows, Busy
    <3>2. At(s, e)
      BY <1>3, <3>1 DEF At
    <3> QED BY <1>3, <3>2 DEF DInv, HeadTaken
  <2> QED BY <1>3, <2>1, <2>2, <2>3 DEF DInv, DispatcherTypeOK
<1>4. CASE ~running /\ due # {} /\ \E s \in Slots :
             /\ pass[s].pc = "idle"
             /\ pass' = [pass EXCEPT ![s] = Rest(due)]
             /\ running' = TRUE
  <2>1. PICK s \in Slots : pass[s].pc = "idle" /\ pass' = [pass EXCEPT ![s] = Rest(due)] /\ running' = TRUE
    BY <1>4
  <2>2. pass' \in [Slots -> [pc : {"idle", "sending", "taken"}, rows : SUBSET Events]]
    BY <2>1, <1>2, RestType DEF DInv, DispatcherTypeOK
  <2>3. /\ pass'[s] = [pc |-> "sending", rows |-> due]
        /\ \A t \in Slots \ {s} : pass'[t] = pass[t] /\ pass[t].pc = "idle"
    BY <2>1, <1>4 DEF DInv, DispatcherTypeOK, OnePass, Busy, Rest
  <2>4. OnePass'
    BY <2>1, <2>3 DEF OnePass, Busy
  <2>5. PassRows'
    BY <2>3, <1>1 DEF PassRows, Busy
  <2>6. HeadTaken'
    <3> SUFFICES ASSUME NEW t \in Slots, pass'[t].pc = "taken" PROVE FALSE
      BY DEF HeadTaken
    <3> QED BY <2>3
  <2> QED BY <2>1, <2>2, <2>4, <2>5, <2>6
<1> QED BY <1>3, <1>4 DEF TryPass

(* A pass that goes on: the row it was at leaves it.                          *)
LEMMA GoOnOK ==
  ASSUME DInv, NEW s \in Slots, NEW e \in Events, Busy(s), At(s, e), GoOn(s, e),
         \A f \in Open \ {e} : f \in Open'
  PROVE  /\ running' \in BOOLEAN
         /\ pass' \in [Slots -> [pc : {"idle", "sending", "taken"}, rows : SUBSET Events]]
         /\ OnePass' /\ PassRows' /\ HeadTaken'
<1> DEFINE rest == pass[s].rows \ {e}
<1>1. pass[s].rows \subseteq Events /\ pass[s].rows \subseteq Open
  BY DEF DInv, DispatcherTypeOK, PassRows
<1>2. pass' = [pass EXCEPT ![s] = Rest(rest)] /\ running' = (pass[s].rows # {e})
  BY DEF GoOn, DInv, DispatcherTypeOK
<1>3. pass' \in [Slots -> [pc : {"idle", "sending", "taken"}, rows : SUBSET Events]]
  BY <1>1, <1>2, RestType DEF DInv, DispatcherTypeOK
<1>4. /\ pass'[s] = Rest(rest)
      /\ \A t \in Slots \ {s} : pass'[t] = pass[t] /\ pass[t].pc = "idle"
  BY <1>2 DEF DInv, DispatcherTypeOK, OnePass, Busy
<1>5. (pass'[s]).pc # "idle" => rest # {} /\ (pass'[s]).rows = rest /\ (pass'[s]).pc = "sending"
  BY <1>4 DEF Rest, Idle
<1>6. OnePass'
  <2>1. rest # {} => running'
    BY <1>2
  <2> QED BY <1>4, <1>5, <2>1 DEF OnePass, Busy
<1>7. PassRows'
  BY <1>1, <1>4, <1>5 DEF PassRows, Busy
<1>8. HeadTaken'
  <2> SUFFICES ASSUME NEW t \in Slots, pass'[t].pc = "taken" PROVE FALSE
    BY DEF HeadTaken
  <2> QED BY <1>4, <1>5
<1> QED BY <1>2, <1>3, <1>6, <1>7, <1>8

-----------------------------------------------------------------------------
(* One step of each action.                                                   *)
LEMMA DispatchInitOK == DispatcherInit => DInv /\ Promise!DeliveryInit
<1> SUFFICES ASSUME DispatcherInit PROVE DInv /\ Promise!DeliveryInit
  OBVIOUS
<1> USE DEF DispatcherInit
<1>1. DispatcherTypeOK
  <2>1. [status |-> "none", attempts |-> 0, wait |-> 0] \in Event
    BY DEF Event, MaxAttempt
  <2>2. event \in [Events -> Event]
    BY <2>1
  <2>3. pass \in [Slots -> [pc : {"idle", "sending", "taken"}, rows : SUBSET Events]]
    BY DEF Idle
  <2> QED BY <2>2, <2>3 DEF DispatcherTypeOK
<1>2. HasRow = {} /\ Rows({"dispatched"}) = {}
  BY DEF HasRow, Rows
<1>3. \A s \in Slots : pass[s].pc = "idle"
  BY DEF Idle
<1>4. DInv
  BY <1>1, <1>2, <1>3 DEF DInv, Ordered, OnePass, PassRows, HeadTaken, ClosedTaken, Busy
<1> QED BY <1>2, <1>4 DEF Promise!DeliveryInit

LEMMA ReceiveOK ==
  ASSUME DInv, NEW e \in Events, Receive(e)
  PROVE  DInv' /\ Promise!AcceptEvent(e)
<1> USE DEF DInv, DispatcherTypeOK
<1>1. /\ event' \in [Events -> Event] /\ event'[e].status = "received"
      /\ \A f \in Events \ {e} : event'[f] = event[f]
  BY DEF Receive, Event
<1>2. HasRow' = HasRow \cup {e} /\ e \notin HasRow /\ Rows({"dispatched"})' = Rows({"dispatched"})
  BY <1>1 DEF Receive, HasRow, Rows
<1>3. /\ IsFiniteSet(HasRow) /\ Cardinality(HasRow) \in Nat
      /\ Cardinality(HasRow') = Cardinality(HasRow) + 1
  BY <1>2, DispatcherAssumption, FS_Subset, FS_CardinalityType, FS_AddElement DEF HasRow, Rows
<1>4. /\ received' \in [Events -> Nat] /\ received'[e] = Cardinality(HasRow) + 1
      /\ \A f \in HasRow : received'[f] = received[f]
  BY <1>2, <1>3 DEF Receive, HasRow, Rows
<1>5. Ordered'
  <2>1. \A f \in HasRow : received[f] \in Nat
    BY DEF HasRow, Rows
  <2> QED BY <1>2, <1>3, <1>4, <2>1 DEF Ordered
<1>6. \A f \in Open : f \in Open' /\ received'[f] = received[f]
  BY <1>1, <1>4 DEF Open, HasRow, Rows, Receive
<1>7. TryPass /\ taken' = taken
  BY DEF Receive
<1>8. /\ running' \in BOOLEAN
      /\ pass' \in [Slots -> [pc : {"idle", "sending", "taken"}, rows : SUBSET Events]]
      /\ OnePass' /\ PassRows' /\ HeadTaken'
  BY ONLY DInv, <1>1, <1>4, <1>6, <1>7, TryPassOK
<1>9. ClosedTaken'
  BY <1>2, <1>7 DEF ClosedTaken
<1> QED BY <1>1, <1>2, <1>4, <1>5, <1>7, <1>8, <1>9 DEF Promise!AcceptEvent

LEMMA DispatchTickOK ==
  ASSUME DInv, Tick
  PROVE  DInv' /\ UNCHANGED <<HasRow, taken, Rows({"dispatched"})>>
<1> USE DEF DInv, DispatcherTypeOK
<1>1. event' \in [Events -> Event] /\ \A f \in Events : event'[f].status = event[f].status
  <2> DEFINE later(f) == [event[f] EXCEPT !.wait = IF event[f].wait = 0 THEN 0 ELSE event[f].wait - 1]
  <2>1. event' = [f \in Events |-> later(f)]
    BY DEF Tick
  <2>2. ASSUME NEW f \in Events PROVE later(f) \in Event /\ later(f).status = event[f].status
    <3>1. event[f] \in Event
      OBVIOUS
    <3> QED BY SMTT(20), <3>1 DEF Event
  <2> HIDE DEF later
  <2> QED BY <2>1, <2>2
<1>2. UNCHANGED <<HasRow, Open, Rows({"dispatched"}), received, taken>>
  BY <1>1 DEF Tick, HasRow, Open, Rows
<1>3. /\ running' \in BOOLEAN
      /\ pass' \in [Slots -> [pc : {"idle", "sending", "taken"}, rows : SUBSET Events]]
      /\ OnePass' /\ PassRows' /\ HeadTaken'
  BY <1>1, <1>2, TryPassOK DEF Tick
<1> QED BY <1>1, <1>2, <1>3 DEF Ordered, ClosedTaken

LEMMA TakeOK ==
  ASSUME DInv, NEW e \in Events, Take(e)
  PROVE  DInv' /\ Promise!HandOver(e)
<1> USE DEF DInv, DispatcherTypeOK
<1>1. PICK s \in Slots : /\ pass[s].pc = "sending" /\ At(s, e)
                         /\ pass' = [pass EXCEPT ![s].pc = "taken"]
  BY DEF Take
<1>2. /\ pass' \in [Slots -> [pc : {"idle", "sending", "taken"}, rows : SUBSET Events]]
      /\ \A t \in Slots : (pass'[t]).rows = pass[t].rows /\ ((pass'[t]).pc = "idle" <=> pass[t].pc = "idle")
      /\ \A t \in Slots \ {s} : pass'[t] = pass[t]
  BY <1>1
<1>3. UNCHANGED <<event, received, running, HasRow, Open, Rows({"dispatched"})>> /\ taken' = taken \cup {e}
  BY DEF Take, HasRow, Open, Rows
<1>4. OnePass' /\ PassRows'
  BY <1>2, <1>3 DEF OnePass, PassRows, Busy
<1>5. HeadTaken'
  <2> SUFFICES ASSUME NEW t \in Slots, NEW f \in Events, (pass'[t]).pc = "taken", At(t, f)'
               PROVE  f \in taken'
    BY DEF HeadTaken
  <2>1. At(t, f)
    BY <1>2, <1>3 DEF At
  <2>2. CASE t = s
    <3>1. e \in pass[s].rows /\ f \in pass[s].rows /\ received[e] <= received[f] /\ received[f] <= received[e]
      BY <1>1, <2>1, <2>2 DEF At
    <3>2. e \in HasRow /\ f \in HasRow /\ received[e] \in Nat /\ received[f] \in Nat
      BY <1>1, <3>1 DEF PassRows, Busy, Open, HasRow, Rows
    <3>3. e = f
      BY <3>1, <3>2 DEF Ordered
    <3> QED BY <3>3, <1>3
  <2>3. CASE t # s
    BY <1>2, <1>3, <2>1, <2>3 DEF HeadTaken
  <2> QED BY <2>2, <2>3
<1>6. e \in HasRow
  BY <1>1 DEF At, PassRows, Busy, Open, HasRow, Rows
<1>7. Ordered' /\ ClosedTaken'
  BY <1>3 DEF Ordered, ClosedTaken
<1> QED BY <1>2, <1>3, <1>4, <1>5, <1>6, <1>7 DEF Take, Promise!HandOver

LEMMA DispatchedOK ==
  ASSUME DInv, NEW e \in Events, Dispatched(e)
  PROVE  DInv' /\ Promise!CloseEvent(e)
<1> USE DEF DInv, DispatcherTypeOK
<1>1. PICK s \in Slots :
        /\ pass[s].pc = "taken" /\ At(s, e)
        /\ event' = [event EXCEPT ![e] = [status |-> "dispatched", attempts |-> More(@.attempts), wait |-> 0]]
        /\ GoOn(s, e)
  BY DEF Dispatched
<1>2. event[e].attempts \in 0..MaxAttempt
  BY DEF Event
<1>3. /\ event' \in [Events -> Event] /\ event'[e].status = "dispatched"
      /\ \A f \in Events \ {e} : event'[f] = event[f]
  BY <1>1, <1>2, MoreType DEF Event
<1>4. e \in Open /\ e \in taken
  BY <1>1 DEF At, PassRows, HeadTaken, Busy
<1>5. HasRow' = HasRow /\ Rows({"dispatched"})' = Rows({"dispatched"}) \cup {e}
  BY <1>3, <1>4 DEF HasRow, Open, Rows
<1>6. UNCHANGED <<received, taken>>
  BY <1>1 DEF GoOn
<1>7. \A f \in Open \ {e} : f \in Open'
  BY <1>3 DEF Open, Rows
<1>8. /\ running' \in BOOLEAN
      /\ pass' \in [Slots -> [pc : {"idle", "sending", "taken"}, rows : SUBSET Events]]
      /\ OnePass' /\ PassRows' /\ HeadTaken'
  BY <1>1, <1>7, GoOnOK DEF Busy
<1> QED BY <1>3, <1>4, <1>5, <1>6, <1>8 DEF Ordered, ClosedTaken, Promise!CloseEvent

LEMMA FailedOK ==
  ASSUME DInv, NEW e \in Events, Failed(e)
  PROVE  DInv' /\ UNCHANGED <<HasRow, taken, Rows({"dispatched"})>>
<1> USE DEF DInv, DispatcherTypeOK
<1>1. PICK s \in Slots : /\ Busy(s) /\ At(s, e)
                         /\ event' = [event EXCEPT ![e] = Retried(@)]
                         /\ GoOn(s, e)
  BY DEF Failed, Busy
<1>2. event[e].attempts \in 0..MaxAttempt
  BY DEF Event
<1>3. Retried(event[e]) \in Event /\ Retried(event[e]).status = "retry"
  BY <1>2, MoreType, BackoffType DEF Retried, Event, MaxAttempt
<1>4. /\ event' \in [Events -> Event] /\ event'[e].status = "retry"
      /\ \A f \in Events \ {e} : event'[f] = event[f]
  BY <1>1, <1>3
<1>5. e \in Open
  BY <1>1 DEF At, PassRows
<1>6. HasRow' = HasRow /\ Rows({"dispatched"})' = Rows({"dispatched"})
  BY <1>4, <1>5 DEF HasRow, Open, Rows
<1>7. UNCHANGED <<received, taken>>
  BY <1>1 DEF GoOn
<1>8. \A f \in Open \ {e} : f \in Open'
  BY <1>4 DEF Open, Rows
<1>9. /\ running' \in BOOLEAN
      /\ pass' \in [Slots -> [pc : {"idle", "sending", "taken"}, rows : SUBSET Events]]
      /\ OnePass' /\ PassRows' /\ HeadTaken'
  BY <1>1, <1>8, GoOnOK
<1> QED BY <1>4, <1>6, <1>7, <1>9 DEF Ordered, ClosedTaken

LEMMA DispatchRestartOK ==
  ASSUME DInv, Restart
  PROVE  DInv' /\ UNCHANGED <<HasRow, taken, Rows({"dispatched"})>>
<1> USE DEF DInv, DispatcherTypeOK
<1> DEFINE due == DueOf(event, received)
<1>1. PICK s \in Slots : pass' = [x \in Slots |-> IF x = s THEN Rest(due) ELSE Idle]
  BY DEF Restart
<1>2. UNCHANGED <<event, received, taken, HasRow, Open, Rows({"dispatched"})>> /\ running' = (due # {})
  BY DEF Restart, HasRow, Open, Rows
<1>3. due \subseteq Open /\ due \subseteq Events
  BY DEF DueOf, Open, Rows
<1>4. pass' \in [Slots -> [pc : {"idle", "sending", "taken"}, rows : SUBSET Events]]
  BY <1>1, <1>3, RestType DEF Idle
<1>5. \A t \in Slots : (pass'[t]).pc # "idle" =>
        t = s /\ due # {} /\ (pass'[t]).rows = due /\ (pass'[t]).pc = "sending"
  BY <1>1 DEF Rest, Idle
<1>6. OnePass'
  <2>1. due # {} => running'
    BY <1>2
  <2> QED BY <1>5, <2>1 DEF OnePass, Busy
<1>7. PassRows' /\ HeadTaken'
  BY <1>2, <1>3, <1>5 DEF PassRows, HeadTaken, Busy
<1> QED BY <1>2, <1>4, <1>6, <1>7 DEF Ordered, ClosedTaken

-----------------------------------------------------------------------------
(* Every step keeps the invariant and is a step of EventDelivery, or none.    *)
LEMMA DispatchNextOK ==
  DInv /\ [DispatcherNext]_dispatcherVars =>
    DInv' /\ [Promise!DeliveryNext]_<<HasRow, taken, Rows({"dispatched"})>>
<1> SUFFICES ASSUME DInv, [DispatcherNext]_dispatcherVars
             PROVE  DInv' /\ [Promise!DeliveryNext]_<<HasRow, taken, Rows({"dispatched"})>>
  OBVIOUS
<1>1. ASSUME NEW e \in Events, Receive(e)
      PROVE  DInv' /\ Promise!DeliveryNext
  BY <1>1, ReceiveOK DEF Promise!DeliveryNext
<1>2. ASSUME NEW e \in Events, Take(e)
      PROVE  DInv' /\ Promise!DeliveryNext
  BY <1>2, TakeOK DEF Promise!DeliveryNext
<1>3. ASSUME NEW e \in Events, Dispatched(e)
      PROVE  DInv' /\ Promise!DeliveryNext
  BY <1>3, DispatchedOK DEF Promise!DeliveryNext
<1>4. ASSUME NEW e \in Events, Failed(e)
      PROVE  DInv' /\ UNCHANGED <<HasRow, taken, Rows({"dispatched"})>>
  BY <1>4, FailedOK
<1>5. CASE Tick
  BY <1>5, DispatchTickOK
<1>6. CASE Restart
  BY <1>6, DispatchRestartOK
<1>7. CASE UNCHANGED dispatcherVars
  BY <1>7 DEF dispatcherVars, DInv, DispatcherTypeOK, Ordered, OnePass, PassRows, HeadTaken,
              ClosedTaken, Busy, At, Open, HasRow, Rows
<1> QED BY <1>1, <1>2, <1>3, <1>4, <1>5, <1>6, <1>7 DEF DispatcherNext

(* The state of the dispatcher has its types.                                 *)
THEOREM DispatcherTypes == DispatcherSpec => []DispatcherTypeOK
<1>1. DInv => DispatcherTypeOK
  BY DEF DInv
<1> QED BY <1>1, DispatchInitOK, DispatchNextOK, PTL DEF DispatcherSpec

(* An event is closed only when Inngest has it, and stays closed, whatever    *)
(* sends are refused, answers lost and processes restarted.                   *)
THEOREM DeliverySafe == DispatcherSpec => ClosedIsDelivered
  BY DispatchInitOK, DispatchNextOK, PTL
     DEF DispatcherSpec, ClosedIsDelivered, Promise!DeliverySafety, Promise!deliveryVars

-----------------------------------------------------------------------------
(* The timer of the integrations.                                             *)
LoopRow == {NoLoop} \cup [runs : Syncs, byTimer : BOOLEAN, rest : SUBSET Syncs]

LEMMA NoLoopType == NoLoop \in LoopRow /\ NoLoop.runs \notin Syncs /\ ~NoLoop.byTimer
  BY SyncTimerAssumption DEF NoLoop, LoopRow

(* What a tick goes on with is due; the other loops are left alone.           *)
LEMMA OnwardType ==
  ASSUME loop \in [SyncLoops -> LoopRow], NEW l \in SyncLoops, NEW rest \in SUBSET Syncs, Onward(l, rest)
  PROVE  /\ loop' \in [SyncLoops -> LoopRow]
         /\ \A o \in SyncLoops : o # l => loop'[o] = loop[o]
         /\ loop'[l].runs \in Syncs => IsDue(loop[l].runs)'
<1>1. CASE LoopEnds(l)
  BY <1>1, NoLoopType DEF LoopEnds
<1>2. ASSUME NEW k \in rest, IsDue(k)', GoesTo(l, k, {j \in rest : j > k})
      PROVE  /\ loop' \in [SyncLoops -> LoopRow]
             /\ \A o \in SyncLoops : o # l => loop'[o] = loop[o]
             /\ loop'[l].runs = k
  BY <1>2 DEF GoesTo, LoopRow
<1>3. \A k \in rest : IsDue(k)' /\ GoesTo(l, k, {j \in rest : j > k}) =>
        loop'[l].runs = k /\ IsDue(loop[l].runs)'
  BY <1>2
<1> QED
  BY <1>1, <1>2, <1>3 DEF Onward

Age(k) == schedule[k].age
Ago(k) == begun[k].ago

(* The inductive invariant: an integration that does not run ended no sooner  *)
(* than the timer began it, or a restart or a person's change came between.   *)
SyncInv ==
  /\ schedule \in [Syncs -> [enabled : BOOLEAN, interval : 0..MaxInterval, age : Nat]]
  /\ loop \in [SyncLoops -> LoopRow]
  /\ begun \in [Syncs -> [ago : Nat, excused : BOOLEAN]]
  /\ \A k \in Syncs : Running(k) # {} \/ begun[k].excused \/ Age(k) <= Ago(k)

LEMMA SyncInitInv == SyncInit => SyncInv
<1> SUFFICES ASSUME SyncInit PROVE SyncInv
  OBVIOUS
<1>1. MaxInterval \in 0..MaxInterval /\ Never \in Nat
  BY SyncTimerAssumption DEF Never
<1> QED
  BY <1>1, NoLoopType DEF SyncInit, SyncInv, Age, Ago

Older(age) == IF age >= MaxInterval THEN age ELSE age + 1

LEMMA TickType ==
  ASSUME SyncInv, SyncTick
  PROVE  \E l \in SyncLoops :
           /\ loop[l] = NoLoop
           /\ schedule' = [k \in Syncs |-> [schedule[k] EXCEPT !.age = Older(schedule[k].age)]]
           /\ loop' \in [SyncLoops -> LoopRow]
           /\ \A o \in SyncLoops : o # l => loop'[o] = loop[o]
           /\ loop'[l].runs \in Syncs => IsDue(loop[l].runs)'
           /\ begun' = [k \in Syncs |-> IF loop'[l].runs = k THEN [ago |-> 0, excused |-> FALSE]
                                        ELSE [begun[k] EXCEPT !.ago = Older(begun[k].ago)]]
<1>1. \A ages \in [Syncs -> Nat], k \in Syncs : Since(ages)[k] = Older(ages[k])
  BY DEF Since, Older
<1>2. /\ [k \in Syncs |-> schedule[k].age] \in [Syncs -> Nat]
      /\ [k \in Syncs |-> begun[k].ago] \in [Syncs -> Nat]
  BY DEF SyncInv
<1> DEFINE age == Since([k \in Syncs |-> schedule[k].age])
<1> DEFINE ago == Since([k \in Syncs |-> begun[k].ago])
<1>3. \A k \in Syncs : age[k] = Older(schedule[k].age) /\ ago[k] = Older(begun[k].ago)
  BY <1>1, <1>2
<1>4. PICK l \in SyncLoops :
        /\ loop[l] = NoLoop
        /\ schedule' = [k \in Syncs |-> [schedule[k] EXCEPT !.age = age[k]]]
        /\ Onward(l, Syncs)
        /\ begun' = [k \in Syncs |-> IF loop'[l].runs = k THEN [ago |-> 0, excused |-> FALSE]
                                     ELSE [begun[k] EXCEPT !.ago = ago[k]]]
  BY DEF SyncTick
<1> HIDE DEF age, ago
<1>5. /\ loop' \in [SyncLoops -> LoopRow]
      /\ \A o \in SyncLoops : o # l => loop'[o] = loop[o]
      /\ loop'[l].runs \in Syncs => IsDue(loop[l].runs)'
  BY <1>4, OnwardType DEF SyncInv
<1> QED
  BY <1>3, <1>4, <1>5

LEMMA SyncTickInv == SyncInv /\ SyncTick => SyncInv'
<1> SUFFICES ASSUME SyncInv, SyncTick PROVE SyncInv'
  OBVIOUS
<1>1. PICK l \in SyncLoops :
        /\ loop[l] = NoLoop
        /\ schedule' = [k \in Syncs |-> [schedule[k] EXCEPT !.age = Older(schedule[k].age)]]
        /\ loop' \in [SyncLoops -> LoopRow]
        /\ \A o \in SyncLoops : o # l => loop'[o] = loop[o]
        /\ begun' = [k \in Syncs |-> IF loop'[l].runs = k THEN [ago |-> 0, excused |-> FALSE]
                                     ELSE [begun[k] EXCEPT !.ago = Older(begun[k].ago)]]
  BY TickType
<1>2. /\ schedule' \in [Syncs -> [enabled : BOOLEAN, interval : 0..MaxInterval, age : Nat]]
      /\ begun' \in [Syncs -> [ago : Nat, excused : BOOLEAN]]
  <2>1. \A n \in Nat : Older(n) \in Nat
    BY DEF Older
  <2> QED
    BY <1>1, <2>1 DEF SyncInv
<1>3. ASSUME NEW k \in Syncs PROVE Running(k)' # {} \/ begun'[k].excused \/ Age(k)' <= Ago(k)'
  <2>1. CASE loop'[l].runs = k
    BY <2>1 DEF Running
  <2>2. CASE loop'[l].runs # k
    <3>1. begun'[k] = [begun[k] EXCEPT !.ago = Older(begun[k].ago)] /\ schedule'[k].age = Older(schedule[k].age)
      BY <1>1, <2>2 DEF SyncInv
    <3>2. Running(k) # {} => Running(k)' # {}
      BY <1>1, NoLoopType DEF Running, SyncInv
    <3>3. begun'[k].excused = begun[k].excused /\ begun'[k].ago = Older(begun[k].ago)
      BY <3>1 DEF SyncInv
    <3>4. Age(k) <= Ago(k) => Age(k)' <= Ago(k)'
      BY <3>1, <3>3, SyncTimerAssumption DEF Age, Ago, Older, SyncInv
    <3> QED
      BY <3>2, <3>3, <3>4 DEF SyncInv
  <2> QED
    BY <2>1, <2>2
<1> QED
  BY <1>1, <1>2, <1>3 DEF SyncInv

LEMMA GoesOnType ==
  ASSUME SyncInv, NEW l \in SyncLoops, SyncEnds(l)
  PROVE  /\ loop[l].runs \in Syncs
         /\ schedule' = [schedule EXCEPT ![loop[l].runs] = [@ EXCEPT !.age = 0]]
         /\ loop' \in [SyncLoops -> LoopRow]
         /\ \A o \in SyncLoops : o # l => loop'[o] = loop[o]
         /\ loop'[l].runs \in Syncs => IsDue(loop[l].runs)'
         /\ begun' = [k \in Syncs |-> IF loop'[l].runs = k THEN [ago |-> 0, excused |-> FALSE] ELSE begun[k]]
<1>1. loop[l] \in LoopRow /\ loop[l] # NoLoop
  BY DEF SyncInv, SyncEnds
<1>2. loop[l].runs \in Syncs
  BY <1>1 DEF LoopRow
<1>3. schedule' = [schedule EXCEPT ![loop[l].runs] = [@ EXCEPT !.age = 0]]
  BY DEF SyncEnds, Recorded
<1>4. /\ loop' \in [SyncLoops -> LoopRow]
      /\ \A o \in SyncLoops : o # l => loop'[o] = loop[o]
      /\ loop'[l].runs \in Syncs => IsDue(loop[l].runs)'
  <2>1. CASE loop[l].byTimer
    <3>1. loop[l].rest \in SUBSET Syncs /\ Onward(l, loop[l].rest)
      BY <1>1, <2>1 DEF SyncEnds, LoopGoesOn, LoopRow
    <3> QED
      BY <3>1, OnwardType DEF SyncInv
  <2>2. CASE ~loop[l].byTimer
    BY <2>2, NoLoopType DEF SyncEnds, LoopGoesOn, LoopEnds, SyncInv
  <2> QED
    BY <2>1, <2>2
<1> QED
  BY <1>2, <1>3, <1>4 DEF SyncEnds, LoopGoesOn

LEMMA SyncEndsInv == ASSUME SyncInv, NEW l \in SyncLoops, SyncEnds(l) PROVE SyncInv'
<1>0. /\ loop[l].runs \in Syncs
      /\ schedule' = [schedule EXCEPT ![loop[l].runs] = [@ EXCEPT !.age = 0]]
      /\ begun' = [k \in Syncs |-> IF loop'[l].runs = k THEN [ago |-> 0, excused |-> FALSE] ELSE begun[k]]
  BY GoesOnType
<1>1. /\ schedule' \in [Syncs -> [enabled : BOOLEAN, interval : 0..MaxInterval, age : Nat]]
      /\ begun' \in [Syncs -> [ago : Nat, excused : BOOLEAN]]
  BY <1>0 DEF SyncInv
<1>2. ASSUME NEW k \in Syncs PROVE Running(k)' # {} \/ begun'[k].excused \/ Age(k)' <= Ago(k)'
  <2>1. CASE loop'[l].runs = k
    BY <2>1 DEF Running
  <2>2. CASE loop'[l].runs # k
    <3>1. begun'[k] = begun[k]
      BY <2>2, GoesOnType
    <3>2. CASE loop[l].runs = k
      <4>1. Age(k)' = 0
        BY <1>0, <3>2 DEF Age, SyncInv
      <4> QED
        BY <3>1, <4>1, <1>1 DEF Ago
    <3>3. CASE loop[l].runs # k
      <4>1. Age(k)' = Age(k)
        BY <1>0, <3>3 DEF Age, SyncInv
      <4>2. Running(k) # {} => Running(k)' # {}
        BY <3>3, GoesOnType DEF Running, SyncInv
      <4> QED
        BY <3>1, <4>1, <4>2 DEF SyncInv, Ago
    <3> QED
      BY <3>2, <3>3
  <2> QED
    BY <2>1, <2>2
<1> QED
  BY <1>1, <1>2, GoesOnType DEF SyncInv

LEMMA ByHandInv == ASSUME SyncInv, NEW k \in Syncs, RunNow(k) \/ SetSchedule(k) PROVE SyncInv'
<1>1. CASE RunNow(k)
  <2>1. PICK l \in SyncLoops :
          /\ loop[l] = NoLoop
          /\ loop' = [loop EXCEPT ![l] = [runs |-> k, byTimer |-> FALSE, rest |-> {}]]
    BY <1>1 DEF RunNow
  <2>2. loop' \in [SyncLoops -> LoopRow]
    BY <2>1 DEF SyncInv, LoopRow
  <2>3. \A j \in Syncs : Running(j) # {} => Running(j)' # {}
    BY <2>1, NoLoopType DEF Running, SyncInv
  <2> QED
    BY <1>1, <2>2, <2>3 DEF RunNow, SyncInv, Age, Ago
<1>2. CASE SetSchedule(k)
  <2>1. PICK interval \in 0..MaxInterval, enabled \in BOOLEAN :
          schedule' = [schedule EXCEPT ![k].interval = interval, ![k].enabled = enabled]
    BY <1>2 DEF SetSchedule
  <2>2. loop' = loop /\ begun' = [begun EXCEPT ![k].excused = TRUE]
    BY <1>2 DEF SetSchedule
  <2>3. \A j \in Syncs : Running(j)' = Running(j)
    BY <2>2 DEF Running
  <2> QED
    BY <2>1, <2>2, <2>3 DEF SyncInv, Age, Ago
<1> QED
  BY <1>1, <1>2

LEMMA SyncRestartInv == SyncInv /\ SyncRestart => SyncInv'
<1> SUFFICES ASSUME SyncInv, SyncRestart PROVE SyncInv'
  OBVIOUS
<1>1. loop' \in [SyncLoops -> LoopRow]
  BY NoLoopType DEF SyncRestart
<1>2. begun' \in [Syncs -> [ago : Nat, excused : BOOLEAN]]
  BY DEF SyncRestart, SyncInv
<1> QED
  BY <1>1, <1>2 DEF SyncRestart, SyncInv, Age, Ago

LEMMA SyncStep == SyncInv /\ [SyncNext]_syncVars => SyncInv'
<1> SUFFICES ASSUME SyncInv, [SyncNext]_syncVars PROVE SyncInv'
  OBVIOUS
<1>1. CASE UNCHANGED syncVars
  BY <1>1 DEF syncVars, SyncInv, Running, Age, Ago
<1>2. CASE \E k \in Syncs : RunNow(k) \/ SetSchedule(k)
  BY <1>2, ByHandInv
<1>3. CASE \E l \in SyncLoops : SyncEnds(l)
  BY <1>3, SyncEndsInv
<1>4. CASE SyncTick \/ SyncRestart
  BY <1>4, SyncTickInv, SyncRestartInv
<1> QED
  BY <1>1, <1>2, <1>3, <1>4 DEF SyncNext

(* The cadence and the pause of an integration are a person's to change.      *)
LEMMA OnlyByHand ==
  ASSUME SyncInv, [SyncNext]_syncVars, NEW k \in Syncs, ~SetSchedule(k)
  PROVE  schedule'[k].enabled = schedule[k].enabled /\ schedule'[k].interval = schedule[k].interval
<1>1. CASE UNCHANGED syncVars
  BY <1>1 DEF syncVars
<1>2. ASSUME NEW j \in Syncs, RunNow(j) \/ SetSchedule(j)
      PROVE  schedule'[k].enabled = schedule[k].enabled /\ schedule'[k].interval = schedule[k].interval
  BY <1>2 DEF RunNow, SetSchedule, SyncInv
<1>3. ASSUME NEW l \in SyncLoops, SyncEnds(l)
      PROVE  schedule'[k].enabled = schedule[k].enabled /\ schedule'[k].interval = schedule[k].interval
  <2>1. schedule' = [schedule EXCEPT ![loop[l].runs] = [@ EXCEPT !.age = 0]] /\ loop[l].runs \in Syncs
    BY <1>3, GoesOnType
  <2> QED
    BY <2>1 DEF SyncInv
<1>4. CASE SyncTick
  <2>1. schedule' = [j \in Syncs |-> [schedule[j] EXCEPT !.age = Older(schedule[j].age)]]
    BY <1>4, TickType
  <2> QED
    BY <2>1 DEF SyncInv
<1>5. CASE SyncRestart
  BY <1>5 DEF SyncRestart
<1> QED
  BY <1>1, <1>2, <1>3, <1>4, <1>5 DEF SyncNext

(* What the timer begins is due when it begins it, after the same minute for  *)
(* what it was begun before.                                                  *)
LEMMA BegunWhenDue ==
  ASSUME SyncInv, [SyncNext]_syncVars, NEW k \in Syncs, ~(ByTimer(k)' \subseteq ByTimer(k))
  PROVE  IsDue(k)' /\ Age(k)' <= Older(Age(k)) /\ schedule'[k].interval = schedule[k].interval
<1>1. CASE UNCHANGED syncVars
  BY <1>1 DEF syncVars, ByTimer, Running
<1>2. ASSUME NEW j \in Syncs, RunNow(j) PROVE FALSE
  <2>1. PICK l \in SyncLoops : loop' = [loop EXCEPT ![l] = [runs |-> j, byTimer |-> FALSE, rest |-> {}]]
    BY <1>2 DEF RunNow
  <2> QED
    BY <2>1 DEF ByTimer, Running, SyncInv
<1>3. ASSUME NEW j \in Syncs, SetSchedule(j) PROVE FALSE
  BY <1>3 DEF SetSchedule, ByTimer, Running
<1>4. CASE \E l \in SyncLoops : SyncEnds(l)
  <2>1. PICK l \in SyncLoops : SyncEnds(l)
    BY <1>4
  <2>2. /\ schedule' = [schedule EXCEPT ![loop[l].runs] = [@ EXCEPT !.age = 0]]
        /\ \A o \in SyncLoops : o # l => loop'[o] = loop[o]
        /\ loop'[l].runs \in Syncs => IsDue(loop[l].runs)'
    BY <2>1, GoesOnType
  <2>3. loop'[l].runs = k
    BY <2>2 DEF ByTimer, Running
  <2>4. Age(k) \in Nat /\ (Age(k)' = Age(k) \/ Age(k)' = 0) /\ schedule'[k].interval = schedule[k].interval
    BY <2>2 DEF Age, SyncInv
  <2> QED
    BY <2>2, <2>3, <2>4, SyncTimerAssumption DEF Older
<1>5. CASE SyncTick
  <2>1. PICK l \in SyncLoops :
          /\ schedule' = [j \in Syncs |-> [schedule[j] EXCEPT !.age = Older(schedule[j].age)]]
          /\ \A o \in SyncLoops : o # l => loop'[o] = loop[o]
          /\ loop'[l].runs \in Syncs => IsDue(loop[l].runs)'
    BY <1>5, TickType
  <2>2. loop'[l].runs = k
    BY <2>1 DEF ByTimer, Running
  <2>3. Age(k)' = Older(Age(k)) /\ Older(Age(k)) \in Nat /\ schedule'[k].interval = schedule[k].interval
    BY <2>1, SyncTimerAssumption DEF Age, Older, SyncInv
  <2> QED
    BY <2>1, <2>2, <2>3
<1>6. CASE SyncRestart
  BY <1>6, NoLoopType DEF SyncRestart, ByTimer, Running
<1> QED
  BY <1>1, <1>2, <1>3, <1>4, <1>5, <1>6 DEF SyncNext

(* "interval_minutes 0 (or enabled=false) pauses it": a tick begins nothing   *)
(* that is paused, also not what was paused while it awaited another          *)
(* integration, and no run that ends undoes a pause.                          *)
THEOREM PausedStaysPaused == SyncSpec => PauseHolds
<1>1. SyncInv /\ [SyncNext]_syncVars =>
        \A k \in Syncs :
          /\ Paused(k)' => ByTimer(k)' \subseteq ByTimer(k)
          /\ Paused(k) /\ ~Paused(k)' => SetSchedule(k)
  <2> SUFFICES ASSUME SyncInv, [SyncNext]_syncVars, NEW k \in Syncs
               PROVE  /\ Paused(k)' => ByTimer(k)' \subseteq ByTimer(k)
                      /\ Paused(k) /\ ~Paused(k)' => SetSchedule(k)
    OBVIOUS
  <2>1. Paused(k)' => ByTimer(k)' \subseteq ByTimer(k)
    BY BegunWhenDue DEF IsDue
  <2>2. Paused(k) /\ ~Paused(k)' => SetSchedule(k)
    BY OnlyByHand DEF Paused
  <2> QED
    BY <2>1, <2>2
<1> QED
  BY SyncInitInv, SyncStep, <1>1, PTL DEF SyncSpec, PauseHolds

(* "Each integration runs on its own cadence": the timer begins one before    *)
(* its time only beside a run of it, or after a restart in the middle of one  *)
(* or a person's change.                                                      *)
THEOREM OnItsCadence == SyncSpec => CadenceKept
<1>1. SyncInv /\ [SyncNext]_syncVars =>
        \A k \in Syncs : ByTimer(k)' \subseteq ByTimer(k) \/ Running(k) # {} \/ begun[k].excused
          \/ (IF begun[k].ago >= MaxInterval THEN begun[k].ago ELSE begun[k].ago + 1) >= schedule[k].interval
  <2> SUFFICES ASSUME SyncInv, [SyncNext]_syncVars, NEW k \in Syncs,
                      ~(ByTimer(k)' \subseteq ByTimer(k)), Running(k) = {}, ~begun[k].excused
               PROVE  Older(Ago(k)) >= schedule[k].interval
    BY DEF Older, Ago
  <2>1. IsDue(k)' /\ Age(k)' <= Older(Age(k)) /\ schedule'[k].interval = schedule[k].interval
    BY BegunWhenDue
  <2>2. Age(k) <= Ago(k) /\ Age(k) \in Nat /\ Ago(k) \in Nat /\ schedule[k].interval \in Nat
    BY DEF SyncInv, Age, Ago
  <2>3. Age(k)' >= schedule[k].interval /\ Age(k)' \in Nat
    BY <2>1, SyncStep DEF IsDue, Age, SyncInv
  <2>4. Older(Age(k)) <= Older(Ago(k)) /\ Older(Age(k)) \in Nat /\ Older(Ago(k)) \in Nat
    BY <2>2, SyncTimerAssumption DEF Older
  <2> QED
    BY <2>1, <2>2, <2>3, <2>4
<1> QED
  BY SyncInitInv, SyncStep, <1>1, PTL DEF SyncSpec, CadenceKept

-----------------------------------------------------------------------------
(* Collections.                                                               *)


LEMMA ConstantTypes == Invoices \subseteq Nat /\ OneDay \in Nat /\ OneDay > 0 /\ LastHour \in Nat
  BY CollectionsAssumption

(* The time of the last touch lies a day before the next one, and what a run   *)
(* has ahead alone and in its turn was not touched within the day.             *)
DayApart(i) == touched[i].at = -1 \/ hour >= touched[i].at + OneDay \/ touched[i].again
NextApart == \A i \in Invoices :
  workflow[i].next >= touched[i].at + OneDay \/ touched[i].at = -1 \/ touched[i].again
AheadApart == \A r \in DunningRuns : \A i \in dunning[r].ahead \ dunning[r].early : DayApart(i)
TogetherIsEarly ==
  \A r, x \in DunningRuns :
    r # x => dunning[r].ahead \cap dunning[x].ahead \subseteq dunning[r].early

CInv == DunningTypeOK /\ NextApart /\ AheadApart /\ TogetherIsEarly

-----------------------------------------------------------------------------
(* A run drafts only rows it had, and the first of them is not paid.           *)
LEMMA ToDraftFacts ==
  ASSUME NEW rows \in SUBSET Invoices, NEW begins
  PROVE  /\ ToDraft(rows, begins) \subseteq rows
         /\ \A i \in Invoices : IsFirst(i, ToDraft(rows, begins)) => i \notin paid
<1>1. ToDraft(rows, begins) \subseteq rows
  BY DEF ToDraft
<1>2. ASSUME NEW i \in Invoices, IsFirst(i, ToDraft(rows, begins))
      PROVE  i \notin paid
  <2>1. PICK u \in rows \ paid : u <= i
    BY <1>2 DEF IsFirst, ToDraft
  <2>2. u \in Nat /\ i \in Nat
    BY ConstantTypes
  <2>3. u \in ToDraft(rows, begins)
    BY <2>1, <2>2 DEF ToDraft
  <2>4. i <= u
    BY <1>2, <2>3 DEF IsFirst
  <2> QED BY <2>1, <2>2, <2>4
<1> QED BY <1>1, <1>2

(* Closing workflows leaves their next cycle alone.                            *)
LEMMA ClosedFacts ==
  ASSUME DunningTypeOK, NEW bills
  PROVE  /\ Closed(bills) \in [Invoices -> [status : {"none", "active", "paused", "stopped", "done"},
                                            next : 0..(LastHour + OneDay)]]
         /\ \A i \in Invoices : Closed(bills)[i].next = workflow[i].next
  BY DEF DunningTypeOK, Closed

LEMMA DunningInitOK == DunningInit => CInv
<1> SUFFICES ASSUME DunningInit PROVE CInv
  OBVIOUS
<1> USE DEF DunningInit
<1>1. DunningTypeOK
  <2>1. workflow \in [Invoices -> [status : {"none", "active", "paused", "stopped", "done"},
                                   next : 0..(LastHour + OneDay)]]
    BY ConstantTypes
  <2>2. touched \in [Invoices -> [at : -1..LastHour, again : BOOLEAN]]
    BY ConstantTypes
  <2>3. dunning \in [DunningRuns -> [ahead : SUBSET Invoices, early : SUBSET Invoices]]
    BY DEF NoDunning
  <2> QED BY <2>1, <2>2, <2>3, ConstantTypes DEF DunningTypeOK
<1>2. NextApart /\ AheadApart /\ TogetherIsEarly
  BY DEF NextApart, AheadApart, TogetherIsEarly, NoDunning
<1> QED BY <1>1, <1>2 DEF CInv

LEMMA RunOK ==
  ASSUME CInv, NEW force \in BOOLEAN, RunDailyCollection(force)
  PROVE  CInv' /\ \A i \in paid : Drafting(i)' \subseteq Drafting(i)
<1> USE DEF CInv, DunningTypeOK
<1> DEFINE rows == DueBills(force)
           ahead == ToDraft(rows, TRUE)
           notDue == {i \in ahead : workflow[i].next > hour}
           early == notDue \cup (ahead \cap InHands)
<1>1. rows \in SUBSET Invoices
  BY DEF DueBills
<1>2. ahead \in SUBSET Invoices /\ \A i \in Invoices : IsFirst(i, ahead) => i \notin paid
  BY <1>1, ToDraftFacts
<1> HIDE DEF ahead, rows
<1>3. PICK r \in DunningRuns :
        /\ dunning[r] = NoDunning
        /\ workflow' = Closed(PassedBy(rows, TRUE))
        /\ dunning' = [x \in DunningRuns |->
                         IF x = r THEN [ahead |-> ahead, early |-> early]
                         ELSE [dunning[x] EXCEPT !.early = @ \cup (dunning[x].ahead \cap ahead)]]
        /\ UNCHANGED <<hour, paid, touched>>
  BY DEF RunDailyCollection, rows, ahead
<1>4. /\ dunning'[r] = [ahead |-> ahead, early |-> early]
      /\ \A x \in DunningRuns \ {r} :
           /\ (dunning'[x]).ahead = dunning[x].ahead
           /\ (dunning'[x]).early = dunning[x].early \cup (dunning[x].ahead \cap ahead)
  BY <1>3
<1>5. DunningTypeOK'
  <2>1. early \in SUBSET Invoices
    BY <1>2
  <2>2. dunning' \in [DunningRuns -> [ahead : SUBSET Invoices, early : SUBSET Invoices]]
    BY <1>2, <1>3, <2>1
  <2> QED BY <1>3, <2>2, ClosedFacts
<1>6. NextApart'
  BY <1>3, ClosedFacts DEF NextApart
<1>7. AheadApart'
  <2> SUFFICES ASSUME NEW x \in DunningRuns, NEW i \in (dunning'[x]).ahead \ (dunning'[x]).early
               PROVE  DayApart(i)'
    BY DEF AheadApart
  <2>1. CASE x = r
    <3>a. i \in ahead /\ i \notin early
      BY <1>4, <2>1
    <3>b. i \in Invoices
      BY <1>2, <3>a
    <3>c. workflow[i].next \in Int
      BY <3>b, ConstantTypes
    <3>1. i \in Invoices /\ workflow[i].next \in Int /\ ~(workflow[i].next > hour)
      BY <3>a, <3>b, <3>c
    <3>2. hour \in Int /\ touched[i].at \in Int /\ OneDay \in Int
      BY <3>1, ConstantTypes
    <3>3. DayApart(i)
      BY <3>1, <3>2 DEF NextApart, DayApart
    <3> QED BY <1>3, <3>3 DEF DayApart
  <2>2. CASE x # r
    BY <1>3, <1>4, <2>2 DEF AheadApart, DayApart
  <2> QED BY <2>1, <2>2
<1>8. TogetherIsEarly'
  <2> SUFFICES ASSUME NEW y \in DunningRuns, NEW x \in DunningRuns, y # x,
                      NEW i \in (dunning'[y]).ahead \cap (dunning'[x]).ahead
               PROVE  i \in (dunning'[y]).early
    BY DEF TogetherIsEarly
  <2>1. CASE y = r
    BY <1>4, <2>1 DEF InHands
  <2>2. CASE x = r
    BY <1>4, <2>2
  <2>3. CASE y # r /\ x # r
    BY <1>4, <2>3 DEF TogetherIsEarly
  <2> QED BY <2>1, <2>2, <2>3
<1>9. ASSUME NEW i \in paid, NEW x \in Drafting(i)'
      PROVE  x \in Drafting(i)
  <2>1. x \in DunningRuns /\ IsFirst(i, (dunning'[x]).ahead) /\ i \in Invoices
    BY <1>9 DEF Drafting, IsFirst
  <2>2. x # r
    BY <1>2, <1>4, <1>9, <2>1
  <2> QED BY <1>4, <2>1, <2>2 DEF Drafting
<1> QED BY <1>5, <1>6, <1>7, <1>8, <1>9

LEMMA DraftedOK ==
  ASSUME CInv, NEW r \in DunningRuns, NEW i \in Invoices, Drafted(r, i)
  PROVE  CInv' /\ (\A o \in paid : Drafting(o)' \subseteq Drafting(o)) /\ (DayApart(i) \/ i \in dunning[r].early)
<1> USE DEF CInv, DunningTypeOK
<1> DEFINE rest == dunning[r].ahead \ {i}
           ahead == ToDraft(rest, FALSE)
<1>1. rest \in SUBSET Invoices /\ i \in dunning[r].ahead
  BY DEF Drafted, IsFirst
<1>2. ahead \subseteq rest /\ \A o \in Invoices : IsFirst(o, ahead) => o \notin paid
  BY <1>1, ToDraftFacts
<1>3. /\ touched' = [touched EXCEPT ![i] = [at |-> hour, again |-> FALSE]]
      /\ workflow' = [Closed(PassedBy(rest, FALSE)) EXCEPT ![i].next = hour + OneDay]
      /\ dunning' = [dunning EXCEPT ![r] = IF ahead = {} THEN NoDunning ELSE [@ EXCEPT !.ahead = ahead]]
      /\ UNCHANGED <<hour, paid>>
  BY DEF Drafted, Touched, NextCycle
<1> DEFINE closed == Closed(PassedBy(rest, FALSE))
<1>c. /\ closed \in [Invoices -> [status : {"none", "active", "paused", "stopped", "done"},
                                  next : 0..(LastHour + OneDay)]]
      /\ \A o \in Invoices : closed[o].next = workflow[o].next
  BY ClosedFacts
<1>w. workflow' = [closed EXCEPT ![i].next = hour + OneDay]
  BY <1>3
<1> HIDE DEF ahead, rest, closed
<1>4. /\ \A x \in DunningRuns \ {r} : dunning'[x] = dunning[x]
      /\ (dunning'[r]).ahead = ahead
      /\ ahead # {} => (dunning'[r]).early = dunning[r].early
  BY <1>3 DEF NoDunning
<1>5. /\ \A o \in Invoices \ {i} : touched'[o] = touched[o] /\ (workflow'[o]).next = workflow[o].next
      /\ touched'[i] = [at |-> hour, again |-> FALSE] /\ (workflow'[i]).next = hour + OneDay
  <2>1. i \in DOMAIN touched /\ i \in DOMAIN closed /\ i \in Invoices
    BY <1>c
  <2>2. touched'[i] = [at |-> hour, again |-> FALSE] /\ \A o \in Invoices \ {i} : touched'[o] = touched[o]
    BY <1>3, <2>1
  <2>3. (workflow'[i]).next = hour + OneDay /\ \A o \in Invoices \ {i} : workflow'[o] = closed[o]
    BY <1>c, <1>w, <2>1
  <2> QED BY <1>c, <2>2, <2>3
<1>6. DunningTypeOK'
  <2>1. hour + OneDay \in 0..(LastHour + OneDay) /\ hour \in -1..LastHour
    BY ConstantTypes
  <2>2. workflow' \in [Invoices -> [status : {"none", "active", "paused", "stopped", "done"},
                                    next : 0..(LastHour + OneDay)]]
    BY SMTT(40), <1>c, <1>w, <2>1
  <2>3. touched' \in [Invoices -> [at : -1..LastHour, again : BOOLEAN]]
    BY <1>3, <2>1
  <2>4. ahead \in SUBSET Invoices
    BY <1>1, <1>2 DEF rest
  <2>5. dunning' \in [DunningRuns -> [ahead : SUBSET Invoices, early : SUBSET Invoices]]
    BY <1>3, <2>4 DEF NoDunning
  <2> QED BY <1>3, <2>2, <2>3, <2>5
<1>7. NextApart'
  BY <1>5, ConstantTypes DEF NextApart
<1>8. AheadApart'
  <2> SUFFICES ASSUME NEW x \in DunningRuns, NEW o \in (dunning'[x]).ahead \ (dunning'[x]).early
               PROVE  DayApart(o)'
    BY DEF AheadApart
  <2>1. o # i /\ o \in Invoices /\ o \in dunning[x].ahead \ dunning[x].early
    <3>1. CASE x = r
      BY <1>2, <1>4, <3>1, <1>1 DEF rest
    <3>2. CASE x # r
      BY <1>1, <1>4, <3>2 DEF TogetherIsEarly
    <3> QED BY <3>1, <3>2
  <2> QED BY <1>3, <1>5, <2>1 DEF AheadApart, DayApart
<1>9. TogetherIsEarly'
  <2> SUFFICES ASSUME NEW y \in DunningRuns, NEW x \in DunningRuns, y # x,
                      NEW o \in (dunning'[y]).ahead \cap (dunning'[x]).ahead
               PROVE  o \in (dunning'[y]).early
    BY DEF TogetherIsEarly
  <2>1. o \in dunning[y].ahead \cap dunning[x].ahead
    BY <1>2, <1>4 DEF rest
  <2>2. o \in dunning[y].early
    BY <2>1 DEF TogetherIsEarly
  <2> QED BY <1>4, <2>2
<1>10. ASSUME NEW o \in paid, NEW x \in Drafting(o)'
       PROVE  x \in Drafting(o)
  <2>1. x \in DunningRuns /\ IsFirst(o, (dunning'[x]).ahead) /\ o \in Invoices
    BY <1>10 DEF Drafting, IsFirst
  <2>2. x # r
    BY <1>2, <1>4, <1>10, <2>1
  <2> QED BY <1>4, <2>1, <2>2 DEF Drafting
<1>11. DayApart(i) \/ i \in dunning[r].early
  BY <1>1 DEF AheadApart
<1> QED BY <1>6, <1>7, <1>8, <1>9, <1>10, <1>11

-----------------------------------------------------------------------------
(* The actions that leave what the runs have ahead alone or drop it.           *)
LEMMA DunningRestartOK == 
  ASSUME CInv, DunningRestart
  PROVE  CInv' /\ \A o \in paid : Drafting(o)' = {}
<1> USE DEF CInv, DunningTypeOK
<1>1. /\ dunning' = [r \in DunningRuns |-> NoDunning] /\ UNCHANGED <<hour, paid, workflow>>
  BY DEF DunningRestart
<1>2. \A o \in Invoices : touched'[o] = touched[o] \/ (touched'[o]).again
  BY DEF DunningRestart
<1>3. touched' \in [Invoices -> [at : -1..LastHour, again : BOOLEAN]]
  <2>1. hour \in -1..LastHour
    BY ConstantTypes
  <2>2. CASE UNCHANGED touched
    BY <2>2
  <2>3. ASSUME NEW i \in Invoices, touched' = [touched EXCEPT ![i] = [at |-> hour, again |-> TRUE]]
        PROVE  touched' \in [Invoices -> [at : -1..LastHour, again : BOOLEAN]]
    BY <2>1, <2>3
  <2> QED BY <2>2, <2>3 DEF DunningRestart
<1>4. dunning' \in [DunningRuns -> [ahead : SUBSET Invoices, early : SUBSET Invoices]]
  BY <1>1 DEF NoDunning
<1>5. NextApart'
  BY <1>1, <1>2 DEF NextApart
<1>6. AheadApart' /\ TogetherIsEarly' /\ \A o \in paid : Drafting(o)' = {}
  BY <1>1 DEF AheadApart, TogetherIsEarly, Drafting, IsFirst, NoDunning
<1> QED BY <1>1, <1>3, <1>4, <1>5, <1>6

LEMMA PayOK ==
  ASSUME CInv, NEW i \in Invoices, MarkPaid(i) \/ MarkPaidInterrupted(i)
  PROVE  CInv' /\ \A o \in paid : Drafting(o)' \subseteq Drafting(o)
<1> USE DEF CInv, DunningTypeOK
<1>1. /\ UNCHANGED <<hour, touched>> /\ paid' = paid \cup {i}
      /\ dunning' = dunning \/ dunning' = [r \in DunningRuns |-> NoDunning]
      /\ workflow' = workflow \/ workflow' = Closed({i})
  BY DEF MarkPaid, MarkPaidInterrupted
<1>2. /\ workflow' \in [Invoices -> [status : {"none", "active", "paused", "stopped", "done"},
                                    next : 0..(LastHour + OneDay)]]
      /\ \A o \in Invoices : (workflow'[o]).next = workflow[o].next
  BY <1>1, ClosedFacts
<1>3. DunningTypeOK'
  BY <1>1, <1>2 DEF NoDunning
<1>4. NextApart'
  BY <1>1, <1>2 DEF NextApart
<1>5. AheadApart' /\ TogetherIsEarly' /\ \A o \in paid : Drafting(o)' \subseteq Drafting(o)
  BY <1>1 DEF AheadApart, TogetherIsEarly, DayApart, Drafting, IsFirst, NoDunning
<1> QED BY <1>3, <1>4, <1>5

LEMMA ByHandOK ==
  ASSUME CInv, NEW i \in Invoices,
         Arm(i) \/ \E status \in {"paused", "stopped"} : HoldWorkflow(i, status)
  PROVE  CInv' /\ UNCHANGED dunning
<1> USE DEF CInv, DunningTypeOK
<1>1. UNCHANGED <<hour, paid, dunning>>
  BY DEF Arm, HoldWorkflow
<1>2. CASE Arm(i)
  <2>1. /\ workflow' = [workflow EXCEPT ![i] = [status |-> "active", next |-> hour]]
        /\ touched' = [touched EXCEPT ![i].again = TRUE]
    BY <1>2 DEF Arm
  <2>2. hour \in 0..(LastHour + OneDay)
    BY ConstantTypes
  <2>3. DunningTypeOK'
    BY <1>1, <2>1, <2>2
  <2>4. \A o \in Invoices : /\ (touched'[o]).at = touched[o].at
                            /\ touched[o].again => (touched'[o]).again
                            /\ (touched'[o]).again \/ (workflow'[o]).next = workflow[o].next
    BY <2>1
  <2>5. NextApart'
    BY <2>4 DEF NextApart
  <2>6. AheadApart' /\ TogetherIsEarly'
    BY <1>1, <2>4 DEF AheadApart, TogetherIsEarly, DayApart
  <2> QED BY <1>1, <2>3, <2>5, <2>6
<1>3. CASE \E status \in {"paused", "stopped"} : HoldWorkflow(i, status)
  <2>1. PICK status \in {"paused", "stopped"} :
          workflow' = [workflow EXCEPT ![i].status = status] /\ touched' = touched
    BY <1>3 DEF HoldWorkflow
  <2>2. DunningTypeOK' /\ \A o \in Invoices : (workflow'[o]).next = workflow[o].next
    BY <1>1, <2>1
  <2> QED BY <1>1, <2>1, <2>2 DEF NextApart, AheadApart, TogetherIsEarly, DayApart
<1> QED BY <1>1, <1>2, <1>3

LEMMA HourOK ==
  ASSUME CInv, HourPasses
  PROVE  CInv' /\ UNCHANGED dunning
<1> USE DEF CInv, DunningTypeOK
<1>1. hour' = hour + 1 /\ hour < LastHour /\ UNCHANGED <<paid, workflow, dunning, touched>>
  BY DEF HourPasses
<1>2. hour' \in 0..LastHour /\ hour' > hour
  BY <1>1, ConstantTypes
<1>3. NextApart' /\ TogetherIsEarly'
  BY <1>1 DEF NextApart, TogetherIsEarly
<1>4. AheadApart'
  <2> SUFFICES ASSUME NEW x \in DunningRuns, NEW o \in dunning[x].ahead \ dunning[x].early
               PROVE  DayApart(o)'
    BY <1>1 DEF AheadApart
  <2>1. DayApart(o) /\ o \in Invoices
    BY DEF AheadApart
  <2>2. touched[o].at \in Int /\ hour \in Int /\ OneDay \in Int
    BY <2>1, ConstantTypes
  <2> QED BY <1>1, <2>1, <2>2 DEF DayApart
<1> QED BY <1>1, <1>2, <1>3, <1>4

-----------------------------------------------------------------------------
LEMMA DunningNextOK ==
  CInv /\ [DunningNext]_dunningVars =>
    /\ CInv'
    /\ [\A i \in paid : Drafting(i)' \subseteq Drafting(i)]_dunningVars
    /\ [\A r \in DunningRuns, i \in Invoices : Drafted(r, i) =>
          \/ touched[i].at = -1 \/ hour >= touched[i].at + OneDay
          \/ touched[i].again \/ i \in dunning[r].early]_dunningVars
<1> SUFFICES ASSUME CInv, [DunningNext]_dunningVars
             PROVE  /\ CInv'
                    /\ \A i \in paid : Drafting(i)' \subseteq Drafting(i)
                    /\ \A r \in DunningRuns, i \in Invoices : Drafted(r, i) =>
                          \/ touched[i].at = -1 \/ hour >= touched[i].at + OneDay
                          \/ touched[i].again \/ i \in dunning[r].early
  OBVIOUS
<1>1. \A r \in DunningRuns, i \in Invoices : Drafted(r, i) =>
        \/ touched[i].at = -1 \/ hour >= touched[i].at + OneDay
        \/ touched[i].again \/ i \in dunning[r].early
  BY DraftedOK DEF DayApart
<1>2. ASSUME NEW force \in BOOLEAN, RunDailyCollection(force)
      PROVE  CInv' /\ \A i \in paid : Drafting(i)' \subseteq Drafting(i)
  BY <1>2, RunOK
<1>3. ASSUME NEW i \in Invoices, NEW r \in DunningRuns, Drafted(r, i)
      PROVE  CInv' /\ \A o \in paid : Drafting(o)' \subseteq Drafting(o)
  BY <1>3, DraftedOK
<1>4. ASSUME NEW i \in Invoices, MarkPaid(i) \/ MarkPaidInterrupted(i)
      PROVE  CInv' /\ \A o \in paid : Drafting(o)' \subseteq Drafting(o)
  BY <1>4, PayOK
<1>5. ASSUME NEW i \in Invoices,
             Enroll(i) \/ ResumeWorkflow(i) \/ HoldWorkflow(i, "paused") \/ HoldWorkflow(i, "stopped")
      PROVE  CInv' /\ UNCHANGED dunning
  BY <1>5, ByHandOK DEF Enroll, ResumeWorkflow
<1>6. ASSUME DunningRestart
      PROVE  CInv' /\ \A o \in paid : Drafting(o)' \subseteq Drafting(o)
  BY <1>6, DunningRestartOK
<1>7. ASSUME HourPasses
      PROVE  CInv' /\ UNCHANGED dunning
  BY <1>7, HourOK
<1>8. ASSUME UNCHANGED dunningVars
      PROVE  CInv' /\ UNCHANGED dunning
  BY <1>8 DEF dunningVars, CInv, DunningTypeOK, NextApart, AheadApart, TogetherIsEarly, DayApart
<1>9. UNCHANGED dunning => \A i \in paid : Drafting(i)' \subseteq Drafting(i)
  BY DEF Drafting
<1>10. CInv'
  BY <1>2, <1>3, <1>4, <1>5, <1>6, <1>7, <1>8 DEF DunningNext
<1>11. \A i \in paid : Drafting(i)' \subseteq Drafting(i)
  BY <1>2, <1>3, <1>4, <1>5, <1>6, <1>7, <1>8, <1>9 DEF DunningNext
<1> QED BY <1>1, <1>10, <1>11

(* Once an invoice is paid no message of it is begun.                          *)
THEOREM ThePaidAreLeftAlone == DunningSpec => PaidIsNotChased
  BY DunningInitOK, DunningNextOK, PTL DEF DunningSpec, PaidIsNotChased

(* A second message within a day takes a person, two runs with the invoice in  *)
(* hand, or a restart between the messages and the UPDATE.                     *)
THEOREM OneMessageADay == DunningSpec => OnceADay
  BY DunningInitOK, DunningNextOK, PTL DEF DunningSpec, OnceADay

-----------------------------------------------------------------------------
(* Mail by the clock.                                                         *)

TakenBy(r, m) == mailRun[r].pc = "taken" /\ IsAt(r, m)
MayGo(m, at) == PeriodOver(m, at) \/ mailed[m].again

(* Neither a mark of a day nor a run is of the future, and a flag is a flag.  *)
NotOfTheFuture ==
  /\ \A m \in Daily : mark[m] <= Day(clock)
  /\ \A r \in MailRuns : mailRun[r].at <= clock
FlagsAreFlags == \A m \in BootMails : mark[m] \in {0, 1}

(* A mail that went out has a mark that tells it, or the run that has it will *)
(* set one, or a mark was lost.                                               *)
MarkTells == \A m \in Mails :
  \/ mailed[m].at = -1 \/ mark[m] >= Mark(m, mailed[m].at) \/ mailed[m].again
  \/ \E r \in MailRuns : TakenBy(r, m)

(* What a run has ahead alone may go out.                                     *)
AheadMayGo == \A r \in MailRuns : \A m \in mailRun[r].ahead \ mailRun[r].shared :
  TakenBy(r, m) \/ MayGo(m, mailRun[r].at)
TogetherIsShared == \A r, x \in MailRuns :
  r # x => mailRun[r].ahead \cap mailRun[x].ahead \subseteq mailRun[r].shared

(* A process comes to a one-time mail once; a claim stands while it is sent.  *)
OneTimeAlone == \A r \in MailRuns : \A m \in BootMails \cap mailRun[r].ahead :
  m \notin toBoot /\ m \notin mailRun[r].shared /\ (m \in Claimed => mark[m] = 1)

MailInv ==
  /\ MailTypeOK /\ NotOfTheFuture /\ FlagsAreFlags
  /\ MarkTells /\ AheadMayGo /\ TogetherIsShared /\ OneTimeAlone

MarkType == [Mails -> -1..(MaxTime + WeekLength)]
MailRunType == [MailRuns -> [pc : {"idle", "sending", "taken"}, ahead : SUBSET Mails,
                             at : 0..MaxTime, shared : SUBSET Mails]]

-----------------------------------------------------------------------------
(* The days are numbered in their order.                                      *)
LEMMA DaysInOrder ==
  /\ \A t \in Nat : Day(t) \in Nat /\ Day(t) <= t
  /\ \A t, u \in Nat : t <= u => Day(t) <= Day(u)
<1>1. DayLength \in Nat /\ DayLength > 0
  BY ScheduledMailAssumption
<1>2. ASSUME NEW t \in Nat PROVE Day(t) \in Nat /\ Day(t) <= t
  BY <1>1 DEF Day
<1>3. ASSUME NEW t \in Nat, NEW u \in Nat, t <= u PROVE Day(t) <= Day(u)
  BY <1>1, <1>3 DEF Day
<1> QED BY <1>2, <1>3

LEMMA MailNumbers ==
  /\ Mails \subseteq Nat /\ Daily \subseteq Mails /\ Weekly \subseteq Mails /\ BootMails \subseteq Mails
  /\ \A m \in Daily : m \notin Weekly /\ m \notin BootMails
  /\ \A m \in BootMails : m \notin Weekly /\ m \notin Daily
  /\ Claimed \subseteq BootMails /\ MaxTime \in Nat /\ WeekLength \in Nat \ {0}
  BY ScheduledMailAssumption DEF Mails

(* A run is at one mail.                                                      *)
LEMMA IsAtOne ==
  ASSUME MailTypeOK, NEW r \in MailRuns, NEW m, NEW o, IsAt(r, m), IsAt(r, o)
  PROVE  m = o
<1>1. m \in Nat /\ o \in Nat /\ m <= o /\ o <= m
  BY MailNumbers DEF IsAt, MailTypeOK, MailRunType
<1> QED BY <1>1

LEMMA MarkTypes ==
  \A m \in Mails, at \in 0..MaxTime : Mark(m, at) \in -1..(MaxTime + WeekLength)
<1> SUFFICES ASSUME NEW m \in Mails, NEW at \in 0..MaxTime
             PROVE  Mark(m, at) \in -1..(MaxTime + WeekLength)
  OBVIOUS
<1>1. at + WeekLength \in -1..(MaxTime + WeekLength) /\ 1 \in -1..(MaxTime + WeekLength)
  BY MailNumbers
<1>2. Day(at) \in -1..(MaxTime + WeekLength)
  BY MailNumbers, DaysInOrder
<1> QED BY <1>1, <1>2 DEF Mark

-----------------------------------------------------------------------------
(* How a run begins and how it goes on.                                       *)
LEMMA BeginFacts ==
  ASSUME MailTypeOK, NEW mails \in SUBSET Mails, Begin(mails)
  PROVE  /\ mailRun' \in MailRunType
         /\ \E r \in MailRuns :
              /\ mailRun[r].pc = "idle"
              /\ mailRun'[r].pc # "taken" /\ mailRun'[r].at <= clock
              /\ mailRun'[r].ahead = Ahead(mails, clock)
              /\ Ahead(mails, clock) # {} =>
                   mailRun'[r].at = clock /\ mailRun'[r].shared = InHand \cap mails
              /\ \A x \in MailRuns \ {r} :
                   /\ mailRun'[x].pc = mailRun[x].pc /\ mailRun'[x].ahead = mailRun[x].ahead
                   /\ mailRun'[x].at = mailRun[x].at
                   /\ mailRun'[x].shared = mailRun[x].shared \cup (mailRun[x].ahead \cap mails)
<1> USE DEF MailTypeOK
<1> DEFINE left == Ahead(mails, clock)
           shared == InHand \cap mails
           fresh == Going(mails, clock, shared)
<1>1. left \in SUBSET Mails /\ shared \in SUBSET Mails
  BY DEF Ahead
<1>2. clock \in 0..MaxTime /\ 0 \in 0..MaxTime /\ clock >= 0
  BY MailNumbers
<1>3. /\ fresh = IF left = {} THEN [pc |-> "idle", ahead |-> {}, at |-> 0, shared |-> {}]
                 ELSE [pc |-> "sending", ahead |-> left, at |-> clock, shared |-> shared]
  BY DEF Going, NoRun
<1> HIDE DEF left, shared, fresh
<1>4. /\ fresh \in [pc : {"idle", "sending", "taken"}, ahead : SUBSET Mails,
                    at : 0..MaxTime, shared : SUBSET Mails]
      /\ fresh.pc # "taken" /\ fresh.at <= clock /\ fresh.ahead = left
      /\ left # {} => fresh.at = clock /\ fresh.shared = shared
  BY <1>1, <1>2, <1>3
<1>5. PICK r \in MailRuns :
        /\ mailRun[r].pc = "idle"
        /\ mailRun' = [x \in MailRuns |->
                         IF x = r THEN fresh
                         ELSE [mailRun[x] EXCEPT !.shared = @ \cup (mailRun[x].ahead \cap mails)]]
  BY DEF Begin, fresh, shared
<1>6. mailRun'[r] = fresh
  BY <1>5
<1>7. ASSUME NEW x \in MailRuns \ {r}
      PROVE  /\ mailRun'[x].pc = mailRun[x].pc /\ mailRun'[x].ahead = mailRun[x].ahead
             /\ mailRun'[x].at = mailRun[x].at
             /\ mailRun'[x].shared = mailRun[x].shared \cup (mailRun[x].ahead \cap mails)
  BY <1>5
<1>8. mailRun' \in MailRunType
  BY <1>4, <1>5 DEF MailRunType
<1> QED BY <1>4, <1>5, <1>6, <1>7, <1>8 DEF left, shared

LEMMA GoesOnFacts ==
  ASSUME MailTypeOK, NEW r \in MailRuns, NEW m \in Mails, GoesOnMailing(r, m)
  PROVE  /\ mailRun' \in MailRunType
         /\ mailRun'[r].pc # "taken" /\ mailRun'[r].at <= mailRun[r].at
         /\ mailRun'[r].ahead \subseteq mailRun[r].ahead \ {m}
         /\ mailRun'[r].ahead # {} =>
              mailRun'[r].at = mailRun[r].at /\ mailRun'[r].shared = mailRun[r].shared
         /\ \A x \in MailRuns \ {r} : mailRun'[x] = mailRun[x]
<1> USE DEF MailTypeOK
<1> DEFINE left == Ahead(mailRun[r].ahead \ {m}, mailRun[r].at)
           run == Going(mailRun[r].ahead \ {m}, mailRun[r].at, mailRun[r].shared)
<1>1. left \subseteq mailRun[r].ahead \ {m} /\ left \in SUBSET Mails
  BY DEF Ahead
<1>2. mailRun[r].at \in 0..MaxTime /\ 0 \in 0..MaxTime
  BY MailNumbers
<1>3. run = IF left = {} THEN [pc |-> "idle", ahead |-> {}, at |-> 0, shared |-> {}]
            ELSE [pc |-> "sending", ahead |-> left, at |-> mailRun[r].at, shared |-> mailRun[r].shared]
  BY DEF Going, NoRun
<1>4. mailRun' = [mailRun EXCEPT ![r] = run]
  BY DEF GoesOnMailing
<1> HIDE DEF left, run
<1>5. /\ run \in [pc : {"idle", "sending", "taken"}, ahead : SUBSET Mails,
                  at : 0..MaxTime, shared : SUBSET Mails]
      /\ run.pc # "taken" /\ run.at <= mailRun[r].at /\ run.ahead = left
      /\ left # {} => run.at = mailRun[r].at /\ run.shared = mailRun[r].shared
  BY <1>1, <1>2, <1>3
<1>6. mailRun'[r] = run /\ \A x \in MailRuns \ {r} : mailRun'[x] = mailRun[x]
  BY <1>4
<1>7. mailRun' \in MailRunType
  BY <1>4, <1>5 DEF MailRunType
<1> QED BY <1>1, <1>5, <1>6, <1>7

-----------------------------------------------------------------------------
(* A run that begins with mails which may go out, and claims those to claim.  *)
LEMMA BeginOK ==
  ASSUME MailInv, NEW mails \in SUBSET Mails, Begin(mails), UNCHANGED <<clock, mailed>>,
         toBoot' \subseteq toBoot, mark' \in MarkType,
         \A m \in Mails : mark'[m] = mark[m] \/ (m \in Claimed \cap mails /\ mark'[m] = 1),
         \A m \in mails : m \in Weekly => mark[m] <= clock,
         \A m \in mails \cap BootMails :
           /\ m \in toBoot /\ m \notin toBoot' /\ mark[m] # 1
           /\ m \in Claimed => mark'[m] = 1
  PROVE  MailInv'
<1> USE DEF MailInv, MailTypeOK
<1>m. /\ Daily \subseteq Mails /\ BootMails \subseteq Mails /\ Weekly \subseteq Mails /\ Mails \subseteq Nat
      /\ \A m \in Daily : m \notin BootMails /\ m \notin Weekly /\ m \notin Claimed
      /\ \A m \in BootMails : m \notin Weekly /\ m \notin Daily
      /\ WeekLength \in Nat
  BY MailNumbers
<1>1. PICK r \in MailRuns :
              /\ mailRun[r].pc = "idle"
              /\ mailRun'[r].pc # "taken" /\ mailRun'[r].at <= clock
              /\ mailRun'[r].ahead = Ahead(mails, clock)
              /\ Ahead(mails, clock) # {} =>
                   mailRun'[r].at = clock /\ mailRun'[r].shared = InHand \cap mails
              /\ \A x \in MailRuns \ {r} :
                   /\ mailRun'[x].pc = mailRun[x].pc /\ mailRun'[x].ahead = mailRun[x].ahead
                   /\ mailRun'[x].at = mailRun[x].at
                   /\ mailRun'[x].shared = mailRun[x].shared \cup (mailRun[x].ahead \cap mails)
  BY BeginFacts
<1>2. Ahead(mails, clock) \subseteq mails
  BY DEF Ahead
<1>3. MailTypeOK'
  BY BeginFacts DEF MarkType, MailRunType
<1>4. NotOfTheFuture'
  <2>1. \A m \in Daily : mark'[m] = mark[m]
    BY <1>m
  <2>2. \A x \in MailRuns : mailRun'[x].at <= clock
    BY <1>1 DEF NotOfTheFuture
  <2>3. \A m \in Daily : mark'[m] <= Day(clock)
    BY <2>1 DEF NotOfTheFuture
  <2> QED BY <2>2, <2>3 DEF NotOfTheFuture, Day
<1>5. FlagsAreFlags'
  BY <1>m DEF FlagsAreFlags
<1>6. \A x \in MailRuns, m \in Mails : TakenBy(x, m)' <=> TakenBy(x, m)
  BY <1>1 DEF TakenBy, IsAt
<1>7. MarkTells'
  <2> SUFFICES ASSUME NEW m \in Mails,
                      ~(mailed[m].at = -1 \/ mailed[m].again \/ \E x \in MailRuns : TakenBy(x, m)')
               PROVE  mark'[m] >= Mark(m, mailed[m].at)
    BY DEF MarkTells, Mark, Day
  <2>1. mark[m] >= Mark(m, mailed[m].at)
    BY <1>6 DEF MarkTells
  <2>2. CASE m \in Claimed /\ mark'[m] = 1
    BY <2>2, <1>m, MailNumbers DEF Mark
  <2> QED BY <2>1, <2>2
(* What was read and is in no other hands may go out.                         *)
<1>8. ASSUME NEW m \in Ahead(mails, clock), m \notin InHand
      PROVE  MayGo(m, clock)
  <2>1. m \in Mails /\ \A x \in MailRuns : ~TakenBy(x, m)
    BY <1>2, <1>8 DEF InHand, TakenBy, IsAt
  <2> SUFFICES ASSUME mailed[m].at # -1, ~mailed[m].again
               PROVE  PeriodOver(m, clock)
    BY DEF MayGo, PeriodOver
  <2>2. mark[m] >= Mark(m, mailed[m].at) /\ mark[m] \in Int
    BY <2>1 DEF MarkTells
  <2>3. CASE m \in Weekly
    <3>1. mark[m] <= clock
      BY <1>2, <2>3
    <3>2. mark[m] >= mailed[m].at + WeekLength
      BY <2>2, <2>3 DEF Mark
    <3>3. clock \in Int /\ mailed[m].at \in Int /\ WeekLength \in Int
      BY <2>1, <1>m
    <3> QED BY <2>2, <2>3, <3>1, <3>2, <3>3 DEF PeriodOver
  <2>4. CASE m \in Daily
    <3>1. mark'[m] # Day(clock) /\ mark'[m] = mark[m]
      BY <1>8, <1>m, <2>4 DEF Ahead
    <3>2. mark[m] <= Day(clock) /\ Day(clock) \in Int
      BY <2>4, DaysInOrder, MailNumbers DEF NotOfTheFuture
    <3>3. mark[m] >= Day(mailed[m].at)
      BY <2>2, <2>4, <1>m DEF Mark
    <3>4. mailed[m].at \in Nat
      BY <2>1, <1>m
    <3>5. Day(mailed[m].at) \in Int
      BY <3>4, DaysInOrder
    <3>6. Day(clock) # Day(mailed[m].at)
      <4>1. \A a, b, c \in Int : a <= b /\ a >= c /\ a # b => b # c
        OBVIOUS
      <4>2. mark[m] \in Int /\ mark[m] # Day(clock)
        BY <2>2, <3>1
      <4> QED BY <3>2, <3>3, <3>5, <4>1, <4>2
    <3> QED BY <2>4, <3>6 DEF PeriodOver
  <2>5. CASE m \in BootMails
    <3>1. mark[m] = 0
      BY <1>2, <2>5 DEF FlagsAreFlags
    <3>2. Mark(m, mailed[m].at) = 1
      BY <2>5, <1>m DEF Mark
    <3> QED BY <2>2, <3>1, <3>2
  <2> QED BY <2>1, <2>3, <2>4, <2>5 DEF Mails
<1>9. AheadMayGo'
  <2> SUFFICES ASSUME NEW x \in MailRuns, NEW m \in mailRun'[x].ahead \ mailRun'[x].shared,
                      ~TakenBy(x, m)'
               PROVE  MayGo(m, mailRun'[x].at)
    BY DEF AheadMayGo, MayGo, PeriodOver, Day
  <2>1. CASE x = r
    BY <1>1, <1>2, <1>8, <2>1
  <2>2. CASE x # r
    <3>1. m \in mailRun[x].ahead \ mailRun[x].shared /\ m \in Mails /\ mailRun'[x].at = mailRun[x].at
      BY <1>1, <2>2
    <3> QED BY <1>6, <3>1 DEF AheadMayGo
  <2> QED BY <2>1, <2>2
<1>10. TogetherIsShared'
  <2> SUFFICES ASSUME NEW y \in MailRuns, NEW x \in MailRuns, y # x,
                      NEW m \in mailRun'[y].ahead \cap mailRun'[x].ahead
               PROVE  m \in mailRun'[y].shared
    BY DEF TogetherIsShared
  <2>1. CASE y = r
    BY <1>1, <1>2, <2>1 DEF InHand
  <2>2. CASE x = r
    BY <1>1, <1>2, <2>2
  <2>3. CASE y # r /\ x # r
    BY <1>1, <2>3 DEF TogetherIsShared
  <2> QED BY <2>1, <2>2, <2>3
<1>11. OneTimeAlone'
  <2> SUFFICES ASSUME NEW x \in MailRuns, NEW m \in BootMails \cap mailRun'[x].ahead
               PROVE  m \notin toBoot' /\ m \notin mailRun'[x].shared /\ (m \in Claimed => mark'[m] = 1)
    BY DEF OneTimeAlone
  <2>1. CASE x = r
    <3>1. m \in mails /\ m \in toBoot
      BY <1>1, <1>2, <2>1
    <3>2. m \notin InHand
      BY <3>1 DEF OneTimeAlone, InHand
    <3> QED BY <1>1, <2>1, <3>1, <3>2
  <2>2. CASE x # r
    <3>1. m \in mailRun[x].ahead
      BY <1>1, <2>2
    <3>2. m \notin toBoot /\ m \notin mailRun[x].shared /\ (m \in Claimed => mark[m] = 1)
      BY <3>1 DEF OneTimeAlone
    <3>3. m \notin mails
      BY <3>2
    <3> QED BY <1>1, <1>m, <2>2, <3>2, <3>3
  <2> QED BY <2>1, <2>2
<1> QED BY <1>3, <1>4, <1>5, <1>7, <1>9, <1>10, <1>11

(* A mail that leaves the hands of a run, marked or to be sent another time.  *)
LEMMA LeaveOK ==
  ASSUME MailInv, NEW r \in MailRuns, NEW m \in Mails, IsAt(r, m), GoesOnMailing(r, m),
         UNCHANGED <<clock, toBoot>>, mark' \in MarkType,
         NEW again \in BOOLEAN, mailed[m].again => again, mailed' = [mailed EXCEPT ![m].again = again],
         \A o \in Mails \ {m} : mark'[o] = mark[o],
         \/ mailed[m].at = -1 \/ mark'[m] >= Mark(m, mailed[m].at)
         \/ again \/ \E x \in MailRuns \ {r} : TakenBy(x, m),
         m \in Daily => mark'[m] <= Day(clock),
         m \in BootMails => mark'[m] \in {0, 1}
  PROVE  MailInv'
<1> USE DEF MailInv, MailTypeOK
<1>1. /\ mailRun' \in MailRunType
      /\ mailRun'[r].pc # "taken" /\ mailRun'[r].at <= mailRun[r].at
      /\ mailRun'[r].ahead \subseteq mailRun[r].ahead \ {m}
      /\ mailRun'[r].ahead # {} =>
           mailRun'[r].at = mailRun[r].at /\ mailRun'[r].shared = mailRun[r].shared
      /\ \A x \in MailRuns \ {r} : mailRun'[x] = mailRun[x]
  BY GoesOnFacts
<1>2. /\ \A o \in Mails : mailed'[o].at = mailed[o].at /\ (mailed[o].again => mailed'[o].again)
      /\ (\A o \in Mails \ {m} : mailed'[o] = mailed[o]) /\ mailed'[m].again = again
      /\ mailed' \in [Mails -> [at : -1..MaxTime, again : BOOLEAN]]
  <2>1. mailed' \in [Mails -> [at : -1..MaxTime, again : BOOLEAN]]
    OBVIOUS
  <2>2. /\ (\A o \in Mails \ {m} : mailed'[o] = mailed[o])
        /\ mailed'[m].at = mailed[m].at /\ mailed'[m].again = again
    OBVIOUS
  <2> QED BY <2>1, <2>2
<1>m. /\ Daily \subseteq Mails /\ BootMails \subseteq Mails /\ Mails \subseteq Nat /\ MaxTime \in Nat
  BY MailNumbers
<1>3. MailTypeOK'
  BY <1>1, <1>2 DEF MarkType, MailRunType
<1>4. NotOfTheFuture'
  <2>1. \A x \in MailRuns : mailRun'[x].at <= clock
    <3>1. mailRun[r].at <= clock /\ mailRun[r].at \in Nat /\ clock \in Nat /\ mailRun'[r].at \in Nat
      BY <1>1, <1>m DEF NotOfTheFuture, MailRunType
    <3>2. mailRun'[r].at <= clock
      BY <1>1, <3>1
    <3> QED BY <1>1, <3>2 DEF NotOfTheFuture
  <2>2. \A o \in Daily : mark'[o] <= Day(clock)
    BY <1>m DEF NotOfTheFuture
  <2> QED BY <2>1, <2>2 DEF NotOfTheFuture, Day
<1>5. FlagsAreFlags'
  BY <1>m DEF FlagsAreFlags
<1>6. \A x \in MailRuns \ {r}, o \in Mails : TakenBy(x, o)' <=> TakenBy(x, o)
  BY <1>1 DEF TakenBy, IsAt
<1>7. MarkTells'
  <2> SUFFICES ASSUME NEW o \in Mails,
                      ~(mailed[o].at = -1 \/ mailed'[o].again \/ \E x \in MailRuns : TakenBy(x, o)')
               PROVE  mark'[o] >= Mark(o, mailed[o].at)
    BY <1>2 DEF MarkTells, Mark, Day
  <2>1. CASE o = m
    BY <1>6, <2>1
  <2>2. CASE o # m
    <3>1. ~TakenBy(r, o)
      BY IsAtOne, <2>2 DEF TakenBy
    <3>2. mailed'[o] = mailed[o] /\ mark'[o] = mark[o]
      BY <1>2, <2>2
    <3>3. \A x \in MailRuns : ~TakenBy(x, o)
      BY <1>6, <3>1
    <3>4. mailed[o].at = -1 \/ mark[o] >= Mark(o, mailed[o].at) \/ mailed[o].again
      BY <3>3 DEF MarkTells
    <3> QED BY <3>2, <3>4
  <2> QED BY <2>1, <2>2
<1>8. \A o \in Mails, at \in 0..MaxTime : MayGo(o, at) => MayGo(o, at)'
  BY <1>2 DEF MayGo, PeriodOver, Day
<1>9. AheadMayGo'
  <2> SUFFICES ASSUME NEW x \in MailRuns, NEW o \in mailRun'[x].ahead \ mailRun'[x].shared,
                      ~TakenBy(x, o)', NEW at, at = mailRun'[x].at
               PROVE  MayGo(o, at)'
    BY DEF AheadMayGo, MayGo, PeriodOver, Day
  <2>1. /\ o \in mailRun[x].ahead \ mailRun[x].shared /\ mailRun'[x].at = mailRun[x].at
        /\ o \in Mails /\ mailRun[x].at \in 0..MaxTime
    BY <1>1
  <2>2. ~TakenBy(x, o)
    <3>1. CASE x = r
      BY <1>1, <3>1, IsAtOne DEF TakenBy
    <3>2. CASE x # r
      BY <1>6, <2>1, <3>2
    <3> QED BY <3>1, <3>2
  <2>3. MayGo(o, at) /\ at \in 0..MaxTime
    BY <2>1, <2>2 DEF AheadMayGo
  <2> QED BY <1>8, <2>1, <2>3
<1>10. TogetherIsShared'
  <2> SUFFICES ASSUME NEW y \in MailRuns, NEW x \in MailRuns, y # x,
                      NEW o \in mailRun'[y].ahead \cap mailRun'[x].ahead
               PROVE  o \in mailRun'[y].shared
    BY DEF TogetherIsShared
  <2>1. o \in mailRun[y].ahead \cap mailRun[x].ahead /\ mailRun'[y].shared = mailRun[y].shared
    BY <1>1
  <2> QED BY <2>1 DEF TogetherIsShared
<1>11. OneTimeAlone'
  <2> SUFFICES ASSUME NEW x \in MailRuns, NEW o \in BootMails \cap mailRun'[x].ahead
               PROVE  o \notin toBoot /\ o \notin mailRun'[x].shared /\ (o \in Claimed => mark'[o] = 1)
    BY DEF OneTimeAlone
  <2>1. o \in mailRun[x].ahead /\ mailRun'[x].shared = mailRun[x].shared /\ o \in Mails
    BY <1>1, <1>m
  <2>2. o \notin toBoot /\ o \notin mailRun[x].shared /\ (o \in Claimed => mark[o] = 1)
    BY <2>1 DEF OneTimeAlone
  <2>3. o # m
    <3>1. m \in mailRun[r].ahead
      BY DEF IsAt
    <3>2. CASE x = r
      BY <1>1, <3>2
    <3>3. CASE x # r
      BY <2>1, <2>2, <3>1, <3>3 DEF TogetherIsShared
    <3> QED BY <3>2, <3>3
  <2> QED BY <2>1, <2>2, <2>3
<1> QED BY <1>3, <1>4, <1>5, <1>7, <1>9, <1>10, <1>11

(* Both marks of a mail that is done with, sent or empty.                     *)
LEMMA SetMarkOK ==
  ASSUME MailInv, NEW r \in MailRuns, NEW m \in Mails, IsAt(r, m), GoesOnMailing(r, m),
         UNCHANGED <<clock, toBoot>>, SetMark(m, mailRun[r].at)
  PROVE  MailInv'
<1> USE DEF MailInv, MailTypeOK
<1> DEFINE now == Mark(m, mailRun[r].at)
           last == Mark(m, mailed[m].at)
           again == mailed[m].again \/ now < last
<1>1. mark' = [mark EXCEPT ![m] = now] /\ mailed' = [mailed EXCEPT ![m].again = again]
  BY DEF SetMark
<1>2. now \in -1..(MaxTime + WeekLength)
  BY MarkTypes DEF MailRunType
<1>3. mark' \in MarkType /\ mark'[m] = now /\ \A o \in Mails \ {m} : mark'[o] = mark[o]
  BY <1>1, <1>2 DEF MarkType
<1>4. again \in BOOLEAN /\ (mailed[m].again => again)
  BY ZenonT(30)
<1>5. mailed[m].at = -1 \/ now >= last \/ again
  <2> SUFFICES ASSUME mailed[m].at # -1 PROVE now >= last \/ now < last
    OBVIOUS
  <2>1. mailed[m].at \in 0..MaxTime
    BY MailNumbers
  <2>2. last \in -1..(MaxTime + WeekLength)
    BY <2>1, MarkTypes
  <2>3. now \in Int /\ last \in Int
    BY <1>2, <2>2, MailNumbers
  <2> HIDE DEF now, last
  <2> QED BY <2>3
<1>6. m \in Daily => now <= Day(clock)
  <2> SUFFICES ASSUME m \in Daily PROVE Day(mailRun[r].at) <= Day(clock)
    BY MailNumbers DEF Mark
  <2>1. mailRun[r].at \in Nat /\ clock \in Nat /\ mailRun[r].at <= clock
    BY MailNumbers DEF NotOfTheFuture
  <2> QED BY <2>1, DaysInOrder
<1>7. m \in BootMails => now = 1
  BY MailNumbers DEF Mark
<1> HIDE DEF now, last, again
<1>8. mailed[m].at = -1 \/ mark'[m] >= Mark(m, mailed[m].at) \/ again
  BY <1>3, <1>5 DEF last
<1> HIDE DEF MailInv, MailTypeOK
<1> QED BY LeaveOK, <1>1, <1>3, <1>4, <1>6, <1>7, <1>8

LEMMA MailFailedOK ==
  ASSUME MailInv, NEW r \in MailRuns, NEW m \in Mails, MailFailed(r, m)
  PROVE  MailInv'
<1> USE DEF MailInv, MailTypeOK
<1> DEFINE again == mailed[m].again \/ mailRun[r].pc = "taken"
<1>1. /\ IsAt(r, m) /\ GoesOnMailing(r, m) /\ UNCHANGED <<clock, toBoot>>
      /\ mark' = IF m \in Claimed THEN [mark EXCEPT ![m] = 0] ELSE mark
      /\ mailed' = [mailed EXCEPT ![m].again = again]
  BY DEF MailFailed
<1>2. again \in BOOLEAN /\ (mailed[m].again => again)
  BY ZenonT(30)
<1>3. /\ mark' \in MarkType /\ \A o \in Mails \ {m} : mark'[o] = mark[o]
      /\ IF m \in Claimed THEN mark'[m] = 0 ELSE mark'[m] = mark[m]
  BY <1>1, MailNumbers DEF MarkType
<1>4. /\ m \in Daily => mark'[m] <= Day(clock)
      /\ m \in BootMails => mark'[m] \in {0, 1}
  BY <1>3, MailNumbers DEF NotOfTheFuture, FlagsAreFlags
<1>5. \/ mailed[m].at = -1 \/ mark'[m] >= Mark(m, mailed[m].at)
      \/ again \/ \E x \in MailRuns \ {r} : TakenBy(x, m)
  <2> SUFFICES ASSUME ~again PROVE mailed[m].at = -1 \/ mark'[m] >= Mark(m, mailed[m].at)
                                     \/ \E x \in MailRuns \ {r} : TakenBy(x, m)
    OBVIOUS
  <2>1. ~TakenBy(r, m) /\ ~mailed[m].again
    BY DEF TakenBy
  <2>2. CASE m \in Claimed
    <3>1. m \in BootMails /\ m \in mailRun[r].ahead /\ m \notin Weekly /\ m \notin Daily
      BY <1>1, <2>2, MailNumbers DEF IsAt
    <3>2. m \notin mailRun[r].shared
      BY <3>1 DEF OneTimeAlone
    <3>3. PeriodOver(m, mailRun[r].at)
      BY <2>1, <3>1, <3>2 DEF AheadMayGo, MayGo
    <3> QED BY <3>1, <3>3 DEF PeriodOver
  <2>3. CASE m \notin Claimed
    BY <1>3, <2>1, <2>3 DEF MarkTells
  <2> QED BY <2>2, <2>3
<1> HIDE DEF again, MailInv, MailTypeOK
<1> QED BY LeaveOK, <1>1, <1>2, <1>3, <1>4, <1>5

LEMMA TakenType ==
  ASSUME NEW f \in MailRunType, NEW r \in MailRuns
  PROVE  [f EXCEPT ![r].pc = "taken"] \in MailRunType
BY DEF MailRunType

LEMMA MailTakenOK ==
  ASSUME MailInv, NEW r \in MailRuns, NEW m \in Mails, MailTaken(r, m)
  PROVE  MailInv'
<1> USE DEF MailInv, MailTypeOK
<1>1. /\ IsAt(r, m) /\ UNCHANGED <<clock, mark, toBoot>>
      /\ mailRun' = [mailRun EXCEPT ![r].pc = "taken"]
      /\ mailed' = [mailed EXCEPT ![m] = [at |-> mailRun[r].at, again |-> FALSE]]
  BY DEF MailTaken
<1>2. /\ \A x \in MailRuns : /\ mailRun'[x].ahead = mailRun[x].ahead /\ mailRun'[x].at = mailRun[x].at
                             /\ mailRun'[x].shared = mailRun[x].shared
      /\ mailRun'[r].pc = "taken" /\ \A x \in MailRuns \ {r} : mailRun'[x].pc = mailRun[x].pc
  BY <1>1
<1>3. \A o \in Mails \ {m} : mailed'[o] = mailed[o]
  BY <1>1
<1>4. MailTypeOK'
  <2>1. mailRun[r].at \in -1..MaxTime
    BY MailNumbers
  <2>2. mailed' \in [Mails -> [at : -1..MaxTime, again : BOOLEAN]]
    BY <1>1, <2>1
  <2>3. mailRun' \in MailRunType
    BY <1>1, TakenType DEF MailRunType
  <2> QED BY <1>1, <2>2, <2>3 DEF MailRunType
<1>5. NotOfTheFuture'
  BY <1>1, <1>2 DEF NotOfTheFuture, Day
<1>6. FlagsAreFlags'
  BY <1>1 DEF FlagsAreFlags
<1>7. TakenBy(r, m)' /\ \A x \in MailRuns, o \in Mails : TakenBy(x, o) => TakenBy(x, o)'
  BY <1>1, <1>2 DEF TakenBy, IsAt
<1>8. MarkTells'
  <2> SUFFICES ASSUME NEW o \in Mails, o # m
               PROVE  \/ mailed[o].at = -1 \/ mark[o] >= Mark(o, mailed[o].at) \/ mailed[o].again
                      \/ \E x \in MailRuns : TakenBy(x, o)'
    BY <1>1, <1>3, <1>7 DEF MarkTells, Mark, Day
  <2> QED BY <1>7 DEF MarkTells
<1>9. AheadMayGo'
  <2> SUFFICES ASSUME NEW x \in MailRuns, NEW o \in mailRun[x].ahead \ mailRun[x].shared,
                      ~TakenBy(x, o)'
               PROVE  MayGo(o, mailRun[x].at) /\ o # m /\ o \in Mails
    BY <1>2, <1>3 DEF AheadMayGo, MayGo, PeriodOver, Day
  <2>1. o # m
    <3>1. CASE x = r
      BY <1>7, <3>1
    <3>2. CASE x # r
      BY <1>1, <3>2 DEF TogetherIsShared, IsAt
    <3> QED BY <3>1, <3>2
  <2>2. ~TakenBy(x, o)
    BY <1>7
  <2> QED BY <2>1, <2>2 DEF AheadMayGo
<1>10. TogetherIsShared'
  BY <1>2 DEF TogetherIsShared
<1>11. OneTimeAlone'
  BY <1>1, <1>2 DEF OneTimeAlone
<1> QED BY <1>4, <1>5, <1>6, <1>8, <1>9, <1>10, <1>11

LEMMA MailRestartOK == ASSUME MailInv, MailRestart PROVE MailInv'
<1> USE DEF MailInv, MailTypeOK
<1> DEFINE unmarked == {m \in Mails \ Claimed : \E r \in MailRuns : mailRun[r].pc = "taken" /\ IsAt(r, m)}
<1>1. /\ mailRun' = [r \in MailRuns |-> NoRun] /\ toBoot' = BootMails /\ UNCHANGED <<clock, mark>>
      /\ mailed' = [m \in Mails |-> [mailed[m] EXCEPT !.again = @ \/ m \in unmarked]]
  BY DEF MailRestart
<1>2. \A m \in Mails : /\ mailed'[m].at = mailed[m].at /\ mailed'[m].again \in BOOLEAN
                       /\ mailed[m].again \/ m \in unmarked => mailed'[m].again
  <2> SUFFICES ASSUME NEW m \in Mails
               PROVE  /\ mailed'[m].at = mailed[m].at /\ mailed'[m].again \in BOOLEAN
                      /\ mailed[m].again \/ m \in unmarked => mailed'[m].again
    OBVIOUS
  <2> HIDE DEF unmarked
  <2>1. mailed'[m] = [mailed[m] EXCEPT !.again = mailed[m].again \/ m \in unmarked]
    BY <1>1
  <2> QED BY <2>1
<1>3. mailed' \in [Mails -> [at : -1..MaxTime, again : BOOLEAN]]
  <2> HIDE DEF unmarked
  <2> QED BY <1>1
<1>4. mailRun' \in MailRunType
  BY <1>1, MailNumbers DEF NoRun, MailRunType
<1>5. MailTypeOK'
  BY <1>1, <1>3, <1>4 DEF MailRunType
<1>6. NotOfTheFuture'
  BY <1>1, MailNumbers DEF NotOfTheFuture, NoRun, Day
<1>7. FlagsAreFlags'
  BY <1>1 DEF FlagsAreFlags
<1>8. MarkTells'
  <2> SUFFICES ASSUME NEW m \in Mails, mailed[m].at # -1, ~mailed[m].again, m \notin unmarked
               PROVE  mark[m] >= Mark(m, mailed[m].at)
    BY <1>1, <1>2 DEF MarkTells, Mark, Day
  <2>1. CASE \E r \in MailRuns : TakenBy(r, m)
    <3>1. PICK r \in MailRuns : TakenBy(r, m)
      BY <2>1
    <3>2. m \in Claimed /\ m \in BootMails \cap mailRun[r].ahead
      BY <3>1, MailNumbers DEF TakenBy, IsAt
    <3>3. mark[m] = 1 /\ Mark(m, mailed[m].at) = 1
      BY <3>2, MailNumbers DEF OneTimeAlone, Mark
    <3> QED BY <3>3
  <2>2. CASE ~\E r \in MailRuns : TakenBy(r, m)
    BY <2>2 DEF MarkTells
  <2> QED BY <2>1, <2>2
<1>9. AheadMayGo' /\ TogetherIsShared' /\ OneTimeAlone'
  BY <1>1 DEF AheadMayGo, TogetherIsShared, OneTimeAlone, NoRun
<1> QED BY <1>5, <1>6, <1>7, <1>8, <1>9

LEMMA ClockTickOK == ASSUME MailInv, ClockTick PROVE MailInv'
<1> USE DEF MailInv, MailTypeOK
<1>1. clock' = clock + 1 /\ clock < MaxTime /\ UNCHANGED <<mark, toBoot, mailRun, mailed>>
  BY DEF ClockTick
<1>2. clock \in Nat /\ clock' \in 0..MaxTime /\ clock' \in Nat /\ clock <= clock'
  BY <1>1, MailNumbers
<1>3. MailTypeOK'
  BY <1>1, <1>2
<1>4. NotOfTheFuture'
  <2>1. Day(clock) <= Day(clock') /\ Day(clock) \in Int /\ Day(clock') \in Int
    BY <1>2, DaysInOrder
  <2>2. ASSUME NEW m \in Daily PROVE mark[m] <= Day(clock')
    <3>1. mark[m] <= Day(clock) /\ mark[m] \in Int
      BY MailNumbers DEF NotOfTheFuture
    <3> QED BY <2>1, <3>1
  <2>3. ASSUME NEW r \in MailRuns PROVE mailRun[r].at <= clock'
    <3>1. mailRun[r].at <= clock /\ mailRun[r].at \in Int
      BY MailNumbers DEF NotOfTheFuture
    <3> QED BY <1>2, <3>1
  <2> QED BY <1>1, <2>2, <2>3 DEF NotOfTheFuture, Day
<1>5. FlagsAreFlags' /\ TogetherIsShared' /\ OneTimeAlone'
  BY <1>1 DEF FlagsAreFlags, TogetherIsShared, OneTimeAlone
<1>6. MarkTells' /\ AheadMayGo'
  BY <1>1 DEF MarkTells, AheadMayGo, TakenBy, IsAt, MayGo, PeriodOver, Mark, Day
<1> QED BY <1>3, <1>4, <1>5, <1>6

LEMMA BootMailOK ==
  ASSUME MailInv, NEW m \in BootMails, BootMail(m)
  PROVE  MailInv'
<1> USE DEF MailInv, MailTypeOK
<1>1. m \in toBoot /\ toBoot' = toBoot \ {m} /\ UNCHANGED <<clock, mailed>> /\ m \in Mails
  BY MailNumbers DEF BootMail
<1>2. CASE mark[m] = 1
  <2>1. UNCHANGED <<mark, mailRun>>
    BY <1>2 DEF BootMail
  <2>2. MailTypeOK' /\ NotOfTheFuture' /\ FlagsAreFlags' /\ TogetherIsShared' /\ OneTimeAlone'
    BY <1>1, <2>1 DEF NotOfTheFuture, FlagsAreFlags, TogetherIsShared, OneTimeAlone, Day
  <2>3. MarkTells' /\ AheadMayGo'
    BY <1>1, <2>1 DEF MarkTells, AheadMayGo, TakenBy, IsAt, MayGo, PeriodOver, Mark, Day
  <2> QED BY <2>2, <2>3
<1>3. CASE mark[m] # 1
  <2>1. mark' = Flagged(m) /\ Begin({m})
    BY <1>3 DEF BootMail
  <2>2. 1 \in -1..(MaxTime + WeekLength)
    BY MailNumbers
  <2>3. mark' \in MarkType
    BY <2>1, <2>2 DEF Flagged, MarkType
  <2>4. /\ \A o \in Mails : mark'[o] = mark[o] \/ (o \in Claimed \cap {m} /\ mark'[o] = 1)
        /\ m \in Claimed => mark'[m] = 1
    BY <1>1, <2>1 DEF Flagged
  <2>5. {m} \in SUBSET Mails /\ \A o \in {m} : o \in Weekly => mark[o] <= clock
    BY <1>1, MailNumbers
  <2> QED BY BeginOK, <1>1, <1>3, <2>1, <2>3, <2>4, <2>5
<1> QED BY <1>2, <1>3

LEMMA MailInitOK == MailInit => MailInv
<1> SUFFICES ASSUME MailInit PROVE MailInv
  OBVIOUS
<1> USE DEF MailInit
<1>1. MailTypeOK
  <2>1. mark \in [Mails -> -1..(MaxTime + WeekLength)]
    BY MailNumbers
  <2>2. mailed \in [Mails -> [at : -1..MaxTime, again : BOOLEAN]]
    BY MailNumbers
  <2>3. mailRun \in MailRunType
    BY MailNumbers DEF MailRunType, NoRun
  <2>4. clock \in 0..MaxTime
    BY MailNumbers
  <2> QED BY <2>1, <2>2, <2>3, <2>4 DEF MailTypeOK, MailRunType
<1>2. NotOfTheFuture
  <2>1. Day(clock) >= -1
    <3>1. Day(clock) \in Nat
      BY DaysInOrder
    <3> QED BY <3>1
  <2> QED BY <2>1, MailNumbers DEF NotOfTheFuture, NoRun
<1>3. FlagsAreFlags /\ MarkTells /\ AheadMayGo /\ TogetherIsShared /\ OneTimeAlone
  BY MailNumbers DEF FlagsAreFlags, MarkTells, AheadMayGo, TogetherIsShared, OneTimeAlone, NoRun
<1> QED BY <1>1, <1>2, <1>3 DEF MailInv

LEMMA MailStep == MailInv /\ [MailNext]_mailVars => MailInv'
<1> SUFFICES ASSUME MailInv, [MailNext]_mailVars PROVE MailInv'
  OBVIOUS
<1>1. CASE WeeklyRun
  <2>1. {m \in Weekly : mark[m] <= clock} \in SUBSET Mails
    BY MailNumbers
  <2>2. /\ UNCHANGED <<clock, mark, toBoot, mailed>> /\ Begin({m \in Weekly : mark[m] <= clock})
        /\ \A m \in {m \in Weekly : mark[m] <= clock} : m \notin BootMails
    BY <1>1, MailNumbers DEF WeeklyRun
  <2>3. mark' \in MarkType
    BY <2>2 DEF MailInv, MailTypeOK, MarkType
  <2> QED BY BeginOK, <2>1, <2>2, <2>3
<1>2. CASE DailyRun
  <2>1. /\ UNCHANGED <<clock, mark, toBoot, mailed>> /\ Begin(Daily) /\ Daily \in SUBSET Mails
        /\ \A m \in Daily : m \notin BootMails /\ m \notin Weekly
    BY <1>2, MailNumbers DEF DailyRun
  <2>2. mark' \in MarkType
    BY <2>1 DEF MailInv, MailTypeOK, MarkType
  <2> QED BY BeginOK, <2>1, <2>2
<1>3. ASSUME NEW r \in MailRuns, NEW m \in Mails,
             MailTaken(r, m) \/ MailMarked(r, m) \/ MailFailed(r, m) \/ NothingToSend(r, m)
      PROVE  MailInv'
  <2>1. CASE MailTaken(r, m)
    BY <2>1, MailTakenOK
  <2>2. CASE MailFailed(r, m)
    BY <2>2, MailFailedOK
  <2>3. CASE MailMarked(r, m) \/ NothingToSend(r, m)
    BY <2>3, SetMarkOK DEF MailMarked, NothingToSend
  <2> QED BY <1>3, <2>1, <2>2, <2>3
<1>4. CASE UNCHANGED mailVars
  <2>1. MailTypeOK' /\ NotOfTheFuture' /\ FlagsAreFlags' /\ TogetherIsShared' /\ OneTimeAlone'
    BY <1>4 DEF MailInv, MailTypeOK, NotOfTheFuture, FlagsAreFlags, TogetherIsShared, OneTimeAlone, Day, mailVars
  <2>2. MarkTells' /\ AheadMayGo'
    BY <1>4 DEF MailInv, MarkTells, AheadMayGo, TakenBy, IsAt, MayGo, PeriodOver, Mark, Day, mailVars
  <2> QED BY <2>1, <2>2 DEF MailInv
<1> QED
  BY <1>1, <1>2, <1>3, <1>4, BootMailOK, ClockTickOK, MailRestartOK DEF MailNext, MailRunSteps

(* What is mailed by the clock is mailed once in its period: a week after the *)
(* last one, on another day, or never again; but after a lost answer, a mark  *)
(* that was put back or a restart before it, or beside another run.           *)
THEOREM OnceAPeriod == MailSpec => OncePerPeriod
<1>1. MailInv =>
        \A r \in MailRuns, m \in Mails :
          mailRun[r].pc = "sending" /\ IsAt(r, m) /\ mailRun'[r].pc = "taken"
            => PeriodOver(m, mailRun[r].at) \/ mailed[m].again \/ m \in mailRun[r].shared
  BY DEF MailInv, AheadMayGo, TakenBy, IsAt, MayGo
<1> QED
  BY MailInitOK, MailStep, <1>1, PTL DEF MailSpec, OncePerPeriod
=============================================================================
