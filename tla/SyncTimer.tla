------------------------------ MODULE SyncTimer ------------------------------
(* The timer of the integrations: every minute a tick goes through the        *)
(* integrations in their order and awaits each one that is due.  No tick asks *)
(* whether the one before it has ended, and people run an integration, pause  *)
(* it or change its cadence at any time.                                      *)
EXTENDS Integers

CONSTANTS
  Syncs,         \* the integrations, numbered in the order of SYNC_DEFS
  SyncLoops,     \* bound: ticks and manual runs under way at once
  MaxInterval    \* bound on interval_minutes, in ticks

ASSUME SyncTimerAssumption == Syncs \subseteq Nat \ {0} /\ MaxInterval \in Nat \ {0}

Never == MaxInterval + 1

VARIABLES
  schedule,   \* sync_schedules; `age` is how long ago last_run_at is
  loop,       \* the runs under way: what runs, and what a tick has yet to ask
  begun       \* history: since the timer last began it, and whether that was ended
              \* by a restart or followed by a person's change

syncVars == <<schedule, loop, begun>>

Schedule == [enabled : BOOLEAN, interval : 0..MaxInterval, age : 0..Never]
NoLoop == [runs |-> 0, byTimer |-> FALSE, rest |-> {}]

SyncTypeOK ==
  /\ schedule \in [Syncs -> Schedule]
  /\ loop \in [SyncLoops -> [runs : Syncs \cup {0}, byTimer : BOOLEAN, rest : SUBSET Syncs]]
  /\ begun \in [Syncs -> [ago : 0..Never, excused : BOOLEAN]]

Running(k) == {l \in SyncLoops : loop[l].runs = k}
ByTimer(k) == {l \in Running(k) : loop[l].byTimer}
Paused(k) == ~schedule[k].enabled \/ schedule[k].interval = 0
IsDue(k) == ~Paused(k) /\ schedule[k].age >= schedule[k].interval

GoesTo(l, k, rest) == loop' = [loop EXCEPT ![l] = [runs |-> k, byTimer |-> TRUE, rest |-> rest]]
LoopEnds(l) == loop' = [loop EXCEPT ![l] = NoLoop]

\* Mutant: the rows are read once, when the tick begins.
OnwardOfRows(l, rest) ==
  LET rows == IF rest = Syncs THEN {k \in Syncs : IsDue(k)'} ELSE rest
  IN \/ rows = {} /\ LoopEnds(l)
     \/ \E k \in rows : (\A j \in rows : k <= j) /\ GoesTo(l, k, rows \ {k})

(* A tick comes to the next integration it awaits: each row is read at its    *)
(* turn.                                                                      *)
Onward(l, rest) ==
  \/ (\A k \in rest : ~IsDue(k)') /\ LoopEnds(l)
  \/ \E k \in rest :
       /\ IsDue(k)' /\ \A j \in rest : j < k => ~IsDue(j)'
       /\ GoesTo(l, k, {j \in rest : j > k})

Since(ages) == [k \in Syncs |-> IF ages[k] >= MaxInterval THEN ages[k] ELSE ages[k] + 1]

(* Loop l has ended what it ran.                                              *)
LoopGoesOn(l) ==
  /\ IF loop[l].byTimer THEN Onward(l, loop[l].rest) ELSE LoopEnds(l)
  /\ begun' = [k \in Syncs |-> IF loop'[l].runs = k THEN [ago |-> 0, excused |-> FALSE] ELSE begun[k]]

(* A minute passes, and runDueSyncs begins.                                   *)
SyncTick ==
  \E l \in SyncLoops :
    LET age == Since([k \in Syncs |-> schedule[k].age])
        ago == Since([k \in Syncs |-> begun[k].ago])
    IN /\ loop[l] = NoLoop
       /\ schedule' = [k \in Syncs |-> [schedule[k] EXCEPT !.age = age[k]]]
       /\ Onward(l, Syncs)
       /\ begun' = [k \in Syncs |-> IF loop'[l].runs = k THEN [ago |-> 0, excused |-> FALSE]
                                    ELSE [begun[k] EXCEPT !.ago = ago[k]]]

(* POST .../run: runSyncNow, whatever the cadence.                            *)
RunNow(k) ==
  /\ \E l \in SyncLoops :
       /\ loop[l] = NoLoop
       /\ loop' = [loop EXCEPT ![l] = [runs |-> k, byTimer |-> FALSE, rest |-> {}]]
  /\ UNCHANGED <<schedule, begun>>

(* recordRun: when it ended, and nothing else of the row.                     *)
Recorded(row) == [row EXCEPT !.age = 0]

\* Mutant: a sync that throws ends its loop and leaves no record.
SyncEndsOrThrows(l) ==
  /\ loop[l] # NoLoop
  /\ \/ schedule' = [schedule EXCEPT ![loop[l].runs] = Recorded(@)] /\ LoopGoesOn(l)
     \/ LoopEnds(l) /\ UNCHANGED <<schedule, begun>>

(* runSyncNow: a sync ends or throws, both are recorded, and its loop goes on.*)
SyncEnds(l) ==
  /\ loop[l] # NoLoop
  /\ schedule' = [schedule EXCEPT ![loop[l].runs] = Recorded(@)]
  /\ LoopGoesOn(l)

(* PATCH of a schedule: a person pauses it, resumes it or changes its cadence.*)
SetSchedule(k) ==
  /\ \E interval \in 0..MaxInterval, enabled \in BOOLEAN :
       schedule' = [schedule EXCEPT ![k].interval = interval, ![k].enabled = enabled]
  /\ begun' = [begun EXCEPT ![k].excused = TRUE]
  /\ UNCHANGED loop

(* The process ends and starts again.                                         *)
SyncRestart ==
  /\ loop' = [l \in SyncLoops |-> NoLoop]
  /\ begun' = [k \in Syncs |-> [begun[k] EXCEPT !.excused = @ \/ Running(k) # {}]]
  /\ UNCHANGED schedule

SyncInit ==
  /\ schedule = [k \in Syncs |-> [enabled |-> TRUE, interval |-> MaxInterval, age |-> Never]]
  /\ loop = [l \in SyncLoops |-> NoLoop]
  /\ begun = [k \in Syncs |-> [ago |-> Never, excused |-> FALSE]]

SyncNext ==
  \/ \E k \in Syncs : RunNow(k) \/ SetSchedule(k)
  \/ \E l \in SyncLoops : SyncEnds(l)
  \/ SyncTick \/ SyncRestart

(* The timer fires for ever and a sync ends.                                  *)
SyncFairness == SF_syncVars(SyncTick) /\ \A l \in SyncLoops : WF_syncVars(SyncEnds(l))

SyncSpec == SyncInit /\ [][SyncNext]_syncVars /\ SyncFairness

-----------------------------------------------------------------------------
(* "interval_minutes 0 (or enabled=false) pauses it" (syncScheduler.ts:226):  *)
(* a tick begins no integration that is paused, not even one that was paused  *)
(* while the tick awaited another, and a run that ends does not undo a pause. *)
PauseHolds ==
  [][\A k \in Syncs :
       /\ Paused(k)' => ByTimer(k)' \subseteq ByTimer(k)
       /\ Paused(k) /\ ~Paused(k)' => SetSchedule(k)]_syncVars

(* "Each integration runs on its own cadence" (app.ts:434): the timer begins  *)
(* one sooner only if it still runs, or after a restart in the middle of it or *)
(* a person's change.                                                         *)
CadenceKept ==
  [][\A k \in Syncs : ByTimer(k)' \subseteq ByTimer(k) \/ Running(k) # {} \/ begun[k].excused
       \/ (IF begun[k].ago >= MaxInterval THEN begun[k].ago ELSE begun[k].ago + 1) >= schedule[k].interval]_syncVars

(* Every integration that is not paused is run again and again, whatever      *)
(* becomes of the ones before it, once the process stays up.                  *)
EverySyncRuns ==
  <>[][~SyncRestart]_syncVars => \A k \in Syncs : []<>Paused(k) \/ []<>(Running(k) # {})
=============================================================================
