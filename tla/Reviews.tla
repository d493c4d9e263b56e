------------------------------ MODULE Reviews ------------------------------
(* Review requests, services/reviewRequests.ts and routes/reviews.ts: the     *)
(* sweep turns completed jobs into requests, and senders mail them            *)
(* across awaits: the drain of the scheduled sync and, at people's desks,     *)
(* "Send all held" and the single "approve & send".  Each reads its rows once and updates each row    *)
(* after its mail; none asks whether another is at work.                      *)
EXTENDS Integers, FiniteSets, Sequences, FiniteSetsExt

CONSTANTS
  Desks,           \* requests of people's browsers that may be at work at once
  Jobs,            \* ids of completed jobs; the newest has the largest
  EmailOf,         \* the contact of a job
  Cap,             \* REVIEW_DAILY_CAP
  DedupeDays,      \* DEDUPE_DAYS
  ReminderAfter,   \* REMINDER_AFTER_DAYS
  ReminderMax,     \* REMINDER_MAX_AGE_DAYS
  MaxDay,          \* bound: days
  MaxRows,         \* bound: requests ever queued
  MaxTroubles      \* bound: refused mails, lost answers, restarts, switched settings

ASSUME ReviewsAssumption ==
  /\ "drain" \notin Desks /\ IsFiniteSet(Desks)
  /\ Jobs \subseteq Nat /\ IsFiniteSet(Jobs)
  /\ {Cap, DedupeDays, ReminderAfter, ReminderMax, MaxDay, MaxRows, MaxTroubles} \subseteq Nat
  /\ MaxDay # 0

VARIABLES
  day,        \* the date
  mode,       \* review_send_mode
  active,     \* review_targets.active of the office
  complete,   \* the jobs the mirror shows as completed
  asked,      \* crm_jobs.review_requested
  reqs,       \* review_requests, in the order of their ids; deleted rows stay visible
  sender,     \* the senders' loops
  crossed,    \* history: today two senders met, or a single send asked for no room
  troubles    \* what used up the bound so far

vars == <<day, mode, active, complete, asked, reqs, sender, crossed, troubles>>

Senders == {"drain"} \cup Desks
Emails == {EmailOf[j] : j \in Jobs}

(* A request.  "mails" and "nudges" count what the customer got, "excuses"    *)
(* the events after which a repetition is possible.                           *)
Request == [job : Jobs, created : 1..MaxDay, status : {"held", "approved", "sent", "deleted"},
            sentAt : 0..MaxDay, remindedAt : 0..MaxDay, 
            mails : Nat, nudges : Nat, excuses : Nat]
Loop == [pc : {"idle", "calling", "taken", "refused"},
         part : {"requests", "single", "reminders"}, rows : Seq(1..MaxRows)]
Idle == [pc |-> "idle", part |-> "requests", rows |-> <<>>]

(* The types of the state.                                                    *)
TypeOK ==
  /\ day \in 1..MaxDay /\ mode \in {"hold", "auto"} /\ active \in BOOLEAN
  /\ complete \subseteq Jobs /\ asked \subseteq Jobs
  /\ reqs \in Seq(Request) /\ Len(reqs) <= MaxRows
  /\ sender \in [Senders -> Loop]
  /\ crossed \in BOOLEAN /\ troubles \in 0..MaxTroubles

-----------------------------------------------------------------------------
(* Reading the table.                                                         *)
Ids(t) == {i \in DOMAIN t : t[i].status # "deleted"}

(* recentlyAsked: by the day the request was queued.                          *)
RecentlyAsked(t, email) ==
  \E i \in Ids(t) : EmailOf[t[i].job] = email /\ day - t[i].created <= DedupeDays

(* pendingReviewJobs                                                          *)
PendingJobs(flags) == IF active THEN complete \ flags ELSE {}

DailySent(t) ==
  Cardinality({i \in Ids(t) : t[i].status = "sent" /\ t[i].sentAt = day})
  + Cardinality({i \in Ids(t) : t[i].remindedAt = day})

\* Mutant: every drain has the whole cap.
RoomPerRun(t) == Cap

Room(t) == Max({0, Cap - DailySent(t)})

(* ORDER BY id.                                                               *)
Ascending(S) ==
  CHOOSE s \in [1..Cardinality(S) -> S] : \A i, k \in DOMAIN s : i < k => s[i] < s[k]

First(n, ids) ==
  LET s == Ascending(ids) IN [i \in 1..Min({n, Cardinality(ids)}) |-> s[i]]

Queued(t, statuses) == First(Room(t), {i \in Ids(t) : t[i].status \in statuses})

(* remindersDue; who clicked is no state of the model but a choice: the       *)
(* customers in "clicked" did by now.                                         *)
RemindersDue(t, clicked) ==
  {i \in Ids(t) \ clicked : /\ t[i].status = "sent" /\ t[i].remindedAt = 0
                            /\ t[i].sentAt > 0 /\ active
                            /\ day - t[i].sentAt \in ReminderAfter..ReminderMax}

-----------------------------------------------------------------------------
NewRequest(j) ==
  [job |-> j, created |-> day, status |-> IF mode = "auto" THEN "approved" ELSE "held",
   sentAt |-> 0, remindedAt |-> 0, mails |-> 0, nudges |-> 0, excuses |-> 0]

\* Mutant: the emails asked lately are read once, before the loop.
SweptBlindly(t, js) ==
  LET fresh == {j \in js : ~RecentlyAsked(t, EmailOf[j])}
  IN t \o [i \in 1..Cardinality(fresh) |-> NewRequest(Ascending(fresh)[Cardinality(fresh) + 1 - i])]

(* The sweep: each pending job, newest first, gets a request unless its       *)
(* contact was asked lately; either way it is marked.                         *)
Swept(t, js) ==
  LET newest == {j \in js : /\ ~RecentlyAsked(t, EmailOf[j])
                            /\ \A k \in js : EmailOf[k] = EmailOf[j] => k <= j}
      order == Ascending(newest)
      n == Cardinality(newest)
  IN t \o [i \in 1..n |-> NewRequest(order[n + 1 - i])]

(* What a sender does with the table t it has just read.  The drain waits for *)
(* business hours, a choice as well (everybody clicked is then the same as    *)
(* the hour is wrong); after its requests it turns to the reminders.          *)
Calling(part, rows) == [pc |-> "calling", part |-> part, rows |-> rows]

Reminders(t, clicked) ==
  LET due == First(Room(t), RemindersDue(t, clicked))
  IN IF due = <<>> THEN Idle ELSE Calling("reminders", due)

Drain(t, inWindow, clicked) ==
  LET rows == IF inWindow THEN Queued(t, {"approved"}) ELSE <<>>
  IN IF rows = <<>> THEN Reminders(t, clicked) ELSE Calling("requests", rows)

Holds(s, i) == sender[s].pc # "idle" /\ i \in Range(sender[s].rows)
Busy == {s \in Senders : sender[s].pc # "idle"}

(* A sender takes up rows, some of them perhaps in another's hands.           *)
Starts(s, loop, t) ==
  /\ sender[s].pc = "idle"
  /\ sender' = [sender EXCEPT ![s] = loop]
  /\ reqs' = [i \in DOMAIN t |->
                IF i \in Range(loop.rows)
                THEN [t[i] EXCEPT !.excuses = @ + Cardinality({o \in Senders : Holds(o, i)})]
                ELSE t[i]]
  /\ crossed' = (crossed \/ (loop # Idle /\ (Busy # {} \/ loop.part = "single")))

(* The end of runScheduledSync: sweep, then drain and reminders in auto mode. *)
ScheduledRun ==
  \E inWindow \in BOOLEAN, clicked \in SUBSET DOMAIN reqs :
    LET t == Swept(reqs, PendingJobs(asked))
    IN /\ Len(t) <= MaxRows
       /\ Starts("drain", IF mode = "auto" THEN Drain(t, inWindow, clicked) ELSE Idle, t)
       /\ asked' = asked \cup PendingJobs(asked)
       /\ UNCHANGED <<day, mode, active, complete, troubles>>

(* POST /api/reviews/sweep, and the end of /backfill.                         *)
Sweep ==
  /\ Len(Swept(reqs, PendingJobs(asked))) <= MaxRows
  /\ reqs' = Swept(reqs, PendingJobs(asked))
  /\ asked' = asked \cup PendingJobs(asked)
  /\ UNCHANGED <<day, mode, active, complete, sender, crossed, troubles>>

(* POST /api/reviews/send-batch                                               *)
SendBatch(d) ==
  LET rows == Queued(reqs, {"held", "approved"})
  IN /\ rows # <<>>
     /\ Starts(d, Calling("requests", rows), reqs)
     /\ UNCHANGED <<day, mode, active, complete, asked, troubles>>

(* POST /api/reviews/queue/:id/send, which asks for no room.                  *)
SendOne(d, i) ==
  /\ i \in Ids(reqs) /\ reqs[i].status # "sent"
  /\ Starts(d, Calling("single", <<i>>), reqs)
  /\ UNCHANGED <<day, mode, active, complete, asked, troubles>>

-----------------------------------------------------------------------------
(* The mail at the head of a loop.  Microsoft Graph takes it, refuses it, or  *)
(* takes it and the answer is lost.                                           *)
Current(s) == Head(sender[s].rows)
Mailed(s, row, excuse) ==
  [row EXCEPT !.mails = IF sender[s].part # "reminders" THEN @ + 1 ELSE @,
              !.nudges = IF sender[s].part = "reminders" THEN @ + 1 ELSE @,
              !.excuses = @ + excuse]
Delivered(s, excuse) == [reqs EXCEPT ![Current(s)] = Mailed(s, @, excuse)]
Trouble == troubles < MaxTroubles /\ troubles' = troubles + 1
Answered(s, pc) == sender' = [sender EXCEPT ![s].pc = pc]

MailTaken(s) ==
  /\ sender[s].pc = "calling"
  /\ Answered(s, "taken")
  /\ reqs' = Delivered(s, 0)
  /\ UNCHANGED <<day, mode, active, complete, asked, crossed, troubles>>

MailRefused(s) ==
  /\ sender[s].pc = "calling" /\ Trouble
  /\ Answered(s, "refused")
  /\ UNCHANGED <<day, mode, active, complete, asked, reqs, crossed>>

AnswerLost(s) ==
  /\ sender[s].pc = "calling" /\ Trouble
  /\ Answered(s, "refused")
  /\ reqs' = Delivered(s, 1)
  /\ UNCHANGED <<day, mode, active, complete, asked, crossed>>

\* Mutant: the row of a mail that was taken keeps its status.
RecordedAsHeld(s, row) ==
  IF row.status = "deleted" \/ sender[s].pc = "refused" THEN row
  ELSE IF sender[s].part = "reminders" THEN [row EXCEPT !.remindedAt = day]
  ELSE [row EXCEPT !.sentAt = day]

(* The update after the await, which finds no row when it was deleted in the  *)
(* meantime.  A refused single send leaves its row approved.                  *)
Recorded(s, row) ==
  CASE row.status = "deleted" -> row
    [] row.status # "deleted" /\ sender[s].pc = "taken" /\ sender[s].part # "reminders" ->
         [row EXCEPT !.status = "sent", !.sentAt = day]
    [] row.status # "deleted" /\ sender[s].pc = "taken" /\ sender[s].part = "reminders" ->
         [row EXCEPT !.remindedAt = day]
    [] row.status # "deleted" /\ sender[s].pc = "refused" ->
         IF sender[s].part = "single" THEN [row EXCEPT !.status = "approved"] ELSE row

(* The loop goes on with its next row, the drain with the reminders.          *)
Resume(s) ==
  /\ sender[s].pc \in {"taken", "refused"}
  /\ reqs' = [reqs EXCEPT ![Current(s)] = Recorded(s, @)]
  /\ \E clicked \in SUBSET DOMAIN reqs :
       sender' = [sender EXCEPT ![s] =
         IF Len(@.rows) > 1 THEN Calling(@.part, Tail(@.rows))
         ELSE IF s = "drain" /\ @.part = "requests" THEN Reminders(reqs', clicked)
         ELSE Idle]
  /\ UNCHANGED <<day, mode, active, complete, asked, crossed, troubles>>

-----------------------------------------------------------------------------
(* POST /api/reviews/regenerate: what is not sent is deleted, every job       *)
(* without a sent request is free again, and the sweep runs.                  *)
Regenerate ==
  LET kept == [i \in DOMAIN reqs |->
                 IF reqs[i].status \in {"sent", "deleted"} THEN reqs[i]
                 ELSE [reqs[i] EXCEPT !.status = "deleted",
                         !.excuses = @ + Cardinality({s \in Senders : Holds(s, i)})]]
      flags == asked \cap {kept[i].job : i \in {k \in DOMAIN kept : kept[k].status = "sent"}}
      pending == PendingJobs(flags)
  IN /\ Len(Swept(kept, pending)) <= MaxRows
     /\ reqs' = Swept(kept, pending)
     /\ asked' = flags \cup pending
     /\ UNCHANGED <<day, mode, active, complete, sender, crossed, troubles>>

(* POST review-approve-held of routes/agent.ts                                *)
ApproveHeld ==
  /\ reqs' = [i \in DOMAIN reqs |-> IF reqs[i].status = "held"
                                    THEN [reqs[i] EXCEPT !.status = "approved"] ELSE reqs[i]]
  /\ UNCHANGED <<day, mode, active, complete, asked, sender, crossed, troubles>>

SetMode(m) ==
  /\ mode # m /\ Trouble
  /\ mode' = m
  /\ UNCHANGED <<day, active, complete, asked, reqs, sender, crossed>>

SetTargetActive(on) ==
  /\ active # on /\ Trouble
  /\ active' = on
  /\ UNCHANGED <<day, mode, complete, asked, reqs, sender, crossed>>

(* The mirror shows a job as completed, with an email.                        *)
JobCompletes(j) ==
  /\ complete' = complete \cup {j}
  /\ UNCHANGED <<day, mode, active, asked, reqs, sender, crossed, troubles>>

Tick ==
  /\ day < MaxDay
  /\ day' = day + 1
  /\ crossed' = (Cardinality(Busy) > 1 \/ \E s \in Busy : sender[s].part = "single")
  /\ UNCHANGED <<mode, active, complete, asked, reqs, sender, troubles>>

(* The process ends.  In the middle of a sweep the newest request may be in   *)
(* the table without its job's mark.                                          *)
Kill ==
  /\ Trouble
  /\ sender' = [s \in Senders |-> Idle]
  /\ LET cut == [i \in DOMAIN reqs |->
                   [reqs[i] EXCEPT !.excuses = @ + Cardinality({s \in Senders :
                      sender[s].pc = "taken" /\ Current(s) = i})]]
         pending == PendingJobs(asked)
     IN \/ reqs' = cut /\ asked' = asked
        \/ \E j \in pending : LET done == {k \in pending : k >= j}
                              IN /\ Len(Swept(cut, done)) <= MaxRows
                                 /\ reqs' = Swept(cut, done)
                                 /\ asked' = asked \cup (done \ {j})
  /\ UNCHANGED <<day, mode, active, complete, crossed>>

Init ==
  /\ day = 1 /\ mode \in {"hold", "auto"} /\ active = TRUE
  /\ complete = {} /\ asked = {} /\ reqs = <<>>
  /\ sender = [s \in Senders |-> Idle]
  /\ crossed = FALSE /\ troubles = 0

Next ==
  \/ ScheduledRun \/ Sweep \/ Regenerate \/ ApproveHeld \/ Tick \/ Kill
  \/ \E d \in Desks : SendBatch(d) \/ \E i \in DOMAIN reqs : SendOne(d, i)
  \/ \E s \in Senders : MailTaken(s) \/ MailRefused(s) \/ AnswerLost(s) \/ Resume(s)
  \/ \E m \in {"hold", "auto"} : SetMode(m)
  \/ \E on \in BOOLEAN : SetTargetActive(on)
  \/ \E j \in Jobs : JobCompletes(j)

Spec == Init /\ [][Next]_vars

-----------------------------------------------------------------------------
(* "One request per email per 90 days", as far as the code goes: two requests *)
(* of one contact in the table were queued more than DedupeDays apart, after  *)
(* any regeneration and any kill inside a sweep.                              *)
RequestsApart ==
  \A i, k \in Ids(reqs) :
    i < k /\ EmailOf[reqs[i].job] = EmailOf[reqs[k].job]
      => reqs[k].created - reqs[i].created > DedupeDays

(* A request is mailed once, and reminded of once ("the only reminder we will *)
(* send"): every further mail, and every mail of a deleted row, is paid for   *)
(* by a lost answer, a kill after the mail, a regeneration under a sender, or *)
(* two senders with the same row.                                             *)
OnceUnlessExcused ==
  \A i \in DOMAIN reqs :
    /\ reqs[i].mails <= (IF reqs[i].status = "deleted" THEN 0 ELSE 1) + reqs[i].excuses
    /\ reqs[i].nudges <= 1 + reqs[i].excuses

(* The daily cap holds for requests and reminders together, on any day on     *)
(* which no two senders met and nobody sent a single request.                 *)
CapHolds == crossed \/ DailySent(reqs) <= Cap
=============================================================================
