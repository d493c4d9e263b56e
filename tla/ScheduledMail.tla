----------------------------- MODULE ScheduledMail -----------------------------
(* Mail the process sends by the clock: reports every week, digests and        *)
(* reminders every day, and mails that are sent once, some time after a boot.  *)
(* Each kind keeps a mark of what it sent; the hourly runs do not ask whether  *)
(* the one before has ended.                                                   *)
EXTENDS Integers

CONSTANTS
  Weekly, Daily,    \* the reports and the addressees of a run, numbered in their order
  BootMails,        \* the mails sent once
  Claimed,          \* those of them that set their flag before the send
  MailRuns,         \* bound: runs under way at once
  DayLength, WeekLength,   \* in ticks
  MaxTime           \* bound on the clock

ASSUME ScheduledMailAssumption ==
  /\ Weekly \subseteq Nat /\ Daily \subseteq Nat /\ BootMails \subseteq Nat
  /\ Weekly \cap Daily = {} /\ (Weekly \cup Daily) \cap BootMails = {}
  /\ Claimed \subseteq BootMails
  /\ DayLength \in Nat \ {0} /\ WeekLength \in Nat \ {0} /\ MaxTime \in Nat

Mails == Weekly \cup Daily \cup BootMails

VARIABLES
  clock,
  mark,       \* next_run_at, the date in app_state, or the flag of a mail
  toBoot,     \* the one-time mails this process has yet to come to
  mailRun,    \* the runs: the mails ahead, the first of them being sent, the time the
              \* run began, and (history) the mails another run had in hand as well
  mailed      \* history: the stamp of the last one, and whether another may follow

mailVars == <<clock, mark, toBoot, mailRun, mailed>>

Day(t) == t \div DayLength
NoRun == [pc |-> "idle", ahead |-> {}, at |-> 0, shared |-> {}]

MailTypeOK ==
  /\ clock \in 0..MaxTime
  /\ mark \in [Mails -> -1..(MaxTime + WeekLength)]
  /\ toBoot \subseteq BootMails
  /\ mailRun \in [MailRuns -> [pc : {"idle", "sending", "taken"}, ahead : SUBSET Mails,
                               at : 0..MaxTime, shared : SUBSET Mails]]
  /\ mailed \in [Mails -> [at : -1..MaxTime, again : BOOLEAN]]

-----------------------------------------------------------------------------
InHand == UNION {mailRun[r].ahead : r \in MailRuns}

(* The mail a run is at, the first of those it has ahead.                      *)
IsAt(r, m) == m \in mailRun[r].ahead /\ \A o \in mailRun[r].ahead : m <= o

(* What is left of a run: the daily loops ask for the date at each turn, with  *)
(* the day their run began; the weekly rows were read at its begin.            *)
Ahead(mails, at) == {m \in mails : m \notin Daily \/ mark'[m] # Day(at)}

Going(mails, at, shared) ==
  IF Ahead(mails, at) = {} THEN NoRun
  ELSE [pc |-> "sending", ahead |-> Ahead(mails, at), at |-> at, shared |-> shared]

Begin(mails) ==
  \E r \in MailRuns :
    /\ mailRun[r].pc = "idle"
    /\ mailRun' = [x \in MailRuns |->
                     IF x = r THEN Going(mails, clock, InHand \cap mails)
                     ELSE [mailRun[x] EXCEPT !.shared = @ \cup (mailRun[x].ahead \cap mails)]]

(* runDueReports, hourly.                                                      *)
WeeklyRun ==
  /\ UNCHANGED <<clock, mark, toBoot, mailed>>
  /\ Begin({m \in Weekly : mark[m] <= clock})

(* sendDailyTaskDigests and the reminders, hourly.                             *)
DailyRun ==
  /\ UNCHANGED <<clock, mark, toBoot, mailed>>
  /\ Begin(Daily)

\* Mutant: the flag is set when the mail has gone, like a mark.
FlaggedLater(m) == mark

(* The flag when a one-time mail begins: "claim first so a restart mid-send    *)
(* never sends twice".                                                         *)
Flagged(m) == IF m \in Claimed THEN [mark EXCEPT ![m] = 1] ELSE mark

(* A one-time mail, some seconds after a boot.                                 *)
BootMail(m) ==
  /\ m \in toBoot
  /\ toBoot' = toBoot \ {m}
  /\ UNCHANGED <<clock, mailed>>
  /\ IF mark[m] = 1 THEN UNCHANGED <<mark, mailRun>>
     ELSE mark' = Flagged(m) /\ Begin({m})

(* Graph takes a mail.                                                         *)
MailTaken(r, m) ==
  /\ mailRun[r].pc = "sending" /\ IsAt(r, m)
  /\ mailRun' = [mailRun EXCEPT ![r].pc = "taken"]
  /\ mailed' = [mailed EXCEPT ![m] = [at |-> mailRun[r].at, again |-> FALSE]]
  /\ UNCHANGED <<clock, mark, toBoot>>

(* The mark of a mail that went out, from the time its run began.              *)
Mark(m, at) ==
  IF m \in Weekly THEN at + WeekLength ELSE IF m \in Daily THEN Day(at) ELSE 1

(* A run of yesterday can put back the mark of one of today.                   *)
SetMark(m, at) ==
  /\ mark' = [mark EXCEPT ![m] = Mark(m, at)]
  /\ mailed' = [mailed EXCEPT ![m].again = @ \/ Mark(m, at) < Mark(m, mailed[m].at)]

GoesOnMailing(r, m) ==
  LET run == mailRun[r]
  IN mailRun' = [mailRun EXCEPT ![r] = Going(run.ahead \ {m}, run.at, run.shared)]

(* The answer was good.                                                        *)
MailMarked(r, m) ==
  /\ mailRun[r].pc = "taken" /\ IsAt(r, m)
  /\ SetMark(m, mailRun[r].at)
  /\ GoesOnMailing(r, m)
  /\ UNCHANGED <<clock, toBoot>>

(* The mail was refused, or its answer lost: a claim is given back, and a mark *)
(* is not set.                                                                 *)
MailFailed(r, m) ==
  /\ IsAt(r, m)
  /\ mark' = IF m \in Claimed THEN [mark EXCEPT ![m] = 0] ELSE mark
  /\ mailed' = [mailed EXCEPT ![m].again = @ \/ mailRun[r].pc = "taken"]
  /\ GoesOnMailing(r, m)
  /\ UNCHANGED <<clock, toBoot>>

(* A digest with nothing in it is marked without a mail.                       *)
NothingToSend(r, m) ==
  /\ mailRun[r].pc = "sending" /\ IsAt(r, m) /\ m \in Daily
  /\ SetMark(m, mailRun[r].at)
  /\ GoesOnMailing(r, m)
  /\ UNCHANGED <<clock, toBoot>>

ClockTick ==
  /\ clock < MaxTime
  /\ clock' = clock + 1
  /\ UNCHANGED <<mark, toBoot, mailRun, mailed>>

(* The process ends and starts again; what Graph had taken and no mark tells   *)
(* may be sent again, but for a claimed mail.                                  *)
MailRestart ==
  LET unmarked == {m \in Mails \ Claimed : \E r \in MailRuns : mailRun[r].pc = "taken" /\ IsAt(r, m)}
  IN /\ mailRun' = [r \in MailRuns |-> NoRun]
     /\ toBoot' = BootMails
     /\ mailed' = [m \in Mails |-> [mailed[m] EXCEPT !.again = @ \/ m \in unmarked]]
     /\ UNCHANGED <<clock, mark>>

MailInit ==
  /\ clock = 0
  /\ mark = [m \in Mails |-> IF m \in Daily THEN -1 ELSE 0]
  /\ toBoot = BootMails
  /\ mailRun = [r \in MailRuns |-> NoRun]
  /\ mailed = [m \in Mails |-> [at |-> -1, again |-> FALSE]]

MailRunSteps ==
  \/ \E r \in MailRuns, m \in Mails :
       MailTaken(r, m) \/ MailMarked(r, m) \/ MailFailed(r, m) \/ NothingToSend(r, m)
  \/ ClockTick \/ MailRestart

MailNext == WeeklyRun \/ DailyRun \/ (\E m \in BootMails : BootMail(m)) \/ MailRunSteps

MailSpec == MailInit /\ [][MailNext]_mailVars

-----------------------------------------------------------------------------
(* The period of a mail is over: a week after its stamp, another day, never.   *)
PeriodOver(m, at) ==
  \/ mailed[m].at = -1
  \/ m \in Weekly /\ at >= mailed[m].at + WeekLength
  \/ m \in Daily /\ Day(at) # Day(mailed[m].at)

(* Weekly reports, daily mails ("at most once a day per address",              *)
(* onboardingOwners.ts:359) and one-time mails go out once in their period,    *)
(* except after a lost answer, by a run that had the mail in hand when another *)
(* one had it too, after such a run put the mark back, and, for a mail that is *)
(* not claimed, after a restart between the send and the mark.                 *)
OncePerPeriod ==
  [][\A r \in MailRuns, m \in Mails :
       mailRun[r].pc = "sending" /\ IsAt(r, m) /\ mailRun'[r].pc = "taken"
         => PeriodOver(m, mailRun[r].at) \/ mailed[m].again \/ m \in mailRun[r].shared]_mailVars
=============================================================================
