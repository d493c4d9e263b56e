------------------------------ MODULE MCTimers ------------------------------
(* What the process does by the clock: the kinds of mail, the dunning and the *)
(* timer of the integrations.  They share no state, so each behaviour is one  *)
(* of one of them: the others stay as they were.                              *)
EXTENDS ScheduledMail, Collections, SyncTimer, TLC

CONSTANTS run1, run2

MCRuns == {run1, run2}
MCSymmetry == Permutations(MCRuns)

VARIABLE part

MCInit ==
  /\ part \in {"reports", "daily mail", "one-time mail", "dunning", "syncs"}
  /\ MailInit /\ DunningInit /\ SyncInit

OfMail == UNCHANGED <<part, dunningVars, syncVars>>

MCNext ==
  \/ part = "reports" /\ WeeklyRun /\ OfMail
  \/ part = "daily mail" /\ DailyRun /\ OfMail
  \/ part = "one-time mail" /\ (\E m \in BootMails : BootMail(m)) /\ OfMail
  \/ part \in {"reports", "daily mail", "one-time mail"} /\ MailRunSteps /\ OfMail
  \/ part = "dunning" /\ DunningNext /\ UNCHANGED <<part, mailVars, syncVars>>
  \/ part = "syncs" /\ SyncNext /\ UNCHANGED <<part, mailVars, dunningVars>>

MCSpec == MCInit /\ [][MCNext]_<<part, mailVars, dunningVars, syncVars>>
=============================================================================
