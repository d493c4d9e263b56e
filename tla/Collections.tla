------------------------------ MODULE Collections ------------------------------
(* Daily dunning until an invoice is paid: a run at boot, every hour and on    *)
(* demand goes through the workflows that are due and awaits the draft of each *)
(* message, while people pay, enrol, pause, resume and stop.                   *)
EXTENDS Integers

CONSTANTS
  Invoices,       \* the invoices, by the number of their workflow
  DunningRuns,    \* bound: runs under way at once
  OneDay,         \* `+1 day`, in ticks
  LastHour        \* bound on the clock

ASSUME CollectionsAssumption ==
  Invoices \subseteq Nat /\ OneDay \in Nat \ {0} /\ LastHour \in Nat

VARIABLES
  hour,
  paid,        \* the invoices whose status is 'paid'
  workflow,    \* invoice_workflow: status and next_run_at
  dunning,     \* the runs: the workflows ahead, the first being drafted, and (history)
               \* those it may touch early: forced, or in another run's hands as well
  touched      \* history: the last touch of an invoice, and whether another may follow

dunningVars == <<hour, paid, workflow, dunning, touched>>

NoDunning == [ahead |-> {}, early |-> {}]

DunningTypeOK ==
  /\ hour \in 0..LastHour
  /\ paid \subseteq Invoices
  /\ workflow \in [Invoices -> [status : {"none", "active", "paused", "stopped", "done"},
                                next : 0..(LastHour + OneDay)]]
  /\ dunning \in [DunningRuns -> [ahead : SUBSET Invoices, early : SUBSET Invoices]]
  /\ touched \in [Invoices -> [at : -1..LastHour, again : BOOLEAN]]

-----------------------------------------------------------------------------
(* The runs that await the draft of an invoice, and what all runs have ahead. *)
IsFirst(i, ahead) == i \in ahead /\ \A o \in ahead : i <= o
Drafting(i) == {r \in DunningRuns : IsFirst(i, dunning[r].ahead)}
InHands == UNION {dunning[r].ahead : r \in DunningRuns}

DueBills(force) ==
  {i \in Invoices : workflow[i].status = "active" /\ (force \/ workflow[i].next <= hour)}

\* Mutant: who has paid is asked when the run begins.
ToDraftOf(rows, begins) == IF begins THEN rows \ paid ELSE rows

(* What a run still drafts: an invoice is asked for at its turn, and a paid    *)
(* one has its workflow closed instead.                                        *)
ToDraft(rows, begins) == {i \in rows : \E u \in rows \ paid : u <= i}

(* The workflows a run comes to before its next draft.                         *)
PassedBy(rows, begins) == (rows \ ToDraft(rows, begins)) \cap paid

Closed(bills) == [i \in Invoices |-> IF i \in bills THEN [workflow[i] EXCEPT !.status = "done"] ELSE workflow[i]]

(* runDailyCollection, up to its first await.                                  *)
RunDailyCollection(force) ==
  LET rows == DueBills(force)
      ahead == ToDraft(rows, TRUE)
      notDue == {i \in ahead : workflow[i].next > hour}
  IN \E r \in DunningRuns :
       /\ dunning[r] = NoDunning
       /\ workflow' = Closed(PassedBy(rows, TRUE))
       /\ dunning' = [x \in DunningRuns |->
                        IF x = r THEN [ahead |-> ahead, early |-> notDue \cup (ahead \cap InHands)]
                        ELSE [dunning[x] EXCEPT !.early = @ \cup (dunning[x].ahead \cap ahead)]]
       /\ UNCHANGED <<hour, paid, touched>>

(* The messages of an invoice are sent (or logged).                            *)
Touched(i) == touched' = [touched EXCEPT ![i] = [at |-> hour, again |-> FALSE]]

\* Mutant: a day from when it was due.
NextFromDue(i) == workflow[i].next + OneDay

(* When the next cycle is: a day from now.                                     *)
NextCycle(i) == hour + OneDay

(* A draft has come back: the messages go out, and the run goes on.            *)
Drafted(r, i) ==
  LET rest == dunning[r].ahead \ {i}
      ahead == ToDraft(rest, FALSE)
  IN /\ IsFirst(i, dunning[r].ahead)
     /\ Touched(i)
     /\ workflow' = [Closed(PassedBy(rest, FALSE)) EXCEPT ![i].next = NextCycle(i)]
     /\ dunning' = [dunning EXCEPT ![r] = IF ahead = {} THEN NoDunning ELSE [@ EXCEPT !.ahead = ahead]]
     /\ UNCHANGED <<hour, paid>>

(* The process ends between two awaits, or between a touch and its UPDATE.     *)
DunningRestart ==
  /\ dunning' = [r \in DunningRuns |-> NoDunning]
  /\ UNCHANGED <<hour, paid, workflow>>
  /\ \/ UNCHANGED touched
     \/ \E i \in Invoices : Drafting(i) # {} /\ touched' = [touched EXCEPT ![i] = [at |-> hour, again |-> TRUE]]

(* POST /api/invoices/:id/mark-paid.                                           *)
MarkPaid(i) ==
  /\ paid' = paid \cup {i}
  /\ workflow' = IF workflow[i].status \in {"active", "paused"} THEN Closed({i}) ELSE workflow
  /\ UNCHANGED <<hour, dunning, touched>>

(* The process ends before completeWorkflowIfPaid: the workflow stays as it is.*)
MarkPaidInterrupted(i) ==
  /\ paid' = paid \cup {i}
  /\ dunning' = [r \in DunningRuns |-> NoDunning]
  /\ UNCHANGED <<hour, workflow, touched>>

(* The workflow is armed: its next cycle is now.                               *)
Arm(i) ==
  /\ workflow' = [workflow EXCEPT ![i] = [status |-> "active", next |-> hour]]
  /\ touched' = [touched EXCEPT ![i].again = TRUE]
  /\ UNCHANGED <<hour, paid, dunning>>

(* enrollInvoice: not a paid one, but one that is enrolled, too.               *)
Enroll(i) == i \notin paid /\ Arm(i)

(* POST /api/invoices/workflow/:id/(pause|resume|stop).                        *)
ResumeWorkflow(i) == workflow[i].status # "none" /\ Arm(i)

HoldWorkflow(i, status) ==
  /\ workflow[i].status # "none"
  /\ workflow' = [workflow EXCEPT ![i].status = status]
  /\ UNCHANGED <<hour, paid, dunning, touched>>

HourPasses ==
  /\ hour < LastHour
  /\ hour' = hour + 1
  /\ UNCHANGED <<paid, workflow, dunning, touched>>

DunningInit ==
  /\ hour = 0
  /\ paid = {}
  /\ workflow = [i \in Invoices |-> [status |-> "none", next |-> 0]]
  /\ dunning = [r \in DunningRuns |-> NoDunning]
  /\ touched = [i \in Invoices |-> [at |-> -1, again |-> FALSE]]

DunningNext ==
  \/ \E force \in BOOLEAN : RunDailyCollection(force)
  \/ \E i \in Invoices, r \in DunningRuns : Drafted(r, i)
  \/ \E i \in Invoices : \/ MarkPaid(i) \/ MarkPaidInterrupted(i) \/ Enroll(i) \/ ResumeWorkflow(i)
                      \/ HoldWorkflow(i, "paused") \/ HoldWorkflow(i, "stopped")
  \/ DunningRestart \/ HourPasses

DunningSpec == DunningInit /\ [][DunningNext]_dunningVars

-----------------------------------------------------------------------------
(* "Each enrolled invoice only gets its email+text once a day" (app.ts:406): a *)
(* second touch within a day takes a run by hand, a person who arms the        *)
(* workflow again, two runs with the invoice in hand, or a restart between the *)
(* messages and the UPDATE.                                                    *)
OnceADay ==
  [][\A r \in DunningRuns, i \in Invoices : Drafted(r, i) =>
       \/ touched[i].at = -1 \/ hour >= touched[i].at + OneDay
       \/ touched[i].again \/ i \in dunning[r].early]_dunningVars

(* "Paid: close the workflow, don't send" (collectionWorkflow.ts:186): once an *)
(* invoice is paid no message of it is begun; one that was being drafted goes  *)
(* out all the same.                                                           *)
PaidIsNotChased ==
  [][\A i \in paid : Drafting(i)' \subseteq Drafting(i)]_dunningVars
=============================================================================
