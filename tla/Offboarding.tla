----------------------------- MODULE Offboarding -----------------------------
(***************************************************************************)
(* The offboarding board (services/offboardingAgent.ts, its routes, and    *)
(* services/offboardingAutomation.ts) on top of the domain-controller job  *)
(* queue.                                                                  *)
(*                                                                         *)
(* A request is one departing person; its items are the checklist.  Items  *)
(* are closed by people, by the job queue, by Microsoft 365 calls, by the  *)
(* hourly OneDrive handover, by app user lists, and by the boot code.  A   *)
(* request's status is derived from its items by recompute, after every    *)
(* handler.  Handlers run without interruption except where they await the *)
(* network; the process may be killed between any two statements, and each *)
(* boot repairs the board before it serves anybody.                        *)
(***************************************************************************)
EXTENDS DcJobs, Sequences

CONSTANTS
  Requests,     \* departing people
  Codes,        \* action codes of the checklist, of this release and later ones
  Order,        \* the codes in the order planItems lists them
  FirstRelease, \* the codes the running release plans
  Approvals,    \* codes of kind 'approval': destructive steps
  OnDc,         \* codes the domain controller executes
  InCloud,      \* codes the server executes through Microsoft Graph
  Mailed,       \* codes with an email_to
  AppGated,     \* codes closed by an app's user list
  Directory,    \* codes that need an AD account or a mailbox
  Handover,     \* the code of the OneDrive handover
  Handlers,     \* awaiting requests and scheduler runs that can be in progress at once
  NoOne,        \* "no request" (a model value)
  MaxKills      \* bound: how often the process is killed

Items == Requests \X Codes

ASSUME OffboardingAssumption ==
  /\ Refs = Items   \* a job is for an item (onboarding's jobs are left out)
  /\ \A c \in Codes : \E n \in 1 .. Len(Order) : Order[n] = c
  /\ FirstRelease \subseteq Codes
  /\ Approvals \cap (InCloud \cup Mailed \cup AppGated) = {}
  /\ Handover \notin Approvals
  /\ NoOne \notin Requests
  /\ MaxKills \in Nat

VARIABLES
  request,    \* offboarding_requests.status
  directory,  \* the person has an AD account or a mailbox
  item,       \* offboarding_items: status and decided_by
  planned,    \* the codes planItems returns in the running release
  call,       \* awaiting handlers
  up,         \* the process is serving
  kills,
  verdict     \* history: what a person decided about each item

boardVars == <<request, directory, item>>
vars == <<boardVars, planned, call, up, kills, verdict, jobVars>>

-----------------------------------------------------------------------------
RequestStatus == {"none", "open", "complete", "cancelled"}
ItemStatus == {"none", "pending", "done", "approved", "rejected", "skipped", "na"}
Deciders == {"nobody", "person", "agent", "script", "automation", "system"}
Phases == {"idle", "mailing", "cloud", "handover"}
ItemRow == [status: ItemStatus, by: Deciders]
Calls == [phase: Phases, at: Items \cup {NoOne}, pending: BOOLEAN, rest: SUBSET Requests]

Missing == [status |-> "none", by |-> "nobody"]
Pending == [status |-> "pending", by |-> "nobody"]
Idle == [phase |-> "idle", at |-> NoOne, pending |-> FALSE, rest |-> {}]

TypeOK ==
  /\ request \in [Requests -> RequestStatus]
  /\ directory \in [Requests -> BOOLEAN]
  /\ item \in [Items -> ItemRow]
  /\ planned \subseteq Codes
  /\ call \in [Handlers -> Calls]
  /\ up \in BOOLEAN
  /\ kills \in 0 .. MaxKills
  /\ verdict \in [Items -> ItemStatus]
  /\ JobsTypeOK

Init ==
  /\ request = [r \in Requests |-> "none"]
  /\ directory \in [Requests -> BOOLEAN]
  /\ item = [i \in Items |-> Missing]
  /\ planned = FirstRelease
  /\ call = [h \in Handlers |-> Idle]
  /\ up = TRUE
  /\ kills = 0
  /\ verdict = [i \in Items |-> "none"]
  /\ JobsInit

-----------------------------------------------------------------------------
(***************************************************************************)
(* The derived status.                                                     *)
(***************************************************************************)
NothingPending(items, r) == \A c \in Codes : items[<<r, c>>].status # "pending"

Derived(items, r) == IF NothingPending(items, r) THEN "complete" ELSE "open"

\* Mutant: recompute revives a cancelled request.
RecomputedAlways(items, R) ==
  [r \in Requests |-> IF r \in R /\ request[r] # "none" THEN Derived(items, r) ELSE request[r]]

\* recompute, for the requests of R and the items the handler leaves.
Recomputed(items, R) ==
  [r \in Requests |-> IF r \in R /\ request[r] \notin {"none", "cancelled"}
                      THEN Derived(items, r) ELSE request[r]]

\* Writing one item and recomputing its request.
Close(i, status, by) ==
  /\ item' = [item EXCEPT ![i] = [status |-> status, by |-> by]]
  /\ request' = Recomputed(item', {i[1]})

\* Mutant: completeItemByScript does not look at the status first.
CloseAnyway(i, status, by) == Close(i, status, by)

\* Closing it only if it is still pending.
CloseIfPending(i, status, by) ==
  IF item[i].status = "pending" THEN Close(i, status, by) ELSE UNCHANGED <<item, request>>

\* The process is killed: awaiting handlers and the requests in progress are gone.
Kill ==
  /\ kills < MaxKills
  /\ kills' = kills + 1
  /\ up' = FALSE
  /\ call' = [h \in Handlers |-> Idle]

-----------------------------------------------------------------------------
(***************************************************************************)
(* createOffboarding.                                                      *)
(***************************************************************************)

\* Directory steps of a person without a directory are not applicable.
NotApplicable(i) == ~directory[i[1]] /\ i[2] \in Directory
NaBySystem == [status |-> "na", by |-> "system"]

\* What the app's user list says of the person, for the gated codes: keep the step, close it
\* as not applicable, or close it as done.
AppAnswers == [AppGated -> {"keep", "na", "done"}]
ByAppList(row, i, answer) ==
  IF row.status = "pending" /\ i[2] \in AppGated /\ answer[i[2]] # "keep"
  THEN [status |-> answer[i[2]], by |-> "system"] ELSE row

Create(r, answer) ==
  /\ up
  /\ request[r] = "none"
  /\ item' = [i \in Items |->
                IF i[1] # r \/ i[2] \notin planned THEN item[i]
                ELSE IF NotApplicable(i) THEN NaBySystem ELSE ByAppList(Pending, i, answer)]
  /\ request' = [request EXCEPT ![r] = Derived(item', r)]
  /\ UNCHANGED <<directory, planned, call, up, kills, verdict, jobVars>>

\* Killed after the request and its first n items were inserted.  A kill further down leaves
\* a board that the next boot turns into the same one.
CreateInterrupted(r, n) ==
  /\ up
  /\ request[r] = "none"
  /\ request' = [request EXCEPT ![r] = "open"]
  /\ item' = [i \in Items |->
                IF i[1] = r /\ i[2] \in planned /\ \E k \in 1 .. n : Order[k] = i[2]
                THEN Pending ELSE item[i]]
  /\ Kill
  /\ UNCHANGED <<directory, planned, verdict, jobVars>>

(***************************************************************************)
(* Decisions.                                                              *)
(***************************************************************************)
Verdicts(c) == {"skipped"} \cup IF c \in Approvals THEN {"approved", "rejected"} ELSE {"done"}

\* decideItem; on an item that is no longer pending it changes nothing.
Decide(i, v) ==
  /\ up
  /\ item[i].status = "pending"
  /\ v \in Verdicts(i[2])
  /\ Close(i, v, "person")
  /\ verdict' = [verdict EXCEPT ![i] = v]
  /\ UNCHANGED <<directory, planned, call, up, kills, jobVars>>

\* Killed between the item and recompute.
DecideInterrupted(i, v) ==
  /\ up
  /\ item[i].status = "pending"
  /\ v \in Verdicts(i[2])
  /\ item' = [item EXCEPT ![i] = [status |-> v, by |-> "person"]]
  /\ verdict' = [verdict EXCEPT ![i] = v]
  /\ Kill
  /\ UNCHANGED <<request, directory, planned, jobVars>>

Cancel(r) ==
  /\ up
  /\ request[r] \in {"open", "complete"}
  /\ request' = [request EXCEPT ![r] = "cancelled"]
  /\ UNCHANGED <<directory, item, planned, call, up, kills, verdict, jobVars>>

-----------------------------------------------------------------------------
(***************************************************************************)
(* The domain controller.                                                  *)
(***************************************************************************)

\* Mutant: the route does not ask for the approval.
RunUnapproved(i) ==
  /\ up
  /\ item[i].status # "none"
  /\ i[2] \in OnDc
  /\ directory[i[1]]
  /\ Enqueue(i)
  /\ UNCHANGED <<boardVars, planned, call, up, kills, verdict>>

\* POST run-on-dc.  Neither the request's status nor, for a task, the item's is asked for.
RunOnDc(i) ==
  /\ up
  /\ item[i].status # "none"
  /\ i[2] \in OnDc
  /\ i[2] \in Approvals => item[i].status = "approved"
  /\ directory[i[1]]
  /\ Enqueue(i)
  /\ UNCHANGED <<boardVars, planned, call, up, kills, verdict>>

Poll(b) ==
  /\ up
  /\ ClaimPending(b)
  /\ UNCHANGED <<boardVars, planned, call, up, kills, verdict>>

\* Mutant: the side effects do not look at the outcome.
ReceiveAnyResult(m) ==
  /\ up
  /\ RecordResult(m)
  /\ CloseIfPending(job[m.id].ref, "done", "agent")
  /\ UNCHANGED <<directory, planned, call, up, kills, verdict>>

\* completeJob, then dispatchSideEffects and applyOffboardingJobResult.
ReceiveResult(m) ==
  /\ up
  /\ RecordResult(m)
  /\ IF m.ok THEN CloseIfPending(job[m.id].ref, "done", "agent") ELSE UNCHANGED <<item, request>>
  /\ UNCHANGED <<directory, planned, call, up, kills, verdict>>

\* Killed after the job's row, or after the item's, before recompute.
ResultInterrupted(m) ==
  /\ up
  /\ RecordResult(m)
  /\ Kill
  /\ \/ UNCHANGED item
     \/ /\ m.ok
        /\ item[job[m.id].ref].status = "pending"
        /\ item' = [item EXCEPT ![job[m.id].ref] = [status |-> "done", by |-> "agent"]]
  /\ UNCHANGED <<request, directory, planned, verdict>>

\* The offboarding script run by hand on the domain controller reports a step as done.
ScriptReports(i) ==
  /\ up
  /\ item[i].status # "none"
  /\ i[2] \notin Approvals
  /\ CloseIfPending(i, "done", "script")
  /\ UNCHANGED <<directory, planned, call, up, kills, verdict, jobVars>>

Agent ==
  /\ AgentStep
  /\ UNCHANGED <<boardVars, planned, call, up, kills, verdict>>

-----------------------------------------------------------------------------
(***************************************************************************)
(* Handlers that await the network.                                        *)
(***************************************************************************)
Begin(h, c) ==
  /\ up
  /\ call[h].phase = "idle"
  /\ call' = [call EXCEPT ![h] = c]
  /\ UNCHANGED <<boardVars, planned, up, kills, verdict, jobVars>>

\* sendOffboardingEmail reads the item, then awaits Microsoft 365.
SendEmail(h, i) ==
  /\ item[i].status # "none"
  /\ i[2] \in Mailed
  /\ Begin(h, [phase |-> "mailing", at |-> i, pending |-> item[i].status = "pending", rest |-> {}])

\* The mail went out: what was read before the await decides whether the item is closed.
EmailSent(h) ==
  /\ call[h].phase = "mailing"
  /\ IF call[h].pending THEN Close(call[h].at, "done", "person") ELSE UNCHANGED <<item, request>>
  /\ call' = [call EXCEPT ![h] = Idle]
  /\ UNCHANGED <<directory, planned, up, kills, verdict, jobVars>>

\* POST run-in-cloud awaits Microsoft Graph, then completeItemByScript reads the item afresh.
RunInCloud(h, i) ==
  /\ item[i].status # "none"
  /\ i[2] \in InCloud
  /\ Begin(h, [phase |-> "cloud", at |-> i, pending |-> FALSE, rest |-> {}])

CloudDone(h) ==
  /\ call[h].phase = "cloud"
  /\ CloseIfPending(call[h].at, "done", "script")
  /\ call' = [call EXCEPT ![h] = Idle]
  /\ UNCHANGED <<directory, planned, up, kills, verdict, jobVars>>

\* The network said no, or nothing: the handler ends and the board is as it was.
CallFailed(h) ==
  /\ call[h].phase \in {"mailing", "cloud"}
  /\ call' = [call EXCEPT ![h] = Idle]
  /\ UNCHANGED <<boardVars, planned, up, kills, verdict, jobVars>>

\* autoReassignOneDrive (hourly, or Run now) reads the due rows once, then awaits for each.
\* Which last days have come is left open.
HandoverRun(h) ==
  \E R \in SUBSET {i[1] : i \in {i \in Requests \X ({Handover} \cap Codes) :
                                  request[i[1]] = "open" /\ item[i].status = "pending"}} :
    /\ R # {}
    /\ Begin(h, [phase |-> "handover", at |-> NoOne, pending |-> FALSE, rest |-> R])

\* Where a run goes from request r.
NextRow(h, r) ==
  call' = [call EXCEPT ![h] = IF call[h].rest = {r} THEN Idle
                              ELSE [call[h] EXCEPT !.rest = @ \ {r}]]

\* Mutant: the run stamps the item and leaves it pending.
StampOnly(h, r) ==
  /\ call[h].phase = "handover"
  /\ r \in call[h].rest
  /\ item' = [item EXCEPT ![<<r, Handover>>].by = "automation"]
  /\ NextRow(h, r)
  /\ UNCHANGED <<request, directory, planned, up, kills, verdict, jobVars>>

\* completeItemByScript, then decided_by is overwritten whoever decided the item.
HandedOver(h, r) ==
  LET i == <<r, Handover>>
      open == item[i].status = "pending"
  IN
  /\ call[h].phase = "handover"
  /\ r \in call[h].rest
  /\ item' = [item EXCEPT ![i] = [status |-> IF open THEN "done" ELSE @.status, by |-> "automation"]]
  /\ request' = IF open THEN Recomputed(item', {r}) ELSE request
  /\ NextRow(h, r)
  /\ UNCHANGED <<directory, planned, up, kills, verdict, jobVars>>

HandoverFailed(h, r) ==
  /\ call[h].phase = "handover"
  /\ r \in call[h].rest
  /\ NextRow(h, r)
  /\ UNCHANGED <<boardVars, planned, up, kills, verdict, jobVars>>

\* A fresh app user list closes gated steps of live requests (reconcileAppAccessItems).
AppListLoaded(i, s) ==
  /\ up
  /\ i[2] \in AppGated
  /\ request[i[1]] # "cancelled"
  /\ item[i].status = "pending"
  /\ Close(i, s, "system")
  /\ UNCHANGED <<directory, planned, call, up, kills, verdict, jobVars>>

-----------------------------------------------------------------------------
(***************************************************************************)
(* Kill and boot.  backfillOffboardingItems and reconcileAppAccessItems    *)
(* run before the server listens; a new release may plan more items.       *)
(***************************************************************************)
Killed ==
  /\ up
  /\ Kill
  /\ UNCHANGED <<boardVars, planned, verdict, jobVars>>

Live == {r \in Requests : request[r] \notin {"none", "cancelled"}}

\* Mutant: the backfill only revises what is there.
BackfilledNothing(i, new) ==
  IF i[1] \in Live /\ item[i].status = "pending" /\ NotApplicable(i) THEN NaBySystem ELSE item[i]

\* An item of a live request after the backfill: added if it was missing, and not applicable
\* if the request is complete or the person has no directory.
Backfilled(i, new) ==
  IF i[1] \notin Live THEN item[i]
  ELSE IF item[i].status = "none" /\ i[2] \in new
       THEN IF request[i[1]] = "complete" \/ NotApplicable(i) THEN NaBySystem ELSE Pending
  ELSE IF item[i].status = "pending" /\ NotApplicable(i) THEN NaBySystem
  ELSE item[i]

\* Mutant: the boot repairs the items and does not recompute the requests.
BootWithoutRecompute(new, answer) ==
  /\ ~up
  /\ planned \subseteq new
  /\ planned' = new
  /\ up' = TRUE
  /\ item' = [i \in Items |-> IF i[1] \in Live THEN ByAppList(Backfilled(i, new), i, answer)
                              ELSE item[i]]
  /\ UNCHANGED <<request, directory, call, kills, verdict, jobVars>>

Boot(new, answer) ==
  /\ ~up
  /\ planned \subseteq new
  /\ planned' = new
  /\ up' = TRUE
  /\ item' = [i \in Items |-> IF i[1] \in Live THEN ByAppList(Backfilled(i, new), i, answer)
                              ELSE item[i]]
  /\ request' = Recomputed(item', Requests)
  /\ UNCHANGED <<directory, call, kills, verdict, jobVars>>

\* Killed in the backfill after an item was inserted and before it was marked not applicable.
BootInterrupted(new, i) ==
  /\ ~up
  /\ kills < MaxKills
  /\ kills' = kills + 1
  /\ planned \subseteq new
  /\ planned' = new
  /\ i[1] \in Live
  /\ i[2] \in new
  /\ item[i].status = "none"
  /\ item' = [item EXCEPT ![i] = Pending]
  /\ UNCHANGED <<request, directory, call, up, verdict, jobVars>>

-----------------------------------------------------------------------------
CallNext ==
  \E h \in Handlers :
    \/ \E i \in Items : SendEmail(h, i) \/ RunInCloud(h, i)
    \/ HandoverRun(h)
    \/ EmailSent(h) \/ CloudDone(h) \/ CallFailed(h)
    \/ \E r \in Requests : HandedOver(h, r) \/ HandoverFailed(h, r)

DcNext ==
  \/ \E i \in Items : RunOnDc(i) \/ ScriptReports(i)
  \/ \E b \in 0 .. MaxPolls : Poll(b)
  \/ \E m \in Results : ReceiveResult(m) \/ ResultInterrupted(m)
  \/ Agent

Next ==
  \/ \E r \in Requests : \/ \E a \in AppAnswers : Create(r, a)
                         \/ \E n \in 0 .. Len(Order) : CreateInterrupted(r, n)
                         \/ Cancel(r)
  \/ \E i \in Items, v \in ItemStatus : Decide(i, v) \/ DecideInterrupted(i, v)
  \/ \E i \in Items, s \in {"na", "done"} : AppListLoaded(i, s)
  \/ DcNext
  \/ CallNext
  \/ Killed
  \/ \E new \in SUBSET Codes : \/ \E a \in AppAnswers : Boot(new, a)
                               \/ \E i \in Items : BootInterrupted(new, i)

Spec == Init /\ [][Next]_vars

(***************************************************************************)
(* The hourly tick keeps coming, the process is started again, network     *)
(* calls end, and the handover of a request does not fail for ever.  The   *)
(* slot of a scheduler run may be busy; it is never busy for ever.         *)
(***************************************************************************)
FairSpec ==
  /\ Spec
  /\ WF_vars(\E new \in SUBSET Codes, a \in AppAnswers : Boot(new, a))
  /\ \A h \in Handlers :
       /\ SF_vars(HandoverRun(h))
       /\ WF_vars(EmailSent(h) \/ CloudDone(h) \/ CallFailed(h))
       /\ \A r \in Requests : /\ WF_vars(HandedOver(h, r) \/ HandoverFailed(h, r))
                              /\ SF_vars(HandedOver(h, r))

-----------------------------------------------------------------------------
(***************************************************************************)
(* Properties that hold.                                                   *)
(***************************************************************************)

\* Whoever closed the last item, and wherever the process was killed, a board that is served
\* calls a request complete exactly when none of its items is pending.
BoardMatchesItems ==
  up => \A r \in Live : request[r] = "complete" <=> NothingPending(item, r)

\* A live request has every step of the running release, also when it was being created at
\* the kill or is older than the step.
ChecklistComplete == up => \A r \in Live, c \in planned : item[<<r, c>>].status # "none"

\* Nothing destructive reaches the domain controller without a person's approval of it.
DeletionNeedsApproval ==
  \A j \in JobIds :
    job[j].ref \in Items /\ job[j].ref[2] \in Approvals => verdict[job[j].ref] = "approved"

\* A decided approval stands: no automation, result, boot or mail changes it afterwards.
ApprovalsStand ==
  [][\A i \in Items : i[2] \in Approvals /\ verdict[i] # "none" => item'[i] = item[i]]_vars

\* A step the board shows as closed by the agent took effect in Active Directory.
ClosedByAgentWasApplied ==
  \A i \in Items : item[i].by = "agent" => \E j \in JobIds : job[j].ref = i /\ applied[j] > 0

\* Late results, mails, handovers and boots close items of a cancelled request without ever
\* bringing it back to the board.
CancelledStays ==
  [][\A r \in Requests : request[r] = "cancelled" => request'[r] = "cancelled"]_vars

\* The manager of a leaver whose offboarding stays open gets the OneDrive.
HandoverHappens ==
  \A r \in Requests :
    (request[r] = "open" /\ item[<<r, Handover>>].status = "pending")
      ~> (request[r] # "open" \/ item[<<r, Handover>>].status # "pending")

(***************************************************************************)
(* What the comments promise and the code does not keep.                   *)
(***************************************************************************)

\* routes/offboarding.ts: a decision is recorded under the email of who took it.
DecisionStands ==
  \A i \in Items : verdict[i] # "none" => item[i] = [status |-> verdict[i], by |-> "person"]

\* dcJobs.ts: when a job completes, its side effects are applied.
DoneJobClosedItem ==
  up => \A j \in JobIds : job[j].status = "done" => item[job[j].ref].status # "pending"
=============================================================================
