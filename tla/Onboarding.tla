----------------------------- MODULE Onboarding -----------------------------
(***************************************************************************)
(* The onboarding board (services/onboardingAgent.ts and its routes), the  *)
(* creation of the hire's account through the domain-controller job queue, *)
(* and the Entra licence queue (services/entraLicensing.ts).               *)
(*                                                                         *)
(* A request is one new hire.  Its items are tasks and approvals; an       *)
(* approval, once given, adds the task that delivers what was approved.    *)
(* Items are closed by people, by approval links, by the agent's result,   *)
(* by Microsoft Graph calls and by app user lists.  The request's status   *)
(* is derived from the items, but not by every handler.  Nothing repairs   *)
(* the board at boot: what a kill leaves is what people find.              *)
(***************************************************************************)
EXTENDS DcJobs, Sequences

CONSTANTS
  Requests,     \* new hires
  Slots,        \* items a request may have
  Order,        \* the slots in the order routeItems lists them
  Forms,        \* the sets of slots that submitted forms are routed to
  Approvals,    \* slots of kind 'approval'
  FollowUp,     \* the slot of the task that delivers an approval
  Printers,     \* tasks "Add to security group"
  SharePoint,   \* tasks "Add to SharePoint group"
  Mail,         \* the task "Set up company email"
  AppSetup,     \* tasks closed by ServiceTrade's user list
  Handlers,     \* awaiting provisioning requests and licence passes
  MaxLicences,  \* bound: rows of entra_license_queue
  MaxKills      \* bound: how often the process is killed

Items == Requests \X Slots
Grouped == Printers \cup SharePoint
LicenceIds == 1 .. MaxLicences

ASSUME OnboardingAssumption ==
  /\ Refs = Requests   \* offboarding's jobs are left out
  /\ Forms \subseteq SUBSET Slots
  /\ Approvals \subseteq Slots
  /\ DOMAIN FollowUp \subseteq Approvals
  /\ \A a \in DOMAIN FollowUp : FollowUp[a] \in Slots \ (Approvals \cup UNION Forms)
  /\ \A a, b \in DOMAIN FollowUp : FollowUp[a] = FollowUp[b] => a = b
  /\ Grouped \subseteq Slots
  /\ Approvals \cap (Grouped \cup AppSetup \cup {Mail}) = {}
  /\ MaxLicences \in Nat
  /\ MaxKills \in Nat

VARIABLES
  request,      \* onboarding_requests.status
  item,         \* onboarding_items: status and decided_by
  followUps,    \* onboarding_items with the approval as parent_id
  payload,      \* dc_jobs.payload_json: the groups a job adds the account to
  licence,      \* entra_license_queue
  lastLicence,  \* AUTOINCREMENT of entra_license_queue
  call,         \* awaiting handlers
  account,      \* Active Directory: hires whose account the agent created or found
  member,       \* Active Directory and Entra: group memberships, by item
  licensed,     \* Entra: hires whose account has the licence
  kills

board == <<request, item, followUps>>
licences == <<licence, lastLicence>>
outside == <<account, member, licensed>>
vars == <<board, payload, licences, call, outside, kills, jobVars>>

-----------------------------------------------------------------------------
RequestStatus == {"none", "open", "complete", "needs_attention", "discarded"}
ItemStatus == {"none", "pending", "done", "approved", "rejected"}
Deciders == {"nobody", "person", "dc-agent", "entra-license", "system"}
LicenceStatus == {"none", "pending", "assigned", "error", "expired"}
ItemRow == [status: ItemStatus, by: Deciders]
LicenceRow == [status: LicenceStatus, ref: Requests \cup {NoRef}]
\* A handler in progress: the rows it read before its first await and has not dealt with.
Calls == [groups: SUBSET Items, rows: SUBSET LicenceIds]

Row(s, by) == [status |-> s, by |-> by]
Idle == [groups |-> {}, rows |-> {}]

TypeOK ==
  /\ request \in [Requests -> RequestStatus]
  /\ item \in [Items -> ItemRow]
  /\ followUps \in [Items -> Nat]
  /\ payload \in [JobIds -> SUBSET Slots]
  /\ licence \in [LicenceIds -> LicenceRow]
  /\ lastLicence \in 0 .. MaxLicences
  /\ call \in [Handlers -> Calls]
  /\ account \subseteq Requests
  /\ member \subseteq Items
  /\ licensed \subseteq Requests
  /\ kills \in 0 .. MaxKills
  /\ JobsTypeOK

Init ==
  /\ request = [r \in Requests |-> "none"]
  /\ item = [i \in Items |-> Row("none", "nobody")]
  /\ followUps = [i \in Items |-> 0]
  /\ payload = [j \in JobIds |-> {}]
  /\ licence = [l \in LicenceIds |-> [status |-> "none", ref |-> NoRef]]
  /\ lastLicence = 0
  /\ call = [h \in Handlers |-> Idle]
  /\ account = {} /\ member = {} /\ licensed = {}
  /\ kills = 0
  /\ JobsInit

-----------------------------------------------------------------------------
PendingOf(items, r) == {c \in Slots : items[<<r, c>>].status = "pending"}

\* Mutant: a rejection does not hold the request back.
DerivedIgnoringRejections(items, r) == IF PendingOf(items, r) # {} THEN "open" ELSE "complete"

Derived(items, r) ==
  IF PendingOf(items, r) # {} THEN "open"
  ELSE IF \E c \in Slots : items[<<r, c>>].status = "rejected" THEN "needs_attention"
  ELSE "complete"

\* recomputeRequestStatus, given the items the handler leaves.
Recomputed(items, r) ==
  [request EXCEPT ![r] = IF @ = "discarded" THEN @ ELSE Derived(items, r)]

\* The process is killed and started again: handlers in progress are gone.
Kill ==
  /\ kills < MaxKills
  /\ kills' = kills + 1
  /\ call' = [h \in Handlers |-> Idle]

-----------------------------------------------------------------------------
(***************************************************************************)
(* createRequest, discardRequest.                                          *)
(***************************************************************************)
Insert(r, slots) ==
  item' = [i \in Items |-> IF i[1] = r /\ i[2] \in slots THEN Row("pending", "nobody") ELSE item[i]]

Create(r, form) ==
  /\ request[r] = "none"
  /\ request' = [request EXCEPT ![r] = "open"]
  /\ Insert(r, form)
  /\ UNCHANGED <<followUps, payload, licences, call, outside, kills, jobVars>>

\* Killed after the request and its first n items were inserted.
CreateInterrupted(r, form, n) ==
  /\ request[r] = "none"
  /\ request' = [request EXCEPT ![r] = "open"]
  /\ Insert(r, {c \in form : \E k \in 1 .. n : Order[k] = c})
  /\ Kill
  /\ UNCHANGED <<followUps, payload, licences, outside, jobVars>>

Discard(r) ==
  /\ request[r] \notin {"none", "discarded"}
  /\ request' = [request EXCEPT ![r] = "discarded"]
  /\ UNCHANGED <<item, followUps, payload, licences, call, outside, kills, jobVars>>

(***************************************************************************)
(* Decisions, on the board or behind an approval link.  decide changes an  *)
(* item only if it is pending, and recomputes in any case.                 *)
(***************************************************************************)
Decided(i, s, by) == IF item[i].status = "pending" THEN [item EXCEPT ![i] = Row(s, by)] ELSE item

Settle(i, s, by) ==
  /\ item[i].status # "none"
  /\ item' = Decided(i, s, by)
  /\ request' = Recomputed(item', i[1])
  /\ UNCHANGED <<followUps, payload, licences, call, outside, kills, jobVars>>

CompleteItem(i) == i[2] \notin Approvals /\ Settle(i, "done", "person")
RejectItem(i) == i[2] \in Approvals /\ Settle(i, "rejected", "person")

\* autoCompleteServiceTradeSetup, after a refresh of ServiceTrade's user list.
ShownInServiceTrade(i) ==
  /\ i[2] \in AppSetup
  /\ item[i].status = "pending"
  /\ request[i[1]] # "discarded"
  /\ Settle(i, "done", "system")

\* Mutant: the follow-up is inserted whatever became of the approval.
DeliversAnyway(items, i) == followUps[i] = 0 /\ i[2] \in DOMAIN FollowUp

\* Mutant: approveItem does not look for the follow-up it made before.
DeliversAgain(items, i) == items[i].status = "approved" /\ i[2] \in DOMAIN FollowUp

\* approveItem goes on to insert the follow-up.
Delivers(items, i) ==
  /\ items[i].status = "approved"
  /\ followUps[i] = 0
  /\ i[2] \in DOMAIN FollowUp

WithFollowUp(items, i) ==
  [items EXCEPT ![<<i[1], FollowUp[i[2]]>>] = Row("pending", "nobody")]

ApproveItem(i) ==
  LET decided == Decided(i, "approved", "person") IN
  /\ item[i].status # "none"
  /\ i[2] \in Approvals
  /\ IF Delivers(decided, i)
     THEN /\ item' = WithFollowUp(decided, i)
          /\ followUps' = [followUps EXCEPT ![i] = @ + 1]
     ELSE item' = decided /\ UNCHANGED followUps
  /\ request' = Recomputed(item', i[1])
  /\ UNCHANGED <<payload, licences, call, outside, kills, jobVars>>

\* Killed between the item and its request.
DecideInterrupted(i, s) ==
  /\ item[i].status = "pending"
  /\ s \in IF i[2] \in Approvals THEN {"approved", "rejected"} ELSE {"done"}
  /\ item' = Decided(i, s, "person")
  /\ Kill
  /\ UNCHANGED <<request, followUps, payload, licences, outside, jobVars>>

\* Killed after decide, before the follow-up or before the request is recomputed for it.
ApproveInterrupted(i) ==
  LET decided == Decided(i, "approved", "person") IN
  /\ item[i].status # "none"
  /\ i[2] \in Approvals
  /\ Delivers(decided, i)
  /\ \/ item' = decided /\ UNCHANGED followUps
     \/ item' = WithFollowUp(decided, i) /\ followUps' = [followUps EXCEPT ![i] = @ + 1]
  /\ request' = Recomputed(decided, i[1])
  /\ Kill
  /\ UNCHANGED <<payload, licences, outside, jobVars>>

-----------------------------------------------------------------------------
(***************************************************************************)
(* provisionRequestGroups: the pending group items are read once, then     *)
(* each is awaited.  The update that follows asks for nothing, and the     *)
(* request's status is not recomputed.                                     *)
(***************************************************************************)
Provision(h, r) ==
  LET groups == {i \in {r} \X Grouped : item[i].status = "pending"} IN
  /\ call[h] = Idle
  /\ groups # {}
  /\ call' = [call EXCEPT ![h].groups = groups]
  /\ UNCHANGED <<board, payload, licences, outside, kills, jobVars>>

GroupAdded(h, i) ==
  /\ i \in call[h].groups
  /\ member' = member \cup {i}
  /\ item' = [item EXCEPT ![i] = Row("done", "person")]
  /\ call' = [call EXCEPT ![h].groups = @ \ {i}]
  /\ UNCHANGED <<request, followUps, payload, licences, account, licensed, kills, jobVars>>

\* Graph refused, or its answer was lost.
GroupFailed(h, i) ==
  /\ i \in call[h].groups
  /\ member' \in {member, member \cup {i}}
  /\ call' = [call EXCEPT ![h].groups = @ \ {i}]
  /\ UNCHANGED <<board, payload, licences, account, licensed, kills, jobVars>>

-----------------------------------------------------------------------------
(***************************************************************************)
(* The account, through the domain controller.                             *)
(***************************************************************************)

\* Mutant: the plan lists what the form asked for, not what is a pending task.
PlanFromForm(r) == {c \in Grouped : \A a \in DOMAIN FollowUp :
                      FollowUp[a] = c => item[<<r, a>>].status # "none"}

\* buildProvisionPlan: the groups of the pending IT tasks.
ProvisionPlan(r) == {c \in Grouped : item[<<r, c>>].status = "pending"}

\* POST provision-job; the request's status is not asked for.
CreateAccountJob(r) ==
  /\ request[r] # "none"
  /\ Enqueue(r)
  /\ payload' = [payload EXCEPT ![lastJob + 1] = ProvisionPlan(r)]
  /\ UNCHANGED <<board, licences, call, outside, kills>>

Poll(b) ==
  /\ ClaimPending(b)
  /\ UNCHANGED <<board, payload, licences, call, outside, kills>>

\* New-ADUser, then each group; a group that fails is skipped.  An account that exists is
\* left as it is, and the job succeeds.
CreatesAccount(j) ==
  LET r == job[j].ref IN
  /\ account' = account \cup {r}
  /\ \E groups \in SUBSET payload[j] :
       member' = IF r \in account THEN member ELSE member \cup ({r} \X groups)

Agent(j) ==
  /\ \/ AgentSucceeds(j) /\ CreatesAccount(j)
     \/ AgentFails(j) /\ (CreatesAccount(j) \/ UNCHANGED <<account, member>>)
     \/ AgentDies(j) /\ IF applied'[j] > applied[j] THEN CreatesAccount(j)
                        ELSE UNCHANGED <<account, member>>
  /\ UNCHANGED <<board, payload, licences, call, licensed, kills>>

\* Mutant: the agent's answer is not looked at.
TakesEffectAnyway(m) == TRUE

\* dispatchSideEffects runs on success alone.
TakesEffect(m) == m.ok

\* What applyCreateUserResult leaves: printer groups and the company email are done.
AfterAccount(r) ==
  [i \in Items |-> IF i[1] = r /\ i[2] \in Printers \cup {Mail} /\ item[i].status = "pending"
                   THEN Row("done", "dc-agent") ELSE item[i]]

\* Mutant: enqueueLicense inserts the row as if it had been processed.
QueuedAsAssigned(r) ==
  IF lastLicence < MaxLicences
  THEN /\ licence' = [licence EXCEPT ![lastLicence + 1] = [status |-> "assigned", ref |-> r]]
       /\ lastLicence' = lastLicence + 1
  ELSE UNCHANGED licences

\* enqueueLicense; a hire with a row that is pending or assigned gets no second one.
EnqueueLicence(r) ==
  IF \E l \in LicenceIds : licence[l].ref = r /\ licence[l].status \in {"pending", "assigned"}
  THEN UNCHANGED licences
  ELSE /\ lastLicence < MaxLicences
       /\ licence' = [licence EXCEPT ![lastLicence + 1] = [status |-> "pending", ref |-> r]]
       /\ lastLicence' = lastLicence + 1

ReceiveResult(m) ==
  LET r == job[m.id].ref IN
  /\ RecordResult(m)
  /\ IF TakesEffect(m)
     THEN /\ item' = AfterAccount(r)
          /\ request' = Recomputed(item', r)
          /\ EnqueueLicence(r)
     ELSE UNCHANGED <<item, request, licences>>
  /\ UNCHANGED <<followUps, payload, call, outside, kills>>

\* Killed after the job's row, after the items, or before the licence is queued.
ResultInterrupted(m) ==
  LET r == job[m.id].ref IN
  /\ RecordResult(m)
  /\ m.ok
  /\ \/ UNCHANGED <<item, request>>
     \/ item' = AfterAccount(r) /\ request' \in {request, Recomputed(AfterAccount(r), r)}
  /\ Kill
  /\ UNCHANGED <<followUps, payload, licences, outside>>

-----------------------------------------------------------------------------
(***************************************************************************)
(* processLicenseQueue: a timer that does not ask whether its last pass    *)
(* has ended.  A pass reads the pending rows once and awaits Graph for     *)
(* each; the updates that follow ask for nothing.                          *)
(***************************************************************************)
LicencePass(h) ==
  LET rows == {l \in LicenceIds : licence[l].status = "pending"} IN
  /\ call[h] = Idle
  /\ rows # {}
  /\ call' = [call EXCEPT ![h].rows = rows]
  /\ UNCHANGED <<board, payload, licences, outside, kills, jobVars>>

\* The pass is at row l: rows are taken in the order of their ids.
AtRow(h, l) == l \in call[h].rows /\ \A k \in call[h].rows : l <= k
RowDone(h, l) == call' = [call EXCEPT ![h].rows = @ \ {l}]
SetLicence(l, s) == licence' = [licence EXCEPT ![l].status = s]

\* Entra has the account and the licence; the company email is marked done, the request's
\* status is not recomputed.
LicenceAssigned(h, l) ==
  LET i == <<licence[l].ref, Mail>> IN
  /\ AtRow(h, l)
  /\ licence[l].ref \in account
  /\ licensed' = licensed \cup {licence[l].ref}
  /\ SetLicence(l, "assigned")
  /\ item' = IF item[i].status = "pending" THEN [item EXCEPT ![i] = Row("done", "entra-license")]
             ELSE item
  /\ RowDone(h, l)
  /\ UNCHANGED <<request, followUps, payload, lastLicence, account, member, kills, jobVars>>

\* Entra has the account, and the SKU is unknown, out of seats or refused, or the answer to
\* the assignment was lost.
LicenceError(h, l) ==
  /\ AtRow(h, l)
  /\ licence[l].ref \in account
  /\ licensed' \in {licensed, licensed \cup {licence[l].ref}}
  /\ SetLicence(l, "error")
  /\ RowDone(h, l)
  /\ UNCHANGED <<board, payload, lastLicence, account, member, kills, jobVars>>

\* The account has not synced, or Graph is out of reach: the row is left for the next pass.
LicenceWaits(h, l) ==
  /\ AtRow(h, l)
  /\ RowDone(h, l)
  /\ UNCHANGED <<board, payload, licences, outside, kills, jobVars>>

\* Mutant: a row is retried however old it is.
NeverExpires(h, l) == LicenceWaits(h, l)

\* The same, for a row older than MAX_AGE_HOURS.
LicenceExpired(h, l) ==
  /\ AtRow(h, l)
  /\ SetLicence(l, "expired")
  /\ RowDone(h, l)
  /\ UNCHANGED <<board, payload, lastLicence, outside, kills, jobVars>>

-----------------------------------------------------------------------------
Killed ==
  /\ Kill
  /\ UNCHANGED <<board, payload, licences, outside, jobVars>>

BoardNext ==
  \/ \E r \in Requests, form \in Forms :
       \/ Create(r, form)
       \/ \E n \in 0 .. Len(Order) : CreateInterrupted(r, form, n)
  \/ \E r \in Requests : Discard(r)
  \/ \E i \in Items : \/ CompleteItem(i) \/ RejectItem(i) \/ ApproveItem(i) \/ ApproveInterrupted(i)
                      \/ ShownInServiceTrade(i)
                      \/ \E s \in ItemStatus : DecideInterrupted(i, s)

AccountNext ==
  \/ \E r \in Requests : CreateAccountJob(r)
  \/ \E b \in 0 .. MaxPolls : Poll(b)
  \/ \E j \in JobIds : Agent(j)
  \/ \E m \in Results : ReceiveResult(m) \/ ResultInterrupted(m)

CallNext ==
  \E h \in Handlers :
    \/ \E r \in Requests : Provision(h, r)
    \/ \E i \in Items : GroupAdded(h, i) \/ GroupFailed(h, i)
    \/ LicencePass(h)
    \/ \E l \in LicenceIds : \/ LicenceAssigned(h, l) \/ LicenceError(h, l)
                             \/ LicenceWaits(h, l) \/ LicenceExpired(h, l)

Next == BoardNext \/ AccountNext \/ CallNext \/ Killed

Spec == Init /\ [][Next]_vars

(***************************************************************************)
(* The five-minute timer keeps coming, Graph gives a token and its calls   *)
(* end, and a row that waited 72 hours is expired by the pass that finds   *)
(* nothing for it: no row waits in every pass for ever.                    *)
(***************************************************************************)
FairSpec ==
  /\ Spec
  /\ \A h \in Handlers :
       /\ SF_vars(LicencePass(h))
       /\ \A i \in Items : WF_vars(GroupAdded(h, i) \/ GroupFailed(h, i))
       /\ \A l \in LicenceIds :
            /\ WF_vars(LicenceAssigned(h, l) \/ LicenceError(h, l) \/ LicenceWaits(h, l)
                         \/ LicenceExpired(h, l))
            /\ SF_vars(LicenceAssigned(h, l) \/ LicenceError(h, l) \/ LicenceExpired(h, l))

-----------------------------------------------------------------------------
(***************************************************************************)
(* Properties that hold.                                                   *)
(***************************************************************************)
Exists(i) == item[i].status # "none"
FollowUpOf(i) == <<i[1], FollowUp[i[2]]>>
Delivered == {i \in Items : i[2] \in DOMAIN FollowUp}

\* Unless a kill cut a handler short, a request that says complete has nothing pending and
\* nothing rejected, and one that needs attention has nothing pending: handlers that forget
\* to recompute err only on the side of "open".
CompleteMeansSettled ==
  kills = 0 =>
    \A r \in Requests :
      /\ request[r] \in {"complete", "needs_attention"} => PendingOf(item, r) = {}
      /\ request[r] = "complete" => \A c \in Slots : item[<<r, c>>].status # "rejected"

\* However often an approval is approved again, and wherever a kill fell, it has at most one
\* follow-up, only if it was approved, and without a kill always.
OneFollowUpIfApproved ==
  \A i \in Delivered :
    /\ followUps[i] <= 1
    /\ followUps[i] = 1 <=> Exists(FollowUpOf(i))
    /\ followUps[i] = 1 => item[i].status = "approved"
    /\ item[i].status = "approved" => followUps[i] = 1 \/ kills > 0

\* Neither Graph nor the domain controller adds a hire to a group that needs an approval
\* before somebody approved it; a rejection is never overtaken.
AccessWasApproved ==
  \A i \in Delivered : FollowUpOf(i) \in member => item[i].status = "approved"

\* A licence row that says assigned, and an item closed for it, stand for a licence; an item
\* closed by the agent stands for an account.  Overlapping passes do not change that.
ReportsAreTrue ==
  /\ \A l \in LicenceIds : licence[l].status = "assigned" => licence[l].ref \in licensed
  /\ \A i \in Items : item[i].by = "entra-license" => i[1] \in licensed
  /\ \A i \in Items : item[i].by = "dc-agent" => i[1] \in account

\* A discarded request never returns to the board, whatever still arrives for it.
DiscardedStays ==
  [][\A r \in Requests : request[r] = "discarded" => request'[r] = "discarded"]_vars

\* A queued licence is assigned, or ends in a row that says why not.
LicenceSettles ==
  \A l \in LicenceIds : licence[l].status = "pending" ~> licence[l].status # "pending"

(***************************************************************************)
(* What the comments promise and the code does not keep.                   *)
(***************************************************************************)

\* onboardingAgent.ts: a request is complete once nothing is pending.
SettledIsNotOpen ==
  \A r \in Requests : request[r] = "open" => PendingOf(item, r) # {}

\* entraLicensing.ts: the licence is assigned, then the company email is marked done.
MailMeansLicence ==
  \A r \in Requests :
    LET i == <<r, Mail>> IN item[i].status = "done" /\ item[i].by # "person" => r \in licensed
=============================================================================
