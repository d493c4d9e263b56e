-------------------------- MODULE OnboardingProofs --------------------------
(***************************************************************************)
(* Theorems about the onboarding board, for any number of hires, forms and *)
(* items, jobs, polls, licence rows, awaiting handlers and kills.          *)
(***************************************************************************)
EXTENDS Onboarding, DcJobsProofs

-----------------------------------------------------------------------------
(***************************************************************************)
(* Which actions touch the board's tables, and that the board uses the job *)
(* queue as the queue means to be used.                                    *)
(***************************************************************************)
Decision(i) ==
  \/ CompleteItem(i) \/ RejectItem(i) \/ ShownInServiceTrade(i)
  \/ ApproveItem(i) \/ ApproveInterrupted(i)
  \/ \E s \in ItemStatus : DecideInterrupted(i, s)

Creation(r) ==
  \E form \in Forms :
    Create(r, form) \/ \E n \in 0 .. Len(Order) : CreateInterrupted(r, form, n)

Arrival(m) == ReceiveResult(m) \/ ResultInterrupted(m)

LicenceStep(h) ==
  LicencePass(h) \/ \E l \in LicenceIds : LicenceError(h, l) \/ LicenceWaits(h, l) \/ LicenceExpired(h, l)

\* Steps that write no row of the board.
Elsewhere ==
  \/ \E r \in Requests : CreateAccountJob(r)
  \/ \E b \in 0 .. MaxPolls : Poll(b)
  \/ \E j \in JobIds : Agent(j)
  \/ \E h \in Handlers :
       \/ LicenceStep(h)
       \/ \E r \in Requests : Provision(h, r)
       \/ \E i \in Items : GroupFailed(h, i)
  \/ Killed
  \/ UNCHANGED vars

BoardStep ==
  \/ \E r \in Requests : Creation(r) \/ Discard(r)
  \/ \E i \in Items : Decision(i)
  \/ \E m \in Results : Arrival(m)
  \/ \E h \in Handlers : \/ \E i \in Items : GroupAdded(h, i)
                         \/ \E l \in LicenceIds : LicenceAssigned(h, l)

LEMMA HireSteps == [Next]_vars => BoardStep \/ Elsewhere
BY DEF Next, BoardNext, AccountNext, CallNext, BoardStep, Elsewhere, Creation, Decision, Arrival,
       LicenceStep

LEMMA ElsewhereSparesBoard == Elsewhere => UNCHANGED board
<1>1. ASSUME NEW r \in Requests, CreateAccountJob(r) PROVE UNCHANGED board
  BY <1>1 DEF CreateAccountJob
<1>2. ASSUME NEW b \in 0 .. MaxPolls, Poll(b) PROVE UNCHANGED board
  BY <1>2 DEF Poll
<1>3. ASSUME NEW j \in JobIds, Agent(j) PROVE UNCHANGED board
  BY <1>3 DEF Agent
<1>4. ASSUME NEW h \in Handlers, LicenceStep(h) PROVE UNCHANGED board
  BY <1>4 DEF LicenceStep, LicencePass, LicenceError, LicenceWaits, LicenceExpired
<1>5. ASSUME NEW h \in Handlers, NEW r \in Requests, Provision(h, r) PROVE UNCHANGED board
  BY <1>5 DEF Provision
<1>6. ASSUME NEW h \in Handlers, NEW i \in Items, GroupFailed(h, i) PROVE UNCHANGED board
  BY <1>6 DEF GroupFailed
<1>7. CASE Killed \/ UNCHANGED vars
  BY <1>7 DEF Killed, vars
<1> QED BY <1>1, <1>2, <1>3, <1>4, <1>5, <1>6, <1>7 DEF Elsewhere

LEMMA BoardStepIsJobsStep == [Next]_vars => [JobsNext]_jobVars
<1> USE DEF jobVars
<1>1. ASSUME NEW r \in Requests, Creation(r) \/ Discard(r) PROVE UNCHANGED jobVars
  BY <1>1 DEF Creation, Create, CreateInterrupted, Discard
<1>2. ASSUME NEW i \in Items, Decision(i) PROVE UNCHANGED jobVars
  BY <1>2 DEF Decision, CompleteItem, RejectItem, ShownInServiceTrade, Settle, ApproveItem,
              ApproveInterrupted, DecideInterrupted
<1>3. ASSUME NEW m \in Results, Arrival(m) PROVE JobsNext
  BY <1>3 DEF Arrival, ReceiveResult, ResultInterrupted, JobsNext
<1>4. ASSUME NEW h \in Handlers, NEW i \in Items, GroupAdded(h, i) \/ GroupFailed(h, i)
      PROVE  UNCHANGED jobVars
  BY <1>4 DEF GroupAdded, GroupFailed
<1>5. ASSUME NEW h \in Handlers, NEW l \in LicenceIds, LicenceAssigned(h, l) PROVE UNCHANGED jobVars
  BY <1>5 DEF LicenceAssigned
<1>6. ASSUME NEW h \in Handlers, LicenceStep(h) PROVE UNCHANGED jobVars
  BY <1>6 DEF LicenceStep, LicencePass, LicenceError, LicenceWaits, LicenceExpired
<1>7. ASSUME NEW h \in Handlers, NEW r \in Requests, Provision(h, r) PROVE UNCHANGED jobVars
  BY <1>7 DEF Provision
<1>8. ASSUME NEW r \in Requests, CreateAccountJob(r) PROVE JobsNext
  BY <1>8, OnboardingAssumption DEF CreateAccountJob, JobsNext
<1>9. ASSUME NEW b \in 0 .. MaxPolls, Poll(b) PROVE JobsNext
  BY <1>9 DEF Poll, JobsNext
<1>10. ASSUME NEW j \in JobIds, Agent(j) PROVE JobsNext
  BY <1>10 DEF Agent, JobsNext, AgentStep
<1>11. CASE Killed \/ UNCHANGED vars
  BY <1>11 DEF Killed, vars
<1> QED BY <1>1, <1>2, <1>3, <1>4, <1>5, <1>6, <1>7, <1>8, <1>9, <1>10, <1>11, HireSteps
        DEF BoardStep, Elsewhere

\* The onboarding board implements the job queue too.
THEOREM HiresImplementJobs == Spec => JobsSpec
<1>1. Init => JobsInit
  BY DEF Init
<1> QED BY <1>1, BoardStepIsJobsStep, PTL DEF Spec, JobsSpec

-----------------------------------------------------------------------------
(***************************************************************************)
(* Types.                                                                  *)
(***************************************************************************)
TablesOK ==
  /\ request \in [Requests -> RequestStatus]
  /\ item \in [Items -> ItemRow]
  /\ followUps \in [Items -> Nat]

QueueOK ==
  /\ payload \in [JobIds -> SUBSET Slots]
  /\ licence \in [LicenceIds -> LicenceRow]
  /\ lastLicence \in 0 .. MaxLicences
  /\ call \in [Handlers -> Calls]
  /\ kills \in 0 .. MaxKills

\* A row the counter has reached is for a hire; so is whatever the agent holds or has posted.
RefsKnown == \A j \in JobIds : j <= lastJob => job[j].ref \in Requests

DirectoryOK ==
  /\ account \subseteq Requests
  /\ member \subseteq Items
  /\ licensed \subseteq Requests

LEMMA RowTypes ==
  ASSUME NEW s \in ItemStatus, NEW by \in Deciders
  PROVE  Row(s, by) \in ItemRow /\ Row(s, by).status = s /\ Row(s, by).by = by
BY DEF Row, ItemRow

LEMMA RecomputedType ==
  ASSUME TablesOK, NEW items, NEW r
  PROVE  Recomputed(items, r) \in [Requests -> RequestStatus]
BY DEF TablesOK, Recomputed, Derived, RequestStatus

LEMMA DecidedType ==
  ASSUME TablesOK, NEW i, NEW s \in ItemStatus, NEW by \in Deciders
  PROVE  Decided(i, s, by) \in [Items -> ItemRow]
BY RowTypes DEF TablesOK, Decided

LEMMA WithFollowUpType ==
  ASSUME NEW items \in [Items -> ItemRow], NEW i
  PROVE  WithFollowUp(items, i) \in [Items -> ItemRow]
<1>1. Row("pending", "nobody") \in ItemRow
  BY RowTypes DEF ItemStatus, Deciders
<1> QED BY <1>1 DEF WithFollowUp

LEMMA AfterAccountType ==
  ASSUME TablesOK, NEW r
  PROVE  AfterAccount(r) \in [Items -> ItemRow]
<1>1. Row("done", "dc-agent") \in ItemRow
  BY RowTypes DEF ItemStatus, Deciders
<1> QED BY <1>1 DEF TablesOK, AfterAccount

LEMMA CreationTables ==
  ASSUME TablesOK, NEW r \in Requests, Creation(r) \/ Discard(r)
  PROVE  TablesOK'
<1>1. ASSUME NEW slots, Insert(r, slots) PROVE item' \in [Items -> ItemRow]
  <2>1. Row("pending", "nobody") \in ItemRow
    BY RowTypes DEF ItemStatus, Deciders
  <2> QED BY <1>1, <2>1 DEF Insert, TablesOK
<1>2. CASE Creation(r)
  <2>1. item' \in [Items -> ItemRow]
    BY <1>1, <1>2 DEF Creation, Create, CreateInterrupted
  <2>2. request' \in [Requests -> RequestStatus] /\ UNCHANGED followUps
    BY <1>2 DEF Creation, Create, CreateInterrupted, TablesOK, RequestStatus
  <2> QED BY <2>1, <2>2 DEF TablesOK
<1>3. CASE Discard(r)
  BY <1>3 DEF Discard, TablesOK, RequestStatus
<1> QED BY <1>2, <1>3

LEMMA DecisionTables ==
  ASSUME TablesOK, NEW i \in Items, Decision(i)
  PROVE  TablesOK'
<1>1. ASSUME NEW s \in ItemStatus, NEW by \in Deciders, Settle(i, s, by) PROVE TablesOK'
  BY <1>1, DecidedType, RecomputedType DEF Settle, TablesOK
<1>2. CASE CompleteItem(i) \/ RejectItem(i) \/ ShownInServiceTrade(i)
  BY <1>1, <1>2 DEF CompleteItem, RejectItem, ShownInServiceTrade, ItemStatus, Deciders
<1> DEFINE decided == Decided(i, "approved", "person")
<1>3. decided \in [Items -> ItemRow] /\ WithFollowUp(decided, i) \in [Items -> ItemRow]
  <2>1. decided \in [Items -> ItemRow]
    BY DecidedType DEF ItemStatus, Deciders
  <2> QED BY <2>1, WithFollowUpType
<1>4. [followUps EXCEPT ![i] = @ + 1] \in [Items -> Nat]
  BY DEF TablesOK
<1>5. CASE ApproveItem(i)
  <2> HIDE DEF decided
  <2>1. /\ item' = WithFollowUp(decided, i) \/ item' = decided
        /\ followUps' = [followUps EXCEPT ![i] = @ + 1] \/ UNCHANGED followUps
        /\ request' = Recomputed(item', i[1])
    BY <1>5 DEF ApproveItem, decided
  <2> QED BY <1>3, <1>4, <2>1, RecomputedType DEF TablesOK
<1>6. CASE ApproveInterrupted(i)
  <2> HIDE DEF decided
  <2>1. /\ item' = WithFollowUp(decided, i) \/ item' = decided
        /\ followUps' = [followUps EXCEPT ![i] = @ + 1] \/ UNCHANGED followUps
        /\ request' = Recomputed(decided, i[1])
    BY <1>6 DEF ApproveInterrupted, decided
  <2> QED BY <1>3, <1>4, <2>1, RecomputedType DEF TablesOK
<1>7. ASSUME NEW s \in ItemStatus, DecideInterrupted(i, s) PROVE TablesOK'
  <2>1. Decided(i, s, "person") \in [Items -> ItemRow]
    BY DecidedType DEF Deciders
  <2> QED BY <1>7, <2>1 DEF DecideInterrupted, TablesOK
<1> QED BY <1>2, <1>5, <1>6, <1>7 DEF Decision

LEMMA TablesNext == TablesOK /\ [Next]_vars => TablesOK'
<1> SUFFICES ASSUME TablesOK, [Next]_vars PROVE TablesOK'
  OBVIOUS
<1>1. ASSUME NEW r \in Requests, Creation(r) \/ Discard(r) PROVE TablesOK'
  BY <1>1, CreationTables
<1>2. ASSUME NEW i \in Items, Decision(i) PROVE TablesOK'
  BY <1>2, DecisionTables
<1>3. ASSUME NEW m \in Results, Arrival(m) PROVE TablesOK'
  <2> DEFINE r == job[m.id].ref
  <2>1. item' \in {item, AfterAccount(r)}
    BY <1>3 DEF Arrival, ReceiveResult, ResultInterrupted
  <2>2. request' = request \/ \E items : request' = Recomputed(items, r)
    BY <1>3 DEF Arrival, ReceiveResult, ResultInterrupted
  <2>3. UNCHANGED followUps
    BY <1>3 DEF Arrival, ReceiveResult, ResultInterrupted
  <2> QED BY <2>1, <2>2, <2>3, AfterAccountType, RecomputedType DEF TablesOK
<1>4. ASSUME NEW h \in Handlers, NEW i \in Items, GroupAdded(h, i) PROVE TablesOK'
  <2>1. Row("done", "person") \in ItemRow
    BY RowTypes DEF ItemStatus, Deciders
  <2> QED BY <1>4, <2>1 DEF GroupAdded, TablesOK
<1>5. ASSUME NEW h \in Handlers, NEW l \in LicenceIds, LicenceAssigned(h, l) PROVE TablesOK'
  <2>1. Row("done", "entra-license") \in ItemRow
    BY RowTypes DEF ItemStatus, Deciders
  <2> QED BY <1>5, <2>1 DEF LicenceAssigned, TablesOK
<1>6. CASE UNCHANGED board
  BY <1>6 DEF board, TablesOK
<1> QED BY <1>1, <1>2, <1>3, <1>4, <1>5, <1>6, HireSteps, ElsewhereSparesBoard DEF BoardStep

LEMMA LicenceTypes ==
  ASSUME QueueOK, NEW h \in Handlers, NEW l \in LicenceIds,
         \/ LicenceAssigned(h, l) \/ LicenceError(h, l) \/ LicenceWaits(h, l) \/ LicenceExpired(h, l)
  PROVE  /\ licence' \in [LicenceIds -> LicenceRow]
         /\ call' \in [Handlers -> Calls]
         /\ UNCHANGED <<payload, lastLicence, kills, account, member>>
         /\ \/ licensed' = licensed
            \/ licensed' = licensed \cup {licence[l].ref} /\ licence[l].ref \in account
<1>1. ASSUME NEW s \in LicenceStatus, SetLicence(l, s) PROVE licence' \in [LicenceIds -> LicenceRow]
  BY <1>1 DEF SetLicence, QueueOK, LicenceRow
<1>2. RowDone(h, l) => call' \in [Handlers -> Calls]
  <2>1. [call[h] EXCEPT !.rows = @ \ {l}] \in Calls
    BY DEF QueueOK, Calls
  <2> QED BY <2>1 DEF RowDone, QueueOK
<1>3. CASE LicenceAssigned(h, l)
  BY <1>1, <1>2, <1>3 DEF LicenceAssigned, LicenceStatus
<1>4. CASE LicenceError(h, l)
  BY <1>1, <1>2, <1>4 DEF LicenceError, LicenceStatus
<1>5. CASE LicenceWaits(h, l)
  BY <1>2, <1>5 DEF LicenceWaits, QueueOK, licences, outside
<1>6. CASE LicenceExpired(h, l)
  BY <1>1, <1>2, <1>6 DEF LicenceExpired, LicenceStatus, outside
<1> QED BY <1>3, <1>4, <1>5, <1>6

LEMMA KillType == QueueOK /\ Kill => call' \in [Handlers -> Calls] /\ kills' \in 0 .. MaxKills
<1> SUFFICES ASSUME QueueOK, Kill PROVE call' \in [Handlers -> Calls] /\ kills' \in 0 .. MaxKills
  OBVIOUS
<1>1. Idle \in Calls
  BY DEF Idle, Calls
<1>2. call' \in [Handlers -> Calls]
  BY <1>1 DEF Kill
<1>3. kills' \in 0 .. MaxKills
  BY OnboardingAssumption DEF Kill, QueueOK
<1> QED BY <1>2, <1>3

LEMMA EnqueueLicenceType ==
  ASSUME QueueOK, NEW r \in Requests, EnqueueLicence(r)
  PROVE  licence' \in [LicenceIds -> LicenceRow] /\ lastLicence' \in 0 .. MaxLicences
<1>1. CASE UNCHANGED licences
  BY <1>1 DEF licences, QueueOK
<1>2. CASE /\ lastLicence < MaxLicences
           /\ licence' = [licence EXCEPT ![lastLicence + 1] = [status |-> "pending", ref |-> r]]
           /\ lastLicence' = lastLicence + 1
  <2>1. [status |-> "pending", ref |-> r] \in LicenceRow
    BY DEF LicenceRow, LicenceStatus
  <2>2. lastLicence' \in 0 .. MaxLicences
    BY <1>2, OnboardingAssumption DEF QueueOK
  <2> QED BY <1>2, <2>1, <2>2 DEF QueueOK
<1> QED BY <1>1, <1>2 DEF EnqueueLicence

HireTypes == JobsInv /\ TablesOK /\ QueueOK /\ DirectoryOK /\ RefsKnown

LEMMA KnownRef ==
  ASSUME HireTypes, NEW j \in JobIds, held[j] > 0 \/ job[j].status # "none" \/ \E m \in posted : m.id = j
  PROVE  job[j].ref \in Requests
<1>1. ~(j > lastJob)
  BY DEF HireTypes, JobsInv, Fresh, Unused, JobsTypeOK
<1>2. j <= lastJob
  BY <1>1, DcJobsAssumption DEF HireTypes, JobsInv, JobsTypeOK, JobIds
<1> QED BY <1>2 DEF HireTypes, RefsKnown

LEMMA AgentKeepsRows ==
  ASSUME NEW j, Agent(j)
  PROVE  UNCHANGED <<job, lastJob>> /\ held[j] > 0
BY DEF Agent, AgentSucceeds, AgentFails, AgentDies

LEMMA RefsKnownNext == HireTypes /\ [Next]_vars => RefsKnown'
<1> SUFFICES ASSUME HireTypes, [JobsNext]_jobVars, NEW k \in JobIds, k <= lastJob'
             PROVE  job'[k].ref \in Requests
  BY BoardStepIsJobsStep DEF RefsKnown, JobIds
<1> USE DEF HireTypes, JobsInv, JobsTypeOK, RefsKnown
<1> USE DcJobsAssumption
<1>1. ASSUME NEW ref \in Refs, Enqueue(ref) PROVE job'[k].ref \in Requests
  BY <1>1, OnboardingAssumption DEF Enqueue, JobIds
<1>2. ASSUME NEW b \in 0 .. MaxPolls, ClaimPending(b) PROVE job'[k].ref \in Requests
  <2>1. job'[k].ref = job[k].ref /\ lastJob' = lastJob
    BY <1>2 DEF ClaimPending, Marked, JobRow
  <2> QED BY <2>1
<1>3. ASSUME AgentStep PROVE job'[k].ref \in Requests
  BY <1>3 DEF AgentStep, AgentSucceeds, AgentFails, AgentDies
<1>4. ASSUME NEW m \in Results, RecordResult(m) PROVE job'[k].ref \in Requests
  BY <1>4 DEF RecordResult, JobRow
<1>5. CASE UNCHANGED jobVars
  BY <1>5 DEF jobVars
<1> QED BY <1>1, <1>2, <1>3, <1>4, <1>5 DEF JobsNext

LEMMA CreatesAccountType ==
  ASSUME HireTypes, NEW j \in JobIds, job[j].ref \in Requests, CreatesAccount(j)
  PROVE  account' \subseteq Requests /\ member' \subseteq Items
<1> DEFINE r == job[j].ref
<1>1. account' = account \cup {r}
  BY DEF CreatesAccount
<1>2. PICK groups \in SUBSET payload[j] :
        member' = IF r \in account THEN member ELSE member \cup ({r} \X groups)
  BY DEF CreatesAccount
<1>3. groups \subseteq Slots
  BY DEF HireTypes, QueueOK
<1> QED BY <1>1, <1>2, <1>3 DEF HireTypes, DirectoryOK, Items

LEMMA DirectoryNext == HireTypes /\ [Next]_vars => DirectoryOK'
<1> SUFFICES ASSUME HireTypes, [Next]_vars PROVE DirectoryOK'
  OBVIOUS
<1> USE DEF DirectoryOK
<1>0. UNCHANGED outside => DirectoryOK'
  BY DEF outside, HireTypes
<1>1. ASSUME NEW r \in Requests, Creation(r) \/ Discard(r) PROVE UNCHANGED outside
  BY <1>1 DEF Creation, Create, CreateInterrupted, Discard
<1>2. ASSUME NEW i \in Items, Decision(i) PROVE UNCHANGED outside
  BY <1>2 DEF Decision, CompleteItem, RejectItem, ShownInServiceTrade, Settle, ApproveItem,
              ApproveInterrupted, DecideInterrupted
<1>3. ASSUME NEW m \in Results, Arrival(m) PROVE UNCHANGED outside
  BY <1>3 DEF Arrival, ReceiveResult, ResultInterrupted
<1>4. ASSUME NEW h \in Handlers, NEW i \in Items, GroupAdded(h, i) \/ GroupFailed(h, i)
      PROVE  DirectoryOK'
  BY <1>4 DEF GroupAdded, GroupFailed, HireTypes
<1>5. ASSUME NEW h \in Handlers, NEW l \in LicenceIds,
             LicenceAssigned(h, l) \/ LicenceError(h, l) \/ LicenceWaits(h, l) \/ LicenceExpired(h, l)
      PROVE  DirectoryOK'
  BY <1>5, LicenceTypes DEF HireTypes
<1>6. ASSUME NEW h \in Handlers, LicencePass(h) PROVE UNCHANGED outside
  BY <1>6 DEF LicencePass
<1>7. ASSUME NEW h \in Handlers, NEW r \in Requests, Provision(h, r) PROVE UNCHANGED outside
  BY <1>7 DEF Provision
<1>8. ASSUME NEW r \in Requests, CreateAccountJob(r) PROVE UNCHANGED outside
  BY <1>8 DEF CreateAccountJob
<1>9. ASSUME NEW b \in 0 .. MaxPolls, Poll(b) PROVE UNCHANGED outside
  BY <1>9 DEF Poll
<1>10. ASSUME NEW j \in JobIds, Agent(j) PROVE DirectoryOK'
  <2>1. job[j].ref \in Requests
    BY <1>10, AgentKeepsRows, KnownRef
  <2>2. UNCHANGED licensed /\ (CreatesAccount(j) \/ UNCHANGED <<account, member>>)
    BY <1>10 DEF Agent
  <2>3. CASE CreatesAccount(j)
    BY <2>1, <2>2, <2>3, CreatesAccountType DEF HireTypes
  <2>4. CASE UNCHANGED <<account, member>>
    BY <2>2, <2>4 DEF HireTypes
  <2> QED BY <2>2, <2>3, <2>4
<1>11. CASE Killed \/ UNCHANGED vars
  BY <1>0, <1>11 DEF Killed, vars
<1>12. ASSUME NEW h \in Handlers, LicenceStep(h) PROVE DirectoryOK'
  BY <1>0, <1>5, <1>6, <1>12 DEF LicenceStep
<1>13. CASE BoardStep
  BY <1>0, <1>1, <1>2, <1>3, <1>4, <1>5, <1>13 DEF BoardStep
<1>14. CASE Elsewhere
  BY <1>0, <1>4, <1>7, <1>8, <1>9, <1>10, <1>11, <1>12, <1>14 DEF Elsewhere
<1> QED BY <1>13, <1>14, HireSteps

LEMMA QueueNext == HireTypes /\ [Next]_vars => QueueOK'
<1> SUFFICES ASSUME HireTypes, [Next]_vars PROVE QueueOK'
  OBVIOUS
<1> DEFINE Still == UNCHANGED <<payload, licence, lastLicence, call, kills>>
           Cut == UNCHANGED <<payload, licence, lastLicence>> /\ Kill
<1>a. Still => QueueOK'
  BY DEF QueueOK, HireTypes
<1>b. Cut => QueueOK'
  BY KillType DEF QueueOK, HireTypes
<1>1. ASSUME NEW r \in Requests, Creation(r) \/ Discard(r) PROVE Still \/ Cut
  BY <1>1 DEF Creation, Create, CreateInterrupted, Discard, licences
<1>2. ASSUME NEW i \in Items, Decision(i) PROVE Still \/ Cut
  BY <1>2 DEF Decision, CompleteItem, RejectItem, ShownInServiceTrade, Settle, ApproveItem,
              ApproveInterrupted, DecideInterrupted, licences
<1>3. ASSUME NEW m \in Results, Arrival(m) PROVE QueueOK'
  <2> DEFINE r == job[m.id].ref
  <2>1. r \in Requests
    <3>1. m \in posted
      BY <1>3 DEF Arrival, ReceiveResult, ResultInterrupted, RecordResult
    <3> QED BY <3>1, KnownRef DEF Results
  <2>2. CASE EnqueueLicence(r) /\ UNCHANGED <<payload, call, kills>>
    BY <2>1, <2>2, EnqueueLicenceType DEF QueueOK, HireTypes
  <2> QED BY <1>a, <1>b, <1>3, <2>2 DEF Arrival, ReceiveResult, ResultInterrupted, licences
<1>4. ASSUME NEW h \in Handlers, NEW i \in Items, GroupAdded(h, i) \/ GroupFailed(h, i)
      PROVE  QueueOK'
  <2>1. [call[h] EXCEPT !.groups = @ \ {i}] \in Calls
    BY DEF QueueOK, HireTypes, Calls
  <2>2. call' = [call EXCEPT ![h] = [call[h] EXCEPT !.groups = @ \ {i}]]
    BY <1>4 DEF GroupAdded, GroupFailed, QueueOK, HireTypes
  <2> QED BY <1>4, <2>1, <2>2 DEF GroupAdded, GroupFailed, licences, QueueOK, HireTypes
<1>5. ASSUME NEW h \in Handlers, NEW l \in LicenceIds,
             LicenceAssigned(h, l) \/ LicenceError(h, l) \/ LicenceWaits(h, l) \/ LicenceExpired(h, l)
      PROVE  QueueOK'
  BY <1>5, LicenceTypes DEF QueueOK, HireTypes
<1>6. ASSUME NEW h \in Handlers, LicencePass(h) PROVE QueueOK'
  <2> DEFINE rows == {l \in LicenceIds : licence[l].status = "pending"}
  <2>1. [call[h] EXCEPT !.rows = rows] \in Calls
    BY DEF QueueOK, HireTypes, Calls
  <2>2. call' = [call EXCEPT ![h] = [call[h] EXCEPT !.rows = rows]]
    BY <1>6 DEF LicencePass
  <2> QED BY <1>6, <2>1, <2>2 DEF LicencePass, licences, QueueOK, HireTypes
<1>7. ASSUME NEW h \in Handlers, NEW r \in Requests, Provision(h, r) PROVE QueueOK'
  <2> DEFINE groups == {i \in {r} \X Grouped : item[i].status = "pending"}
  <2>1. groups \subseteq Items
    BY OnboardingAssumption DEF Items
  <2>2. [call[h] EXCEPT !.groups = groups] \in Calls
    BY <2>1 DEF QueueOK, HireTypes, Calls
  <2>3. call' = [call EXCEPT ![h] = [call[h] EXCEPT !.groups = groups]]
    BY <1>7 DEF Provision
  <2> QED BY <1>7, <2>2, <2>3 DEF Provision, licences, QueueOK, HireTypes
<1>8. ASSUME NEW r \in Requests, CreateAccountJob(r) PROVE QueueOK'
  <2>1. ProvisionPlan(r) \in SUBSET Slots
    BY OnboardingAssumption DEF ProvisionPlan
  <2> QED BY <1>8, <2>1 DEF CreateAccountJob, licences, QueueOK, HireTypes
<1>9. ASSUME NEW b \in 0 .. MaxPolls, Poll(b) PROVE Still
  BY <1>9 DEF Poll, licences
<1>10. ASSUME NEW j \in JobIds, Agent(j) PROVE Still
  BY <1>10 DEF Agent, licences
<1>11. CASE Killed \/ UNCHANGED vars
  BY <1>a, <1>b, <1>11 DEF Killed, vars, licences
<1>12. ASSUME NEW h \in Handlers, LicenceStep(h) PROVE QueueOK'
  BY <1>a, <1>b, <1>5, <1>6, <1>12 DEF LicenceStep
<1>13. CASE BoardStep
  BY <1>a, <1>b, <1>1, <1>2, <1>3, <1>4, <1>5, <1>13 DEF BoardStep
<1>14. CASE Elsewhere
  BY <1>a, <1>b, <1>4, <1>7, <1>8, <1>9, <1>10, <1>11, <1>12, <1>14 DEF Elsewhere
<1> QED BY <1>13, <1>14, HireSteps

LEMMA HireTypesInit == Init => HireTypes
<1> SUFFICES ASSUME Init PROVE HireTypes
  OBVIOUS
<1>1. JobsInv
  BY JobsInvInit DEF Init
<1>2. TablesOK
  BY RowTypes DEF Init, TablesOK, RequestStatus, ItemStatus, Deciders
<1>3. QueueOK
  BY OnboardingAssumption
     DEF Init, QueueOK, Calls, Idle, LicenceRow, LicenceStatus
<1>4. DirectoryOK
  BY DEF Init, DirectoryOK
<1>5. RefsKnown
  BY DcJobsAssumption DEF Init, JobsInit, RefsKnown, JobIds
<1> QED BY <1>1, <1>2, <1>3, <1>4, <1>5 DEF HireTypes

LEMMA HireTypesNext == HireTypes /\ [Next]_vars => HireTypes'
BY BoardStepIsJobsStep, JobsInvNext, TablesNext, QueueNext, DirectoryNext, RefsKnownNext DEF HireTypes

\* The rows of the board, the licence queue and the directories always have their types.
THEOREM HiresTypeCorrect == Spec => []TypeOK
<1>1. HireTypes => TypeOK
  BY DEF HireTypes, TypeOK, TablesOK, QueueOK, DirectoryOK, JobsInv
<1> QED BY <1>1, HireTypesInit, HireTypesNext, PTL DEF Spec

-----------------------------------------------------------------------------
(***************************************************************************)
(* Follow-ups.  What makes OneFollowUpIfApproved inductive: a request that *)
(* was not created has no items, and a handler that awaits Graph holds     *)
(* only group items that exist.                                            *)
(***************************************************************************)
Blank ==
  \A i \in Items : request[i[1]] = "none" => item[i].status = "none" /\ followUps[i] = 0

CallsKnown == \A h \in Handlers : \A i \in call[h].groups : i[2] \in Grouped /\ Exists(i)

FollowInv == HireTypes /\ Blank /\ CallsKnown /\ OneFollowUpIfApproved

\* Items once made stay.
Grown == \A i \in Items : Exists(i) => Exists(i)'

NoneKept == \A r \in Requests : request'[r] = "none" => request[r] = "none"

\* A step that makes no item and approves nothing.
Quiet ==
  /\ UNCHANGED followUps
  /\ kills' \in {kills, kills + 1}
  /\ NoneKept
  /\ \A i \in Items : Exists(i)' <=> Exists(i)
  /\ \A i \in Delivered : item'[i].status = "approved" <=> item[i].status = "approved"

LEMMA DeliveredFacts ==
  ASSUME NEW i \in Delivered
  PROVE  /\ i \in Items /\ i[2] \in Approvals /\ FollowUp[i[2]] \notin Approvals
         /\ FollowUpOf(i) \in Items
         /\ FollowUpOf(i)[1] = i[1] /\ FollowUpOf(i)[2] = FollowUp[i[2]]
         /\ \A form \in Forms : FollowUp[i[2]] \notin form
         /\ \A j \in Delivered : FollowUpOf(j) = FollowUpOf(i) => i = j
BY OnboardingAssumption DEF Delivered, Items, FollowUpOf

LEMMA QuietNext == FollowInv /\ Quiet => Blank' /\ OneFollowUpIfApproved' /\ Grown
<1> SUFFICES ASSUME FollowInv, Quiet PROVE Blank' /\ OneFollowUpIfApproved' /\ Grown
  OBVIOUS
<1>1. Blank'
  <2> SUFFICES ASSUME NEW i \in Items, request'[i[1]] = "none"
               PROVE  item'[i].status = "none" /\ followUps'[i] = 0
    BY DEF Blank
  <2>1. request[i[1]] = "none"
    BY DEF Quiet, NoneKept, Items
  <2>2. item[i].status = "none" /\ followUps[i] = 0
    BY <2>1 DEF FollowInv, Blank
  <2> QED BY <2>2 DEF Quiet, Exists
<1>2. OneFollowUpIfApproved'
  <2> SUFFICES ASSUME NEW i \in Delivered
               PROVE  /\ followUps'[i] <= 1
                      /\ followUps'[i] = 1 <=> Exists(FollowUpOf(i))'
                      /\ followUps'[i] = 1 => item'[i].status = "approved"
                      /\ item'[i].status = "approved" => followUps'[i] = 1 \/ kills' > 0
    BY DEF OneFollowUpIfApproved, Delivered, FollowUpOf
  <2>1. /\ followUps[i] <= 1
        /\ followUps[i] = 1 <=> Exists(FollowUpOf(i))
        /\ followUps[i] = 1 => item[i].status = "approved"
        /\ item[i].status = "approved" => followUps[i] = 1 \/ kills > 0
    BY DEF FollowInv, OneFollowUpIfApproved
  <2>2. kills > 0 => kills' > 0
    BY OnboardingAssumption DEF Quiet, FollowInv, HireTypes, QueueOK
  <2>3. Exists(FollowUpOf(i))' <=> Exists(FollowUpOf(i))
    BY DeliveredFacts DEF Quiet, Delivered
  <2> QED BY <2>1, <2>2, <2>3 DEF Quiet
<1>3. Grown
  BY DEF Quiet, Grown
<1> QED BY <1>1, <1>2, <1>3

LEMMA RecomputedNotNone ==
  ASSUME TablesOK, NEW items, NEW r, request' = Recomputed(items, r)
  PROVE  NoneKept
BY DEF TablesOK, Recomputed, Derived, NoneKept

LEMMA SettleQuiet ==
  ASSUME FollowInv, NEW i \in Items, NEW s \in ItemStatus \ {"none", "approved"},
         NEW by \in Deciders, Settle(i, s, by)
  PROVE  Quiet
<1>1. NoneKept
  BY RecomputedNotNone DEF Settle, FollowInv, HireTypes
<1>2. item' = Decided(i, s, by) /\ UNCHANGED <<followUps, kills>>
  BY DEF Settle
<1>3. ASSUME NEW j \in Items
      PROVE  /\ Exists(j)' <=> Exists(j)
             /\ item'[j].status = "approved" <=> item[j].status = "approved"
  <2>1. CASE j = i /\ item[i].status = "pending"
    BY <1>2, <2>1, RowTypes DEF Decided, Exists, FollowInv, HireTypes, TablesOK
  <2>2. CASE ~(j = i /\ item[i].status = "pending")
    BY <1>2, <2>2 DEF Decided, Exists, FollowInv, HireTypes, TablesOK
  <2> QED BY <2>1, <2>2
<1> QED BY <1>1, <1>2, <1>3 DEF Quiet, Delivered

LEMMA ArrivalQuiet == ASSUME FollowInv, NEW m \in Results, Arrival(m) PROVE Quiet
<1> DEFINE r == job[m.id].ref
<1>1. item' \in {item, AfterAccount(r)}
  BY DEF Arrival, ReceiveResult, ResultInterrupted
<1>2. NoneKept
  <2>1. UNCHANGED request \/ \E items : request' = Recomputed(items, r)
    BY DEF Arrival, ReceiveResult, ResultInterrupted
  <2> QED BY <2>1, RecomputedNotNone DEF NoneKept, FollowInv, HireTypes
<1>3. UNCHANGED followUps /\ kills' \in {kills, kills + 1}
  BY DEF Arrival, ReceiveResult, ResultInterrupted, Kill
<1>4. ASSUME NEW j \in Items, item' = AfterAccount(r)
      PROVE  /\ Exists(j)' <=> Exists(j)
             /\ item'[j].status = "approved" <=> item[j].status = "approved"
  BY <1>4 DEF AfterAccount, Exists, Row
<1>5. ASSUME NEW j \in Items
      PROVE  /\ Exists(j)' <=> Exists(j)
             /\ item'[j].status = "approved" <=> item[j].status = "approved"
  BY <1>1, <1>4 DEF Exists
<1> QED BY <1>2, <1>3, <1>5 DEF Quiet, Delivered

LEMMA GroupAddedQuiet ==
  ASSUME FollowInv, NEW h \in Handlers, NEW i \in Items, GroupAdded(h, i)
  PROVE  Quiet
<1>1. Exists(i) /\ i[2] \notin Approvals
  BY OnboardingAssumption DEF GroupAdded, FollowInv, CallsKnown
<1>2. item' = [item EXCEPT ![i] = Row("done", "person")] /\ UNCHANGED <<request, followUps, kills>>
  BY DEF GroupAdded
<1>3. ASSUME NEW j \in Items PROVE Exists(j)' <=> Exists(j)
  BY <1>1, <1>2 DEF Exists, Row, FollowInv, HireTypes, TablesOK
<1>4. ASSUME NEW j \in Delivered
      PROVE  item'[j].status = "approved" <=> item[j].status = "approved"
  <2>1. j # i
    BY <1>1, DeliveredFacts
  <2> QED BY <1>2, <2>1 DEF FollowInv, HireTypes, TablesOK
<1> QED BY <1>2, <1>3, <1>4 DEF Quiet, NoneKept

LEMMA LicenceAssignedQuiet ==
  ASSUME FollowInv, NEW h \in Handlers, NEW l \in LicenceIds, LicenceAssigned(h, l)
  PROVE  Quiet
<1> DEFINE i == <<licence[l].ref, Mail>>
<1>1. /\ item' = IF item[i].status = "pending" THEN [item EXCEPT ![i] = Row("done", "entra-license")]
                 ELSE item
      /\ UNCHANGED <<request, followUps, kills>>
  BY DEF LicenceAssigned
<1>2. ASSUME NEW j \in Items PROVE Exists(j)' <=> Exists(j)
  BY <1>1 DEF Exists, Row, FollowInv, HireTypes, TablesOK
<1>3. ASSUME NEW j \in Delivered
      PROVE  item'[j].status = "approved" <=> item[j].status = "approved"
  <2>1. j # i
    BY DeliveredFacts, OnboardingAssumption
  <2> QED BY <1>1, <2>1 DEF FollowInv, HireTypes, TablesOK, Delivered
<1> QED BY <1>1, <1>2, <1>3 DEF Quiet, NoneKept

LEMMA ElsewhereKills == Elsewhere => kills' \in {kills, kills + 1}
<1>1. ASSUME NEW h \in Handlers, LicenceStep(h) PROVE UNCHANGED kills
  BY <1>1 DEF LicenceStep, LicencePass, LicenceError, LicenceWaits, LicenceExpired
<1>2. ASSUME NEW h \in Handlers, NEW r \in Requests, Provision(h, r) PROVE UNCHANGED kills
  BY <1>2 DEF Provision
<1>3. ASSUME NEW h \in Handlers, NEW i \in Items, GroupFailed(h, i) PROVE UNCHANGED kills
  BY <1>3 DEF GroupFailed
<1>4. ASSUME NEW r \in Requests, CreateAccountJob(r) PROVE UNCHANGED kills
  BY <1>4 DEF CreateAccountJob
<1>5. ASSUME NEW b \in 0 .. MaxPolls, Poll(b) PROVE UNCHANGED kills
  BY <1>5 DEF Poll
<1>6. ASSUME NEW j \in JobIds, Agent(j) PROVE UNCHANGED kills
  BY <1>6 DEF Agent
<1>7. CASE Killed \/ UNCHANGED vars
  BY <1>7 DEF Killed, Kill, vars
<1> QED BY <1>1, <1>2, <1>3, <1>4, <1>5, <1>6, <1>7 DEF Elsewhere

LEMMA ElsewhereQuiet == FollowInv /\ Elsewhere => Quiet
<1> SUFFICES ASSUME FollowInv, Elsewhere PROVE Quiet
  OBVIOUS
<1> QED BY ElsewhereSparesBoard, ElsewhereKills DEF Quiet, NoneKept, board, Exists

FollowStep == Blank' /\ OneFollowUpIfApproved' /\ Grown

LEMMA CreationFollows == ASSUME FollowInv, NEW r \in Requests, Creation(r) PROVE FollowStep
<1>a. PICK form \in Forms : \E slots \in SUBSET form :
        /\ request[r] = "none" /\ request' = [request EXCEPT ![r] = "open"]
        /\ Insert(r, slots) /\ UNCHANGED followUps /\ kills' \in {kills, kills + 1}
  <2>1. ASSUME NEW form \in Forms, Create(r, form)
        PROVE  /\ request[r] = "none" /\ request' = [request EXCEPT ![r] = "open"]
               /\ Insert(r, form) /\ UNCHANGED followUps /\ kills' \in {kills, kills + 1}
    BY <2>1 DEF Create
  <2>2. ASSUME NEW form \in Forms, NEW n \in 0 .. Len(Order), CreateInterrupted(r, form, n)
        PROVE  \E slots \in SUBSET form :
                 /\ request[r] = "none" /\ request' = [request EXCEPT ![r] = "open"]
                 /\ Insert(r, slots) /\ UNCHANGED followUps /\ kills' \in {kills, kills + 1}
    <3> DEFINE slots == {c \in form : \E k \in 1 .. n : Order[k] = c}
    <3>1. /\ request[r] = "none" /\ request' = [request EXCEPT ![r] = "open"]
          /\ Insert(r, slots) /\ UNCHANGED followUps /\ kills' \in {kills, kills + 1}
      BY <2>2 DEF CreateInterrupted, Kill
    <3>2. slots \in SUBSET form
      OBVIOUS
    <3> HIDE DEF slots
    <3> QED BY <3>1, <3>2
  <2>3. \A form \in Forms : form \in SUBSET form
    OBVIOUS
  <2> QED BY <2>1, <2>2, <2>3 DEF Creation
<1>1. PICK slots \in SUBSET form :
        /\ request[r] = "none" /\ request' = [request EXCEPT ![r] = "open"]
        /\ Insert(r, slots) /\ UNCHANGED followUps /\ kills' \in {kills, kills + 1}
  BY <1>a
<1>2. ASSUME NEW i \in Items
      PROVE  item'[i] = IF i[1] = r /\ i[2] \in slots THEN Row("pending", "nobody") ELSE item[i]
  BY <1>1, <1>2 DEF Insert
<1>3. ASSUME NEW i \in Items, i[1] = r PROVE item[i].status = "none" /\ followUps[i] = 0
  BY <1>1, <1>3 DEF FollowInv, Blank
<1>4. \A q \in Requests : request'[q] = "none" => q # r /\ request[q] = "none"
  BY <1>1 DEF FollowInv, HireTypes, TablesOK
<1>5. Blank'
  BY <1>1, <1>2, <1>4 DEF Blank, FollowInv, Items
<1>6. Grown
  BY <1>2, <1>3 DEF Grown, Exists
<1>7. OneFollowUpIfApproved'
  <2> SUFFICES ASSUME NEW i \in Delivered
               PROVE  /\ followUps'[i] <= 1
                      /\ followUps'[i] = 1 <=> Exists(FollowUpOf(i))'
                      /\ followUps'[i] = 1 => item'[i].status = "approved"
                      /\ item'[i].status = "approved" => followUps'[i] = 1 \/ kills' > 0
    BY DEF OneFollowUpIfApproved, Delivered, FollowUpOf
  <2>1. i \in Items /\ FollowUpOf(i) \in Items /\ FollowUpOf(i)[1] = i[1]
    BY DeliveredFacts
  <2>2. item'[FollowUpOf(i)] = item[FollowUpOf(i)]
    BY <1>1, <1>2, DeliveredFacts
  <2>3. CASE i[1] = r
    <3>1. followUps'[i] = 0 /\ item[FollowUpOf(i)].status = "none"
      BY <1>1, <1>3, <2>1, <2>3
    <3>2. item'[i].status # "approved"
      BY <1>2, <1>3, <2>1, <2>3 DEF Row
    <3> QED BY <2>2, <3>1, <3>2 DEF Exists
  <2>4. CASE i[1] # r
    <3>1. item'[i] = item[i]
      BY <1>2, <2>1, <2>4
    <3>2. /\ followUps[i] <= 1
          /\ followUps[i] = 1 <=> Exists(FollowUpOf(i))
          /\ followUps[i] = 1 => item[i].status = "approved"
          /\ item[i].status = "approved" => followUps[i] = 1 \/ kills > 0
      BY DEF FollowInv, OneFollowUpIfApproved
    <3>3. kills > 0 => kills' > 0
      BY <1>1, OnboardingAssumption DEF FollowInv, HireTypes, QueueOK
    <3> QED BY <1>1, <2>2, <3>1, <3>2, <3>3 DEF Exists
  <2> QED BY <2>3, <2>4
<1> QED BY <1>5, <1>6, <1>7 DEF FollowStep

\* An approval is decided, and no follow-up made: there is one, or the process was killed.
LEMMA ApprovedFollows ==
  ASSUME FollowInv, NEW i \in Items, i[2] \in Approvals, NoneKept,
         item' = Decided(i, "approved", "person"), UNCHANGED followUps,
         kills' \in {kills, kills + 1},
         kills' > 0 \/ ~Delivers(item', i)
  PROVE  FollowStep
<1>1. ASSUME NEW j \in Items
      PROVE  /\ Exists(j)' <=> Exists(j)
             /\ item[j].status = "approved" => item'[j].status = "approved"
             /\ j # i => item'[j] = item[j]
  BY DEF Decided, Row, Exists, FollowInv, HireTypes, TablesOK
<1>2. Blank' /\ Grown
  BY <1>1 DEF Blank, Grown, FollowInv, NoneKept, Exists, Items
<1>3. OneFollowUpIfApproved'
  <2> SUFFICES ASSUME NEW j \in Delivered
               PROVE  /\ followUps'[j] <= 1
                      /\ followUps'[j] = 1 <=> Exists(FollowUpOf(j))'
                      /\ followUps'[j] = 1 => item'[j].status = "approved"
                      /\ item'[j].status = "approved" => followUps'[j] = 1 \/ kills' > 0
    BY DEF OneFollowUpIfApproved, Delivered, FollowUpOf
  <2>1. /\ followUps[j] <= 1
        /\ followUps[j] = 1 <=> Exists(FollowUpOf(j))
        /\ followUps[j] = 1 => item[j].status = "approved"
        /\ item[j].status = "approved" => followUps[j] = 1 \/ kills > 0
    BY DEF FollowInv, OneFollowUpIfApproved
  <2>2. kills > 0 => kills' > 0
    BY OnboardingAssumption DEF FollowInv, HireTypes, QueueOK
  <2>3. Exists(FollowUpOf(j))' <=> Exists(FollowUpOf(j))
    BY <1>1, DeliveredFacts
  <2>4. item'[j].status = "approved" => followUps'[j] = 1 \/ kills' > 0
    <3>1. CASE j = i
      BY <2>1, <3>1 DEF Delivers, Delivered, FollowInv, HireTypes, TablesOK
    <3>2. CASE j # i
      BY <1>1, <2>1, <2>2, <3>2 DEF Delivered
    <3> QED BY <3>1, <3>2
  <2> QED BY <1>1, <2>1, <2>3, <2>4 DEF Delivered
<1> QED BY <1>2, <1>3 DEF FollowStep

\* An approval is decided and delivered.
LEMMA DeliveredFollows ==
  ASSUME FollowInv, NEW i \in Items, i[2] \in Approvals, item[i].status # "none", NoneKept,
         Delivers(Decided(i, "approved", "person"), i),
         item' = WithFollowUp(Decided(i, "approved", "person"), i),
         followUps' = [followUps EXCEPT ![i] = @ + 1],
         kills' \in {kills, kills + 1}
  PROVE  FollowStep
<1> DEFINE decided == Decided(i, "approved", "person")
<1>1. i \in Delivered /\ followUps[i] = 0 /\ decided[i].status = "approved"
  BY DEF Delivers, Delivered
<1>2. decided \in [Items -> ItemRow]
  BY DecidedType DEF FollowInv, HireTypes, ItemStatus, Deciders
<1>3. item' = [decided EXCEPT ![FollowUpOf(i)] = Row("pending", "nobody")]
  BY DEF WithFollowUp, FollowUpOf
<1>4. ASSUME NEW j \in Items
      PROVE  /\ decided[j].status = "none" <=> item[j].status = "none"
             /\ item[j].status = "approved" => decided[j].status = "approved"
             /\ j # i => decided[j] = item[j]
  BY DEF Decided, Row, FollowInv, HireTypes, TablesOK
<1> HIDE DEF decided
<1>5. FollowUpOf(i) \in Items /\ FollowUpOf(i) # i /\ FollowUpOf(i)[1] = i[1]
  BY <1>1, DeliveredFacts
<1>6. item'[FollowUpOf(i)].status = "pending" /\ \A j \in Items : j # FollowUpOf(i) => item'[j] = decided[j]
  BY <1>2, <1>3, <1>5 DEF Row
<1>7. \A j \in Items : j # i => followUps'[j] = followUps[j]
  BY DEF FollowInv, HireTypes, TablesOK
<1>8. followUps'[i] = 1
  BY <1>1 DEF FollowInv, HireTypes, TablesOK
<1>9. Grown
  BY <1>4, <1>6 DEF Grown, Exists
<1>10. Blank'
  <2> SUFFICES ASSUME NEW j \in Items, request'[j[1]] = "none"
               PROVE  item'[j].status = "none" /\ followUps'[j] = 0
    BY DEF Blank
  <2>1. request[j[1]] = "none"
    BY DEF NoneKept, Items
  <2>2. item[j].status = "none" /\ followUps[j] = 0
    BY <2>1 DEF FollowInv, Blank
  <2>3. request[i[1]] # "none"
    BY DEF FollowInv, Blank
  <2>4. j # i /\ j # FollowUpOf(i)
    BY <1>5, <2>1, <2>3
  <2> QED BY <1>4, <1>6, <1>7, <2>2, <2>4
<1>11. OneFollowUpIfApproved'
  <2> SUFFICES ASSUME NEW j \in Delivered
               PROVE  /\ followUps'[j] <= 1
                      /\ followUps'[j] = 1 <=> Exists(FollowUpOf(j))'
                      /\ followUps'[j] = 1 => item'[j].status = "approved"
                      /\ item'[j].status = "approved" => followUps'[j] = 1 \/ kills' > 0
    BY DEF OneFollowUpIfApproved, Delivered, FollowUpOf
  <2>1. /\ followUps[j] <= 1
        /\ followUps[j] = 1 <=> Exists(FollowUpOf(j))
        /\ followUps[j] = 1 => item[j].status = "approved"
        /\ item[j].status = "approved" => followUps[j] = 1 \/ kills > 0
    BY DEF FollowInv, OneFollowUpIfApproved
  <2>2. kills > 0 => kills' > 0
    BY OnboardingAssumption DEF FollowInv, HireTypes, QueueOK
  <2>3. CASE j = i
    <3>1. item'[i].status = "approved"
      BY <1>1, <1>5, <1>6
    <3>2. Exists(FollowUpOf(i))'
      BY <1>6 DEF Exists
    <3> QED BY <1>8, <2>3, <3>1, <3>2
  <2>4. CASE j # i
    <3>1. j # FollowUpOf(i) /\ FollowUpOf(j) # FollowUpOf(i) /\ FollowUpOf(j) # i
          /\ j \in Items /\ FollowUpOf(j) \in Items
      BY <1>1, <2>4, DeliveredFacts
    <3>2. item'[j] = item[j] /\ item'[FollowUpOf(j)] = item[FollowUpOf(j)]
      BY <1>4, <1>6, <2>4, <3>1
    <3>3. followUps'[j] = followUps[j]
      BY <1>7, <2>4, <3>1
    <3> QED BY <2>1, <2>2, <3>2, <3>3 DEF Exists
  <2> QED BY <2>3, <2>4
<1> QED BY <1>9, <1>10, <1>11 DEF FollowStep

LEMMA DecisionFollows == ASSUME FollowInv, NEW i \in Items, Decision(i) PROVE FollowStep
<1> DEFINE decided == Decided(i, "approved", "person")
<1>1. CASE CompleteItem(i) \/ RejectItem(i) \/ ShownInServiceTrade(i)
  <2>1. PICK s \in {"done", "rejected"}, by \in {"person", "system"} : Settle(i, s, by)
    BY <1>1 DEF CompleteItem, RejectItem, ShownInServiceTrade
  <2>2. Quiet
    BY <2>1, SettleQuiet DEF ItemStatus, Deciders
  <2> QED BY <2>2, QuietNext DEF FollowStep
<1>2. CASE ApproveItem(i)
  <2>1. item[i].status # "none" /\ i[2] \in Approvals /\ UNCHANGED kills
    BY <1>2 DEF ApproveItem
  <2>2. NoneKept
    BY <1>2, RecomputedNotNone DEF ApproveItem, FollowInv, HireTypes
  <2>3. CASE Delivers(decided, i)
    BY <1>2, <2>1, <2>2, <2>3, DeliveredFollows DEF ApproveItem
  <2>4. CASE ~Delivers(decided, i)
    BY <1>2, <2>1, <2>2, <2>4, ApprovedFollows DEF ApproveItem
  <2> QED BY <2>3, <2>4
<1>3. CASE ApproveInterrupted(i)
  <2>1. item[i].status # "none" /\ i[2] \in Approvals /\ kills' = kills + 1 /\ Delivers(decided, i)
    BY <1>3 DEF ApproveInterrupted, Kill
  <2>2. NoneKept
    BY <1>3, RecomputedNotNone DEF ApproveInterrupted, FollowInv, HireTypes
  <2>3. kills' > 0
    BY <2>1, OnboardingAssumption DEF FollowInv, HireTypes, QueueOK
  <2>4. \/ item' = decided /\ UNCHANGED followUps
        \/ item' = WithFollowUp(decided, i) /\ followUps' = [followUps EXCEPT ![i] = @ + 1]
    BY <1>3 DEF ApproveInterrupted
  <2> QED BY <2>1, <2>2, <2>3, <2>4, ApprovedFollows, DeliveredFollows
<1>4. ASSUME NEW s \in ItemStatus, DecideInterrupted(i, s) PROVE FollowStep
  <2>1. /\ item[i].status = "pending" /\ item' = Decided(i, s, "person")
        /\ UNCHANGED <<request, followUps>> /\ kills' = kills + 1
    BY <1>4 DEF DecideInterrupted, Kill
  <2>2. NoneKept
    BY <2>1 DEF NoneKept
  <2>3. kills' > 0
    BY <2>1, OnboardingAssumption DEF FollowInv, HireTypes, QueueOK
  <2>4. CASE s = "approved"
    <3>1. i[2] \in Approvals
      BY <1>4, <2>4 DEF DecideInterrupted
    <3> QED BY <2>1, <2>2, <2>3, <2>4, <3>1, ApprovedFollows
  <2>5. CASE s # "approved"
    <3>1. s # "none"
      BY <1>4 DEF DecideInterrupted
    <3>2. ASSUME NEW j \in Items
          PROVE  /\ Exists(j)' <=> Exists(j)
                 /\ item'[j].status = "approved" <=> item[j].status = "approved"
      BY <2>1, <2>5, <3>1 DEF Decided, Row, Exists, FollowInv, HireTypes, TablesOK
    <3>3. Quiet
      BY <2>1, <2>2, <3>2 DEF Quiet, Delivered
    <3> QED BY <3>3, QuietNext DEF FollowStep
  <2> QED BY <2>4, <2>5
<1> QED BY <1>1, <1>2, <1>3, <1>4 DEF Decision

LEMMA FollowNext == FollowInv /\ [Next]_vars => FollowStep
<1> SUFFICES ASSUME FollowInv, [Next]_vars PROVE FollowStep
  OBVIOUS
<1>1. Quiet => FollowStep
  BY QuietNext DEF FollowStep
<1>2. ASSUME NEW r \in Requests, Discard(r) PROVE Quiet
  BY <1>2 DEF Discard, Quiet, NoneKept, Exists, FollowInv, HireTypes, TablesOK
<1>3. CASE BoardStep
  BY <1>1, <1>2, <1>3, CreationFollows, DecisionFollows, ArrivalQuiet, GroupAddedQuiet,
     LicenceAssignedQuiet DEF BoardStep
<1>4. CASE Elsewhere
  BY <1>1, <1>4, ElsewhereQuiet
<1> QED BY <1>3, <1>4, HireSteps

LEMMA CallsKnownNext == FollowInv /\ [Next]_vars => CallsKnown'
<1> SUFFICES ASSUME FollowInv, [Next]_vars, NEW h \in Handlers, NEW i \in call'[h].groups
             PROVE  i[2] \in Grouped /\ Exists(i)'
  BY DEF CallsKnown
<1> DEFINE Old == call'[h].groups \subseteq call[h].groups
<1>1. Old => i[2] \in Grouped /\ Exists(i)'
  BY FollowNext DEF FollowStep, Grown, FollowInv, CallsKnown, HireTypes, QueueOK, Calls
<1>2. UNCHANGED call => Old
  OBVIOUS
<1>3. Kill => Old
  BY DEF Kill, Idle
<1>4. ASSUME NEW r \in Requests, Creation(r) \/ Discard(r) PROVE Old
  BY <1>2, <1>3, <1>4 DEF Creation, Create, CreateInterrupted, Discard
<1>5. ASSUME NEW j \in Items, Decision(j) PROVE Old
  BY <1>2, <1>3, <1>5 DEF Decision, CompleteItem, RejectItem, ShownInServiceTrade, Settle,
              ApproveItem, ApproveInterrupted, DecideInterrupted
<1>6. ASSUME NEW m \in Results, Arrival(m) PROVE Old
  BY <1>2, <1>3, <1>6 DEF Arrival, ReceiveResult, ResultInterrupted
<1>7. ASSUME NEW g \in Handlers, NEW j \in Items, GroupAdded(g, j) \/ GroupFailed(g, j) PROVE Old
  <2>1. call' = [call EXCEPT ![g].groups = @ \ {j}]
    BY <1>7 DEF GroupAdded, GroupFailed
  <2> QED BY <2>1 DEF FollowInv, HireTypes, QueueOK, Calls
<1>8. ASSUME NEW g \in Handlers, NEW l \in LicenceIds, RowDone(g, l) PROVE Old
  BY <1>8 DEF RowDone, FollowInv, HireTypes, QueueOK, Calls
<1>9. ASSUME NEW g \in Handlers, LicencePass(g) PROVE Old
  <2> DEFINE rows == {l \in LicenceIds : licence[l].status = "pending"}
  <2>1. call' = [call EXCEPT ![g].rows = rows]
    BY <1>9 DEF LicencePass
  <2> QED BY <2>1 DEF FollowInv, HireTypes, QueueOK, Calls
<1>10. ASSUME NEW g \in Handlers, LicenceStep(g) PROVE Old
  BY <1>8, <1>9, <1>10 DEF LicenceStep, LicenceError, LicenceWaits, LicenceExpired
<1>11. ASSUME NEW g \in Handlers, NEW r \in Requests, Provision(g, r)
       PROVE  i[2] \in Grouped /\ Exists(i)'
  <2> DEFINE groups == {j \in {r} \X Grouped : item[j].status = "pending"}
  <2>1. call' = [call EXCEPT ![g].groups = groups] /\ UNCHANGED board
    BY <1>11 DEF Provision
  <2>2. CASE g = h
    <3>1. i \in groups
      BY <2>1, <2>2 DEF FollowInv, HireTypes, QueueOK, Calls
    <3> QED BY <2>1, <3>1 DEF board, Exists
  <2>3. CASE g # h
    BY <1>1, <2>1, <2>3 DEF FollowInv, HireTypes, QueueOK
  <2> QED BY <2>2, <2>3
<1>12. ASSUME NEW r \in Requests, CreateAccountJob(r) PROVE Old
  BY <1>2, <1>12 DEF CreateAccountJob
<1>13. ASSUME NEW b \in 0 .. MaxPolls, Poll(b) PROVE Old
  BY <1>2, <1>13 DEF Poll
<1>14. ASSUME NEW j \in JobIds, Agent(j) PROVE Old
  BY <1>2, <1>14 DEF Agent
<1>15. ASSUME Killed \/ UNCHANGED vars PROVE Old
  BY <1>2, <1>3, <1>15 DEF Killed, vars
<1>16. CASE BoardStep
  BY <1>1, <1>4, <1>5, <1>6, <1>7, <1>8, <1>16 DEF BoardStep, LicenceAssigned
<1>17. CASE Elsewhere
  BY <1>1, <1>7, <1>10, <1>11, <1>12, <1>13, <1>14, <1>15, <1>17 DEF Elsewhere
<1> QED BY <1>16, <1>17, HireSteps

LEMMA FollowInvInit == Init => FollowInv
<1> SUFFICES ASSUME Init PROVE FollowInv
  OBVIOUS
<1>1. Blank /\ CallsKnown
  BY DEF Init, Blank, CallsKnown, Idle, Row
<1>2. OneFollowUpIfApproved
  BY DeliveredFacts DEF Init, OneFollowUpIfApproved, Row, Exists
<1> QED BY <1>1, <1>2, HireTypesInit DEF FollowInv

LEMMA FollowInvNext == FollowInv /\ [Next]_vars => FollowInv'
<1>1. FollowInv /\ [Next]_vars => HireTypes'
  BY HireTypesNext DEF FollowInv
<1>2. FollowInv /\ [Next]_vars => Blank' /\ OneFollowUpIfApproved'
  BY FollowNext DEF FollowStep
<1> QED BY <1>1, <1>2, CallsKnownNext DEF FollowInv

\* However often an approval is approved, on the board or behind its link, and wherever kills
\* fall, it is delivered by one task at most, and only if it was approved.
THEOREM OneTaskPerApproval == Spec => []OneFollowUpIfApproved
<1>1. FollowInv => OneFollowUpIfApproved
  BY DEF FollowInv
<1> QED BY <1>1, FollowInvInit, FollowInvNext, PTL DEF Spec

-----------------------------------------------------------------------------
(***************************************************************************)
(* Which actions touch the directories, the payloads and the licence rows. *)
(***************************************************************************)
AtGraph ==
  \E h \in Handlers :
    \/ \E i \in Items : GroupAdded(h, i) \/ GroupFailed(h, i)
    \/ \E l \in LicenceIds : LicenceAssigned(h, l) \/ LicenceError(h, l) \/ LicenceExpired(h, l)

AtDomain == \E j \in JobIds : Agent(j)
Asked == \E r \in Requests : CreateAccountJob(r)
Arrived == \E m \in Results : ReceiveResult(m)

LEMMA Moves ==
  [Next]_vars => AtGraph \/ AtDomain \/ Asked \/ Arrived \/ UNCHANGED <<outside, payload, licences>>
<1> SUFFICES ASSUME [Next]_vars, ~AtGraph, ~AtDomain, ~Asked, ~Arrived
             PROVE  UNCHANGED <<outside, payload, licences>>
  OBVIOUS
<1> DEFINE Still == UNCHANGED <<outside, payload, licences>>
<1>1. ASSUME NEW r \in Requests, Creation(r) \/ Discard(r) PROVE Still
  BY <1>1 DEF Creation, Create, CreateInterrupted, Discard
<1>2. ASSUME NEW i \in Items, Decision(i) PROVE Still
  BY <1>2 DEF Decision, CompleteItem, RejectItem, ShownInServiceTrade, Settle, ApproveItem,
              ApproveInterrupted, DecideInterrupted
<1>3. ASSUME NEW m \in Results, Arrival(m) PROVE Still
  BY <1>3 DEF Arrived, Arrival, ResultInterrupted
<1>4. ASSUME NEW h \in Handlers, LicenceStep(h) PROVE Still
  BY <1>4 DEF LicenceStep, AtGraph, LicencePass, LicenceWaits
<1>5. ASSUME NEW h \in Handlers, NEW r \in Requests, Provision(h, r) PROVE Still
  BY <1>5 DEF Provision
<1>6. ASSUME NEW b \in 0 .. MaxPolls, Poll(b) PROVE Still
  BY <1>6 DEF Poll
<1>7. ASSUME Killed \/ UNCHANGED vars PROVE Still
  BY <1>7 DEF Killed, vars
<1>8. BoardStep => Still
  BY <1>1, <1>2, <1>3 DEF BoardStep, AtGraph
<1>9. Elsewhere => Still
  BY <1>4, <1>5, <1>6, <1>7 DEF Elsewhere, AtGraph, AtDomain, Asked
<1> QED BY <1>8, <1>9, HireSteps

-----------------------------------------------------------------------------
(***************************************************************************)
(* Access.  Group memberships come from items that exist: the ones Graph   *)
(* is asked for and the ones a job's payload lists.  An item that delivers *)
(* an approval exists only once the approval was given.                    *)
(***************************************************************************)
PayloadKnown ==
  \A j \in JobIds : \A c \in payload[j] : j <= lastJob /\ Exists(<<job[j].ref, c>>)

MembersKnown == \A i \in member : Exists(i)

AccessInv == FollowInv /\ PayloadKnown /\ MembersKnown

LEMMA JobRefsKept ==
  HireTypes /\ [Next]_vars =>
    \A j \in JobIds : j <= lastJob => j <= lastJob' /\ job'[j].ref = job[j].ref
<1> SUFFICES ASSUME HireTypes, [JobsNext]_jobVars, NEW j \in JobIds, j <= lastJob
             PROVE  j <= lastJob' /\ job'[j].ref = job[j].ref
  BY BoardStepIsJobsStep
<1> USE DcJobsAssumption DEF HireTypes, JobsInv, JobsTypeOK
<1>1. ASSUME NEW ref \in Refs, Enqueue(ref) PROVE j <= lastJob' /\ job'[j].ref = job[j].ref
  BY <1>1 DEF Enqueue, JobIds
<1>2. ASSUME NEW b \in 0 .. MaxPolls, ClaimPending(b) PROVE j <= lastJob' /\ job'[j].ref = job[j].ref
  BY <1>2 DEF ClaimPending, Marked, JobRow
<1>3. ASSUME AgentStep PROVE j <= lastJob' /\ job'[j].ref = job[j].ref
  BY <1>3 DEF AgentStep, AgentSucceeds, AgentFails, AgentDies
<1>4. ASSUME NEW m \in Results, RecordResult(m) PROVE j <= lastJob' /\ job'[j].ref = job[j].ref
  BY <1>4 DEF RecordResult, JobRow
<1>5. CASE UNCHANGED jobVars
  BY <1>5 DEF jobVars
<1> QED BY <1>1, <1>2, <1>3, <1>4, <1>5 DEF JobsNext

LEMMA PayloadKnownNext == AccessInv /\ [Next]_vars => PayloadKnown'
<1> SUFFICES ASSUME AccessInv, [Next]_vars, NEW j \in JobIds, NEW c \in payload'[j]
             PROVE  j <= lastJob' /\ Exists(<<job[j].ref, c>>)'
  BY DEF PayloadKnown
<1>1. \A i \in Items : Exists(i) => Exists(i)'
  BY FollowNext DEF AccessInv, FollowStep, Grown
<1>2. HireTypes
  BY DEF AccessInv, FollowInv
<1>3. ASSUME payload'[j] = payload[j] PROVE j <= lastJob' /\ Exists(<<job[j].ref, c>>)'
  <2>1. j <= lastJob /\ Exists(<<job[j].ref, c>>)
    BY <1>3 DEF AccessInv, PayloadKnown
  <2>2. job[j].ref \in Requests /\ c \in Slots
    BY <1>2, <1>3, <2>1 DEF HireTypes, RefsKnown, QueueOK
  <2>3. j <= lastJob' /\ job'[j].ref = job[j].ref
    BY <1>2, <2>1, JobRefsKept
  <2>4. Exists(<<job[j].ref, c>>)'
    <3>1. item'[<<job[j].ref, c>>].status # "none"
      BY <1>1, <2>1, <2>2 DEF Items, Exists
    <3> QED BY <2>3, <3>1 DEF Exists
  <2> QED BY <2>3, <2>4
<1>4. ASSUME NEW r \in Requests, CreateAccountJob(r), payload'[j] # payload[j]
      PROVE  j <= lastJob' /\ Exists(<<job[j].ref, c>>)'
  <2>1. j = lastJob + 1 /\ c \in ProvisionPlan(r)
    BY <1>2, <1>4, DcJobsAssumption
       DEF CreateAccountJob, HireTypes, QueueOK, JobsInv, JobsTypeOK, JobIds
  <2>2. lastJob' = j /\ job'[j].ref = r /\ UNCHANGED item
    BY <1>2, <1>4, <2>1 DEF CreateAccountJob, Enqueue, board, HireTypes, JobsInv, JobsTypeOK
  <2>3. item[<<r, c>>].status = "pending"
    BY <2>1 DEF ProvisionPlan
  <2> QED BY <2>2, <2>3, DcJobsAssumption DEF Exists, JobIds
<1>5. \/ UNCHANGED payload
      \/ Asked
  <2>1. AtGraph => UNCHANGED payload
    BY DEF AtGraph, GroupAdded, GroupFailed, LicenceAssigned, LicenceError, LicenceExpired
  <2>2. AtDomain => UNCHANGED payload
    BY DEF AtDomain, Agent
  <2>3. Arrived => UNCHANGED payload
    BY DEF Arrived, ReceiveResult
  <2> QED BY <2>1, <2>2, <2>3, Moves
<1> QED BY <1>3, <1>4, <1>5 DEF Asked

LEMMA MembersKnownNext == AccessInv /\ [Next]_vars => MembersKnown'
<1> SUFFICES ASSUME AccessInv, [Next]_vars, NEW i \in member' PROVE item'[i].status # "none"
  BY DEF MembersKnown, Exists
<1>1. HireTypes
  BY DEF AccessInv, FollowInv
<1>2. ASSUME NEW k \in Items, Exists(k) PROVE item'[k].status # "none"
  BY <1>2, FollowNext DEF AccessInv, FollowStep, Grown, Exists
<1>3. i \in member => item'[i].status # "none"
  BY <1>1, <1>2 DEF AccessInv, MembersKnown, HireTypes, DirectoryOK
<1>4. ASSUME NEW h \in Handlers, NEW g \in Items, GroupAdded(h, g) \/ GroupFailed(h, g)
      PROVE  item'[i].status # "none"
  <2>1. member' \subseteq member \cup {g} /\ g \in call[h].groups
    BY <1>4 DEF GroupAdded, GroupFailed
  <2>2. item'[g].status # "none"
    BY <1>2, <1>4, <2>1 DEF AccessInv, FollowInv, CallsKnown
  <2> QED BY <1>3, <2>1, <2>2
<1>5. ASSUME NEW j \in JobIds, CreatesAccount(j), held[j] > 0 PROVE item'[i].status # "none"
  <2>1. PICK groups \in SUBSET payload[j] :
          member' = IF job[j].ref \in account THEN member ELSE member \cup ({job[j].ref} \X groups)
    BY <1>5 DEF CreatesAccount
  <2>2. ASSUME NEW c \in groups PROVE item'[<<job[j].ref, c>>].status # "none"
    <3>1. Exists(<<job[j].ref, c>>)
      BY <2>1, <2>2 DEF AccessInv, PayloadKnown
    <3>2. <<job[j].ref, c>> \in Items
      BY <1>1, <1>5, <2>1, <2>2, KnownRef DEF HireTypes, QueueOK, Items
    <3> QED BY <1>2, <3>1, <3>2
  <2>3. i \in member \/ \E c \in groups : i = <<job[j].ref, c>>
    BY <2>1
  <2> QED BY <1>3, <2>2, <2>3
<1>6. CASE UNCHANGED member
  BY <1>3, <1>6
<1>7. AtGraph => UNCHANGED member \/ \E h \in Handlers, g \in Items : GroupAdded(h, g) \/ GroupFailed(h, g)
  BY DEF AtGraph, LicenceAssigned, LicenceError, LicenceExpired, outside
<1>8. AtDomain => UNCHANGED member \/ \E j \in JobIds : CreatesAccount(j) /\ held[j] > 0
  BY AgentKeepsRows DEF AtDomain, Agent
<1>9. Asked \/ Arrived => UNCHANGED member
  BY DEF Asked, CreateAccountJob, Arrived, ReceiveResult, outside
<1> QED BY <1>4, <1>5, <1>6, <1>7, <1>8, <1>9, Moves DEF outside

LEMMA AccessInvInit == Init => AccessInv
BY FollowInvInit DEF Init, AccessInv, PayloadKnown, MembersKnown

LEMMA AccessInvNext == AccessInv /\ [Next]_vars => AccessInv'
BY FollowInvNext, PayloadKnownNext, MembersKnownNext DEF AccessInv

LEMMA AccessImplied == AccessInv => AccessWasApproved
<1> SUFFICES ASSUME AccessInv, NEW i \in Delivered, FollowUpOf(i) \in member
             PROVE  item[i].status = "approved"
  BY DEF AccessWasApproved
<1>1. Exists(FollowUpOf(i))
  BY DEF AccessInv, MembersKnown
<1> QED BY <1>1 DEF AccessInv, FollowInv, OneFollowUpIfApproved

\* Neither Graph nor the domain controller puts a hire into a group that needs an approval
\* before somebody gave it, however many provisioning requests and jobs overlap.
THEOREM NoAccessUnapproved == Spec => []AccessWasApproved
BY AccessInvInit, AccessInvNext, AccessImplied, PTL DEF Spec

-----------------------------------------------------------------------------
(***************************************************************************)
(* Reports.  A result the agent posted as a success stands for an account, *)
(* and accounts and licences are never taken away.                         *)
(***************************************************************************)
PostedAccounts == \A m \in posted : m.ok => job[m.id].ref \in account

ReportInv == HireTypes /\ PostedAccounts /\ ReportsAreTrue

Kept == account \subseteq account' /\ licensed \subseteq licensed'

LEMMA OutsideKept == [Next]_vars => Kept
<1> SUFFICES ASSUME [Next]_vars PROVE Kept
  OBVIOUS
<1>1. AtGraph => Kept
  BY DEF AtGraph, GroupAdded, GroupFailed, LicenceAssigned, LicenceError, LicenceExpired, outside, Kept
<1>2. AtDomain => Kept
  BY DEF AtDomain, Agent, CreatesAccount, Kept
<1>3. Asked \/ Arrived => Kept
  BY DEF Asked, Arrived, CreateAccountJob, ReceiveResult, outside, Kept
<1> QED BY <1>1, <1>2, <1>3, Moves DEF outside, Kept

LEMMA OnlyAgentPosts == [Next]_vars => AtDomain \/ UNCHANGED posted
<1> SUFFICES ASSUME [Next]_vars, ~AtDomain PROVE UNCHANGED posted
  OBVIOUS
<1>0. UNCHANGED jobVars => UNCHANGED posted
  BY DEF jobVars
<1>1. ASSUME NEW r \in Requests, Creation(r) \/ Discard(r) PROVE UNCHANGED posted
  BY <1>0, <1>1 DEF Creation, Create, CreateInterrupted, Discard
<1>2. ASSUME NEW i \in Items, Decision(i) PROVE UNCHANGED posted
  BY <1>0, <1>2 DEF Decision, CompleteItem, RejectItem, ShownInServiceTrade, Settle, ApproveItem,
              ApproveInterrupted, DecideInterrupted
<1>3. ASSUME NEW m \in Results, Arrival(m) PROVE UNCHANGED posted
  BY <1>3 DEF Arrival, ReceiveResult, ResultInterrupted, RecordResult
<1>4. ASSUME NEW h \in Handlers, NEW i \in Items, GroupAdded(h, i) \/ GroupFailed(h, i)
      PROVE  UNCHANGED posted
  BY <1>0, <1>4 DEF GroupAdded, GroupFailed
<1>5. ASSUME NEW h \in Handlers, NEW l \in LicenceIds, LicenceAssigned(h, l) PROVE UNCHANGED posted
  BY <1>0, <1>5 DEF LicenceAssigned
<1>6. ASSUME NEW h \in Handlers, LicenceStep(h) PROVE UNCHANGED posted
  BY <1>0, <1>6 DEF LicenceStep, LicencePass, LicenceError, LicenceWaits, LicenceExpired
<1>7. ASSUME NEW h \in Handlers, NEW r \in Requests, Provision(h, r) PROVE UNCHANGED posted
  BY <1>0, <1>7 DEF Provision
<1>8. ASSUME NEW r \in Requests, CreateAccountJob(r) PROVE UNCHANGED posted
  BY <1>8 DEF CreateAccountJob, Enqueue
<1>9. ASSUME NEW b \in 0 .. MaxPolls, Poll(b) PROVE UNCHANGED posted
  BY <1>9 DEF Poll, ClaimPending
<1>10. ASSUME Killed \/ UNCHANGED vars PROVE UNCHANGED posted
  BY <1>0, <1>10 DEF Killed, vars
<1>11. BoardStep => UNCHANGED posted
  BY <1>1, <1>2, <1>3, <1>4, <1>5 DEF BoardStep
<1>12. Elsewhere => UNCHANGED posted
  BY <1>4, <1>6, <1>7, <1>8, <1>9, <1>10 DEF Elsewhere, AtDomain
<1> QED BY <1>11, <1>12, HireSteps

LEMMA PostedAccountsNext == ReportInv /\ [Next]_vars => PostedAccounts'
<1> SUFFICES ASSUME ReportInv, [Next]_vars, NEW m \in posted', m.ok
             PROVE  job'[m.id].ref \in account'
  BY DEF PostedAccounts
<1>1. HireTypes /\ Kept
  BY OutsideKept DEF ReportInv
<1>2. ASSUME m \in posted PROVE job'[m.id].ref \in account'
  <2>1. job[m.id].ref \in account
    BY <1>2 DEF ReportInv, PostedAccounts
  <2>2. m.id \in JobIds
    BY <1>1, <1>2 DEF HireTypes, JobsInv, JobsTypeOK, Results
  <2>3. m.id <= lastJob
    BY <1>1, <1>2, <2>2, DcJobsAssumption DEF HireTypes, JobsInv, JobsTypeOK, Fresh, Unused, JobIds
  <2>4. job'[m.id].ref = job[m.id].ref
    BY <1>1, <2>2, <2>3, JobRefsKept
  <2> QED BY <1>1, <2>1, <2>4 DEF Kept
<1>3. ASSUME NEW j \in JobIds, Agent(j) PROVE job'[m.id].ref \in account'
  <2>1. CASE AgentSucceeds(j) /\ CreatesAccount(j)
    <3>1. m \in posted \/ m = [id |-> j, ok |-> TRUE]
      BY <2>1 DEF AgentSucceeds, Post
    <3>2. job[j].ref \in account' /\ job' = job
      BY <2>1 DEF AgentSucceeds, CreatesAccount
    <3> QED BY <1>2, <3>1, <3>2
  <2>2. CASE AgentFails(j)
    BY <1>2, <2>2 DEF AgentFails, Post
  <2>3. CASE AgentDies(j)
    BY <1>2, <2>3 DEF AgentDies
  <2> QED BY <1>3, <2>1, <2>2, <2>3 DEF Agent
<1> QED BY <1>2, <1>3, OnlyAgentPosts DEF AtDomain

LicencesTrue == \A l \in LicenceIds : licence[l].status = "assigned" => licence[l].ref \in licensed

LEMMA LicencesTrueNext == ReportInv /\ [Next]_vars => LicencesTrue'
<1> SUFFICES ASSUME ReportInv, [Next]_vars, NEW l \in LicenceIds, licence'[l].status = "assigned"
             PROVE  licence'[l].ref \in licensed'
  BY DEF LicencesTrue
<1>1. HireTypes /\ licensed \subseteq licensed'
  BY OutsideKept DEF ReportInv, Kept
<1>2. licence'[l] = licence[l] => licence'[l].ref \in licensed'
  BY <1>1 DEF ReportInv, ReportsAreTrue
<1>3. ASSUME NEW k \in LicenceIds, NEW s, SetLicence(k, s), s # "assigned" \/ licence[k].ref \in licensed'
      PROVE  licence'[l].ref \in licensed'
  BY <1>1, <1>2, <1>3 DEF SetLicence, HireTypes, QueueOK, LicenceRow
<1>4. ASSUME AtGraph PROVE licence'[l].ref \in licensed'
  <2>1. ASSUME NEW h \in Handlers, NEW k \in LicenceIds, LicenceAssigned(h, k)
        PROVE  licence'[l].ref \in licensed'
    BY <1>3, <2>1 DEF LicenceAssigned
  <2>2. ASSUME NEW h \in Handlers, NEW k \in LicenceIds, LicenceError(h, k) \/ LicenceExpired(h, k)
        PROVE  licence'[l].ref \in licensed'
    BY <1>3, <2>2 DEF LicenceError, LicenceExpired
  <2>3. ASSUME NEW h \in Handlers, NEW i \in Items, GroupAdded(h, i) \/ GroupFailed(h, i)
        PROVE  licence'[l].ref \in licensed'
    BY <1>2, <2>3 DEF GroupAdded, GroupFailed, licences
  <2> QED BY <1>4, <2>1, <2>2, <2>3 DEF AtGraph
<1>5. ASSUME NEW r, EnqueueLicence(r) PROVE licence'[l].ref \in licensed'
  <2>1. CASE UNCHANGED licences
    BY <1>2, <2>1 DEF licences
  <2>2. CASE licence' = [licence EXCEPT ![lastLicence + 1] = [status |-> "pending", ref |-> r]]
    BY <1>1, <1>2, <2>2 DEF HireTypes, QueueOK
  <2> QED BY <1>5, <2>1, <2>2 DEF EnqueueLicence
<1>6. Arrived => licence'[l].ref \in licensed'
  BY <1>2, <1>5 DEF Arrived, ReceiveResult, licences
<1>7. AtDomain \/ Asked => licence'[l].ref \in licensed'
  BY <1>2 DEF AtDomain, Asked, Agent, CreateAccountJob, licences
<1> QED BY <1>2, <1>4, <1>6, <1>7, Moves DEF licences

\* Who may have closed an item, after a step.
ByWhom(i) ==
  \/ item'[i].by \in {"nobody", "person", "system"}
  \/ item'[i].by = item[i].by
  \/ item'[i].by = "dc-agent" /\ \E m \in posted : m.ok /\ job[m.id].ref = i[1]
  \/ item'[i].by = "entra-license" /\ i[1] \in licensed'

LEMMA DecidedBy ==
  ASSUME HireTypes, NEW k \in Items, NEW s, NEW by \in {"person", "system"}, NEW i \in Items
  PROVE  \/ Decided(k, s, by)[i].by \in {"nobody", "person", "system"}
         \/ Decided(k, s, by)[i].by = item[i].by
BY DEF Decided, Row, HireTypes, TablesOK

LEMMA DecisionBy ==
  ASSUME HireTypes, NEW k \in Items, Decision(k), NEW i \in Items
  PROVE  ByWhom(i)
<1>1. ASSUME NEW s, NEW by \in {"person", "system"}, item' = Decided(k, s, by) PROVE ByWhom(i)
  BY <1>1, DecidedBy DEF ByWhom
<1>2. ASSUME item' = WithFollowUp(Decided(k, "approved", "person"), k) PROVE ByWhom(i)
  <2> DEFINE decided == Decided(k, "approved", "person")
  <2>1. decided \in [Items -> ItemRow]
    BY DecidedType DEF HireTypes, ItemStatus, Deciders
  <2>2. decided[i].by \in {"nobody", "person", "system"} \/ decided[i].by = item[i].by
    BY DecidedBy
  <2> HIDE DEF decided
  <2>3. item'[i] = decided[i] \/ item'[i] = Row("pending", "nobody")
    BY <1>2, <2>1 DEF WithFollowUp, decided
  <2> QED BY <2>2, <2>3 DEF ByWhom, Row
<1> QED BY <1>1, <1>2
        DEF Decision, CompleteItem, RejectItem, ShownInServiceTrade, Settle, ApproveItem,
            ApproveInterrupted, DecideInterrupted

LEMMA ItemsBy == ASSUME HireTypes, [Next]_vars, NEW i \in Items PROVE ByWhom(i)
<1>1. ASSUME NEW r \in Requests, Creation(r) \/ Discard(r) PROVE ByWhom(i)
  BY <1>1 DEF Creation, Create, CreateInterrupted, Discard, Insert, Row, ByWhom
<1>2. ASSUME NEW k \in Items, Decision(k) PROVE ByWhom(i)
  BY <1>2, DecisionBy
<1>3. ASSUME NEW m \in Results, Arrival(m) PROVE ByWhom(i)
  <2>1. item' = item \/ (m \in posted /\ m.ok /\ item' = AfterAccount(job[m.id].ref))
    BY <1>3 DEF Arrival, ReceiveResult, ResultInterrupted, TakesEffect, RecordResult
  <2> QED BY <2>1 DEF AfterAccount, Row, ByWhom
<1>4. ASSUME NEW h \in Handlers, NEW k \in Items, GroupAdded(h, k) PROVE ByWhom(i)
  BY <1>4 DEF GroupAdded, Row, ByWhom, HireTypes, TablesOK
<1>5. ASSUME NEW h \in Handlers, NEW l \in LicenceIds, LicenceAssigned(h, l) PROVE ByWhom(i)
  <2> DEFINE k == <<licence[l].ref, Mail>>
  <2>1. licence[l].ref \in licensed' /\ item' \in {item, [item EXCEPT ![k] = Row("done", "entra-license")]}
    BY <1>5 DEF LicenceAssigned
  <2>2. CASE i = k
    BY <2>1, <2>2 DEF Row, ByWhom, HireTypes, TablesOK
  <2>3. CASE i # k
    BY <2>1, <2>3 DEF ByWhom, HireTypes, TablesOK
  <2> QED BY <2>2, <2>3
<1>6. UNCHANGED board => ByWhom(i)
  BY DEF board, ByWhom
<1> QED BY <1>1, <1>2, <1>3, <1>4, <1>5, <1>6, HireSteps, ElsewhereSparesBoard DEF BoardStep

LEMMA ReportInvInit == Init => ReportInv
BY HireTypesInit DEF Init, JobsInit, ReportInv, PostedAccounts, ReportsAreTrue, Row

LEMMA ReportInvNext == ReportInv /\ [Next]_vars => ReportInv'
<1> SUFFICES ASSUME ReportInv, [Next]_vars PROVE ReportInv'
  OBVIOUS
<1>1. HireTypes
  BY DEF ReportInv
<1>2. ASSUME NEW i \in Items
      PROVE  /\ item'[i].by = "entra-license" => i[1] \in licensed'
             /\ item'[i].by = "dc-agent" => i[1] \in account'
  <2>1. ByWhom(i)
    BY <1>1, ItemsBy
  <2>2. /\ item[i].by = "entra-license" => i[1] \in licensed
        /\ item[i].by = "dc-agent" => i[1] \in account
        /\ \A m \in posted : m.ok /\ job[m.id].ref = i[1] => i[1] \in account
    BY DEF ReportInv, ReportsAreTrue, PostedAccounts
  <2> QED BY <2>1, <2>2, OutsideKept DEF ByWhom, Kept
<1>3. ReportsAreTrue'
  BY <1>2, LicencesTrueNext DEF ReportsAreTrue, LicencesTrue
<1> QED BY <1>1, <1>3, HireTypesNext, PostedAccountsNext DEF ReportInv

\* What the licence queue and the board say was done, was done: a row that says assigned is a
\* licence, and an item closed by the agent is an account, whatever passes and results overlap.
THEOREM WhatIsReportedIsSo == Spec => []ReportsAreTrue
<1>1. ReportInv => ReportsAreTrue
  BY DEF ReportInv
<1> QED BY <1>1, ReportInvInit, ReportInvNext, PTL DEF Spec

-----------------------------------------------------------------------------
(***************************************************************************)
(* The derived status.  Handlers that close items without deriving the     *)
(* request's status leave fewer items pending, and reject none: a status   *)
(* that claimed more than "open" still holds.                              *)
(***************************************************************************)
SettledInv == HireTypes /\ CompleteMeansSettled

Settled(r) ==
  /\ request[r] \in {"complete", "needs_attention"} =>
       \A c \in Slots : item[<<r, c>>].status # "pending"
  /\ request[r] = "complete" => \A c \in Slots : item[<<r, c>>].status # "rejected"

LEMMA SettledMeans == CompleteMeansSettled <=> (kills = 0 => \A r \in Requests : Settled(r))
BY DEF CompleteMeansSettled, Settled, PendingOf

\* Items of r are closed, none is rejected, and its status stays.
Closes(r) ==
  /\ request'[r] = request[r]
  /\ \A c \in Slots : \/ item'[<<r, c>>].status = item[<<r, c>>].status
                      \/ item'[<<r, c>>].status = "done"

LEMMA ClosesSettled == ASSUME NEW r \in Requests, Settled(r), Closes(r) PROVE Settled(r)'
BY DEF Settled, Closes

LEMMA RecomputedSettled ==
  ASSUME TablesOK, NEW r \in Requests, request' = Recomputed(item', r)
  PROVE  Settled(r)' /\ \A q \in Requests : q # r => request'[q] = request[q]
<1>1. request'[r] = IF request[r] = "discarded" THEN "discarded" ELSE Derived(item', r)
  BY DEF Recomputed, TablesOK
<1>2. \A q \in Requests : q # r => request'[q] = request[q]
  BY DEF Recomputed, TablesOK
<1>3. Settled(r)'
  BY <1>1 DEF Settled, Derived, PendingOf
<1> QED BY <1>2, <1>3

LEMMA DecidedElsewhere ==
  ASSUME HireTypes, NEW i \in Items, NEW s, NEW by, NEW q \in Requests, q # i[1], NEW c \in Slots
  PROVE  Decided(i, s, by)[<<q, c>>] = item[<<q, c>>]
BY DEF Decided, HireTypes, TablesOK

LEMMA SettledNext == SettledInv /\ [Next]_vars => CompleteMeansSettled'
<1> SUFFICES ASSUME SettledInv, [Next]_vars, kills' = 0, NEW q \in Requests PROVE Settled(q)'
  BY DEF CompleteMeansSettled, Settled, PendingOf
<1>1. HireTypes /\ TablesOK /\ kills \in Nat
  BY OnboardingAssumption DEF SettledInv, HireTypes, QueueOK
<1>2. ~Kill
  BY <1>1 DEF Kill
<1>3. kills = 0 => Settled(q)
  BY SettledMeans DEF SettledInv
<1>4. ASSUME UNCHANGED kills, Closes(q) PROVE Settled(q)'
  BY <1>3, <1>4, ClosesSettled
<1>5. ASSUME UNCHANGED board, UNCHANGED kills PROVE Settled(q)'
  BY <1>4, <1>5 DEF board, Closes
<1>6. ASSUME NEW r \in Requests, Creation(r) \/ Discard(r) PROVE Settled(q)'
  <2>1. CASE Discard(r)
    <3>1. CASE q = r
      BY <1>1, <2>1, <3>1 DEF Discard, TablesOK, Settled
    <3>2. CASE q # r
      BY <1>1, <1>4, <2>1, <3>2 DEF Discard, TablesOK, Closes
    <3> QED BY <3>1, <3>2
  <2>2. CASE Creation(r)
    <3>1. PICK form \in Forms : Create(r, form)
      BY <1>2, <2>2 DEF Creation, CreateInterrupted
    <3>2. CASE q = r
      BY <1>1, <3>1, <3>2 DEF Create, TablesOK, Settled
    <3>3. CASE q # r
      BY <1>1, <1>4, <3>1, <3>3 DEF Create, Insert, TablesOK, Closes, Items
    <3> QED BY <3>2, <3>3
  <2> QED BY <1>6, <2>1, <2>2
<1>7. ASSUME NEW i \in Items, UNCHANGED kills, request' = Recomputed(item', i[1]),
             \A c \in Slots : q # i[1] => item'[<<q, c>>] = item[<<q, c>>]
      PROVE  Settled(q)'
  <2>1. CASE q = i[1]
    BY <1>1, <1>7, <2>1, RecomputedSettled
  <2>2. CASE q # i[1]
    <3>1. request'[q] = request[q]
      BY <1>1, <1>7, <2>2, RecomputedSettled DEF Items
    <3> QED BY <1>4, <1>7, <2>2, <3>1 DEF Closes
  <2> QED BY <2>1, <2>2
<1>8. ASSUME NEW i \in Items, Decision(i) PROVE Settled(q)'
  <2> DEFINE decided == Decided(i, "approved", "person")
  <2>1. ASSUME NEW s, NEW by, Settle(i, s, by) PROVE Settled(q)'
    BY <1>1, <1>7, <2>1, DecidedElsewhere DEF Settle
  <2>2. CASE ApproveItem(i)
    <3>1. UNCHANGED kills /\ request' = Recomputed(item', i[1])
      BY <2>2 DEF ApproveItem
    <3>2. item' = decided \/ item' = WithFollowUp(decided, i)
      BY <2>2 DEF ApproveItem
    <3>3. decided \in [Items -> ItemRow]
      BY <1>1, DecidedType DEF ItemStatus, Deciders
    <3>4. ASSUME NEW c \in Slots, q # i[1] PROVE item'[<<q, c>>] = item[<<q, c>>]
      <4>1. decided[<<q, c>>] = item[<<q, c>>]
        BY <1>1, <3>4, DecidedElsewhere
      <4> HIDE DEF decided
      <4>2. WithFollowUp(decided, i)[<<q, c>>] = decided[<<q, c>>]
        BY <3>3, <3>4 DEF WithFollowUp, Items
      <4> QED BY <3>2, <4>1, <4>2
    <3> QED BY <1>7, <3>1, <3>4
  <2>3. ~ApproveInterrupted(i) /\ \A s \in ItemStatus : ~DecideInterrupted(i, s)
    BY <1>2 DEF ApproveInterrupted, DecideInterrupted
  <2> QED BY <1>8, <2>1, <2>2, <2>3 DEF Decision, CompleteItem, RejectItem, ShownInServiceTrade
<1>9. ASSUME NEW m \in Results, Arrival(m) PROVE Settled(q)'
  <2> DEFINE r == job[m.id].ref
  <2>1. ReceiveResult(m)
    BY <1>2, <1>9 DEF Arrival, ResultInterrupted
  <2>2. m \in posted /\ UNCHANGED <<followUps, kills>>
    BY <2>1 DEF ReceiveResult, RecordResult
  <2>3. r \in Requests
    BY <1>1, <2>2, KnownRef DEF Results
  <2>4. CASE UNCHANGED <<item, request>>
    BY <1>5, <2>2, <2>4 DEF board
  <2>5. CASE item' = AfterAccount(r) /\ request' = Recomputed(item', r)
    <3>1. CASE q = r
      BY <1>1, <2>3, <2>5, <3>1, RecomputedSettled
    <3>2. CASE q # r
      <4>1. request'[q] = request[q]
        BY <1>1, <2>3, <2>5, <3>2, RecomputedSettled
      <4>2. \A c \in Slots : item'[<<q, c>>] = item[<<q, c>>]
        BY <2>5, <3>2 DEF AfterAccount, Items
      <4> QED BY <1>4, <2>2, <4>1, <4>2 DEF Closes
    <3> QED BY <3>1, <3>2
  <2> QED BY <2>1, <2>4, <2>5 DEF ReceiveResult
<1>10. ASSUME NEW h \in Handlers, NEW i \in Items, GroupAdded(h, i) PROVE Settled(q)'
  BY <1>1, <1>4, <1>10 DEF GroupAdded, Row, Closes, TablesOK, Items
<1>11. ASSUME NEW h \in Handlers, NEW l \in LicenceIds, LicenceAssigned(h, l) PROVE Settled(q)'
  <2> DEFINE k == <<licence[l].ref, Mail>>
  <2>1. item' \in {item, [item EXCEPT ![k] = Row("done", "entra-license")]} /\ UNCHANGED <<request, kills>>
    BY <1>11 DEF LicenceAssigned
  <2>2. ASSUME NEW c \in Slots
        PROVE  \/ item'[<<q, c>>].status = item[<<q, c>>].status
               \/ item'[<<q, c>>].status = "done"
    BY <1>1, <2>1 DEF Row, TablesOK, Items
  <2> QED BY <1>4, <2>1, <2>2 DEF Closes
<1>12. BoardStep => Settled(q)'
  BY <1>6, <1>8, <1>9, <1>10, <1>11 DEF BoardStep
<1>13. ASSUME Elsewhere PROVE Settled(q)'
  <2>1. UNCHANGED board
    BY <1>13, ElsewhereSparesBoard
  <2>2. kills = 0
    BY <1>1, <1>13, ElsewhereKills DEF Elsewhere
  <2> QED BY <1>5, <2>1, <2>2
<1> QED BY <1>12, <1>13, HireSteps

LEMMA SettledInvNext == SettledInv /\ [Next]_vars => SettledInv'
BY SettledNext, HireTypesNext DEF SettledInv

LEMMA SettledInvInit == Init => SettledInv
BY HireTypesInit DEF Init, SettledInv, CompleteMeansSettled, Row

\* Unless a kill cut a handler short, a request that says complete, or needs attention, has
\* nothing left to do, although not every handler that closes items derives the status.
THEOREM StatusNeverAhead == Spec => []CompleteMeansSettled
<1>1. SettledInv => CompleteMeansSettled
  BY DEF SettledInv
<1> QED BY <1>1, SettledInvInit, SettledInvNext, PTL DEF Spec

LEMMA RecomputedDiscarded ==
  ASSUME TablesOK, NEW items, NEW r, request' = Recomputed(items, r),
         NEW q \in Requests, request[q] = "discarded"
  PROVE  request'[q] = "discarded"
BY DEF TablesOK, Recomputed

\* A discarded hire stays off the board, whatever still arrives for it.
THEOREM DiscardedForGood == Spec => DiscardedStays
<1>1. ASSUME HireTypes, [Next]_vars, NEW q \in Requests, request[q] = "discarded"
      PROVE  request'[q] = "discarded"
  <2>0. TablesOK
    BY <1>1 DEF HireTypes
  <2>1. ASSUME NEW r \in Requests, Creation(r) \/ Discard(r) PROVE request'[q] = "discarded"
    BY <1>1, <2>0, <2>1 DEF Creation, Create, CreateInterrupted, Discard, TablesOK
  <2>2. ASSUME NEW i \in Items, Decision(i) PROVE request'[q] = "discarded"
    BY <1>1, <2>0, <2>2, RecomputedDiscarded
       DEF Decision, CompleteItem, RejectItem, ShownInServiceTrade, Settle, ApproveItem,
           ApproveInterrupted, DecideInterrupted
  <2>3. ASSUME NEW m \in Results, Arrival(m) PROVE request'[q] = "discarded"
    <3>1. UNCHANGED request \/ \E items, r : request' = Recomputed(items, r)
      BY <2>3 DEF Arrival, ReceiveResult, ResultInterrupted
    <3> QED BY <1>1, <2>0, <3>1, RecomputedDiscarded
  <2>4. ASSUME NEW h \in Handlers, NEW i \in Items, GroupAdded(h, i) PROVE UNCHANGED request
    BY <2>4 DEF GroupAdded
  <2>5. ASSUME NEW h \in Handlers, NEW l \in LicenceIds, LicenceAssigned(h, l) PROVE UNCHANGED request
    BY <2>5 DEF LicenceAssigned
  <2>6. Elsewhere => UNCHANGED request
    BY ElsewhereSparesBoard DEF board
  <2> QED BY <1>1, <2>1, <2>2, <2>3, <2>4, <2>5, <2>6, HireSteps DEF BoardStep
<1>2. HireTypes /\ [Next]_vars =>
        [\A r \in Requests : request[r] = "discarded" => request'[r] = "discarded"]_vars
  BY <1>1
<1> QED BY <1>2, HireTypesInit, HireTypesNext, PTL DEF Spec, DiscardedStays
=============================================================================
