------------------------- MODULE OffboardingProofs -------------------------
(***************************************************************************)
(* Theorems about the offboarding board, for any checklist, any number of  *)
(* departing people, awaiting handlers, jobs, polls and kills.             *)
(***************************************************************************)
EXTENDS Offboarding, DcJobsProofs

-----------------------------------------------------------------------------
(***************************************************************************)
(* The board uses the job queue as the queue means to be used: seen        *)
(* through jobVars, every step of the board is a step of the queue.        *)
(***************************************************************************)
QueueStep ==
  \/ \E b \in 0 .. MaxPolls : ClaimPending(b)
  \/ AgentStep
  \/ \E m \in Results : RecordResult(m)

LEMMA BoardSteps ==
  [Next]_vars => (\E i \in Items : RunOnDc(i)) \/ QueueStep \/ UNCHANGED jobVars
<1> SUFFICES ASSUME [Next]_vars
             PROVE  (\E i \in Items : RunOnDc(i)) \/ QueueStep \/ UNCHANGED jobVars
  OBVIOUS
<1> USE DEF jobVars
<1>1. ASSUME NEW r \in Requests, NEW a \in AppAnswers, Create(r, a) PROVE UNCHANGED jobVars
  BY <1>1 DEF Create
<1>2. ASSUME NEW r \in Requests, NEW n \in 0 .. Len(Order), CreateInterrupted(r, n)
      PROVE  UNCHANGED jobVars
  BY <1>2 DEF CreateInterrupted
<1>3. ASSUME NEW r \in Requests, Cancel(r) PROVE UNCHANGED jobVars
  BY <1>3 DEF Cancel
<1>4. ASSUME NEW i \in Items, NEW v \in ItemStatus, Decide(i, v) \/ DecideInterrupted(i, v)
      PROVE  UNCHANGED jobVars
  BY <1>4 DEF Decide, DecideInterrupted
<1>5. ASSUME NEW i \in Items, NEW s \in {"na", "done"}, AppListLoaded(i, s)
      PROVE  UNCHANGED jobVars
  BY <1>5 DEF AppListLoaded
<1>6. ASSUME DcNext PROVE (\E i \in Items : RunOnDc(i)) \/ QueueStep \/ UNCHANGED jobVars
  <2>1. ASSUME NEW i \in Items, ScriptReports(i) PROVE UNCHANGED jobVars
    BY <2>1 DEF ScriptReports
  <2>2. ASSUME NEW b \in 0 .. MaxPolls, Poll(b) PROVE QueueStep
    BY <2>2 DEF Poll, QueueStep
  <2>3. ASSUME NEW m \in Results, ReceiveResult(m) \/ ResultInterrupted(m) PROVE QueueStep
    BY <2>3 DEF ReceiveResult, ResultInterrupted, QueueStep
  <2>4. ASSUME Agent PROVE QueueStep
    BY <2>4 DEF Agent, QueueStep
  <2> QED BY <1>6, <2>1, <2>2, <2>3, <2>4 DEF DcNext
<1>7. ASSUME CallNext PROVE UNCHANGED jobVars
  BY <1>7 DEF CallNext, SendEmail, RunInCloud, HandoverRun, Begin, EmailSent, CloudDone, CallFailed,
              HandedOver, HandoverFailed
<1>8. ASSUME Killed PROVE UNCHANGED jobVars
  BY <1>8 DEF Killed
<1>9. ASSUME NEW new \in SUBSET Codes, NEW a \in AppAnswers, Boot(new, a) PROVE UNCHANGED jobVars
  BY <1>9 DEF Boot
<1>10. ASSUME NEW new \in SUBSET Codes, NEW i \in Items, BootInterrupted(new, i)
       PROVE  UNCHANGED jobVars
  BY <1>10 DEF BootInterrupted
<1>11. CASE UNCHANGED vars
  BY <1>11 DEF vars
<1> QED BY <1>1, <1>2, <1>3, <1>4, <1>5, <1>6, <1>7, <1>8, <1>9, <1>10, <1>11 DEF Next

LEMMA BoardStepIsJobsStep == [Next]_vars => [JobsNext]_jobVars
<1>1. ASSUME NEW i \in Items, RunOnDc(i) PROVE JobsNext
  BY <1>1, OffboardingAssumption DEF RunOnDc, JobsNext
<1>2. QueueStep => JobsNext
  BY DEF QueueStep, JobsNext
<1> QED BY <1>1, <1>2, BoardSteps

\* The offboarding board implements the job queue.
THEOREM BoardImplementsJobs == Spec => JobsSpec
<1>1. Init => JobsInit
  BY DEF Init
<1> QED BY <1>1, BoardStepIsJobsStep, PTL DEF Spec, JobsSpec

\* On the board, too, a job takes effect at most once more than its claims ran out.
THEOREM BoardOnceUnlessReclaimed == Spec => []OnceUnlessStale
BY BoardImplementsJobs, OnceUnlessReclaimed, PTL

\* On the board, too, a row that says done stands for a change that happened.
THEOREM BoardDoneIsTrue == Spec => []DoneWasApplied
BY BoardImplementsJobs, DoneIsTrue, PTL

-----------------------------------------------------------------------------
(***************************************************************************)
(* Types.                                                                  *)
(***************************************************************************)
BoardTypeOK ==
  /\ request \in [Requests -> RequestStatus]
  /\ directory \in [Requests -> BOOLEAN]
  /\ item \in [Items -> ItemRow]
  /\ planned \subseteq Codes
  /\ call \in [Handlers -> Calls]
  /\ up \in BOOLEAN
  /\ kills \in 0 .. MaxKills
  /\ verdict \in [Items -> ItemStatus]

LEMMA RowTypes ==
  /\ Missing \in ItemRow /\ Pending \in ItemRow /\ NaBySystem \in ItemRow
  /\ Idle \in Calls
BY DEF Missing, Pending, NaBySystem, Idle, ItemRow, ItemStatus, Deciders, Calls, Phases

LEMMA RecomputedType ==
  ASSUME BoardTypeOK, NEW items, NEW R
  PROVE  Recomputed(items, R) \in [Requests -> RequestStatus]
BY DEF BoardTypeOK, Recomputed, Derived, RequestStatus

LEMMA CloseType ==
  ASSUME BoardTypeOK, NEW i, NEW s \in ItemStatus, NEW by \in Deciders,
         Close(i, s, by) \/ CloseIfPending(i, s, by)
  PROVE  /\ item' \in [Items -> ItemRow]
         /\ request' \in [Requests -> RequestStatus]
<1>1. CASE Close(i, s, by)
  <2>1. [status |-> s, by |-> by] \in ItemRow
    BY DEF ItemRow
  <2>2. item' \in [Items -> ItemRow]
    BY <1>1, <2>1 DEF Close, BoardTypeOK
  <2> QED BY <1>1, <2>2, RecomputedType DEF Close
<1>2. CASE UNCHANGED <<item, request>>
  BY <1>2 DEF BoardTypeOK
<1> QED BY <1>1, <1>2 DEF CloseIfPending

LEMMA BoardTypeInit == Init => BoardTypeOK
BY RowTypes, OffboardingAssumption DEF Init, BoardTypeOK, RequestStatus, ItemStatus

LEMMA BoardKillType ==
  ASSUME BoardTypeOK, Kill
  PROVE  /\ call' \in [Handlers -> Calls]
         /\ up' \in BOOLEAN
         /\ kills' \in 0 .. MaxKills
<1>1. call' \in [Handlers -> Calls]
  BY RowTypes DEF Kill
<1>2. kills' \in 0 .. MaxKills
  BY OffboardingAssumption DEF BoardTypeOK, Kill
<1> QED BY <1>1, <1>2 DEF Kill

LEMMA ByAppListType ==
  ASSUME NEW row \in ItemRow, NEW i, NEW a \in AppAnswers
  PROVE  ByAppList(row, i, a) \in ItemRow
<1>1. CASE row.status = "pending" /\ i[2] \in AppGated /\ a[i[2]] # "keep"
  <2>1. a[i[2]] \in {"na", "done"}
    BY <1>1 DEF AppAnswers
  <2> QED BY <1>1, <2>1 DEF ByAppList, ItemRow, ItemStatus, Deciders
<1> QED BY <1>1 DEF ByAppList

LEMMA BackfilledType ==
  ASSUME BoardTypeOK, NEW i \in Items, NEW new
  PROVE  Backfilled(i, new) \in ItemRow
BY RowTypes DEF BoardTypeOK, Backfilled

LEMMA CreateType ==
  ASSUME BoardTypeOK, NEW r \in Requests, NEW a \in AppAnswers, Create(r, a)
  PROVE  BoardTypeOK'
<1>1. ASSUME NEW i \in Items
      PROVE  (IF i[1] # r \/ i[2] \notin planned THEN item[i]
              ELSE IF NotApplicable(i) THEN NaBySystem ELSE ByAppList(Pending, i, a)) \in ItemRow
  BY RowTypes, ByAppListType DEF BoardTypeOK
<1>2. item' \in [Items -> ItemRow]
  BY <1>1 DEF Create
<1>3. request' \in [Requests -> RequestStatus]
  BY DEF Create, BoardTypeOK, Derived, RequestStatus
<1> QED BY <1>2, <1>3 DEF Create, BoardTypeOK

LEMMA BootType ==
  ASSUME BoardTypeOK, NEW new \in SUBSET Codes, NEW a \in AppAnswers, Boot(new, a)
  PROVE  BoardTypeOK'
<1>1. ASSUME NEW i \in Items
      PROVE  (IF i[1] \in Live THEN ByAppList(Backfilled(i, new), i, a) ELSE item[i]) \in ItemRow
  BY BackfilledType, ByAppListType DEF BoardTypeOK
<1>2. item' \in [Items -> ItemRow]
  BY <1>1 DEF Boot
<1>3. request' \in [Requests -> RequestStatus]
  BY RecomputedType DEF Boot
<1> QED BY <1>2, <1>3 DEF Boot, BoardTypeOK

LEMMA BeginType ==
  ASSUME BoardTypeOK, NEW h, NEW c \in Calls, Begin(h, c)
  PROVE  BoardTypeOK'
BY DEF BoardTypeOK, Begin, boardVars

LEMMA NextRowType ==
  ASSUME BoardTypeOK, NEW h \in Handlers, NEW r, NextRow(h, r)
  PROVE  call' \in [Handlers -> Calls]
<1> DEFINE c == IF call[h].rest = {r} THEN Idle ELSE [call[h] EXCEPT !.rest = @ \ {r}]
<1>1. c \in Calls
  <2>1. [call[h] EXCEPT !.rest = @ \ {r}] \in Calls
    BY DEF BoardTypeOK, Calls
  <2> QED BY <2>1, RowTypes
<1>2. call' = [call EXCEPT ![h] = c]
  BY DEF NextRow
<1> HIDE DEF c
<1> QED BY <1>1, <1>2 DEF BoardTypeOK

LEMMA CallNextType == BoardTypeOK /\ CallNext => BoardTypeOK'
<1> SUFFICES ASSUME BoardTypeOK, NEW h \in Handlers,
                    \/ \E i \in Items : SendEmail(h, i) \/ RunInCloud(h, i)
                    \/ HandoverRun(h)
                    \/ EmailSent(h) \/ CloudDone(h) \/ CallFailed(h)
                    \/ \E r \in Requests : HandedOver(h, r) \/ HandoverFailed(h, r)
             PROVE  BoardTypeOK'
  BY DEF CallNext
<1>1. ASSUME NEW i \in Items, SendEmail(h, i) PROVE BoardTypeOK'
  <2>1. [phase |-> "mailing", at |-> i, pending |-> item[i].status = "pending", rest |-> {}] \in Calls
    BY DEF Calls, Phases
  <2> QED BY <1>1, <2>1, BeginType DEF SendEmail
<1>2. ASSUME NEW i \in Items, RunInCloud(h, i) PROVE BoardTypeOK'
  <2>1. [phase |-> "cloud", at |-> i, pending |-> FALSE, rest |-> {}] \in Calls
    BY DEF Calls, Phases
  <2> QED BY <1>2, <2>1, BeginType DEF RunInCloud
<1>3. ASSUME HandoverRun(h) PROVE BoardTypeOK'
  <2>1. PICK R \in SUBSET Requests :
               Begin(h, [phase |-> "handover", at |-> NoOne, pending |-> FALSE, rest |-> R])
    <3>1. {i[1] : i \in {i \in Requests \X ({Handover} \cap Codes) :
                            request[i[1]] = "open" /\ item[i].status = "pending"}} \subseteq Requests
      OBVIOUS
    <3> QED BY <1>3, <3>1 DEF HandoverRun
  <2>2. [phase |-> "handover", at |-> NoOne, pending |-> FALSE, rest |-> R] \in Calls
    BY DEF Calls, Phases
  <2> QED BY <2>1, <2>2, BeginType
<1>4. ASSUME EmailSent(h) PROVE BoardTypeOK'
  <2>1. /\ item' \in [Items -> ItemRow]
        /\ request' \in [Requests -> RequestStatus]
    <3>1. CASE Close(call[h].at, "done", "person")
      BY <3>1, CloseType DEF ItemStatus, Deciders
    <3>2. CASE UNCHANGED <<item, request>>
      BY <3>2 DEF BoardTypeOK
    <3> QED BY <1>4, <3>1, <3>2 DEF EmailSent
  <2> QED BY <1>4, <2>1, RowTypes DEF EmailSent, BoardTypeOK
<1>5. ASSUME CloudDone(h) PROVE BoardTypeOK'
  <2>1. /\ item' \in [Items -> ItemRow]
        /\ request' \in [Requests -> RequestStatus]
    BY <1>5, CloseType DEF CloudDone, ItemStatus, Deciders
  <2> QED BY <1>5, <2>1, RowTypes DEF CloudDone, BoardTypeOK
<1>6. ASSUME CallFailed(h) PROVE BoardTypeOK'
  BY <1>6, RowTypes DEF CallFailed, BoardTypeOK, boardVars
<1>7. ASSUME NEW r \in Requests, HandedOver(h, r) PROVE BoardTypeOK'
  <2> DEFINE i == <<r, Handover>>
             row == [status |-> IF item[i].status = "pending" THEN "done" ELSE item[i].status,
                     by |-> "automation"]
  <2>1. i \in Items => row \in ItemRow
    BY DEF BoardTypeOK, ItemRow, ItemStatus, Deciders
  <2>2. item' \in [Items -> ItemRow]
    <3>1. item' = [item EXCEPT ![i] = row]
      BY <1>7 DEF HandedOver, BoardTypeOK
    <3> HIDE DEF row
    <3> QED BY <2>1, <3>1 DEF BoardTypeOK
  <2>3. request' \in [Requests -> RequestStatus]
    <3>1. CASE request' = Recomputed(item', {r})
      BY <3>1, RecomputedType
    <3>2. CASE request' = request
      BY <3>2 DEF BoardTypeOK
    <3> QED BY <1>7, <3>1, <3>2 DEF HandedOver
  <2>4. call' \in [Handlers -> Calls]
    BY <1>7, NextRowType DEF HandedOver
  <2> QED BY <1>7, <2>2, <2>3, <2>4 DEF HandedOver, BoardTypeOK
<1>8. ASSUME NEW r \in Requests, HandoverFailed(h, r) PROVE BoardTypeOK'
  <2>1. call' \in [Handlers -> Calls]
    BY <1>8, NextRowType DEF HandoverFailed
  <2> QED BY <1>8, <2>1 DEF HandoverFailed, BoardTypeOK, boardVars
<1> QED BY <1>1, <1>2, <1>3, <1>4, <1>5, <1>6, <1>7, <1>8

LEMMA DcNextType == BoardTypeOK /\ DcNext => BoardTypeOK'
<1> SUFFICES ASSUME BoardTypeOK, DcNext PROVE BoardTypeOK'
  OBVIOUS
<1>1. ASSUME NEW i \in Items, RunOnDc(i) PROVE BoardTypeOK'
  BY <1>1 DEF RunOnDc, BoardTypeOK, boardVars
<1>2. ASSUME NEW i \in Items, ScriptReports(i) PROVE BoardTypeOK'
  <2>1. item' \in [Items -> ItemRow] /\ request' \in [Requests -> RequestStatus]
    BY <1>2, CloseType DEF ScriptReports, ItemStatus, Deciders
  <2> QED BY <1>2, <2>1 DEF ScriptReports, BoardTypeOK
<1>3. ASSUME NEW b \in 0 .. MaxPolls, Poll(b) PROVE BoardTypeOK'
  BY <1>3 DEF Poll, BoardTypeOK, boardVars
<1>4. ASSUME NEW m \in Results, ReceiveResult(m) PROVE BoardTypeOK'
  <2>1. item' \in [Items -> ItemRow] /\ request' \in [Requests -> RequestStatus]
    <3>1. CASE CloseIfPending(job[m.id].ref, "done", "agent")
      BY <3>1, CloseType DEF ItemStatus, Deciders
    <3>2. CASE UNCHANGED <<item, request>>
      BY <3>2 DEF BoardTypeOK
    <3> QED BY <1>4, <3>1, <3>2 DEF ReceiveResult
  <2> QED BY <1>4, <2>1 DEF ReceiveResult, BoardTypeOK
<1>5. ASSUME NEW m \in Results, ResultInterrupted(m) PROVE BoardTypeOK'
  <2>1. [status |-> "done", by |-> "agent"] \in ItemRow
    BY DEF ItemRow, ItemStatus, Deciders
  <2>2. item' \in [Items -> ItemRow]
    BY <1>5, <2>1 DEF ResultInterrupted, BoardTypeOK
  <2> QED BY <1>5, <2>2, BoardKillType DEF ResultInterrupted, BoardTypeOK
<1>6. ASSUME Agent PROVE BoardTypeOK'
  BY <1>6 DEF Agent, BoardTypeOK, boardVars
<1> QED BY <1>1, <1>2, <1>3, <1>4, <1>5, <1>6 DEF DcNext

LEMMA BoardTypeNext == BoardTypeOK /\ [Next]_vars => BoardTypeOK'
<1> SUFFICES ASSUME BoardTypeOK, [Next]_vars PROVE BoardTypeOK'
  OBVIOUS
<1>1. ASSUME NEW r \in Requests, NEW n \in 0 .. Len(Order), CreateInterrupted(r, n)
      PROVE  BoardTypeOK'
  <2>1. item' \in [Items -> ItemRow]
    BY <1>1, RowTypes DEF CreateInterrupted, BoardTypeOK
  <2>2. request' \in [Requests -> RequestStatus]
    BY <1>1 DEF CreateInterrupted, BoardTypeOK, RequestStatus
  <2> QED BY <1>1, <2>1, <2>2, BoardKillType DEF CreateInterrupted, BoardTypeOK
<1>2. ASSUME NEW r \in Requests, Cancel(r) PROVE BoardTypeOK'
  BY <1>2 DEF Cancel, BoardTypeOK, RequestStatus
<1>3. ASSUME NEW i \in Items, NEW v \in ItemStatus, Decide(i, v) PROVE BoardTypeOK'
  <2>1. item' \in [Items -> ItemRow] /\ request' \in [Requests -> RequestStatus]
    BY <1>3, CloseType DEF Decide, Deciders
  <2> QED BY <1>3, <2>1 DEF Decide, BoardTypeOK
<1>4. ASSUME NEW i \in Items, NEW v \in ItemStatus, DecideInterrupted(i, v) PROVE BoardTypeOK'
  <2>1. [status |-> v, by |-> "person"] \in ItemRow
    BY DEF ItemRow, Deciders
  <2> QED BY <1>4, <2>1, BoardKillType DEF DecideInterrupted, BoardTypeOK
<1>5. ASSUME NEW i \in Items, NEW s \in {"na", "done"}, AppListLoaded(i, s) PROVE BoardTypeOK'
  <2>1. item' \in [Items -> ItemRow] /\ request' \in [Requests -> RequestStatus]
    BY <1>5, CloseType DEF AppListLoaded, ItemStatus, Deciders
  <2> QED BY <1>5, <2>1 DEF AppListLoaded, BoardTypeOK
<1>6. ASSUME Killed PROVE BoardTypeOK'
  BY <1>6, BoardKillType DEF Killed, BoardTypeOK, boardVars
<1>7. ASSUME NEW new \in SUBSET Codes, NEW i \in Items, BootInterrupted(new, i) PROVE BoardTypeOK'
  BY <1>7, RowTypes, OffboardingAssumption DEF BootInterrupted, BoardTypeOK
<1>8. CASE UNCHANGED vars
  BY <1>8 DEF vars, boardVars, BoardTypeOK
<1> QED BY <1>1, <1>2, <1>3, <1>4, <1>5, <1>6, <1>7, <1>8, CreateType, BootType, DcNextType,
           CallNextType DEF Next

\* The tables, the awaiting handlers and the job queue always have their types.
THEOREM BoardTypeCorrect == Spec => []TypeOK
<1>1. Spec => []BoardTypeOK
  BY BoardTypeInit, BoardTypeNext, PTL DEF Spec
<1>2. BoardTypeOK /\ JobsTypeOK => TypeOK
  BY DEF BoardTypeOK, TypeOK
<1> QED BY <1>1, <1>2, BoardImplementsJobs, JobsTypeCorrect, PTL

-----------------------------------------------------------------------------
(***************************************************************************)
(* A cancelled request.                                                    *)
(***************************************************************************)
LEMMA RecomputedKeeps ==
  ASSUME NEW r \in Requests, NEW items, NEW R, request[r] \in {"none", "cancelled"}
  PROVE  Recomputed(items, R)[r] = request[r]
BY DEF Recomputed

LEMMA CloseKeepsCancelled ==
  ASSUME NEW r \in Requests, request[r] = "cancelled", NEW i, NEW s, NEW by,
         Close(i, s, by) \/ CloseIfPending(i, s, by)
  PROVE  request'[r] = "cancelled"
BY RecomputedKeeps DEF Close, CloseIfPending

LEMMA CancelledKept ==
  ASSUME BoardTypeOK, [Next]_vars, NEW p \in Requests, request[p] = "cancelled"
  PROVE  request'[p] = "cancelled"
<1>1. ASSUME NEW r \in Requests, NEW a \in AppAnswers, Create(r, a) PROVE request'[p] = "cancelled"
  BY <1>1 DEF Create, BoardTypeOK
<1>2. ASSUME NEW r \in Requests, NEW n \in 0 .. Len(Order), CreateInterrupted(r, n)
      PROVE  request'[p] = "cancelled"
  BY <1>2 DEF CreateInterrupted, BoardTypeOK
<1>3. ASSUME NEW r \in Requests, Cancel(r) PROVE request'[p] = "cancelled"
  BY <1>3 DEF Cancel, BoardTypeOK
<1>4. ASSUME NEW i \in Items, NEW v \in ItemStatus, Decide(i, v) \/ DecideInterrupted(i, v)
      PROVE  request'[p] = "cancelled"
  BY <1>4, CloseKeepsCancelled DEF Decide, DecideInterrupted
<1>5. ASSUME NEW i \in Items, NEW s \in {"na", "done"}, AppListLoaded(i, s)
      PROVE  request'[p] = "cancelled"
  BY <1>5, CloseKeepsCancelled DEF AppListLoaded
<1>6. ASSUME DcNext PROVE request'[p] = "cancelled"
  <2>1. ASSUME NEW i \in Items, RunOnDc(i) \/ ScriptReports(i) PROVE request'[p] = "cancelled"
    BY <2>1, CloseKeepsCancelled DEF RunOnDc, ScriptReports, boardVars
  <2>2. ASSUME NEW b \in 0 .. MaxPolls, Poll(b) PROVE request'[p] = "cancelled"
    BY <2>2 DEF Poll, boardVars
  <2>3. ASSUME NEW m \in Results, ReceiveResult(m) \/ ResultInterrupted(m)
        PROVE  request'[p] = "cancelled"
    BY <2>3, CloseKeepsCancelled DEF ReceiveResult, ResultInterrupted
  <2>4. ASSUME Agent PROVE request'[p] = "cancelled"
    BY <2>4 DEF Agent, boardVars
  <2> QED BY <1>6, <2>1, <2>2, <2>3, <2>4 DEF DcNext
<1>7. ASSUME CallNext PROVE request'[p] = "cancelled"
  <2>1. PICK h \in Handlers :
          \/ \E i \in Items : SendEmail(h, i) \/ RunInCloud(h, i)
          \/ HandoverRun(h)
          \/ EmailSent(h) \/ CloudDone(h) \/ CallFailed(h)
          \/ \E r \in Requests : HandedOver(h, r) \/ HandoverFailed(h, r)
    BY <1>7 DEF CallNext
  <2>2. ASSUME NEW i \in Items, SendEmail(h, i) \/ RunInCloud(h, i) PROVE request'[p] = "cancelled"
    BY <2>2 DEF SendEmail, RunInCloud, Begin, boardVars
  <2>3. ASSUME HandoverRun(h) PROVE request'[p] = "cancelled"
    BY <2>3 DEF HandoverRun, Begin, boardVars
  <2>4. ASSUME EmailSent(h) \/ CloudDone(h) \/ CallFailed(h) PROVE request'[p] = "cancelled"
    BY <2>4, CloseKeepsCancelled DEF EmailSent, CloudDone, CallFailed, boardVars
  <2>5. ASSUME NEW r \in Requests, HandedOver(h, r) PROVE request'[p] = "cancelled"
    BY <2>5, RecomputedKeeps DEF HandedOver
  <2>6. ASSUME NEW r \in Requests, HandoverFailed(h, r) PROVE request'[p] = "cancelled"
    BY <2>6 DEF HandoverFailed, boardVars
  <2> QED BY <2>1, <2>2, <2>3, <2>4, <2>5, <2>6
<1>8. ASSUME Killed PROVE request'[p] = "cancelled"
  BY <1>8 DEF Killed, boardVars
<1>9. ASSUME NEW new \in SUBSET Codes, NEW a \in AppAnswers, Boot(new, a)
      PROVE  request'[p] = "cancelled"
  BY <1>9, RecomputedKeeps DEF Boot
<1>10. ASSUME NEW new \in SUBSET Codes, NEW i \in Items, BootInterrupted(new, i)
       PROVE  request'[p] = "cancelled"
  BY <1>10 DEF BootInterrupted
<1>11. CASE UNCHANGED vars
  BY <1>11 DEF vars, boardVars
<1> QED BY <1>1, <1>2, <1>3, <1>4, <1>5, <1>6, <1>7, <1>8, <1>9, <1>10, <1>11 DEF Next

\* No result, mail, handover, boot or app list that arrives late brings a cancelled request
\* back to the board.
THEOREM CancelledForGood == Spec => CancelledStays
<1>1. BoardTypeOK /\ [Next]_vars
        => [\A r \in Requests : request[r] = "cancelled" => request'[r] = "cancelled"]_vars
  BY CancelledKept
<1>2. Init => BoardTypeOK
  BY BoardTypeInit
<1> QED BY <1>1, <1>2, BoardTypeNext, PTL DEF Spec, CancelledStays

-----------------------------------------------------------------------------
(***************************************************************************)
(* Approvals.  An undecided item of an approval is pending or closed by    *)
(* something other than a decision; a decided one carries the decision.    *)
(* Awaiting handlers hold only items that exist and are no approvals, so   *)
(* what they write on their return decides nothing.                        *)
(***************************************************************************)
Unstarted == \A i \in Items : request[i[1]] = "none" => item[i].status = "none"

Recorded(i) == verdict[i] # "none" => verdict[i] \in Verdicts(i[2]) /\ item[i].status = verdict[i]
ApprovedByPerson(i) == item[i].status = "approved" => verdict[i] = "approved"
ApprovalsRecorded == \A i \in Items : i[2] \in Approvals => Recorded(i) /\ ApprovedByPerson(i)

CallsApart ==
  \A h \in Handlers :
    /\ call[h].phase \in {"mailing", "cloud"} =>
         call[h].at \in Items /\ call[h].at[2] \notin Approvals /\ request[call[h].at[1]] # "none"
    /\ call[h].phase = "handover" => \A r \in call[h].rest : request[r] # "none"

ApprovalInv == BoardTypeOK /\ Unstarted /\ ApprovalsRecorded /\ CallsApart

\* What a step may do to an item, and what it must leave alone.
LawfulItem(i) ==
  \/ item'[i] = item[i]
  \/ /\ request'[i[1]] # "none"
     /\ i[2] \in Approvals => item[i].status \in {"none", "pending"}
     /\ item'[i].status = "approved" /\ i[2] \in Approvals => verdict'[i] = "approved"
LawfulVerdict(i) ==
  \/ verdict'[i] = verdict[i]
  \/ /\ item[i].status = "pending"
     /\ verdict'[i] \in Verdicts(i[2])
     /\ item'[i].status = verdict'[i]
Lawful ==
  /\ \A i \in Items : LawfulItem(i) /\ LawfulVerdict(i)
  /\ \A r \in Requests : request[r] # "none" => request'[r] # "none"

LEMMA ItemParts ==
  ASSUME NEW i \in Items
  PROVE  i[1] \in Requests /\ i[2] \in Codes /\ i = <<i[1], i[2]>>
BY DEF Items

LEMMA RecomputedNotNone ==
  ASSUME NEW r \in Requests, NEW items, NEW R
  PROVE  request[r] # "none" <=> Recomputed(items, R)[r] # "none"
BY DEF Recomputed, Derived

MayClose(i) ==
  i \in Items => item[i].status = "pending" \/ (i[2] \notin Approvals /\ request[i[1]] # "none")

LEMMA CloseLawful ==
  ASSUME ApprovalInv, NEW i, NEW s \in ItemStatus \ {"approved"}, NEW by,
         Close(i, s, by) \/ CloseIfPending(i, s, by),
         MayClose(i), UNCHANGED verdict
  PROVE  Lawful
<1>1. \A r \in Requests : request[r] # "none" => request'[r] # "none"
  BY RecomputedNotNone DEF Close, CloseIfPending
<1>2. ASSUME NEW j \in Items PROVE LawfulItem(j)
  <2>1. CASE item'[j] = item[j]
    BY <2>1 DEF LawfulItem
  <2>2. CASE item'[j] # item[j]
    <3>1. j = i /\ Close(i, s, by)
      BY <2>2 DEF Close, CloseIfPending, ApprovalInv, BoardTypeOK
    <3>2. item'[j].status = s
      BY <3>1 DEF Close, ApprovalInv, BoardTypeOK
    <3>3. request[j[1]] # "none"
      BY <3>1 DEF MayClose, ApprovalInv, Unstarted
    <3>4. request'[j[1]] # "none"
      BY <3>3, <1>1, ItemParts
    <3> QED BY <3>1, <3>2, <3>4 DEF LawfulItem, MayClose
  <2> QED BY <2>1, <2>2
<1> QED BY <1>1, <1>2 DEF Lawful, LawfulVerdict

LEMMA CloseByPersonLawful ==
  ASSUME ApprovalInv, NEW i \in Items, NEW v \in Verdicts(i[2]), item[i].status = "pending",
         item' = [item EXCEPT ![i] = [status |-> v, by |-> "person"]],
         verdict' = [verdict EXCEPT ![i] = v],
         \A r \in Requests : request[r] # "none" => request'[r] # "none"
  PROVE  Lawful
<1>1. request'[i[1]] # "none"
  BY ItemParts DEF ApprovalInv, Unstarted
<1>2. item'[i].status = v /\ verdict'[i] = v
  BY DEF ApprovalInv, BoardTypeOK
<1>3. LawfulItem(i) /\ LawfulVerdict(i)
  BY <1>1, <1>2 DEF LawfulItem, LawfulVerdict
<1>4. ASSUME NEW j \in Items, j # i PROVE LawfulItem(j) /\ LawfulVerdict(j)
  BY <1>4 DEF LawfulItem, LawfulVerdict, ApprovalInv, BoardTypeOK
<1> QED BY <1>3, <1>4 DEF Lawful

LEMMA CallLawful == ApprovalInv /\ CallNext => Lawful
<1> SUFFICES ASSUME ApprovalInv, NEW h \in Handlers,
                    \/ \E i \in Items : SendEmail(h, i) \/ RunInCloud(h, i)
                    \/ HandoverRun(h)
                    \/ EmailSent(h) \/ CloudDone(h) \/ CallFailed(h)
                    \/ \E r \in Requests : HandedOver(h, r) \/ HandoverFailed(h, r)
             PROVE  Lawful
  BY DEF CallNext
<1> DEFINE Still == UNCHANGED <<item, request, verdict>>
<1>1. Still => Lawful
  BY DEF Lawful, LawfulItem, LawfulVerdict
<1>2. ASSUME NEW i \in Items, SendEmail(h, i) \/ RunInCloud(h, i) PROVE Still
  BY <1>2 DEF SendEmail, RunInCloud, Begin, boardVars
<1>3. ASSUME HandoverRun(h) PROVE Still
  BY <1>3 DEF HandoverRun, Begin, boardVars
<1>4. ASSUME EmailSent(h) PROVE Lawful
  <2>1. MayClose(call[h].at) /\ UNCHANGED verdict
    BY <1>4 DEF EmailSent, ApprovalInv, CallsApart, MayClose
  <2>2. CASE Close(call[h].at, "done", "person")
    BY <2>1, <2>2, CloseLawful DEF ItemStatus
  <2>3. CASE UNCHANGED <<item, request>>
    BY <2>1, <2>3, <1>1
  <2> QED BY <1>4, <2>2, <2>3 DEF EmailSent
<1>5. ASSUME CloudDone(h) PROVE Lawful
  <2>1. MayClose(call[h].at)
    BY <1>5 DEF CloudDone, ApprovalInv, CallsApart, MayClose
  <2> QED BY <1>5, <2>1, CloseLawful DEF CloudDone, ItemStatus
<1>6. ASSUME CallFailed(h) PROVE Still
  BY <1>6 DEF CallFailed, boardVars
<1>7. ASSUME NEW r \in Requests, HandedOver(h, r) PROVE Lawful
  <2> DEFINE i == <<r, Handover>>
  <2>1. UNCHANGED verdict /\ request[r] # "none"
    BY <1>7 DEF HandedOver, ApprovalInv, CallsApart
  <2>2. \A q \in Requests : request[q] # "none" => request'[q] # "none"
    BY <1>7, RecomputedNotNone DEF HandedOver
  <2>3. ASSUME NEW j \in Items PROVE LawfulItem(j)
    <3>1. CASE j # i
      BY <1>7, <3>1 DEF HandedOver, LawfulItem, ApprovalInv, BoardTypeOK
    <3>2. CASE j = i
      <4>1. j[2] \notin Approvals /\ j[1] = r
        BY <3>2, OffboardingAssumption
      <4> QED BY <2>1, <2>2, <4>1 DEF LawfulItem
    <3> QED BY <3>1, <3>2
  <2> QED BY <2>1, <2>2, <2>3 DEF Lawful, LawfulVerdict
<1>8. ASSUME NEW r \in Requests, HandoverFailed(h, r) PROVE Still
  BY <1>8 DEF HandoverFailed, boardVars
<1> QED BY <1>1, <1>2, <1>3, <1>4, <1>5, <1>6, <1>7, <1>8

LEMMA DcLawful == ApprovalInv /\ DcNext => Lawful
<1> SUFFICES ASSUME ApprovalInv, DcNext PROVE Lawful
  OBVIOUS
<1> DEFINE Still == UNCHANGED <<item, request, verdict>>
<1>1. Still => Lawful
  BY DEF Lawful, LawfulItem, LawfulVerdict
<1>2. ASSUME NEW i \in Items, RunOnDc(i) PROVE Still
  BY <1>2 DEF RunOnDc, boardVars
<1>3. ASSUME NEW i \in Items, ScriptReports(i) PROVE Lawful
  <2>1. MayClose(i)
    BY <1>3 DEF ScriptReports, ApprovalInv, Unstarted, MayClose
  <2> QED BY <1>3, <2>1, CloseLawful DEF ScriptReports, ItemStatus
<1>4. ASSUME NEW b \in 0 .. MaxPolls, Poll(b) PROVE Still
  BY <1>4 DEF Poll, boardVars
<1>5. ASSUME NEW m \in Results, ReceiveResult(m) PROVE Lawful
  <2>1. CASE UNCHANGED <<item, request>>
    BY <1>5, <2>1, <1>1 DEF ReceiveResult
  <2>2. ASSUME item[job[m.id].ref].status = "pending", Close(job[m.id].ref, "done", "agent")
        PROVE  Lawful
    <3>1. "done" \in ItemStatus \ {"approved"}
      BY DEF ItemStatus
    <3>2. MayClose(job[m.id].ref) /\ UNCHANGED verdict
      BY <1>5, <2>2 DEF ReceiveResult, MayClose
    <3> QED BY <2>2, <3>1, <3>2, CloseLawful
  <2> QED BY <1>5, <2>1, <2>2 DEF ReceiveResult, CloseIfPending
<1>6. ASSUME NEW m \in Results, ResultInterrupted(m) PROVE Lawful
  <2> DEFINE i == job[m.id].ref
  <2>1. UNCHANGED <<request, verdict>>
    BY <1>6 DEF ResultInterrupted
  <2>2. ASSUME NEW j \in Items PROVE LawfulItem(j)
    <3>1. CASE item'[j] = item[j]
      BY <3>1 DEF LawfulItem
    <3>2. CASE item'[j] # item[j]
      <4>1. /\ j = i /\ item[i].status = "pending"
            /\ item' = [item EXCEPT ![i] = [status |-> "done", by |-> "agent"]]
        BY <1>6, <3>2 DEF ResultInterrupted, ApprovalInv, BoardTypeOK
      <4>2. item'[j].status = "done"
        BY <4>1 DEF ApprovalInv, BoardTypeOK
      <4>3. request'[j[1]] # "none"
        BY <2>1, <4>1 DEF ApprovalInv, Unstarted
      <4> QED BY <4>1, <4>2, <4>3 DEF LawfulItem
    <3> QED BY <3>1, <3>2
  <2> QED BY <2>1, <2>2 DEF Lawful, LawfulVerdict
<1>7. ASSUME Agent PROVE Still
  BY <1>7 DEF Agent, boardVars
<1> QED BY <1>1, <1>2, <1>3, <1>4, <1>5, <1>6, <1>7 DEF DcNext

LEMMA BoardLawful == ApprovalInv /\ [Next]_vars => Lawful
<1> SUFFICES ASSUME ApprovalInv, [Next]_vars PROVE Lawful
  OBVIOUS
<1>1. ASSUME NEW r \in Requests, NEW a \in AppAnswers, Create(r, a) PROVE Lawful
  <2>1. \A q \in Requests : request[q] # "none" => request'[q] # "none"
    BY <1>1 DEF Create, ApprovalInv, BoardTypeOK
  <2>2. ASSUME NEW i \in Items PROVE LawfulItem(i)
    <3>1. CASE i[1] = r
      <4>1. item[i].status = "none" /\ request'[r] # "none"
        BY <1>1, <3>1 DEF Create, ApprovalInv, Unstarted, BoardTypeOK, Derived
      <4>2. i[2] \in Approvals => item'[i].status # "approved"
        BY <1>1, <3>1, <4>1, OffboardingAssumption
           DEF Create, ByAppList, NaBySystem, Pending
      <4> QED BY <3>1, <4>1, <4>2 DEF LawfulItem
    <3>2. CASE i[1] # r
      BY <1>1, <3>2 DEF Create, LawfulItem
    <3> QED BY <3>1, <3>2
  <2> QED BY <1>1, <2>1, <2>2 DEF Create, Lawful, LawfulVerdict
<1>2. ASSUME NEW r \in Requests, NEW n \in 0 .. Len(Order), CreateInterrupted(r, n) PROVE Lawful
  <2>1. \A q \in Requests : request[q] # "none" => request'[q] # "none"
    BY <1>2 DEF CreateInterrupted, ApprovalInv, BoardTypeOK
  <2>2. ASSUME NEW i \in Items PROVE LawfulItem(i)
    <3>1. CASE item'[i] = item[i]
      BY <3>1 DEF LawfulItem
    <3>2. CASE item'[i] # item[i]
      <4>1. i[1] = r /\ item'[i] = Pending /\ item[i].status = "none" /\ request'[r] # "none"
        BY <1>2, <3>2 DEF CreateInterrupted, ApprovalInv, Unstarted, BoardTypeOK
      <4> QED BY <4>1 DEF LawfulItem, Pending
    <3> QED BY <3>1, <3>2
  <2> QED BY <1>2, <2>1, <2>2 DEF CreateInterrupted, Lawful, LawfulVerdict
<1>3. ASSUME NEW r \in Requests, Cancel(r) PROVE Lawful
  BY <1>3 DEF Cancel, Lawful, LawfulItem, LawfulVerdict, ApprovalInv, BoardTypeOK
<1>4. ASSUME NEW i \in Items, NEW v \in ItemStatus, Decide(i, v) PROVE Lawful
  <2>1. \A r \in Requests : request[r] # "none" => request'[r] # "none"
    BY <1>4, RecomputedNotNone DEF Decide, Close
  <2> QED BY <1>4, <2>1, CloseByPersonLawful DEF Decide, Close
<1>5. ASSUME NEW i \in Items, NEW v \in ItemStatus, DecideInterrupted(i, v) PROVE Lawful
  BY <1>5, CloseByPersonLawful DEF DecideInterrupted
<1>6. ASSUME NEW i \in Items, NEW s \in {"na", "done"}, AppListLoaded(i, s) PROVE Lawful
  <2>1. s \in ItemStatus \ {"approved"}
    BY DEF ItemStatus
  <2>2. Close(i, s, "system")
    BY <1>6 DEF AppListLoaded
  <2>3. MayClose(i) /\ UNCHANGED verdict
    BY <1>6 DEF AppListLoaded, MayClose
  <2> QED BY <2>1, <2>2, <2>3, CloseLawful
<1>7. ASSUME Killed PROVE Lawful
  BY <1>7 DEF Killed, boardVars, Lawful, LawfulItem, LawfulVerdict
<1>8. ASSUME NEW new \in SUBSET Codes, NEW a \in AppAnswers, Boot(new, a) PROVE Lawful
  <2>1. \A q \in Requests : request[q] # "none" => request'[q] # "none"
    BY <1>8, RecomputedNotNone DEF Boot
  <2>2. ASSUME NEW i \in Items PROVE LawfulItem(i)
    <3>1. CASE i[1] \in Live /\ item[i].status \in {"none", "pending"}
      <4>1. request'[i[1]] # "none"
        BY <2>1, <3>1, ItemParts DEF Live
      <4>2. item'[i].status # "approved"
        BY <1>8, <3>1 DEF Boot, Backfilled, ByAppList, NaBySystem, Pending, AppAnswers
      <4> QED BY <3>1, <4>1, <4>2 DEF LawfulItem
    <3>2. CASE i[1] \notin Live \/ item[i].status \notin {"none", "pending"}
      BY <1>8, <3>2 DEF Boot, Backfilled, ByAppList, LawfulItem
    <3> QED BY <3>1, <3>2
  <2> QED BY <1>8, <2>1, <2>2 DEF Boot, Lawful, LawfulVerdict
<1>9. ASSUME NEW new \in SUBSET Codes, NEW i \in Items, BootInterrupted(new, i) PROVE Lawful
  <2>1. ASSUME NEW j \in Items PROVE LawfulItem(j)
    BY <1>9 DEF BootInterrupted, LawfulItem, Pending, Live, ApprovalInv, BoardTypeOK
  <2> QED BY <1>9, <2>1 DEF BootInterrupted, Lawful, LawfulVerdict
<1>10. CASE UNCHANGED vars
  BY <1>10 DEF vars, boardVars, Lawful, LawfulItem, LawfulVerdict
<1> QED BY <1>1, <1>2, <1>3, <1>4, <1>5, <1>6, <1>7, <1>8, <1>9, <1>10, DcLawful, CallLawful DEF Next

LEMMA UnstartedNext == ApprovalInv /\ Lawful => Unstarted'
<1> SUFFICES ASSUME ApprovalInv, Lawful, NEW i \in Items, request'[i[1]] = "none"
             PROVE  item'[i].status = "none"
  BY DEF Unstarted
<1>1. request[i[1]] = "none" /\ item'[i] = item[i]
  BY ItemParts DEF Lawful, LawfulItem
<1> QED BY <1>1 DEF ApprovalInv, Unstarted

LEMMA ApprovalsRecordedNext == ApprovalInv /\ Lawful => ApprovalsRecorded'
<1> SUFFICES ASSUME ApprovalInv, Lawful, NEW i \in Items, i[2] \in Approvals
             PROVE  Recorded(i)' /\ ApprovedByPerson(i)'
  BY DEF ApprovalsRecorded
<1> USE DEF Recorded, ApprovedByPerson
<1>1. LawfulItem(i) /\ LawfulVerdict(i) /\ Recorded(i) /\ ApprovedByPerson(i)
  BY DEF ApprovalInv, ApprovalsRecorded, Lawful
<1>2. CASE verdict'[i] = verdict[i]
  <2>1. CASE item'[i] = item[i]
    BY <1>1, <1>2, <2>1
  <2>2. CASE item'[i] # item[i]
    <3>1. item[i].status \in {"none", "pending"}
      BY <1>1, <2>2 DEF LawfulItem
    <3>2. verdict[i] = "none"
      BY <1>1, <3>1 DEF Verdicts
    <3> QED BY <1>1, <1>2, <2>2, <3>2 DEF LawfulItem
  <2> QED BY <2>1, <2>2
<1>3. CASE verdict'[i] # verdict[i]
  BY <1>1, <1>3 DEF LawfulVerdict
<1> QED BY <1>2, <1>3

LEMMA BeginApart ==
  ASSUME ApprovalInv, Lawful, NEW h \in Handlers, NEW c, Begin(h, c),
         c.phase \in {"mailing", "cloud"} =>
           c.at \in Items /\ c.at[2] \notin Approvals /\ item[c.at].status # "none",
         c.phase = "handover" => \A r \in c.rest : request[r] # "none"
  PROVE  CallsApart'
<1>1. c.phase \in {"mailing", "cloud"} => request[c.at[1]] # "none"
  BY DEF ApprovalInv, Unstarted
<1> QED BY <1>1 DEF Begin, boardVars, ApprovalInv, BoardTypeOK, CallsApart

LEMMA KeptApart ==
  ASSUME ApprovalInv, Lawful, \A h \in Handlers : call'[h] = call[h] \/ call'[h] = Idle
  PROVE  CallsApart'
<1> SUFFICES ASSUME NEW h \in Handlers
             PROVE  /\ call'[h].phase \in {"mailing", "cloud"} =>
                         /\ call'[h].at \in Items /\ call'[h].at[2] \notin Approvals
                         /\ request'[call'[h].at[1]] # "none"
                    /\ call'[h].phase = "handover" => \A r \in call'[h].rest : request'[r] # "none"
  BY DEF CallsApart
<1>1. CASE call'[h] = Idle
  BY <1>1 DEF Idle
<1>2. CASE call'[h] = call[h]
  <2>1. call[h].rest \subseteq Requests
    BY DEF ApprovalInv, BoardTypeOK, Calls
  <2> QED BY <1>2, <2>1, ItemParts DEF ApprovalInv, CallsApart, Lawful
<1> QED BY <1>1, <1>2

LEMMA NextRowApart ==
  ASSUME ApprovalInv, Lawful, NEW h \in Handlers, NEW r \in Requests, NextRow(h, r),
         call[h].phase = "handover"
  PROVE  CallsApart'
<1>1. call[h].rest \subseteq Requests
  BY DEF ApprovalInv, BoardTypeOK, Calls
<1>2. /\ call'[h].phase \in {"idle", "handover"}
      /\ \A q \in call'[h].rest : q \in call[h].rest
  BY DEF NextRow, Idle, ApprovalInv, BoardTypeOK, Calls
<1>3. \A q \in call'[h].rest : request'[q] # "none"
  BY <1>1, <1>2 DEF ApprovalInv, CallsApart, Lawful
<1>4. ASSUME NEW g \in Handlers, g # h
      PROVE  /\ call'[g] = call[g]
             /\ call[g].rest \subseteq Requests
  BY <1>4 DEF NextRow, ApprovalInv, BoardTypeOK, Calls
<1> QED BY <1>2, <1>3, <1>4, ItemParts DEF ApprovalInv, CallsApart, Lawful

LEMMA CallsApartNext == ApprovalInv /\ [Next]_vars => CallsApart'
<1> SUFFICES ASSUME ApprovalInv, [Next]_vars PROVE CallsApart'
  OBVIOUS
<1>1. Lawful
  BY BoardLawful
<1> DEFINE Kept == \A h \in Handlers : call'[h] = call[h] \/ call'[h] = Idle
<1>2. Kept => CallsApart'
  BY <1>1, KeptApart
<1>3. ASSUME CallNext PROVE CallsApart'
  <2>1. PICK h \in Handlers :
          \/ \E i \in Items : SendEmail(h, i) \/ RunInCloud(h, i)
          \/ HandoverRun(h)
          \/ EmailSent(h) \/ CloudDone(h) \/ CallFailed(h)
          \/ \E r \in Requests : HandedOver(h, r) \/ HandoverFailed(h, r)
    BY <1>3 DEF CallNext
  <2>2. ASSUME NEW i \in Items, SendEmail(h, i) PROVE CallsApart'
    <3> DEFINE c == [phase |-> "mailing", at |-> i, pending |-> item[i].status = "pending",
                     rest |-> {}]
    <3>1. i[2] \notin Approvals /\ item[i].status # "none" /\ Begin(h, c)
      BY <2>2, OffboardingAssumption DEF SendEmail
    <3>2. c.phase = "mailing" /\ c.at = i
      OBVIOUS
    <3> HIDE DEF c
    <3> QED BY <1>1, <3>1, <3>2, BeginApart
  <2>3. ASSUME NEW i \in Items, RunInCloud(h, i) PROVE CallsApart'
    <3> DEFINE c == [phase |-> "cloud", at |-> i, pending |-> FALSE, rest |-> {}]
    <3>1. i[2] \notin Approvals /\ item[i].status # "none" /\ Begin(h, c)
      BY <2>3, OffboardingAssumption DEF RunInCloud
    <3>2. c.phase = "cloud" /\ c.at = i
      OBVIOUS
    <3> HIDE DEF c
    <3> QED BY <1>1, <3>1, <3>2, BeginApart
  <2>4. ASSUME HandoverRun(h) PROVE CallsApart'
    <3>1. PICK R : /\ \A r \in R : request[r] = "open"
                   /\ Begin(h, [phase |-> "handover", at |-> NoOne, pending |-> FALSE, rest |-> R])
      <4>1. \A r \in {i[1] : i \in {i \in Requests \X ({Handover} \cap Codes) :
                              request[i[1]] = "open" /\ item[i].status = "pending"}} :
              request[r] = "open"
        OBVIOUS
      <4> QED BY <2>4, <4>1 DEF HandoverRun
    <3> DEFINE c == [phase |-> "handover", at |-> NoOne, pending |-> FALSE, rest |-> R]
    <3>2. c.phase = "handover" /\ c.rest = R
      OBVIOUS
    <3>3. Begin(h, c)
      BY <3>1
    <3> HIDE DEF c
    <3> QED BY <1>1, <3>1, <3>2, <3>3, BeginApart
  <2>5. ASSUME EmailSent(h) \/ CloudDone(h) \/ CallFailed(h) PROVE Kept
    BY <2>5 DEF EmailSent, CloudDone, CallFailed, ApprovalInv, BoardTypeOK
  <2>6. ASSUME NEW r \in Requests, HandedOver(h, r) \/ HandoverFailed(h, r) PROVE CallsApart'
    BY <1>1, <2>6, NextRowApart DEF HandedOver, HandoverFailed
  <2> QED BY <1>2, <2>1, <2>2, <2>3, <2>4, <2>5, <2>6
<1>4. ASSUME DcNext PROVE Kept
  BY <1>4 DEF DcNext, RunOnDc, ScriptReports, Poll, ReceiveResult, ResultInterrupted, Agent, Kill
<1>5. ASSUME NEW r \in Requests, \/ \E a \in AppAnswers : Create(r, a)
                                 \/ \E n \in 0 .. Len(Order) : CreateInterrupted(r, n)
                                 \/ Cancel(r)
      PROVE  Kept
  BY <1>5 DEF Create, CreateInterrupted, Cancel, Kill
<1>6. ASSUME NEW i \in Items, \/ \E v \in ItemStatus : Decide(i, v) \/ DecideInterrupted(i, v)
                              \/ \E s \in {"na", "done"} : AppListLoaded(i, s)
      PROVE  Kept
  BY <1>6 DEF Decide, DecideInterrupted, AppListLoaded, Kill
<1>7. ASSUME NEW new \in SUBSET Codes, \/ \E a \in AppAnswers : Boot(new, a)
                                       \/ \E i \in Items : BootInterrupted(new, i)
      PROVE  Kept
  BY <1>7 DEF Boot, BootInterrupted
<1>8. CASE Killed
  BY <1>2, <1>8 DEF Killed, Kill
<1>9. CASE UNCHANGED vars
  BY <1>2, <1>9 DEF vars
<1> QED BY <1>2, <1>3, <1>4, <1>5, <1>6, <1>7, <1>8, <1>9 DEF Next

LEMMA ApprovalInvInit == Init => ApprovalInv
<1>1. Init => CallsApart
  BY DEF Init, Idle, CallsApart
<1>2. Init => Unstarted /\ ApprovalsRecorded
  BY ItemParts DEF Init, Missing, Unstarted, ApprovalsRecorded, Recorded, ApprovedByPerson
<1> QED BY <1>1, <1>2, BoardTypeInit DEF ApprovalInv

LEMMA ApprovalInvNext == ApprovalInv /\ [Next]_vars => ApprovalInv'
BY BoardTypeNext, BoardLawful, UnstartedNext, ApprovalsRecordedNext, CallsApartNext DEF ApprovalInv

\* What is inductive about approvals, awaiting handlers and requests holds throughout.
THEOREM ApprovalInvariant == Spec => []ApprovalInv
BY ApprovalInvInit, ApprovalInvNext, PTL DEF Spec

\* A decision about a destructive step is never overwritten.
THEOREM ApprovalsAreFinal == Spec => ApprovalsStand
<1>1. ApprovalInv /\ [Next]_vars
        => [\A i \in Items : i[2] \in Approvals /\ verdict[i] # "none" => item'[i] = item[i]]_vars
  <2> SUFFICES ASSUME ApprovalInv, [Next]_vars, NEW i \in Items, i[2] \in Approvals,
                      verdict[i] # "none"
               PROVE  item'[i] = item[i]
    OBVIOUS
  <2>1. item[i].status \notin {"none", "pending"}
    BY DEF ApprovalInv, ApprovalsRecorded, Recorded, Verdicts
  <2> QED BY <2>1, BoardLawful DEF Lawful, LawfulItem
<1> QED BY <1>1, ApprovalInvariant, PTL DEF Spec, ApprovalsStand

-----------------------------------------------------------------------------
(***************************************************************************)
(* Jobs for destructive steps.                                             *)
(***************************************************************************)
LEMMA RefKept ==
  ASSUME JobsTypeOK, QueueStep \/ UNCHANGED jobVars, NEW j \in JobIds
  PROVE  job'[j].ref = job[j].ref
<1>1. ASSUME NEW b \in 0 .. MaxPolls, ClaimPending(b) PROVE job'[j].ref = job[j].ref
  BY <1>1 DEF ClaimPending, Marked, JobsTypeOK, JobRow
<1>2. ASSUME NEW m \in Results, RecordResult(m) PROVE job'[j].ref = job[j].ref
  BY <1>2 DEF RecordResult, JobsTypeOK, JobRow
<1>3. ASSUME AgentStep \/ UNCHANGED jobVars PROVE job'[j].ref = job[j].ref
  BY <1>3 DEF AgentStep, AgentSucceeds, AgentFails, AgentDies, jobVars
<1> QED BY <1>1, <1>2, <1>3 DEF QueueStep

LEMMA VerdictKept ==
  ASSUME ApprovalInv, [Next]_vars, NEW i \in Items, i[2] \in Approvals, verdict[i] = "approved"
  PROVE  verdict'[i] = "approved"
<1>1. item[i].status = "approved"
  BY DEF ApprovalInv, ApprovalsRecorded, Recorded
<1> QED BY <1>1, BoardLawful DEF Lawful, LawfulVerdict

LEMMA DeletionNext ==
  ASSUME ApprovalInv, JobsTypeOK, DeletionNeedsApproval, [Next]_vars
  PROVE  DeletionNeedsApproval'
<1> SUFFICES ASSUME NEW j \in JobIds, job'[j].ref \in Items, job'[j].ref[2] \in Approvals
             PROVE  verdict'[job'[j].ref] = "approved"
  BY DEF DeletionNeedsApproval
<1>1. CASE job'[j].ref = job[j].ref
  BY <1>1, VerdictKept DEF DeletionNeedsApproval
<1>2. ASSUME NEW i \in Items, RunOnDc(i), job'[j].ref # job[j].ref
      PROVE  verdict'[job'[j].ref] = "approved"
  <2>1. job'[j].ref = i
    BY <1>2 DEF RunOnDc, Enqueue, JobsTypeOK
  <2>2. verdict[i] = "approved" /\ UNCHANGED verdict
    BY <1>2, <2>1 DEF RunOnDc, ApprovalInv, ApprovalsRecorded, ApprovedByPerson
  <2> QED BY <2>1, <2>2
<1> QED BY <1>1, <1>2, BoardSteps, RefKept

\* No job that destroys an account or its data exists unless a person approved that step.
THEOREM DeletionApproved == Spec => []DeletionNeedsApproval
<1>1. Init => DeletionNeedsApproval
  <2> SUFFICES ASSUME Init PROVE DeletionNeedsApproval
    OBVIOUS
  <2>1. \A j \in JobIds : job[j].ref = NoRef
    BY DEF Init, JobsInit
  <2> QED BY <2>1, DcJobsAssumption, OffboardingAssumption DEF DeletionNeedsApproval
<1>2. Spec => []JobsTypeOK
  BY BoardImplementsJobs, JobsTypeCorrect, PTL
<1>3. ApprovalInv /\ JobsTypeOK /\ DeletionNeedsApproval /\ [Next]_vars => DeletionNeedsApproval'
  BY DeletionNext
<1> QED BY <1>1, <1>2, <1>3, ApprovalInvariant, PTL DEF Spec

-----------------------------------------------------------------------------
(***************************************************************************)
(* The checklist and the status derived from it.  While the process serves *)
(* they agree, whoever writes last: every handler recomputes the request   *)
(* whose items it wrote, and a handler that was killed before that leaves  *)
(* a board nobody is served until the boot has recomputed all of them.     *)
(***************************************************************************)
BoardInv == BoardTypeOK /\ BoardMatchesItems /\ ChecklistComplete

\* The board after a handler that wrote items of request q and recomputed it.
LEMMA RecomputedMatches ==
  ASSUME BoardInv, up, NEW q, NEW R, R = {q} \/ R = Requests, request' = Recomputed(item', R),
         R = {q} => \A i \in Items : i[1] # q => item'[i] = item[i]
  PROVE  BoardMatchesItems'
<1> SUFFICES ASSUME NEW r \in Live'
             PROVE  request'[r] = "complete" <=> NothingPending(item', r)
  BY DEF BoardMatchesItems
<1>1. r \in Requests /\ request[r] \notin {"none", "cancelled"}
  BY DEF Live, Recomputed
<1>2. CASE r \in R
  BY <1>1, <1>2 DEF Recomputed, Derived
<1>3. CASE r \notin R
  <2>1. \A c \in Codes : item'[<<r, c>>] = item[<<r, c>>]
    BY <1>1, <1>3 DEF Items
  <2>2. request'[r] = request[r]
    BY <1>1, <1>3 DEF Recomputed
  <2> QED
    BY <1>1, <2>1, <2>2 DEF BoardInv, BoardMatchesItems, Live, NothingPending
<1> QED BY <1>2, <1>3

\* No item is taken off the checklist again.
Listed == \A i \in Items : item[i].status # "none" => item'[i].status # "none"

LEMMA ListedComplete ==
  ASSUME BoardInv, up, Listed, planned' = planned, NEW R, request' = Recomputed(item', R)
  PROVE  ChecklistComplete'
<1> SUFFICES ASSUME NEW r \in Live', NEW c \in planned PROVE item'[<<r, c>>].status # "none"
  BY DEF ChecklistComplete
<1>1. r \in Live /\ <<r, c>> \in Items
  BY DEF Live, Recomputed, BoardInv, BoardTypeOK, Items
<1> QED BY <1>1 DEF BoardInv, ChecklistComplete, Listed

LEMMA ClosedBoard ==
  ASSUME BoardInv, up, NEW i, NEW s, s # "none", NEW by, Close(i, s, by), planned' = planned
  PROVE  BoardMatchesItems' /\ ChecklistComplete'
<1>1. /\ \A j \in Items : j # i => item'[j] = item[j]
      /\ i \in Items => item'[i] = [status |-> s, by |-> by]
      /\ request' = Recomputed(item', {i[1]})
  BY DEF Close, BoardInv, BoardTypeOK
<1>2. \A j \in Items : j[1] # i[1] => item'[j] = item[j]
  BY <1>1
<1>3. Listed
  BY <1>1 DEF Listed
<1> DEFINE q == i[1]
<1> HIDE DEF q
<1>4. request' = Recomputed(item', {q}) /\ \A j \in Items : j[1] # q => item'[j] = item[j]
  BY <1>1, <1>2 DEF q
<1> QED BY <1>3, <1>4, RecomputedMatches, ListedComplete

LEMMA SameBoard ==
  ASSUME BoardInv, UNCHANGED boardVars, up' => up /\ planned' = planned
  PROVE  BoardMatchesItems' /\ ChecklistComplete'
BY DEF BoardInv, boardVars, BoardMatchesItems, ChecklistComplete, Live, NothingPending

LEMMA DownBoard == ASSUME up' = FALSE PROVE BoardMatchesItems' /\ ChecklistComplete'
BY DEF BoardMatchesItems, ChecklistComplete

LEMMA BoardInvNext == BoardInv /\ [Next]_vars => BoardInv'
<1> DEFINE Goal == BoardMatchesItems' /\ ChecklistComplete'
<1> SUFFICES ASSUME BoardInv, [Next]_vars PROVE Goal
  BY BoardTypeNext DEF BoardInv
<1>1. ASSUME NEW r \in Requests, NEW a \in AppAnswers, Create(r, a) PROVE Goal
  <2>1. /\ up /\ request[r] = "none" /\ request' = [request EXCEPT ![r] = Derived(item', r)]
        /\ planned' = planned
    BY <1>1 DEF Create
  <2>2. \A i \in Items : i[1] # r => item'[i] = item[i]
    BY <1>1 DEF Create
  <2>3. \A i \in Items : i[1] = r /\ i[2] \in planned => item'[i].status # "none"
    BY <1>1 DEF Create, NaBySystem, ByAppList, Pending, AppAnswers
  <2>4. request'[r] = Derived(item', r) /\ \A q \in Requests \ {r} : request'[q] = request[q]
    BY <2>1 DEF BoardInv, BoardTypeOK
  <2>5. ASSUME NEW q \in Live'
        PROVE  /\ request'[q] = "complete" <=> NothingPending(item', q)
               /\ \A c \in planned : item'[<<q, c>>].status # "none"
    <3>1. CASE q = r
      BY <2>3, <2>4, <3>1 DEF Derived, Items, BoardInv, BoardTypeOK
    <3>2. CASE q # r
      <4>1. q \in Live /\ \A c \in Codes : item'[<<q, c>>] = item[<<q, c>>]
        BY <2>2, <2>4, <3>2 DEF Live, Items
      <4> QED BY <2>1, <2>4, <3>2, <4>1
              DEF BoardInv, BoardTypeOK, BoardMatchesItems, ChecklistComplete, Live, NothingPending
    <3> QED BY <3>1, <3>2
  <2> QED BY <2>1, <2>5 DEF BoardMatchesItems, ChecklistComplete
<1>2. ASSUME NEW r \in Requests, Cancel(r) PROVE Goal
  <2>1. /\ UNCHANGED <<item, planned, up>> /\ \A q \in Live' : q \in Live /\ request'[q] = request[q]
    BY <1>2 DEF Cancel, Live, BoardInv, BoardTypeOK
  <2> QED BY <2>1 DEF BoardInv, BoardMatchesItems, ChecklistComplete, NothingPending
<1>3. ASSUME NEW i \in Items, NEW v \in ItemStatus, Decide(i, v) PROVE Goal
  BY <1>3, ClosedBoard DEF Decide, Verdicts
<1>4. ASSUME NEW i \in Items, NEW s \in {"na", "done"}, AppListLoaded(i, s) PROVE Goal
  BY <1>4, ClosedBoard DEF AppListLoaded
<1>5. ASSUME DcNext PROVE Goal
  <2>1. ASSUME NEW i \in Items, RunOnDc(i) PROVE Goal
    BY <2>1, SameBoard DEF RunOnDc
  <2>2. ASSUME NEW i \in Items, ScriptReports(i) PROVE Goal
    BY <2>2, ClosedBoard, SameBoard DEF ScriptReports, CloseIfPending, boardVars
  <2>3. ASSUME NEW b \in 0 .. MaxPolls, Poll(b) PROVE Goal
    BY <2>3, SameBoard DEF Poll
  <2>4. ASSUME NEW m \in Results, ReceiveResult(m) PROVE Goal
    BY <2>4, ClosedBoard, SameBoard DEF ReceiveResult, CloseIfPending, boardVars
  <2>5. ASSUME NEW m \in Results, ResultInterrupted(m) PROVE Goal
    BY <2>5, DownBoard DEF ResultInterrupted, Kill
  <2>6. ASSUME Agent PROVE Goal
    BY <2>6, SameBoard DEF Agent
  <2> QED BY <1>5, <2>1, <2>2, <2>3, <2>4, <2>5, <2>6 DEF DcNext
<1>6. ASSUME CallNext PROVE Goal
  <2>1. PICK h \in Handlers :
          \/ \E i \in Items : SendEmail(h, i) \/ RunInCloud(h, i)
          \/ HandoverRun(h)
          \/ EmailSent(h) \/ CloudDone(h) \/ CallFailed(h)
          \/ \E r \in Requests : HandedOver(h, r) \/ HandoverFailed(h, r)
    BY <1>6 DEF CallNext
  <2>2. ASSUME ~up PROVE Goal
    <3>1. up' = FALSE
      BY <2>1, <2>2 DEF SendEmail, RunInCloud, HandoverRun, Begin, EmailSent, CloudDone, CallFailed,
                        HandedOver, HandoverFailed, BoardInv, BoardTypeOK
    <3> QED BY <3>1, DownBoard
  <2>3. ASSUME \/ \E i \in Items : SendEmail(h, i) \/ RunInCloud(h, i)
               \/ HandoverRun(h) \/ CallFailed(h) \/ \E r \in Requests : HandoverFailed(h, r)
        PROVE  Goal
    BY <2>3, SameBoard DEF SendEmail, RunInCloud, HandoverRun, Begin, CallFailed, HandoverFailed
  <2>4. ASSUME up, EmailSent(h) PROVE Goal
    BY <2>4, ClosedBoard, SameBoard DEF EmailSent, boardVars
  <2>5. ASSUME up, CloudDone(h) PROVE Goal
    BY <2>5, ClosedBoard, SameBoard DEF CloudDone, CloseIfPending, boardVars
  <2>6. ASSUME up, NEW r \in Requests, HandedOver(h, r) PROVE Goal
    <3> DEFINE i == <<r, Handover>>
               row == [status |-> IF item[i].status = "pending" THEN "done" ELSE item[i].status,
                       by |-> "automation"]
    <3>1. /\ item' = [item EXCEPT ![i] = row] /\ planned' = planned /\ up' = up
          /\ request' = IF item[i].status = "pending" THEN Recomputed(item', {r}) ELSE request
      BY <2>6 DEF HandedOver, BoardInv, BoardTypeOK
    <3>2. /\ \A j \in Items : j[1] # r => item'[j] = item[j]
          /\ \A j \in Items : j = i => item'[j].status = row.status
          /\ \A j \in Items : j # i => item'[j] = item[j]
      BY <3>1 DEF BoardInv, BoardTypeOK
    <3>3. Listed
      BY <3>2 DEF Listed
    <3>4. CASE item[i].status = "pending"
      BY <2>6, <3>1, <3>2, <3>3, <3>4, RecomputedMatches, ListedComplete
    <3>5. CASE item[i].status # "pending"
      <4>1. \A j \in Items : item'[j].status = item[j].status
        BY <3>2, <3>5
      <4>2. request' = request
        BY <3>1, <3>5
      <4>3. \A q \in Requests, c \in Codes : item'[<<q, c>>].status = item[<<q, c>>].status
        BY <4>1 DEF Items
      <4>4. Live' = Live /\ \A q \in Requests : NothingPending(item', q) <=> NothingPending(item, q)
        BY <4>2, <4>3 DEF Live, NothingPending
      <4>5. \A q \in Live : q \in Requests
        BY DEF Live
      <4>6. planned \subseteq Codes
        BY DEF BoardInv, BoardTypeOK
      <4> HIDE DEF row, i
      <4>7. BoardMatchesItems'
        BY <2>6, <3>1, <4>2, <4>4, <4>5 DEF BoardInv, BoardMatchesItems
      <4>8. ChecklistComplete'
        BY ZenonT(30), <2>6, <3>1, <4>3, <4>4, <4>5, <4>6 DEF BoardInv, ChecklistComplete
      <4> QED
        BY <4>7, <4>8
    <3> QED BY <3>4, <3>5
  <2> QED BY <2>1, <2>2, <2>3, <2>4, <2>5, <2>6
<1>7. ASSUME NEW new \in SUBSET Codes, NEW a \in AppAnswers, Boot(new, a) PROVE Goal
  <2>1. /\ request' = Recomputed(item', Requests) /\ planned' = new
        /\ item' = [i \in Items |-> IF i[1] \in Live THEN ByAppList(Backfilled(i, new), i, a) ELSE item[i]]
    BY <1>7 DEF Boot
  <2>2. ASSUME NEW r \in Live'
        PROVE  /\ request'[r] = "complete" <=> NothingPending(item', r)
               /\ \A c \in new : item'[<<r, c>>].status # "none"
    <3>1. r \in Requests /\ r \in Live /\ request'[r] = Derived(item', r)
      BY <2>1 DEF Live, Recomputed
    <3>2. ASSUME NEW c \in new PROVE item'[<<r, c>>].status # "none"
      <4> DEFINE i == <<r, c>>
      <4>1. i \in Items /\ i[1] = r /\ i[2] = c
        BY <3>1 DEF Items
      <4> HIDE DEF i
      <4>2. item'[i] = ByAppList(Backfilled(i, new), i, a)
        BY <2>1, <3>1, <4>1
      <4>3. Backfilled(i, new).status # "none"
        BY <3>1, <4>1 DEF Backfilled, NaBySystem, Pending
      <4>4. ByAppList(Backfilled(i, new), i, a).status # "none"
        BY <4>3 DEF ByAppList, AppAnswers
      <4> QED BY <4>2, <4>4 DEF i
    <3> QED BY <3>1, <3>2 DEF Derived
  <2> QED BY <2>1, <2>2 DEF BoardMatchesItems, ChecklistComplete
<1>8. CASE UNCHANGED vars
  BY <1>8, SameBoard DEF vars
<1>9. ASSUME \/ Killed
             \/ \E r \in Requests, n \in 0 .. Len(Order) : CreateInterrupted(r, n)
             \/ \E i \in Items, v \in ItemStatus : DecideInterrupted(i, v)
             \/ \E new \in SUBSET Codes, i \in Items : BootInterrupted(new, i)
      PROVE  Goal
  <2>1. up' = FALSE
    BY <1>9 DEF Killed, CreateInterrupted, DecideInterrupted, BootInterrupted, Kill, BoardInv, BoardTypeOK
  <2> QED BY <2>1, DownBoard
<1> QED BY <1>1, <1>2, <1>3, <1>4, <1>5, <1>6, <1>7, <1>8, <1>9 DEF Next

LEMMA BoardInvInit == Init => BoardInv
<1> SUFFICES ASSUME Init PROVE BoardMatchesItems /\ ChecklistComplete
  BY BoardTypeInit DEF BoardInv
<1>1. Live = {}
  BY DEF Init, Live
<1> QED BY <1>1 DEF BoardMatchesItems, ChecklistComplete

LEMMA BoardInvariant == Spec => []BoardInv
BY BoardInvInit, BoardInvNext, PTL DEF Spec

\* A board that is served calls a request complete exactly when nothing of it is pending.
THEOREM StatusIsDerived == Spec => []BoardMatchesItems
<1>1. BoardInv => BoardMatchesItems
  BY DEF BoardInv
<1> QED BY <1>1, BoardInvariant, PTL

\* A live request has every step of the running release, however it came to be.
THEOREM NoStepMissing == Spec => []ChecklistComplete
<1>1. BoardInv => ChecklistComplete
  BY DEF BoardInv
<1> QED BY <1>1, BoardInvariant, PTL

-----------------------------------------------------------------------------
(***************************************************************************)
(* What the board says the agent did.  Only a good result closes an item   *)
(* as the agent's, and a good result is posted by an agent that ran the    *)
(* job; the rows of the queue keep what they are for.                      *)
(***************************************************************************)
NewRowsEmpty == \A j \in JobIds : j > lastJob => job[j].ref = NoRef

GoodResult(i) == \E m \in Results : RecordResult(m) /\ m.ok /\ job[m.id].ref = i

LEMMA CloseSays ==
  ASSUME BoardTypeOK, NEW i, NEW s, NEW by, by # "agent", Close(i, s, by) \/ CloseIfPending(i, s, by),
         NEW j \in Items, item'[j].by = "agent"
  PROVE  item[j].by = "agent"
BY DEF Close, CloseIfPending, BoardTypeOK

LEMMA OnlyResultsAreTheAgents ==
  ASSUME BoardTypeOK, [Next]_vars, NEW j \in Items, item'[j].by = "agent", item[j].by # "agent"
  PROVE  GoodResult(j)
<1>1. ASSUME NEW r \in Requests, NEW a \in AppAnswers, Create(r, a) PROVE FALSE
  BY <1>1 DEF Create, NaBySystem, ByAppList, Pending
<1>2. ASSUME NEW r \in Requests, NEW n \in 0 .. Len(Order), CreateInterrupted(r, n) \/ Cancel(r) PROVE FALSE
  BY <1>2 DEF CreateInterrupted, Cancel, Pending
<1>3. ASSUME NEW i \in Items, NEW v \in ItemStatus, Decide(i, v) PROVE FALSE
  BY <1>3, CloseSays DEF Decide
<1>4. ASSUME NEW i \in Items, NEW v \in ItemStatus, DecideInterrupted(i, v) PROVE FALSE
  BY <1>4 DEF DecideInterrupted, BoardTypeOK
<1>5. ASSUME NEW i \in Items, NEW s \in {"na", "done"}, AppListLoaded(i, s) PROVE FALSE
  BY <1>5, CloseSays DEF AppListLoaded
<1>6. ASSUME DcNext PROVE GoodResult(j)
  <2>1. ASSUME NEW i \in Items, RunOnDc(i) PROVE FALSE
    BY <2>1 DEF RunOnDc, boardVars
  <2>2. ASSUME NEW i \in Items, ScriptReports(i) PROVE FALSE
    BY <2>2, CloseSays DEF ScriptReports
  <2>3. ASSUME NEW b \in 0 .. MaxPolls, Poll(b) PROVE FALSE
    BY <2>3 DEF Poll, boardVars
  <2>4. ASSUME NEW m \in Results, ReceiveResult(m) PROVE GoodResult(j)
    <3>1. RecordResult(m) /\ m.ok /\ item' = [item EXCEPT ![job[m.id].ref] = [status |-> "done", by |-> "agent"]]
      BY <2>4 DEF ReceiveResult, CloseIfPending, Close
    <3>2. job[m.id].ref = j
      BY <3>1 DEF BoardTypeOK
    <3> QED BY <3>1, <3>2 DEF GoodResult
  <2>5. ASSUME NEW m \in Results, ResultInterrupted(m) PROVE GoodResult(j)
    <3>1. RecordResult(m) /\ m.ok /\ item' = [item EXCEPT ![job[m.id].ref] = [status |-> "done", by |-> "agent"]]
      BY <2>5 DEF ResultInterrupted
    <3>2. job[m.id].ref = j
      BY <3>1 DEF BoardTypeOK
    <3> QED BY <3>1, <3>2 DEF GoodResult
  <2>6. ASSUME Agent PROVE FALSE
    BY <2>6 DEF Agent, boardVars
  <2> QED BY <1>6, <2>1, <2>2, <2>3, <2>4, <2>5, <2>6 DEF DcNext
<1>7. ASSUME CallNext PROVE FALSE
  <2>1. PICK h \in Handlers :
          \/ \E i \in Items : SendEmail(h, i) \/ RunInCloud(h, i)
          \/ HandoverRun(h)
          \/ EmailSent(h) \/ CloudDone(h) \/ CallFailed(h)
          \/ \E r \in Requests : HandedOver(h, r) \/ HandoverFailed(h, r)
    BY <1>7 DEF CallNext
  <2>2. ASSUME \/ \E i \in Items : SendEmail(h, i) \/ RunInCloud(h, i)
               \/ HandoverRun(h) \/ CallFailed(h) \/ \E r \in Requests : HandoverFailed(h, r)
        PROVE  FALSE
    BY <2>2 DEF SendEmail, RunInCloud, HandoverRun, Begin, CallFailed, HandoverFailed, boardVars
  <2>3. ASSUME EmailSent(h) \/ CloudDone(h) PROVE FALSE
    BY <2>3, CloseSays DEF EmailSent, CloudDone
  <2>4. ASSUME NEW r \in Requests, HandedOver(h, r) PROVE FALSE
    BY <2>4 DEF HandedOver, BoardTypeOK
  <2> QED BY <2>1, <2>2, <2>3, <2>4
<1>8. ASSUME Killed PROVE FALSE
  BY <1>8 DEF Killed, boardVars
<1>9. ASSUME NEW new \in SUBSET Codes, NEW a \in AppAnswers, Boot(new, a) PROVE FALSE
  BY <1>9 DEF Boot, Backfilled, ByAppList, NaBySystem, Pending
<1>10. ASSUME NEW new \in SUBSET Codes, NEW i \in Items, BootInterrupted(new, i) PROVE FALSE
  BY <1>10 DEF BootInterrupted, Pending, BoardTypeOK
<1>11. CASE UNCHANGED vars
  BY <1>11 DEF vars, boardVars
<1> QED BY <1>1, <1>2, <1>3, <1>4, <1>5, <1>6, <1>7, <1>8, <1>9, <1>10, <1>11 DEF Next

LEMMA AppliedForGood ==
  ASSUME JobsTypeOK, (\E i \in Items : RunOnDc(i)) \/ QueueStep \/ UNCHANGED jobVars,
         NEW j \in JobIds, applied[j] > 0
  PROVE  applied'[j] > 0
<1>1. ASSUME NEW i \in Items, RunOnDc(i) PROVE applied'[j] > 0
  BY <1>1 DEF RunOnDc, Enqueue
<1>2. ASSUME QueueStep PROVE applied'[j] > 0
  <2>1. ASSUME NEW k \in JobIds, AgentSucceeds(k) PROVE applied'[j] > 0
    BY <2>1 DEF AgentSucceeds, JobsTypeOK
  <2>2. ASSUME NEW k \in JobIds, AgentFails(k) PROVE applied'[j] > 0
    BY <2>2 DEF AgentFails
  <2>3. ASSUME NEW k \in JobIds, AgentDies(k) PROVE applied'[j] > 0
    <3>1. PICK n \in {0, 1} : applied' = [applied EXCEPT ![k] = @ + n]
      BY <2>3 DEF AgentDies
    <3> QED BY <3>1 DEF JobsTypeOK
  <2>4. ASSUME (\E b \in 0 .. MaxPolls : ClaimPending(b)) \/ \E m \in Results : RecordResult(m)
        PROVE  applied'[j] > 0
    <3>1. applied' = applied
      BY <2>4 DEF ClaimPending, RecordResult
    <3> QED BY <3>1
  <2> QED BY <1>2, <2>1, <2>2, <2>3, <2>4 DEF QueueStep, AgentStep
<1>3. CASE UNCHANGED jobVars
  BY <1>3 DEF jobVars
<1> QED BY <1>1, <1>2, <1>3

AgentInv == BoardTypeOK /\ JobsInv /\ NewRowsEmpty /\ ClosedByAgentWasApplied

LEMMA AgentInvNext == AgentInv /\ JobsInv' /\ [Next]_vars => AgentInv'
<1> SUFFICES ASSUME AgentInv, JobsInv', [Next]_vars PROVE AgentInv'
  OBVIOUS
<1>1. BoardTypeOK /\ JobsTypeOK /\ BoardTypeOK'
  BY BoardTypeNext DEF AgentInv, JobsInv
<1>2. ASSUME NEW i \in Items, RunOnDc(i)
      PROVE  NewRowsEmpty' /\ \A j \in JobIds : j <= lastJob => job'[j].ref = job[j].ref
  <2>1. lastJob' = lastJob + 1 /\ \A j \in JobIds : j # lastJob + 1 => job'[j] = job[j]
    BY <1>1, <1>2 DEF RunOnDc, Enqueue, JobsTypeOK
  <2>2. lastJob \in Nat /\ \A j \in JobIds : j \in Nat
    BY <1>1, DcJobsAssumption DEF JobsTypeOK, JobIds
  <2> QED BY <2>1, <2>2 DEF AgentInv, NewRowsEmpty
<1>3. ASSUME QueueStep \/ UNCHANGED jobVars
      PROVE  NewRowsEmpty' /\ \A j \in JobIds : job'[j].ref = job[j].ref
  <2>1. lastJob' = lastJob
    BY <1>3 DEF QueueStep, ClaimPending, RecordResult, AgentStep, AgentSucceeds, AgentFails, AgentDies, jobVars
  <2>2. \A j \in JobIds : job'[j].ref = job[j].ref
    BY <1>1, <1>3, RefKept
  <2> QED BY <2>1, <2>2 DEF AgentInv, NewRowsEmpty
<1>4. NewRowsEmpty' /\ \A j \in JobIds : job[j].ref \in Items => job'[j].ref = job[j].ref
  <2>1. \A j \in JobIds : job[j].ref \in Items => j <= lastJob
    BY <1>1, DcJobsAssumption, OffboardingAssumption DEF AgentInv, NewRowsEmpty, JobsTypeOK, JobIds
  <2> QED BY <1>2, <1>3, <2>1, BoardSteps
<1>5. ClosedByAgentWasApplied'
  <2> SUFFICES ASSUME NEW i \in Items, item'[i].by = "agent"
               PROVE  \E j \in JobIds : job'[j].ref = i /\ applied'[j] > 0
    BY DEF ClosedByAgentWasApplied
  <2>1. PICK j \in JobIds : job[j].ref = i /\ applied[j] > 0
    <3>1. CASE item[i].by = "agent"
      BY <3>1 DEF AgentInv, ClosedByAgentWasApplied
    <3>2. CASE item[i].by # "agent"
      <4>1. PICK m \in Results : RecordResult(m) /\ m.ok /\ job[m.id].ref = i
        BY <1>1, <3>2, OnlyResultsAreTheAgents DEF GoodResult
      <4> QED BY <4>1 DEF RecordResult, AgentInv, JobsInv, PostedApplied, Results
    <3> QED BY <3>1, <3>2
  <2> QED BY <1>1, <1>4, <2>1, AppliedForGood, BoardSteps
<1> QED BY <1>1, <1>4, <1>5 DEF AgentInv

\* A step the board shows as closed by the agent took effect in Active Directory.
THEOREM TheAgentDidIt == Spec => []ClosedByAgentWasApplied
<1>1. Init => BoardTypeOK /\ NewRowsEmpty /\ ClosedByAgentWasApplied
  BY BoardTypeInit DEF Init, JobsInit, NewRowsEmpty, ClosedByAgentWasApplied, Missing
<1>2. Spec => []JobsInv
  BY BoardImplementsJobs, JobsInvariant, PTL
<1>3. AgentInv /\ JobsInv' /\ [Next]_vars => AgentInv'
  BY AgentInvNext
<1>4. AgentInv => ClosedByAgentWasApplied
  BY DEF AgentInv
<1>5. BoardTypeOK /\ NewRowsEmpty /\ ClosedByAgentWasApplied /\ JobsInv => AgentInv
  BY DEF AgentInv
<1> QED BY <1>1, <1>2, <1>3, <1>4, <1>5, PTL DEF Spec
=============================================================================
