---------------------------- MODULE DcJobsProofs ----------------------------
(***************************************************************************)
(* Theorems about the job queue, for any number of jobs, polls and jobs    *)
(* per poll, and an agent that fails, dies and repeats itself at will.     *)
(***************************************************************************)
EXTENDS DcJobs, TLAPS

LEMMA JobsTypeInit == JobsInit => JobsTypeOK
BY DcJobsAssumption DEF JobsInit, JobsTypeOK, JobRow, JobStatus, JobIds

LEMMA MarkedType ==
  ASSUME JobsTypeOK, NEW b, NEW out, polls < MaxPolls
  PROVE  Marked(b, out) \in [JobIds -> JobRow]
<1>1. polls + 1 \in 0 .. MaxPolls
  BY DcJobsAssumption DEF JobsTypeOK
<1>2. ASSUME NEW j \in JobIds
      PROVE  /\ [job[j] EXCEPT !.status = "claimed", !.claimedAt = polls + 1] \in JobRow
             /\ [job[j] EXCEPT !.status = "pending"] \in JobRow
             /\ job[j] \in JobRow
  BY <1>1 DEF JobsTypeOK, JobRow, JobStatus
<1> QED BY <1>2 DEF Marked

LEMMA PostType ==
  ASSUME JobsTypeOK, NEW j \in JobIds, NEW ok \in BOOLEAN, Post(j, ok)
  PROVE  posted' \subseteq Results
<1>1. [id |-> j, ok |-> ok] \in Results
  BY DEF Results
<1> QED BY <1>1 DEF JobsTypeOK, Post

LEMMA SetJobType ==
  ASSUME JobsTypeOK, NEW m \in Results, RecordResult(m)
  PROVE  job' \in [JobIds -> JobRow]
BY ZenonT(30) DEF JobsTypeOK, RecordResult, JobRow, JobStatus

LEMMA JobsTypeNext == JobsTypeOK /\ [JobsNext]_jobVars => JobsTypeOK'
<1> SUFFICES ASSUME JobsTypeOK, [JobsNext]_jobVars PROVE JobsTypeOK'
  OBVIOUS
<1> USE DcJobsAssumption
<1>1. ASSUME NEW ref \in Refs, Enqueue(ref) PROVE JobsTypeOK'
  <2>1. lastJob + 1 \in JobIds /\ lastJob + 1 \in 0 .. MaxJobs
    BY <1>1 DEF JobsTypeOK, Enqueue, JobIds
  <2>2. job' \in [JobIds -> JobRow]
    BY <1>1, <2>1 DEF JobsTypeOK, Enqueue, JobRow, JobStatus
  <2> QED BY <1>1, <2>1, <2>2 DEF JobsTypeOK, Enqueue
<1>2. ASSUME NEW b \in 0 .. MaxPolls, ClaimPending(b) PROVE JobsTypeOK'
  <2>1. job' \in [JobIds -> JobRow]
    BY <1>2, MarkedType DEF ClaimPending
  <2> QED BY <1>2, <2>1 DEF JobsTypeOK, ClaimPending
<1>3. ASSUME NEW j \in JobIds, AgentSucceeds(j) PROVE JobsTypeOK'
  <2>1. posted' \subseteq Results
    BY <1>3, PostType DEF AgentSucceeds
  <2> QED BY <1>3, <2>1 DEF JobsTypeOK, AgentSucceeds
<1>4. ASSUME NEW j \in JobIds, AgentFails(j) PROVE JobsTypeOK'
  <2>1. posted' \subseteq Results
    BY <1>4, PostType DEF AgentFails
  <2> QED BY <1>4, <2>1 DEF JobsTypeOK, AgentFails
<1>5. ASSUME NEW j \in JobIds, AgentDies(j) PROVE JobsTypeOK'
  BY <1>5 DEF JobsTypeOK, AgentDies
<1>6. ASSUME NEW m \in Results, RecordResult(m) PROVE JobsTypeOK'
  BY <1>6, SetJobType DEF JobsTypeOK, RecordResult
<1>7. CASE UNCHANGED jobVars
  BY <1>7 DEF JobsTypeOK, jobVars
<1> QED BY <1>1, <1>2, <1>3, <1>4, <1>5, <1>6, <1>7 DEF JobsNext, AgentStep

\* The rows, claims and results of the queue always have their types.
THEOREM JobsTypeCorrect == JobsSpec => []JobsTypeOK
<1>1. JobsInit => JobsTypeOK
  BY JobsTypeInit
<1>2. JobsTypeOK /\ [JobsNext]_jobVars => JobsTypeOK'
  BY JobsTypeNext
<1> QED BY <1>1, <1>2, PTL DEF JobsSpec

-----------------------------------------------------------------------------
(***************************************************************************)
(* What is inductive.  A row that AUTOINCREMENT has not reached is known   *)
(* to nobody; a waiting row may be handed out once more, and that hand-out *)
(* is already within the budget of one plus the claims that ran out.       *)
(***************************************************************************)
Unused(j) == job[j].status = "none" /\ held[j] = 0 /\ \A m \in posted : m.id # j
Fresh == \A j \in JobIds : j > lastJob => Unused(j)

MayHandOut(j) == IF job[j].status \in {"none", "pending"} THEN 1 ELSE 0
JobBudget == \A j \in JobIds : HandedOut(j) + MayHandOut(j) <= 1 + reclaims[j]

PostedApplied == \A m \in posted : m.ok => applied[m.id] > 0

JobsInv == JobsTypeOK /\ Fresh /\ JobBudget /\ PostedApplied /\ DoneWasApplied

LEMMA JobsInvInit == JobsInit => JobsInv
BY JobsTypeInit
   DEF JobsInit, JobsInv, Fresh, Unused, JobBudget, HandedOut, MayHandOut, PostedApplied,
       DoneWasApplied

LEMMA FreshNext == JobsInv /\ [JobsNext]_jobVars => Fresh'
<1> SUFFICES ASSUME JobsInv, [JobsNext]_jobVars, NEW k \in JobIds, k > lastJob'
             PROVE  Unused(k)'
  BY DEF Fresh
<1> USE DcJobsAssumption DEF JobsInv, JobsTypeOK, Fresh, Unused
<1>1. ASSUME NEW ref \in Refs, Enqueue(ref) PROVE Unused(k)'
  BY <1>1 DEF Enqueue, JobIds
<1>2. ASSUME NEW b \in 0 .. MaxPolls, ClaimPending(b) PROVE Unused(k)'
  BY <1>2 DEF ClaimPending, Marked, HandOut, Waiting, Stale, Claimed
<1>3. ASSUME NEW j \in JobIds, AgentSucceeds(j) PROVE Unused(k)'
  BY <1>3 DEF AgentSucceeds, Post
<1>4. ASSUME NEW j \in JobIds, AgentFails(j) PROVE Unused(k)'
  BY <1>4 DEF AgentFails, Post
<1>5. ASSUME NEW j \in JobIds, AgentDies(j) PROVE Unused(k)'
  BY <1>5 DEF AgentDies
<1>6. ASSUME NEW m \in Results, RecordResult(m) PROVE Unused(k)'
  BY <1>6 DEF RecordResult
<1>7. CASE UNCHANGED jobVars
  BY <1>7 DEF jobVars
<1> QED BY <1>1, <1>2, <1>3, <1>4, <1>5, <1>6, <1>7 DEF JobsNext, AgentStep

LEMMA BudgetNext == JobsInv /\ [JobsNext]_jobVars => JobBudget'
<1> DEFINE Within(k) == HandedOut(k) + MayHandOut(k) <= 1 + reclaims[k]
<1> SUFFICES ASSUME JobsInv, [JobsNext]_jobVars, NEW k \in JobIds
             PROVE  Within(k)'
  BY DEF JobBudget
<1> USE DEF JobsInv, JobsTypeOK, JobBudget, HandedOut, MayHandOut
<1>1. ASSUME NEW ref \in Refs, Enqueue(ref) PROVE Within(k)'
  <2>1. lastJob + 1 \in JobIds
    BY <1>1, DcJobsAssumption DEF Enqueue, JobIds
  <2>2. job[lastJob + 1].status = "none"
    BY <2>1, DcJobsAssumption DEF Fresh, Unused
  <2> QED BY <1>1, <2>1, <2>2 DEF Enqueue
<1>2. ASSUME NEW b \in 0 .. MaxPolls, ClaimPending(b) PROVE Within(k)'
  <2> DEFINE out == HandOut(Waiting(b))
  <2>1. CASE k \in Stale(b)
    <3>1. job[k].status = "claimed" /\ reclaims'[k] = reclaims[k] + 1
      BY <1>2, <2>1 DEF ClaimPending, Stale, Claimed
    <3>2. k \in out => job'[k].status = "claimed" /\ held'[k] = held[k] + 1
      BY <1>2 DEF ClaimPending, Marked, JobRow
    <3>3. k \notin out => held'[k] = held[k]
      BY <1>2 DEF ClaimPending
    <3> QED BY <1>2, <3>1, <3>2, <3>3 DEF ClaimPending
  <2>2. CASE k \notin Stale(b) /\ k \in out
    <3>1. job[k].status = "pending"
      BY <2>2 DEF HandOut, Waiting
    <3>2. job'[k].status = "claimed"
      BY <1>2, <2>2 DEF ClaimPending, Marked, JobRow
    <3> QED BY <1>2, <2>2, <3>1, <3>2 DEF ClaimPending
  <2>3. CASE k \notin Stale(b) /\ k \notin out
    <3>1. job'[k].status = job[k].status
      BY <1>2, <2>3 DEF ClaimPending, Marked, Waiting, JobRow
    <3> QED BY <1>2, <2>3, <3>1 DEF ClaimPending
  <2> QED BY <2>1, <2>2, <2>3
<1>3. ASSUME NEW j \in JobIds, AgentSucceeds(j) PROVE Within(k)'
  BY <1>3 DEF AgentSucceeds
<1>4. ASSUME NEW j \in JobIds, AgentFails(j) PROVE Within(k)'
  BY <1>4 DEF AgentFails
<1>5. ASSUME NEW j \in JobIds, AgentDies(j) PROVE Within(k)'
  BY <1>5 DEF AgentDies
<1>6. ASSUME NEW m \in Results, RecordResult(m) PROVE Within(k)'
  BY <1>6 DEF RecordResult, JobRow
<1>7. CASE UNCHANGED jobVars
  BY <1>7 DEF jobVars
<1> QED BY <1>1, <1>2, <1>3, <1>4, <1>5, <1>6, <1>7 DEF JobsNext, AgentStep

LEMMA AppliedNext == JobsInv /\ [JobsNext]_jobVars => PostedApplied' /\ DoneWasApplied'
<1> SUFFICES ASSUME JobsInv, [JobsNext]_jobVars PROVE PostedApplied' /\ DoneWasApplied'
  OBVIOUS
<1> USE DEF JobsInv, JobsTypeOK, PostedApplied, DoneWasApplied, Results
<1>1. ASSUME NEW ref \in Refs, Enqueue(ref) PROVE PostedApplied' /\ DoneWasApplied'
  BY <1>1 DEF Enqueue
<1>2. ASSUME NEW b \in 0 .. MaxPolls, ClaimPending(b) PROVE PostedApplied' /\ DoneWasApplied'
  BY <1>2 DEF ClaimPending, Marked, JobRow
<1>3. ASSUME NEW j \in JobIds, AgentSucceeds(j) PROVE PostedApplied' /\ DoneWasApplied'
  BY <1>3 DEF AgentSucceeds, Post
<1>4. ASSUME NEW j \in JobIds, AgentFails(j) PROVE PostedApplied' /\ DoneWasApplied'
  BY <1>4 DEF AgentFails, Post
<1>5. ASSUME NEW j \in JobIds, AgentDies(j) PROVE PostedApplied' /\ DoneWasApplied'
  BY <1>5 DEF AgentDies
<1>6. ASSUME NEW m \in Results, RecordResult(m) PROVE PostedApplied' /\ DoneWasApplied'
  BY <1>6 DEF RecordResult, JobRow
<1>7. CASE UNCHANGED jobVars
  BY <1>7 DEF jobVars
<1> QED BY <1>1, <1>2, <1>3, <1>4, <1>5, <1>6, <1>7 DEF JobsNext, AgentStep

LEMMA JobsInvNext == JobsInv /\ [JobsNext]_jobVars => JobsInv'
BY JobsTypeNext, FreshNext, BudgetNext, AppliedNext DEF JobsInv

\* The inductive invariant of the queue holds throughout.
THEOREM JobsInvariant == JobsSpec => []JobsInv
BY JobsInvInit, JobsInvNext, PTL DEF JobsSpec

-----------------------------------------------------------------------------
\* A job is in the agent's hands or in Active Directory at most once more than its claims ran
\* out, however polls, deaths, late answers and repeated answers interleave.
THEOREM OnceUnlessReclaimed == JobsSpec => []OnceUnlessStale
<1>1. JobsInv => OnceUnlessStale
  BY DEF JobsInv, JobsTypeOK, JobBudget, MayHandOut, HandedOut, OnceUnlessStale
<1> QED BY <1>1, JobsInvariant, PTL

\* A row that says done stands for a change that happened.
THEOREM DoneIsTrue == JobsSpec => []DoneWasApplied
<1>1. JobsInv => DoneWasApplied
  BY DEF JobsInv
<1> QED BY <1>1, JobsInvariant, PTL

LEMMA DoneKept ==
  ASSUME JobsInv, [JobsNext]_jobVars, NEW k \in JobIds, job[k].status = "done"
  PROVE  job'[k] = job[k]
<1> USE DEF JobsInv, JobsTypeOK
<1>1. ASSUME NEW ref \in Refs, Enqueue(ref) PROVE job'[k] = job[k]
  <2>1. job[lastJob + 1].status = "none"
    BY <1>1, DcJobsAssumption DEF Enqueue, JobIds, Fresh, Unused
  <2> QED BY <1>1, <2>1 DEF Enqueue
<1>2. ASSUME NEW b \in 0 .. MaxPolls, ClaimPending(b) PROVE job'[k] = job[k]
  BY <1>2 DEF ClaimPending, Marked, HandOut, Waiting, Stale, Claimed
<1>3. ASSUME NEW j \in JobIds, AgentSucceeds(j) \/ AgentFails(j) \/ AgentDies(j)
      PROVE  job'[k] = job[k]
  BY <1>3 DEF AgentSucceeds, AgentFails, AgentDies
<1>4. ASSUME NEW m \in Results, RecordResult(m) PROVE job'[k] = job[k]
  BY <1>4 DEF RecordResult
<1>5. CASE UNCHANGED jobVars
  BY <1>5 DEF jobVars
<1> QED BY <1>1, <1>2, <1>3, <1>4, <1>5 DEF JobsNext, AgentStep

\* No later result, reclaim or poll touches a row that says done.
THEOREM DoneStays == JobsSpec => DoneIsFinal
<1>1. JobsInv /\ [JobsNext]_jobVars
        => [\A j \in JobIds : job[j].status = "done" => job'[j] = job[j]]_jobVars
  BY DoneKept
<1> QED BY <1>1, JobsInvariant, PTL DEF JobsSpec, DoneIsFinal
=============================================================================
