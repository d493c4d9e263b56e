------------------------------- MODULE DcJobs -------------------------------
(***************************************************************************)
(* The domain-controller job queue (services/dcJobs.ts).  The server       *)
(* enqueues writes to Active Directory; the agent on the domain controller *)
(* polls for them, runs them one by one, and posts each result back.  A    *)
(* claim that is not answered in ten minutes returns to the queue, whether *)
(* or not the agent is still at it.                                        *)
(*                                                                         *)
(* The agent (dc-agent/collect-ad-inventory.ps1) may run a job, fail, or   *)
(* die with it in its hands; it posts one result per job it ran.  The      *)
(* network may deliver that result late, more than once, or never.         *)
(***************************************************************************)
EXTENDS Integers, FiniteSets

CONSTANTS
  Refs,       \* what a job may be for (ref_type and ref_id)
  NoRef,      \* "no job" (a model value)
  Limit,      \* jobs handed out per poll (25 in the code)
  MaxJobs,    \* bound: rows of dc_jobs
  MaxPolls    \* bound: polls of the agent that hand something out

JobIds == 1 .. MaxJobs

ASSUME DcJobsAssumption ==
  /\ Limit \in Nat \ {0}
  /\ MaxJobs \in Nat
  /\ MaxPolls \in Nat
  /\ NoRef \notin Refs

VARIABLES
  job,      \* dc_jobs
  lastJob,  \* AUTOINCREMENT of dc_jobs
  polls,    \* polls so far; orders claimed_at
  held,     \* copies of a job the agent has been given and not finished
  posted,   \* results the agent has sent, to arrive never, once or often
  applied,  \* Active Directory: how often each job took effect
  reclaims  \* history: how often an unanswered claim went back to the queue

jobVars == <<job, lastJob, polls, held, posted, applied, reclaims>>

JobStatus == {"none", "pending", "claimed", "done", "error"}
JobRow == [status: JobStatus, ref: Refs \cup {NoRef}, claimedAt: 0 .. MaxPolls]
Results == [id: JobIds, ok: BOOLEAN]

JobsTypeOK ==
  /\ job \in [JobIds -> JobRow]
  /\ lastJob \in 0 .. MaxJobs
  /\ polls \in 0 .. MaxPolls
  /\ held \in [JobIds -> Nat]
  /\ posted \subseteq Results
  /\ applied \in [JobIds -> Nat]
  /\ reclaims \in [JobIds -> Nat]

JobsInit ==
  /\ job = [j \in JobIds |-> [status |-> "none", ref |-> NoRef, claimedAt |-> 0]]
  /\ lastJob = 0
  /\ polls = 0
  /\ held = [j \in JobIds |-> 0]
  /\ posted = {}
  /\ applied = [j \in JobIds |-> 0]
  /\ reclaims = [j \in JobIds |-> 0]

-----------------------------------------------------------------------------
Enqueue(ref) ==
  /\ lastJob < MaxJobs
  /\ lastJob' = lastJob + 1
  /\ job' = [job EXCEPT ![lastJob + 1] = [status |-> "pending", ref |-> ref, claimedAt |-> 0]]
  /\ UNCHANGED <<polls, held, posted, applied, reclaims>>

Claimed == {j \in JobIds : job[j].status = "claimed"}

\* Claims of poll b and earlier are older than STALE_MINUTES.
Stale(b) == {j \in Claimed : job[j].claimedAt <= b}

\* The first Limit of the waiting jobs, by id.
HandOut(waiting) == {j \in waiting : Cardinality({i \in waiting : i < j}) < Limit}

Waiting(b) == Stale(b) \cup {j \in JobIds : job[j].status = "pending"}

\* Mutant: the rows handed out are not marked claimed.
Unmarked(b, out) ==
  [j \in JobIds |-> IF j \in Waiting(b) THEN [job[j] EXCEPT !.status = "pending"] ELSE job[j]]

\* The rows after a poll that handed out the jobs of out.
Marked(b, out) ==
  [j \in JobIds |->
     IF j \in out THEN [job[j] EXCEPT !.status = "claimed", !.claimedAt = polls + 1]
     ELSE IF j \in Waiting(b) THEN [job[j] EXCEPT !.status = "pending"]
     ELSE job[j]]

\* One transaction: reclaim what is stale, then claim what is pending.
ClaimPending(b) ==
  LET out == HandOut(Waiting(b)) IN
  /\ polls < MaxPolls
  /\ out # {}
  /\ polls' = polls + 1
  /\ job' = Marked(b, out)
  /\ held' = [j \in JobIds |-> IF j \in out THEN held[j] + 1 ELSE held[j]]
  /\ reclaims' = [j \in JobIds |-> IF j \in Stale(b) THEN reclaims[j] + 1 ELSE reclaims[j]]
  /\ UNCHANGED <<lastJob, posted, applied>>

Post(j, ok) == posted' = posted \cup {[id |-> j, ok |-> ok]}

AgentSucceeds(j) ==
  /\ held[j] > 0
  /\ held' = [held EXCEPT ![j] = @ - 1]
  /\ applied' = [applied EXCEPT ![j] = @ + 1]
  /\ Post(j, TRUE)
  /\ UNCHANGED <<job, lastJob, polls, reclaims>>

AgentFails(j) ==
  /\ held[j] > 0
  /\ held' = [held EXCEPT ![j] = @ - 1]
  /\ Post(j, FALSE)
  /\ UNCHANGED <<job, lastJob, polls, applied, reclaims>>

\* The agent dies with the job in its hands, before or after it took effect.
AgentDies(j) ==
  /\ held[j] > 0
  /\ held' = [held EXCEPT ![j] = @ - 1]
  /\ \E n \in {0, 1} : applied' = [applied EXCEPT ![j] = @ + n]
  /\ UNCHANGED <<job, lastJob, polls, posted, reclaims>>

AgentStep == \E j \in JobIds : AgentSucceeds(j) \/ AgentFails(j) \/ AgentDies(j)

\* The first half of completeJob: the row.  A row already 'done' is left alone.
RecordResult(m) ==
  /\ m \in posted
  /\ job[m.id].status # "done"
  /\ job' = [job EXCEPT ![m.id].status = IF m.ok THEN "done" ELSE "error"]
  /\ UNCHANGED <<lastJob, polls, held, posted, applied, reclaims>>

-----------------------------------------------------------------------------
JobsNext ==
  \/ \E ref \in Refs : Enqueue(ref)
  \/ \E b \in 0 .. MaxPolls : ClaimPending(b)
  \/ AgentStep
  \/ \E m \in Results : RecordResult(m)

JobsSpec == JobsInit /\ [][JobsNext]_jobVars

-----------------------------------------------------------------------------
HandedOut(j) == held[j] + applied[j]

\* A job whose row says done did change Active Directory: a reclaimed claim, a late failure
\* and a repeated result leave no row that claims more than happened.
DoneWasApplied == \A j \in JobIds : job[j].status = "done" => applied[j] > 0

\* Once the row says done it stays: results of other copies of the job arrive to no effect.
DoneIsFinal == [][\A j \in JobIds : job[j].status = "done" => job'[j] = job[j]]_jobVars

\* A job is given to the agent a second time, and can take effect a second time, only after
\* a claim of it ran out: polls, late answers and repeated answers hand nothing out.
OnceUnlessStale == \A j \in JobIds : HandedOut(j) <= 1 + reclaims[j]
=============================================================================
