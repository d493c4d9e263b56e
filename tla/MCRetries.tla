------------------------------ MODULE MCRetries ------------------------------
(* What is tried again until it succeeds: the platform's events, the timer of *)
(* the integrations, and the pull of ServiceTrade's accounts.  They share no  *)
(* state, so each behaviour is one of one of them.                            *)
EXTENDS Dispatcher, SyncTimer

CONSTANTS
  Accounts, Sites, Invoices, Quotes, Jobs, Deficiencies, Old, Parent, PageSize,
  MaxTime, MaxChanges, MaxActs

MCParent == [r \in Sites \cup Invoices |-> CHOOSE a \in Accounts : TRUE]

VARIABLES part, now, remote, completed, mirror, skipped, cursor, noted, pull, disturbed, acts

mirrorVars == <<now, remote, completed, mirror, skipped, cursor, noted, pull, disturbed, acts>>

ServiceTrade == INSTANCE Mirror

EventStep(A) == part = "events" /\ A /\ UNCHANGED <<part, syncVars, mirrorVars>>
SyncStep(A) == part = "syncs" /\ A /\ UNCHANGED <<part, dispatcherVars, mirrorVars>>
MirrorStep(A) == part = "mirror" /\ A /\ UNCHANGED <<part, dispatcherVars, syncVars>>

parts == <<part, dispatcherVars, syncVars, mirrorVars>>

MCInit ==
  /\ part \in {"events", "syncs", "mirror"}
  /\ DispatcherInit /\ SyncInit /\ ServiceTrade!Init

MCNext ==
  \/ EventStep(DispatcherNext)
  \/ SyncStep(SyncNext)
  \/ MirrorStep(ServiceTrade!Next)

(* DispatcherFairness, SyncFairness and Mirror's Fairness.  A step of one part *)
(* is never enabled in another, so one condition stands for one of each.      *)
Fetched(n) == ServiceTrade!Fetch("sync") /\ pull["sync"].entity = "accounts" /\ pull["sync"].page = n

MCFairness ==
  /\ WF_parts(EventStep(Tick) \/ MirrorStep(ServiceTrade!ScheduledSync))
  /\ WF_parts(\/ SyncStep(SyncEnds(1))
              \/ MirrorStep(ServiceTrade!Fetch("sync") \/ ServiceTrade!FetchFails("sync")))
  /\ WF_parts(\/ SyncStep(SyncEnds(2))
              \/ MirrorStep(ServiceTrade!NextPage("sync") \/ ServiceTrade!Finish("sync")))
  /\ \A e \in Events : WF_parts(EventStep(Dispatched(e) \/ Failed(e)))
  /\ SF_parts(\/ EventStep(\E e \in Events \ Refused : Take(e)) \/ SyncStep(SyncTick) \/ MirrorStep(Fetched(1)))
  /\ SF_parts(\/ EventStep(\E e \in Events \ Refused : Dispatched(e)) \/ MirrorStep(Fetched(2)))
  /\ SF_parts(MirrorStep(Fetched(3)))

MCSpec == MCInit /\ [][MCNext]_parts /\ MCFairness

(* EverySyncRuns, of the behaviours of the timer.                             *)
SyncsGoOn == part = "syncs" => EverySyncRuns

(* CatchesUp of Mirror: an account is in the end as ServiceTrade has it,      *)
(* although pages fail again and again.                                       *)
AccountsCatchUp == ServiceTrade!CatchesUp
=============================================================================
