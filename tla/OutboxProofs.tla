---------------------------- MODULE OutboxProofs ----------------------------
(***************************************************************************)
(* Theorems about the outbox, for any number of quotes, contents,          *)
(* recipients, requests, approvals and restarts.                           *)
(***************************************************************************)
EXTENDS Outbox, FiniteSetTheorems, TLAPS

LEMMA KeyType ==
  ASSUME NEW k \in Keys
  PROVE  k[1] \in Quotes /\ k[2] \in Contents /\ k[3] \in Recipients
BY DEF Keys

LEMMA SupersedeType ==
  ASSUME TypeOK, NEW q, NEW k
  PROVE  SupersedeExcept(q, k) \in [Keys -> ActionRow]
BY DEF TypeOK, SupersedeExcept, ActionRow, ActionStatus

LEMMA RequestType ==
  ASSUME NEW r \in Routes, NEW f \in Phases, NEW p \in 0 .. MaxApprovals,
         NEW rest \in SUBSET ApprovalIds
  PROVE  Request(r, f, p, rest) \in RequestState
BY DEF Request, RequestState

LEMMA IdleType == Idle \in RequestState
BY RequestType, OutboxAssumption DEF Idle, Routes, Phases

LEMMA TypeInit == Init => TypeOK
BY OutboxAssumption, IdleType
   DEF Init, TypeOK, ActionRow, ApprovalRow, ActionStatus, ApprovalStatus, ApprovalIds

LEMMA ResumeType ==
  ASSUME TypeOK, NEW h \in Handlers, Resume(h)
  PROVE  handler' \in [Handlers -> RequestState]
<1>1. handler[h].rest \in SUBSET ApprovalIds
  BY DEF TypeOK, RequestState
<1>2. Request("approve-routine", "loop", 0, handler[h].rest) \in RequestState
  BY <1>1, RequestType, OutboxAssumption DEF Routes, Phases
<1> QED BY <1>2, IdleType DEF TypeOK, Resume

LEMMA KillType ==
  ASSUME TypeOK, Kill
  PROVE  /\ handler' \in [Handlers -> RequestState]
         /\ restarts' \in 0 .. MaxRestarts
BY OutboxAssumption, IdleType DEF TypeOK, Kill

LEMMA DecideType ==
  ASSUME TypeOK, NEW p \in ApprovalIds, NEW s \in ApprovalStatus, Decide(p, s)
  PROVE  approval' \in [ApprovalIds -> ApprovalRow]
BY DEF TypeOK, Decide, ApprovalRow

LEMMA SetStatusType ==
  ASSUME TypeOK, NEW k, NEW s \in ActionStatus, action' = [action EXCEPT ![k].status = s]
  PROVE  action' \in [Keys -> ActionRow]
BY DEF TypeOK, ActionRow

LEMMA SetPhaseType ==
  ASSUME TypeOK, NEW h, NEW f \in Phases, handler' = [handler EXCEPT ![h].phase = f]
  PROVE  handler' \in [Handlers -> RequestState]
BY DEF TypeOK, RequestState

LEMMA TypeNext == TypeOK /\ [Next]_vars => TypeOK'
<1> SUFFICES ASSUME TypeOK, [Next]_vars PROVE TypeOK'
  OBVIOUS
<1> USE OutboxAssumption
<1>1. ASSUME NEW q \in Quotes, NEW c \in Contents, EditQuote(q, c) PROVE TypeOK'
  BY <1>1, SupersedeType DEF EditQuote, TypeOK
<1>2. ASSUME NEW q \in Quotes, NEW c \in Contents, EditInterrupted(q, c) PROVE TypeOK'
  BY <1>2, KillType DEF EditInterrupted, TypeOK, tables
<1>3. ASSUME NEW q \in Quotes, ArchiveQuote(q) PROVE TypeOK'
  BY <1>3, SupersedeType DEF ArchiveQuote, TypeOK
<1>4. ASSUME NEW q \in Quotes, ArchiveInterrupted(q) PROVE TypeOK'
  BY <1>4, KillType DEF ArchiveInterrupted, TypeOK, tables
<1>5. ASSUME NEW q \in Quotes, NEW t \in Recipients, QueueSend(q, t) PROVE TypeOK'
  <2> DEFINE k == <<q, content[q], t>>
             fresh == PendingFor(q) = {}
             p == IF fresh THEN lastApproval + 1 ELSE CHOOSE x \in PendingFor(q) : TRUE
             isNew == action[k].status = "none"
  <2>1. k \in Keys
    BY DEF TypeOK, Keys
  <2>2. p \in ApprovalIds
    BY <1>5 DEF QueueSend
  <2> HIDE DEF k, p, fresh
  <2>3. action' \in [Keys -> ActionRow]
    <3>1. action' = [SupersedeExcept(q, k) EXCEPT
                       ![k] = [status |-> "pending_approval",
                               id |-> IF isNew THEN lastAction + 1 ELSE action[k].id,
                               approval |-> p]]
      BY <1>5 DEF QueueSend, k, p, fresh
    <3> QED BY <2>1, <2>2, <3>1, SupersedeType DEF TypeOK, ActionRow, ActionStatus, ApprovalIds
  <2>4. approval' \in [ApprovalIds -> ApprovalRow]
    <3>1. approval' = [approval EXCEPT
                         ![p] = [status |-> "pending", shown |-> k,
                                 risk |-> IF fresh THEN Risk(k) ELSE approval[p].risk]]
      BY <1>5 DEF QueueSend, k, p, fresh
    <3> QED BY <2>1, <2>2, <3>1 DEF TypeOK, ApprovalRow, ApprovalStatus, Risk
  <2>5. lastApproval' \in 0 .. MaxApprovals
    BY <1>5, <2>2 DEF QueueSend, TypeOK, ApprovalIds, p, fresh
  <2>6. lastAction' \in Nat
    BY <1>5 DEF QueueSend, TypeOK
  <2>7. reopened' \in [Keys -> Nat]
    BY <1>5, <2>1 DEF QueueSend, TypeOK, k
  <2> QED BY <1>5, <2>3, <2>4, <2>5, <2>6, <2>7 DEF QueueSend, TypeOK
<1>6. ASSUME NEW p \in ApprovalIds, Skip(p) PROVE TypeOK'
  BY <1>6, DecideType DEF Skip, TypeOK, ApprovalStatus
<1>7. ASSUME NEW p \in ApprovalIds, NEW h \in Handlers, Approve(h, p) PROVE TypeOK'
  <2>1. Request("approve", "step", p, {}) \in RequestState
    BY RequestType DEF Routes, Phases, ApprovalIds
  <2> QED BY <1>7, <2>1, DecideType DEF Approve, TypeOK, ApprovalStatus
<1>8. ASSUME NEW h \in Handlers, ApproveRoutine(h) PROVE TypeOK'
  <2> DEFINE rows == {p \in ApprovalIds : approval[p].status = "pending" /\ approval[p].risk = "routine"}
  <2>1. Request("approve-routine", "loop", 0, rows) \in RequestState
    BY RequestType DEF Routes, Phases
  <2> QED BY <1>8, <2>1 DEF ApproveRoutine, TypeOK, tables
<1>9. ASSUME NEW h \in Handlers, NextRoutine(h) PROVE TypeOK'
  <2>1. PICK p \in handler[h].rest :
          /\ IF approval[p].status = "pending" THEN Decide(p, "approved") ELSE UNCHANGED approval
          /\ handler' = [handler EXCEPT ![h] = Request("approve-routine", "step", p, handler[h].rest \ {p})]
    BY <1>9 DEF NextRoutine
  <2>2. p \in ApprovalIds /\ handler[h].rest \ {p} \in SUBSET ApprovalIds
    BY <2>1 DEF TypeOK, RequestState
  <2>3. approval' \in [ApprovalIds -> ApprovalRow]
    BY <2>1, <2>2, DecideType DEF TypeOK, ApprovalStatus
  <2>4. handler' \in [Handlers -> RequestState]
    <3>1. Request("approve-routine", "step", p, handler[h].rest \ {p}) \in RequestState
      BY <2>2, RequestType DEF Routes, Phases, ApprovalIds
    <3> QED BY <2>1, <3>1 DEF TypeOK
  <2> QED BY <1>9, <2>3, <2>4 DEF NextRoutine, TypeOK
<1>10. ASSUME NEW h \in Handlers, RefuseClaim(h) PROVE TypeOK'
  BY <1>10, ResumeType DEF RefuseClaim, TypeOK, tables
<1>11. ASSUME NEW h \in Handlers, NEW k \in Keys, Claim(h, k) PROVE TypeOK'
  <2>1. action' \in [Keys -> ActionRow]
    BY <1>11, SetStatusType DEF Claim, ActionStatus
  <2>2. handler' \in [Handlers -> RequestState]
    <3>1. handler' = [handler EXCEPT ![h].phase = "claimed", ![h].key = k]
      BY <1>11 DEF Claim
    <3>2. [handler[h] EXCEPT !.phase = "claimed", !.key = k] \in RequestState
      BY DEF TypeOK, RequestState, Phases
    <3> QED BY <3>1, <3>2 DEF TypeOK
  <2>3. reopened' \in [Keys -> Nat]
    BY <1>11 DEF Claim, TypeOK
  <2> QED BY <1>11, <2>1, <2>2, <2>3 DEF Claim, TypeOK
<1>12. ASSUME NEW h \in Handlers, CallProvider(h) PROVE TypeOK'
  BY <1>12, SetPhaseType DEF CallProvider, TypeOK, Phases, tables
<1>13. ASSUME NEW h \in Handlers, RefuseRevision(h) PROVE TypeOK'
  BY <1>13, SetStatusType, ResumeType DEF RefuseRevision, TypeOK, ActionStatus
<1>14. ASSUME NEW h \in Handlers, ProviderAccepts(h) PROVE TypeOK'
  <2>1. delivered' \in [Keys -> Nat]
    <3>1. \A k \in Keys : delivered[k] + 1 \in Nat
      BY DEF TypeOK
    <3> QED BY <1>14, <3>1 DEF ProviderAccepts, TypeOK
  <2>2. handler' \in [Handlers -> RequestState]
    BY <1>14, SetPhaseType DEF ProviderAccepts, Phases
  <2> QED BY <1>14, <2>1, <2>2 DEF ProviderAccepts, TypeOK, tables
<1>15. ASSUME NEW h \in Handlers, RecordSent(h) PROVE TypeOK'
  BY <1>15, SetStatusType, ResumeType DEF RecordSent, TypeOK, ActionStatus
<1>16. ASSUME NEW h \in Handlers, RecordFailed(h) PROVE TypeOK'
  <2>1. "failed" \in ActionStatus /\ action' = [action EXCEPT ![handler[h].key].status = "failed"]
    BY <1>16 DEF RecordFailed, ActionStatus
  <2>2. action' \in [Keys -> ActionRow]
    BY <2>1, SetStatusType
  <2> QED BY <1>16, <2>2, ResumeType DEF RecordFailed, TypeOK
<1>17. CASE Restart
  BY <1>17, KillType DEF Restart, TypeOK, tables
<1>18. CASE UNCHANGED vars
  BY <1>18 DEF vars, TypeOK
<1> QED
  BY <1>1, <1>2, <1>3, <1>4, <1>5, <1>6, <1>7, <1>8, <1>9, <1>10, <1>11, <1>12, <1>13,
     <1>14, <1>15, <1>16, <1>17, <1>18 DEF Next, HandlerStep

\* Every reachable state of the outbox is well-typed, whatever the instance.
THEOREM TypeCorrect == Spec => []TypeOK
BY TypeInit, TypeNext, PTL DEF Spec

-----------------------------------------------------------------------------
(***************************************************************************)
(* One releasable action per quote.  Only QueueSend opens an action, and   *)
(* it supersedes the quote's others in the same transaction.               *)
(***************************************************************************)

\* Steps that open no action keep the invariant.
LEMMA NoneOpened ==
  ASSUME OnePendingPerQuote,
         \A k \in Keys : action'[k].status \in Open => action[k].status \in Open
  PROVE  OnePendingPerQuote'
BY DEF OnePendingPerQuote, Open

LEMMA SupersedeOpensNone ==
  ASSUME TypeOK, NEW q, NEW k
  PROVE  \A j \in Keys : /\ SupersedeExcept(q, k)[j].status \in Open => action[j].status \in Open
                         /\ j[1] = q /\ j # k => SupersedeExcept(q, k)[j].status \notin Open
BY DEF TypeOK, ActionRow, SupersedeExcept, Open

LEMMA SetStatusOpensNone ==
  ASSUME TypeOK, NEW j, NEW s, s \notin Open, action' = [action EXCEPT ![j].status = s]
  PROVE  \A k \in Keys : action'[k].status \in Open => action[k].status \in Open
BY DEF TypeOK, ActionRow, Open

LEMMA OnePendingNext == TypeOK /\ OnePendingPerQuote /\ [Next]_vars => OnePendingPerQuote'
<1> SUFFICES ASSUME TypeOK, OnePendingPerQuote, [Next]_vars PROVE OnePendingPerQuote'
  OBVIOUS
<1>1. ASSUME NEW q \in Quotes, NEW t \in Recipients, QueueSend(q, t) PROVE OnePendingPerQuote'
  <2> DEFINE k == <<q, content[q], t>>
  <2>1. k \in Keys /\ k[1] = q
    BY DEF TypeOK, Keys
  <2>2. PICK row : action' = [SupersedeExcept(q, k) EXCEPT ![k] = row]
    BY <1>1 DEF QueueSend
  <2>3. \A j \in Keys : j # k => action'[j] = SupersedeExcept(q, k)[j]
    BY <2>2 DEF SupersedeExcept
  <2> HIDE DEF k
  <2>4. \A j \in Keys : /\ j[1] = q /\ j # k => action'[j].status \notin Open
                        /\ j # k /\ action'[j].status \in Open => action[j].status \in Open
    BY <2>3, SupersedeOpensNone
  <2> QED BY <2>1, <2>4 DEF OnePendingPerQuote
<1>2. ASSUME NEW q \in Quotes, NEW c \in Contents, EditQuote(q, c) PROVE OnePendingPerQuote'
  <2>1. action' = SupersedeExcept(q, NoKey)
    BY <1>2 DEF EditQuote
  <2> QED BY <2>1, SupersedeOpensNone, NoneOpened
<1>3. ASSUME NEW q \in Quotes, ArchiveQuote(q) PROVE OnePendingPerQuote'
  <2>1. action' = SupersedeExcept(q, NoKey)
    BY <1>3 DEF ArchiveQuote
  <2> QED BY <2>1, SupersedeOpensNone, NoneOpened
<1>4. ASSUME NEW h \in Handlers, NEW k \in Keys, Claim(h, k) PROVE OnePendingPerQuote'
  BY <1>4, SetStatusOpensNone, NoneOpened DEF Claim, Open
<1>5. ASSUME NEW h \in Handlers, RefuseRevision(h) PROVE OnePendingPerQuote'
  <2>1. "superseded" \notin Open /\ action' = [action EXCEPT ![handler[h].key].status = "superseded"]
    BY <1>5 DEF RefuseRevision, Open
  <2> QED BY <2>1, SetStatusOpensNone, NoneOpened
<1>6. ASSUME NEW h \in Handlers, RecordSent(h) PROVE OnePendingPerQuote'
  <2>1. "sent" \notin Open /\ action' = [action EXCEPT ![handler[h].key].status = "sent"]
    BY <1>6 DEF RecordSent, Open
  <2> QED BY <2>1, SetStatusOpensNone, NoneOpened
<1>7. ASSUME NEW h \in Handlers, RecordFailed(h) PROVE OnePendingPerQuote'
  <2>1. "failed" \notin Open /\ action' = [action EXCEPT ![handler[h].key].status = "failed"]
    BY <1>7 DEF RecordFailed, Open
  <2> QED BY <2>1, SetStatusOpensNone, NoneOpened
<1>8. CASE UNCHANGED action
  BY <1>8, NoneOpened
<1> QED
  BY <1>1, <1>2, <1>3, <1>4, <1>5, <1>6, <1>7, <1>8
     DEF Next, HandlerStep, EditInterrupted, ArchiveInterrupted, Skip, Approve, ApproveRoutine,
         NextRoutine, RefuseClaim, CallProvider, ProviderAccepts, Restart, tables, vars

\* However edits, re-queues, failures and restarts interleave, a quote never has two actions
\* that a person could still release (queueProposalSend supersedes the others).
THEOREM OnePending == Spec => []OnePendingPerQuote
<1>1. Init => OnePendingPerQuote
  BY DEF Init, OnePendingPerQuote, Open
<1> QED BY <1>1, TypeInit, TypeNext, OnePendingNext, PTL DEF Spec

-----------------------------------------------------------------------------
(***************************************************************************)
(* Rows left in 'sending'.                                                 *)
(***************************************************************************)

\* A step in which only a request that is not working changes, and no action starts sending.
LEMMA OrphanFrame ==
  ASSUME TypeOK, OrphanNeedsRestart, NEW h,
         \A g \in Handlers : g # h => handler'[g] = handler[g],
         Working(h) => (\A k \in Keys : handler[h].key = k => action'[k].status # "sending"),
         \A k \in Keys : action'[k].status = "sending" => action[k].status = "sending",
         restarts' = restarts
  PROVE  OrphanNeedsRestart'
BY DEF OrphanNeedsRestart, Working

LEMMA OrphanNext == TypeOK /\ OrphanNeedsRestart /\ [Next]_vars => OrphanNeedsRestart'
<1> SUFFICES ASSUME TypeOK, OrphanNeedsRestart, [Next]_vars PROVE OrphanNeedsRestart'
  OBVIOUS
<1>1. ASSUME Kill PROVE OrphanNeedsRestart'
  BY <1>1, OutboxAssumption DEF Kill, TypeOK, OrphanNeedsRestart
<1>2. ASSUME NEW q, NEW k, action' = SupersedeExcept(q, k), UNCHANGED <<handler, restarts>>
      PROVE  OrphanNeedsRestart'
  <2>1. \A j \in Keys : action'[j].status = "sending" => action[j].status = "sending"
    BY <1>2 DEF SupersedeExcept, TypeOK, ActionRow
  <2> QED BY <1>2, <2>1 DEF OrphanNeedsRestart, Working
<1>3. ASSUME NEW q \in Quotes, NEW t \in Recipients, QueueSend(q, t) PROVE OrphanNeedsRestart'
  <2> DEFINE k == <<q, content[q], t>>
  <2>1. PICK i, p : action' = [SupersedeExcept(q, k) EXCEPT
                                 ![k] = [status |-> "pending_approval", id |-> i, approval |-> p]]
    BY <1>3 DEF QueueSend
  <2> HIDE DEF k
  <2>2. \A j \in Keys : action'[j].status = "sending" => action[j].status = "sending"
    BY <2>1 DEF SupersedeExcept, TypeOK, ActionRow
  <2>3. UNCHANGED <<handler, restarts>>
    BY <1>3 DEF QueueSend
  <2> QED BY <2>2, <2>3 DEF OrphanNeedsRestart, Working
<1>4. ASSUME NEW h \in Handlers, ~Working(h), \A g \in Handlers : g # h => handler'[g] = handler[g],
             UNCHANGED <<action, restarts>>
      PROVE  OrphanNeedsRestart'
  BY <1>4 DEF OrphanNeedsRestart, Working
<1>5. ASSUME NEW h \in Handlers, NEW k \in Keys, Claim(h, k) PROVE OrphanNeedsRestart'
  <2>1. /\ handler'[h].phase = "claimed" /\ handler'[h].key = k
        /\ \A g \in Handlers : g # h => handler'[g] = handler[g]
        /\ ~Working(h)
        /\ restarts' = restarts
    BY <1>5 DEF Claim, TypeOK, RequestState, Working
  <2>2. \A j \in Keys : j # k => action'[j] = action[j]
    BY <1>5 DEF Claim, TypeOK
  <2> QED BY <2>1, <2>2 DEF OrphanNeedsRestart, Working
<1>6. ASSUME NEW h \in Handlers, CallProvider(h) \/ ProviderAccepts(h) PROVE OrphanNeedsRestart'
  <2>1. /\ handler'[h].phase \in {"calling", "accepted"} /\ handler'[h].key = handler[h].key
        /\ \A g \in Handlers : g # h => handler'[g] = handler[g]
        /\ UNCHANGED <<action, restarts>>
    BY <1>6 DEF CallProvider, ProviderAccepts, TypeOK, RequestState, tables
  <2> QED BY <2>1 DEF OrphanNeedsRestart, Working
<1>7. ASSUME NEW h \in Handlers, RefuseRevision(h) \/ RecordSent(h) \/ RecordFailed(h)
      PROVE  OrphanNeedsRestart'
  <2>1. PICK s \in {"superseded", "sent", "failed"} :
          action' = [action EXCEPT ![handler[h].key].status = s]
    BY <1>7 DEF RefuseRevision, RecordSent, RecordFailed
  <2>2. \A k \in Keys : /\ k = handler[h].key => action'[k].status # "sending"
                        /\ k # handler[h].key => action'[k] = action[k]
    BY <2>1 DEF TypeOK, ActionRow
  <2>3. /\ \A g \in Handlers : g # h => handler'[g] = handler[g]
        /\ restarts' = restarts
    BY <1>7 DEF RefuseRevision, RecordSent, RecordFailed, Resume, TypeOK
  <2> QED BY <2>2, <2>3, OrphanFrame DEF Working
<1>8. ASSUME NEW h \in Handlers, NextRoutine(h) PROVE OrphanNeedsRestart'
  BY <1>8, <1>4 DEF NextRoutine, Working, TypeOK
<1>9. ASSUME NEW h \in Handlers, RefuseClaim(h) PROVE OrphanNeedsRestart'
  BY <1>9, <1>4 DEF RefuseClaim, Resume, Working, TypeOK, tables
<1>10. ASSUME NEW h \in Handlers, ApproveRoutine(h) PROVE OrphanNeedsRestart'
  BY <1>10, <1>4 DEF ApproveRoutine, Working, TypeOK, tables
<1>11. ASSUME NEW h \in Handlers, NEW p \in ApprovalIds, Approve(h, p) PROVE OrphanNeedsRestart'
  BY <1>11, <1>4 DEF Approve, Working, TypeOK
<1>12. CASE UNCHANGED <<action, handler, restarts>>
  BY <1>12 DEF OrphanNeedsRestart, Working
<1> QED
  BY <1>1, <1>2, <1>3, <1>5, <1>6, <1>7, <1>8, <1>9, <1>10, <1>11, <1>12
     DEF Next, HandlerStep, EditQuote, ArchiveQuote, EditInterrupted, ArchiveInterrupted,
         Skip, Restart, vars

\* A row is left in 'sending', which no request will finish, only by a restart: executeAction
\* itself records an outcome on each of its paths.
THEOREM OrphanRule == Spec => []OrphanNeedsRestart
<1>1. Init => OrphanNeedsRestart
  BY DEF Init, OrphanNeedsRestart
<1> QED BY <1>1, TypeInit, TypeNext, OrphanNext, PTL DEF Spec

-----------------------------------------------------------------------------
(***************************************************************************)
(* One mail per opening.  The claim transaction hands an opening to one    *)
(* request; a mail already taken and a request that may still get one      *)
(* taken draw on the same budget.                                          *)
(***************************************************************************)
MaySend(h, k) == handler[h].key = k /\ handler[h].phase \in {"claimed", "calling"}
Senders(k) == {h \in Handlers : MaySend(h, k)}
Begun(k) == IF action[k].status \in {"sending", "sent", "failed"} THEN 1 ELSE 0

Budget == \A k \in Keys : delivered[k] + Cardinality(Senders(k)) <= reopened[k] + Begun(k)

LEMMA SendersFinite ==
  ASSUME NEW k PROVE IsFiniteSet(Senders(k)) /\ Cardinality(Senders(k)) \in Nat
BY OutboxAssumption, FS_Subset, FS_CardinalityType DEF Senders

LEMMA SendersFinitePrime ==
  ASSUME NEW k PROVE IsFiniteSet(Senders(k)') /\ Cardinality(Senders(k)') \in Nat
BY OutboxAssumption, FS_Subset, FS_CardinalityType DEF Senders

\* What changes at one key when requests other than h stay as they are.
LEMMA SendersStep ==
  ASSUME NEW h \in Handlers, NEW k,
         \A g \in Handlers : g # h => handler'[g] = handler[g]
  PROVE  /\ ~MaySend(h, k) /\ MaySend(h, k)' => Cardinality(Senders(k)') = Cardinality(Senders(k)) + 1
         /\ MaySend(h, k) /\ ~MaySend(h, k)' => Cardinality(Senders(k)') = Cardinality(Senders(k)) - 1
         /\ (MaySend(h, k) <=> MaySend(h, k)') => Senders(k)' = Senders(k)
<1>1. ASSUME ~MaySend(h, k), MaySend(h, k)'
      PROVE  Cardinality(Senders(k)') = Cardinality(Senders(k)) + 1
  <2>1. Senders(k)' = Senders(k) \cup {h} /\ h \notin Senders(k)
    BY <1>1 DEF Senders, MaySend
  <2> QED BY <2>1, SendersFinite, FS_AddElement
<1>2. ASSUME MaySend(h, k), ~MaySend(h, k)'
      PROVE  Cardinality(Senders(k)') = Cardinality(Senders(k)) - 1
  <2>1. Senders(k)' = Senders(k) \ {h} /\ h \in Senders(k)
    BY <1>2 DEF Senders, MaySend
  <2> QED BY <2>1, SendersFinite, FS_RemoveElement
<1>3. ASSUME MaySend(h, k) <=> MaySend(h, k)' PROVE Senders(k)' = Senders(k)
  BY <1>3 DEF Senders, MaySend
<1> QED BY <1>1, <1>2, <1>3

\* A step that sends nothing, adds no sender and closes no action keeps the budget.
LEMMA BudgetFrame ==
  ASSUME TypeOK, TypeOK', Budget, UNCHANGED <<delivered, reopened>>,
         \A k \in Keys : Cardinality(Senders(k)') <= Cardinality(Senders(k)) /\ Begun(k)' >= Begun(k)
  PROVE  Budget'
<1> SUFFICES ASSUME NEW k \in Keys
             PROVE  delivered'[k] + Cardinality(Senders(k)') <= reopened'[k] + Begun(k)'
  BY DEF Budget
<1>1. delivered[k] + Cardinality(Senders(k)) <= reopened[k] + Begun(k)
  BY DEF Budget
<1>2. /\ delivered[k] \in Nat /\ reopened[k] \in Nat
      /\ Begun(k) \in Nat /\ Begun(k)' \in Nat
  BY DEF TypeOK, Begun
<1> QED BY <1>1, <1>2, SendersFinite, SendersFinitePrime

LEMMA SameSenders ==
  ASSUME UNCHANGED handler, NEW k PROVE Senders(k)' = Senders(k)
BY DEF Senders, MaySend

LEMMA SupersedeBegun ==
  ASSUME TypeOK, NEW q, NEW k, action' = SupersedeExcept(q, k), NEW j \in Keys
  PROVE  Begun(j)' = Begun(j)
BY DEF SupersedeExcept, Begun, Open, TypeOK, ActionRow

LEMMA BudgetNext == TypeOK /\ TypeOK' /\ Budget /\ [Next]_vars => Budget'
<1> SUFFICES ASSUME TypeOK, TypeOK', Budget, [Next]_vars PROVE Budget'
  OBVIOUS
<1>0. \A k \in Keys : /\ delivered[k] \in Nat /\ reopened[k] \in Nat /\ Begun(k) \in Nat
                     /\ Cardinality(Senders(k)) \in Nat /\ Cardinality(Senders(k)') \in Nat
  BY SendersFinite, SendersFinitePrime DEF TypeOK, Begun
<1>1. ASSUME Kill, UNCHANGED <<delivered, reopened>>,
             \A k \in Keys : Begun(k)' = Begun(k)
      PROVE  Budget'
  <2>1. \A k \in Keys : Senders(k)' = {}
    BY <1>1 DEF Kill, Senders, MaySend, Idle, Request
  <2>2. \A k \in Keys : Cardinality(Senders(k)') <= Cardinality(Senders(k))
    BY <2>1, <1>0, FS_EmptySet
  <2> QED BY <1>1, <2>2, <1>0, BudgetFrame
<1>2. ASSUME NEW q, UNCHANGED <<handler, delivered, reopened>>, action' = SupersedeExcept(q, NoKey)
      PROVE  Budget'
  BY <1>2, <1>0, SameSenders, SupersedeBegun, BudgetFrame
<1>3. ASSUME NEW q \in Quotes, NEW t \in Recipients, QueueSend(q, t) PROVE Budget'
  <2>0. PICK k \in Keys : k = <<q, content[q], t>>
    BY DEF TypeOK, Keys
  <2>1. PICK i, p : action' = [SupersedeExcept(q, k) EXCEPT
                                 ![k] = [status |-> "pending_approval", id |-> i, approval |-> p]]
    BY <1>3, <2>0 DEF QueueSend
  <2>2. /\ UNCHANGED <<handler, delivered>>
        /\ action[k].status # "sent"
        /\ reopened' = [reopened EXCEPT ![k] = IF action[k].status \in {"sending", "failed"} THEN @ + 1 ELSE @]
    BY <1>3, <2>0 DEF QueueSend
  <2>3. ASSUME NEW j \in Keys, j # k
        PROVE  Begun(j)' = Begun(j) /\ reopened'[j] = reopened[j]
    BY <2>1, <2>2, <2>3 DEF SupersedeExcept, Begun, Open, TypeOK, ActionRow
  <2>4. reopened'[k] + Begun(k)' >= reopened[k] + Begun(k)
    <3>1. CASE action[k].status \in {"sending", "failed"}
      BY <2>2, <3>1 DEF Begun, TypeOK
    <3>2. CASE action[k].status \notin {"sending", "failed"}
      <4>1. Begun(k) = 0 /\ reopened'[k] = reopened[k]
        BY <2>2, <3>2 DEF Begun, TypeOK
      <4> QED BY <4>1, <1>0 DEF Begun, TypeOK
    <3> QED BY <3>1, <3>2
  <2>5. ASSUME NEW j \in Keys
        PROVE  delivered'[j] + Cardinality(Senders(j)') <= reopened'[j] + Begun(j)'
    <3>1. Senders(j)' = Senders(j) /\ delivered'[j] = delivered[j]
      BY <2>2, SameSenders
    <3>2. delivered[j] + Cardinality(Senders(j)) <= reopened[j] + Begun(j)
      BY DEF Budget
    <3>3. reopened'[j] + Begun(j)' >= reopened[j] + Begun(j)
      <4>1. CASE j = k
        BY <2>4, <4>1
      <4>2. CASE j # k
        BY <1>0, <2>3, <4>2
      <4> QED BY <4>1, <4>2
    <3>4. reopened'[j] \in Nat /\ Begun(j)' \in Nat
      BY DEF TypeOK, Begun
    <3> QED BY <3>1, <3>2, <3>3, <3>4, <1>0
  <2> QED BY <2>5 DEF Budget
<1>4. ASSUME NEW h \in Handlers, UNCHANGED <<action, delivered, reopened>>,
             \A g \in Handlers : g # h => handler'[g] = handler[g],
             \A k \in Keys : MaySend(h, k)' => MaySend(h, k)
      PROVE  Budget'
  <2>1. \A k \in Keys : Cardinality(Senders(k)') <= Cardinality(Senders(k)) /\ Begun(k)' = Begun(k)
    BY <1>0, <1>4, SendersStep DEF Begun
  <2> QED BY <1>0, <1>4, <2>1, BudgetFrame
<1>5. ASSUME NEW h \in Handlers, NEW k \in Keys, Claim(h, k) PROVE Budget'
  <2>1. /\ \A g \in Handlers : g # h => handler'[g] = handler[g]
        /\ \A j \in Keys : ~MaySend(h, j)
        /\ \A j \in Keys : j # k => ~MaySend(h, j)'
        /\ MaySend(h, k)'
    BY <1>5 DEF Claim, MaySend, TypeOK, RequestState
  <2>2. ASSUME NEW j \in Keys, j # k
        PROVE  Senders(j)' = Senders(j) /\ Begun(j)' = Begun(j) /\ reopened'[j] = reopened[j]
    BY <1>5, <2>1, <2>2, SendersStep DEF Claim, Begun, TypeOK, ActionRow
  <2>3. Cardinality(Senders(k)') = Cardinality(Senders(k)) + 1
    BY <2>1, SendersStep
  <2>4. reopened'[k] + Begun(k)' = reopened[k] + Begun(k) + 1
    <3>1. Begun(k)' = 1
      BY <1>5 DEF Claim, Begun, TypeOK, ActionRow
    <3>2. CASE action[k].status = "failed"
      BY <1>5, <3>1, <3>2 DEF Claim, Begun, TypeOK
    <3>3. CASE action[k].status # "failed"
      BY <1>5, <3>1, <3>3 DEF Claim, Begun, TypeOK, Settled
    <3> QED BY <3>2, <3>3
  <2>5. ASSUME NEW j \in Keys
        PROVE  delivered'[j] + Cardinality(Senders(j)') <= reopened'[j] + Begun(j)'
    <3>1. delivered[j] + Cardinality(Senders(j)) <= reopened[j] + Begun(j) /\ delivered' = delivered
      BY <1>5 DEF Budget, Claim
    <3>2. CASE j # k
      BY <2>2, <3>1, <3>2
    <3>3. CASE j = k
      <4>1. reopened'[k] \in Nat /\ Begun(k)' \in Nat
        BY DEF TypeOK, Begun
      <4> QED BY <2>3, <2>4, <3>1, <3>3, <4>1, <1>0
    <3> QED BY <3>2, <3>3
  <2> QED BY <2>5 DEF Budget
<1>6. ASSUME NEW h \in Handlers, ProviderAccepts(h) PROVE Budget'
  <2> DEFINE k == handler[h].key
  <2>1. /\ \A g \in Handlers : g # h => handler'[g] = handler[g]
        /\ \A j \in Keys : ~MaySend(h, j)'
        /\ \A j \in Keys : MaySend(h, j) <=> j = k
    BY <1>6 DEF ProviderAccepts, MaySend, TypeOK, RequestState
  <2>2. delivered' = [delivered EXCEPT ![k] = @ + 1] /\ UNCHANGED <<action, reopened>>
    BY <1>6 DEF ProviderAccepts, tables
  <2> HIDE DEF k
  <2>3. ASSUME NEW j \in Keys
        PROVE  delivered'[j] + Cardinality(Senders(j)') = delivered[j] + Cardinality(Senders(j))
    <3>1. CASE j = k
      <4>1. Cardinality(Senders(j)') = Cardinality(Senders(j)) - 1 /\ delivered'[j] = delivered[j] + 1
        BY <2>1, <2>2, <3>1, SendersStep DEF TypeOK
      <4> QED BY <4>1, <1>0
    <3>2. CASE j # k
      <4>1. Senders(j)' = Senders(j) /\ delivered'[j] = delivered[j]
        BY <2>1, <2>2, <3>2, SendersStep DEF TypeOK
      <4> QED BY <4>1
    <3> QED BY <3>1, <3>2
  <2>4. \A j \in Keys : Begun(j)' = Begun(j)
    BY <2>2 DEF Begun
  <2> QED BY <2>2, <2>3, <2>4 DEF Budget
<1>7. ASSUME NEW h \in Handlers, RefuseRevision(h) PROVE Budget'
  <2> DEFINE k == handler[h].key
  <2>1. /\ action' = [action EXCEPT ![k].status = "superseded"]
        /\ UNCHANGED <<delivered, reopened>>
        /\ \A g \in Handlers : g # h => handler'[g] = handler[g]
        /\ \A j \in Keys : ~MaySend(h, j)'
        /\ \A j \in Keys : MaySend(h, j) <=> j = k
    BY <1>7 DEF RefuseRevision, Resume, MaySend, Idle, Request, TypeOK, RequestState
  <2> HIDE DEF k
  <2>2. ASSUME NEW j \in Keys
        PROVE  delivered'[j] + Cardinality(Senders(j)') <= reopened'[j] + Begun(j)'
    <3>1. delivered[j] + Cardinality(Senders(j)) <= reopened[j] + Begun(j)
      BY DEF Budget
    <3>2. CASE j = k
      <4>1. Cardinality(Senders(j)') = Cardinality(Senders(j)) - 1
        BY <2>1, <3>2, SendersStep
      <4>2. Begun(j) <= 1 /\ Begun(j)' = 0
        BY <2>1, <3>2 DEF Begun, TypeOK, ActionRow
      <4> QED BY <2>1, <3>1, <4>1, <4>2, <1>0
    <3>3. CASE j # k
      <4>1. Senders(j)' = Senders(j)
        BY <2>1, <3>3, SendersStep
      <4>2. Begun(j)' = Begun(j)
        BY <2>1, <3>3 DEF Begun, TypeOK, ActionRow
      <4> QED BY <2>1, <3>1, <4>1, <4>2
    <3> QED BY <3>2, <3>3
  <2> QED BY <2>2 DEF Budget
<1>8. ASSUME NEW h \in Handlers, RecordSent(h) \/ RecordFailed(h) PROVE Budget'
  <2>1. PICK s \in {"sent", "failed"} : action' = [action EXCEPT ![handler[h].key].status = s]
    BY <1>8 DEF RecordSent, RecordFailed
  <2>2. /\ UNCHANGED <<delivered, reopened>>
        /\ \A g \in Handlers : g # h => handler'[g] = handler[g]
        /\ \A j \in Keys : ~MaySend(h, j)'
    BY <1>8 DEF RecordSent, RecordFailed, Resume, MaySend, Idle, Request, TypeOK, RequestState
  <2>3. \A j \in Keys : Cardinality(Senders(j)') <= Cardinality(Senders(j))
    BY <1>0, <2>2, SendersStep
  <2>4. \A j \in Keys : Begun(j)' >= Begun(j)
    BY <2>1 DEF Begun, TypeOK, ActionRow
  <2> QED BY <2>2, <2>3, <2>4, BudgetFrame
<1>9. ASSUME NEW h \in Handlers, CallProvider(h) PROVE Budget'
  BY <1>9, <1>4 DEF CallProvider, MaySend, TypeOK, RequestState, tables
<1>10. ASSUME NEW h \in Handlers, NextRoutine(h) PROVE Budget'
  BY <1>10, <1>4 DEF NextRoutine, MaySend, Request, TypeOK
<1>11. ASSUME NEW h \in Handlers, RefuseClaim(h) PROVE Budget'
  BY <1>11, <1>4 DEF RefuseClaim, Resume, MaySend, Idle, Request, TypeOK, tables
<1>12. ASSUME NEW h \in Handlers, ApproveRoutine(h) PROVE Budget'
  BY <1>12, <1>4 DEF ApproveRoutine, MaySend, Request, TypeOK, tables
<1>13. ASSUME NEW h \in Handlers, NEW p \in ApprovalIds, Approve(h, p) PROVE Budget'
  BY <1>13, <1>4 DEF Approve, MaySend, Request, TypeOK
<1>14. CASE UNCHANGED <<action, handler, delivered, reopened>>
  BY <1>14, <1>0, SameSenders, BudgetFrame DEF Begun
<1>15. ASSUME Restart \/ \E q \in Quotes : ArchiveInterrupted(q) \/ \E c \in Contents : EditInterrupted(q, c)
       PROVE  Budget'
  <2>1. Kill /\ UNCHANGED <<action, delivered, reopened>>
    BY <1>15 DEF Restart, ArchiveInterrupted, EditInterrupted, tables
  <2> QED BY <2>1, <1>1 DEF Begun
<1> QED
  BY <1>2, <1>3, <1>5, <1>6, <1>7, <1>8, <1>9, <1>10, <1>11, <1>12, <1>13, <1>14, <1>15
     DEF Next, HandlerStep, EditQuote, ArchiveQuote, Skip, vars

\* A second mail of the same quote, content and recipient needs a second opening of the
\* action: the claim transaction of executeAction releases an opening once.
THEOREM OncePerOpening == Spec => []AtMostOncePerOpening
<1>1. Init => Budget
  <2> SUFFICES ASSUME Init, NEW k \in Keys
               PROVE  delivered[k] + Cardinality(Senders(k)) <= reopened[k] + Begun(k)
    BY DEF Budget
  <2>1. Senders(k) = {}
    BY DEF Init, Senders, MaySend, Idle, Request
  <2> QED BY <2>1, FS_EmptySet DEF Init, Begun
<1>2. TypeOK /\ Budget => AtMostOncePerOpening
  <2> SUFFICES ASSUME TypeOK, Budget, NEW k \in Keys PROVE delivered[k] <= 1 + reopened[k]
    BY DEF AtMostOncePerOpening
  <2>1. delivered[k] + Cardinality(Senders(k)) <= reopened[k] + Begun(k)
    BY DEF Budget
  <2> QED BY <2>1, SendersFinite DEF TypeOK, Begun
<1> QED BY <1>1, <1>2, TypeInit, TypeNext, BudgetNext, PTL DEF Spec

-----------------------------------------------------------------------------
(***************************************************************************)
(* What a mail under way was approved as.  A decided approval never        *)
(* changes again, so it is enough to follow it from the decision to the    *)
(* claim: an action that is still open names the approval that shows it.   *)
(***************************************************************************)
Decided == {"approved", "skipped"}
Holding(h) == handler[h].phase \in {"step", "claimed", "calling", "accepted"}

OpenIsShown ==
  \A k \in Keys :
    action[k].status \in Open =>
      /\ action[k].approval \in 1 .. lastApproval
      /\ approval[action[k].approval].shown = k

RequestSound(h) ==
  /\ \A p \in handler[h].rest : approval[p].status # "none"
  /\ Holding(h) =>
       /\ handler[h].approval \in ApprovalIds
       /\ approval[handler[h].approval].status \in Decided
       /\ handler[h].route = "approve" => approval[handler[h].approval].status = "approved"
  /\ Working(h) =>
       /\ handler[h].key \in Keys
       /\ reopened[handler[h].key] = 0 => approval[handler[h].approval].shown = handler[h].key

ApprovalInv ==
  /\ \A p \in ApprovalIds : p > lastApproval => approval[p].status = "none"
  /\ OpenIsShown
  /\ \A h \in Handlers : RequestSound(h)

\* What a step leaves of the approvals, and of the count of openings.
DecisionsStand ==
  \A p \in ApprovalIds : /\ approval[p].status \in Decided => approval'[p] = approval[p]
                         /\ approval[p].status # "none" => approval'[p].status # "none"
ReopenedGrows == \A k \in Keys : reopened'[k] = 0 => reopened[k] = 0

LEMMA DecideStands ==
  ASSUME TypeOK, NEW p \in ApprovalIds, NEW s \in Decided, Decide(p, s),
         approval[p].status = "pending"
  PROVE  DecisionsStand
BY DEF TypeOK, ApprovalRow, Decide, Decided, DecisionsStand

\* The approval queueProposalSend writes: a pending one of the quote, or the next row.
LEMMA QueueWrites ==
  ASSUME TypeOK, ApprovalInv, NEW q \in Quotes, NEW t \in Recipients, QueueSend(q, t)
  PROVE  \E k \in Keys, p \in ApprovalIds :
           /\ k[1] = q
           /\ approval[p].status \notin Decided
           /\ \/ approval[p].status = "pending" /\ approval[p].shown[1] = q /\ lastApproval' = lastApproval
              \/ p = lastApproval + 1 /\ lastApproval' = p
           /\ \E i, r : /\ action' = [SupersedeExcept(q, k) EXCEPT
                                        ![k] = [status |-> "pending_approval", id |-> i, approval |-> p]]
                        /\ approval' = [approval EXCEPT
                                          ![p] = [status |-> "pending", shown |-> k, risk |-> r]]
<1> DEFINE k == <<q, content[q], t>>
           fresh == PendingFor(q) = {}
           p == IF fresh THEN lastApproval + 1 ELSE CHOOSE x \in PendingFor(q) : TRUE
<1>1. k \in Keys /\ k[1] = q
  BY DEF TypeOK, Keys
<1>2. /\ p \in ApprovalIds
      /\ action' = [SupersedeExcept(q, k) EXCEPT
                      ![k] = [status |-> "pending_approval",
                              id |-> IF action[k].status = "none" THEN lastAction + 1 ELSE action[k].id,
                              approval |-> p]]
      /\ approval' = [approval EXCEPT
                        ![p] = [status |-> "pending", shown |-> k,
                                risk |-> IF fresh THEN Risk(k) ELSE approval[p].risk]]
      /\ lastApproval' = IF fresh THEN p ELSE lastApproval
  BY DEF QueueSend
<1>3. CASE fresh
  <2>1. p = lastApproval + 1 /\ p > lastApproval /\ lastApproval' = p
    BY <1>2, <1>3 DEF TypeOK
  <2>2. approval[p].status = "none"
    BY <1>2, <2>1 DEF ApprovalInv
  <2> HIDE DEF k, p, fresh
  <2> QED BY <1>1, <1>2, <2>1, <2>2 DEF Decided
<1>4. CASE ~fresh
  <2>1. p \in PendingFor(q) /\ lastApproval' = lastApproval
    BY <1>2, <1>4
  <2>2. approval[p].status = "pending" /\ approval[p].shown[1] = q
    BY <2>1 DEF PendingFor
  <2> HIDE DEF k, p, fresh
  <2> QED BY <1>1, <1>2, <2>1, <2>2 DEF Decided
<1> QED BY <1>3, <1>4

LEMMA StepKeepsDecisions == TypeOK /\ ApprovalInv /\ [Next]_vars => DecisionsStand
<1> SUFFICES ASSUME TypeOK, ApprovalInv, [Next]_vars PROVE DecisionsStand
  OBVIOUS
<1>1. ASSUME NEW q \in Quotes, NEW t \in Recipients, QueueSend(q, t) PROVE DecisionsStand
  <2>1. PICK k \in Keys, p \in ApprovalIds :
          /\ approval[p].status \notin Decided
          /\ \E i, r : approval' = [approval EXCEPT ![p] = [status |-> "pending", shown |-> k, risk |-> r]]
    BY <1>1, QueueWrites
  <2> QED BY <2>1 DEF TypeOK, DecisionsStand
<1>2. ASSUME NEW p \in ApprovalIds, Skip(p) PROVE DecisionsStand
  BY <1>2, DecideStands DEF Skip, Decided
<1>3. ASSUME NEW p \in ApprovalIds, NEW h \in Handlers, Approve(h, p) PROVE DecisionsStand
  BY <1>3, DecideStands DEF Approve, Decided
<1>4. ASSUME NEW h \in Handlers, NextRoutine(h) PROVE DecisionsStand
  <2>1. PICK p \in handler[h].rest :
          IF approval[p].status = "pending" THEN Decide(p, "approved") ELSE UNCHANGED approval
    BY <1>4 DEF NextRoutine
  <2>2. p \in ApprovalIds
    BY <2>1 DEF TypeOK, RequestState
  <2>3. CASE approval[p].status = "pending"
    BY <2>1, <2>2, <2>3, DecideStands DEF Decided
  <2>4. CASE approval[p].status # "pending"
    BY <2>1, <2>4 DEF DecisionsStand
  <2> QED BY <2>3, <2>4
<1>5. CASE UNCHANGED approval
  BY <1>5 DEF DecisionsStand
<1> QED
  BY <1>1, <1>2, <1>3, <1>4, <1>5
     DEF Next, HandlerStep, EditQuote, EditInterrupted, ArchiveQuote, ArchiveInterrupted,
         ApproveRoutine, RefuseClaim, Claim, CallProvider, RefuseRevision, ProviderAccepts,
         RecordSent, RecordFailed, Restart, tables, vars

LEMMA StepKeepsOpenings == TypeOK /\ [Next]_vars => ReopenedGrows
<1> SUFFICES ASSUME TypeOK, [Next]_vars PROVE ReopenedGrows
  OBVIOUS
<1>1. ASSUME NEW k, NEW b, reopened' = [reopened EXCEPT ![k] = IF b THEN @ + 1 ELSE @]
      PROVE  ReopenedGrows
  BY <1>1 DEF TypeOK, ReopenedGrows
<1>2. ASSUME NEW q \in Quotes, NEW t \in Recipients, QueueSend(q, t) PROVE ReopenedGrows
  BY <1>2, <1>1 DEF QueueSend
<1>3. ASSUME NEW h \in Handlers, NEW k \in Keys, Claim(h, k) PROVE ReopenedGrows
  BY <1>3, <1>1 DEF Claim
<1>4. CASE UNCHANGED reopened
  BY <1>4 DEF ReopenedGrows
<1> QED
  BY <1>2, <1>3, <1>4
     DEF Next, HandlerStep, EditQuote, EditInterrupted, ArchiveQuote, ArchiveInterrupted, Skip,
         Approve, ApproveRoutine, NextRoutine, RefuseClaim, CallProvider, RefuseRevision,
         ProviderAccepts, RecordSent, RecordFailed, Restart, vars

\* A request keeps what was decided for it as long as it works on the same approval and key.
LEMMA RequestFrame ==
  ASSUME TypeOK, DecisionsStand, ReopenedGrows, NEW h \in Handlers, RequestSound(h),
         handler'[h].rest \subseteq handler[h].rest,
         Holding(h)' => /\ Holding(h)
                        /\ handler'[h].approval = handler[h].approval
                        /\ handler'[h].route = handler[h].route,
         Working(h)' => /\ Working(h)
                        /\ handler'[h].approval = handler[h].approval
                        /\ handler'[h].key = handler[h].key
  PROVE  RequestSound(h)'
<1>1. handler[h].rest \subseteq ApprovalIds
  BY DEF TypeOK, RequestState
<1>2. \A p \in handler'[h].rest : approval'[p].status # "none"
  BY <1>1 DEF RequestSound, DecisionsStand
<1>3. Holding(h)' => approval'[handler'[h].approval] = approval[handler[h].approval]
  BY DEF RequestSound, DecisionsStand
<1>4. Working(h) => Holding(h)
  BY DEF Working, Holding
<1>5. Working(h)' => Holding(h)'
  BY DEF Working, Holding
<1>6. Working(h)' => (reopened'[handler'[h].key] = 0 => reopened[handler[h].key] = 0)
  BY DEF RequestSound, ReopenedGrows
<1> QED BY <1>2, <1>3, <1>4, <1>5, <1>6 DEF RequestSound

LEMMA SoundFrame ==
  ASSUME TypeOK, DecisionsStand, ReopenedGrows, NEW h, RequestSound(h), h \in Handlers,
         handler'[h] = handler[h]
  PROVE  RequestSound(h)'
BY RequestFrame DEF Holding, Working

LEMMA IdleSound ==
  ASSUME NEW h, handler'[h] = Idle PROVE RequestSound(h)'
BY DEF Idle, Request, RequestSound, Holding, Working

\* Every request stays sound; the claim is where the action and its approval meet.
LEMMA RequestsNext ==
  ASSUME TypeOK, ApprovalInv, [Next]_vars, NEW g \in Handlers
  PROVE  RequestSound(g)'
<1>0. DecisionsStand /\ ReopenedGrows /\ RequestSound(g)
  BY StepKeepsDecisions, StepKeepsOpenings DEF ApprovalInv
<1>1. CASE handler'[g] = handler[g]
  BY <1>0, <1>1, SoundFrame
<1>2. ASSUME Kill PROVE RequestSound(g)'
  BY <1>2, IdleSound DEF Kill
<1>3. ASSUME NEW h \in Handlers, NEW p \in ApprovalIds, Approve(h, p), h = g PROVE RequestSound(g)'
  <2>1. handler'[g] = Request("approve", "step", p, {}) /\ approval'[p].status = "approved"
    BY <1>3 DEF Approve, Decide, TypeOK, ApprovalRow
  <2> QED BY <2>1 DEF Request, RequestSound, Holding, Working, Decided
<1>4. ASSUME NEW h \in Handlers, ApproveRoutine(h), h = g PROVE RequestSound(g)'
  <2>1. PICK rows : /\ handler' = [handler EXCEPT ![h] = Request("approve-routine", "loop", 0, rows)]
                    /\ \A p \in rows : approval[p].status = "pending"
    BY <1>4 DEF ApproveRoutine
  <2>2. handler'[g] = Request("approve-routine", "loop", 0, rows) /\ approval' = approval
    BY <1>4, <2>1 DEF ApproveRoutine, TypeOK, tables
  <2> QED BY <2>1, <2>2 DEF Request, RequestSound, Holding, Working
<1>5. ASSUME NEW h \in Handlers, NextRoutine(h), h = g PROVE RequestSound(g)'
  <2>1. PICK p \in handler[g].rest :
          /\ IF approval[p].status = "pending" THEN Decide(p, "approved") ELSE UNCHANGED approval
          /\ handler' = [handler EXCEPT ![g] = Request("approve-routine", "step", p, handler[g].rest \ {p})]
    BY <1>5 DEF NextRoutine
  <2>2. handler[g].rest \subseteq ApprovalIds /\ p \in ApprovalIds
    BY <2>1 DEF TypeOK, RequestState
  <2>3. handler'[g] = Request("approve-routine", "step", p, handler[g].rest \ {p})
    BY <2>1 DEF TypeOK
  <2>4. approval'[p].status \in Decided
    <3>1. approval[p].status \in {"pending", "approved", "skipped"}
      BY <1>0, <2>2 DEF RequestSound, TypeOK, ApprovalRow, ApprovalStatus
    <3>2. CASE approval[p].status = "pending"
      BY <2>1, <2>2, <3>2 DEF Decide, Decided, TypeOK, ApprovalRow
    <3>3. CASE approval[p].status # "pending"
      BY <2>1, <3>1, <3>3 DEF Decided
    <3> QED BY <3>2, <3>3
  <2>5. \A r \in handler[g].rest : approval'[r].status # "none"
    BY <1>0, <2>2 DEF RequestSound, DecisionsStand
  <2> QED BY <2>2, <2>3, <2>4, <2>5 DEF Request, RequestSound, Holding, Working
<1>6. ASSUME NEW h \in Handlers, NEW k \in Keys, Claim(h, k), h = g PROVE RequestSound(g)'
  <2> DEFINE p == handler[g].approval
  <2>1. /\ handler'[g] = [handler[g] EXCEPT !.phase = "claimed", !.key = k]
        /\ approval' = approval
        /\ handler[g].phase = "step"
    BY <1>6 DEF Claim, TypeOK
  <2>2. /\ handler'[g].phase = "claimed" /\ handler'[g].key = k /\ handler'[g].approval = p
        /\ handler'[g].route = handler[g].route /\ handler'[g].rest = handler[g].rest
    BY <2>1 DEF TypeOK, RequestState
  <2>3. reopened'[k] = 0 => approval[p].shown = k
    <3>1. action[k].approval = p /\ action[k].status \notin Settled \cup {"none"}
      BY <1>6 DEF Claim, IsNewestTiedTo, TiedTo
    <3>2. CASE action[k].status = "failed"
      BY <1>6, <3>2 DEF Claim, TypeOK
    <3>3. CASE action[k].status = "pending_approval"
      BY <3>1, <3>3 DEF ApprovalInv, OpenIsShown, Open
    <3> QED BY <3>1, <3>2, <3>3 DEF Settled, TypeOK, ActionRow, ActionStatus
  <2> QED BY <1>0, <2>1, <2>2, <2>3 DEF RequestSound, Holding, Working
<1>7. ASSUME NEW h \in Handlers, NEW f, h = g, Working(h),
             handler' = [handler EXCEPT ![h].phase = f]
      PROVE  RequestSound(g)'
  <2>1. /\ handler'[g].approval = handler[g].approval /\ handler'[g].key = handler[g].key
        /\ handler'[g].route = handler[g].route /\ handler'[g].rest = handler[g].rest
    BY <1>7 DEF TypeOK, RequestState
  <2> QED BY <1>0, <1>7, <2>1, RequestFrame DEF Holding, Working
<1>8. ASSUME NEW h \in Handlers, Resume(h), h = g PROVE RequestSound(g)'
  <2>1. CASE handler[g].rest = {}
    BY <1>8, <2>1, IdleSound DEF Resume, TypeOK
  <2>2. CASE handler[g].rest # {}
    <3>1. handler'[g] = Request("approve-routine", "loop", 0, handler[g].rest)
      BY <1>8, <2>2 DEF Resume, TypeOK
    <3> QED BY <1>0, <3>1, RequestFrame DEF Request, Holding, Working
  <2> QED BY <2>1, <2>2
<1>9. ASSUME NEW h \in Handlers, HandlerStep(h) \/ ProviderAccepts(h) \/ ApproveRoutine(h)
      PROVE  RequestSound(g)'
  <2>1. CASE h # g
    <3>1. handler'[g] = handler[g]
      BY <1>9, <2>1 DEF HandlerStep, NextRoutine, RefuseClaim, Claim, CallProvider, RefuseRevision,
                        RecordSent, RecordFailed, Resume, ProviderAccepts, ApproveRoutine, TypeOK
    <3> QED BY <3>1, <1>1
  <2>2. CASE h = g
    <3>1. CASE RefuseClaim(h) \/ RefuseRevision(h) \/ RecordSent(h) \/ RecordFailed(h)
      BY <2>2, <3>1, <1>8 DEF RefuseClaim, RefuseRevision, RecordSent, RecordFailed
    <3>2. CASE CallProvider(h) \/ ProviderAccepts(h)
      BY <2>2, <3>2, <1>7 DEF CallProvider, ProviderAccepts, Working
    <3> QED BY <1>9, <2>2, <3>1, <3>2, <1>4, <1>5, <1>6 DEF HandlerStep
  <2> QED BY <2>1, <2>2
<1>10. ASSUME NEW h \in Handlers, NEW p \in ApprovalIds, Approve(h, p) PROVE RequestSound(g)'
  <2>1. CASE h # g
    <3>1. handler'[g] = handler[g]
      BY <1>10, <2>1 DEF Approve, TypeOK
    <3> QED BY <3>1, <1>1
  <2> QED BY <1>3, <1>10, <2>1
<1>11. CASE UNCHANGED handler
  BY <1>11, <1>1
<1> QED
  BY <1>2, <1>9, <1>10, <1>11
     DEF Next, EditQuote, EditInterrupted, ArchiveQuote, ArchiveInterrupted, QueueSend, Skip,
         Restart, vars

\* A step that opens no action, ties none anew and leaves what approvals show.
LEMMA ShownFrame ==
  ASSUME TypeOK, OpenIsShown,
         \A k \in Keys : action'[k].status \in Open =>
           action[k].status \in Open /\ action'[k].approval = action[k].approval,
         \A p \in ApprovalIds : approval'[p].shown = approval[p].shown,
         lastApproval' = lastApproval
  PROVE  OpenIsShown'
<1> SUFFICES ASSUME NEW k \in Keys, action'[k].status \in Open
             PROVE  /\ action'[k].approval \in 1 .. lastApproval'
                    /\ approval'[action'[k].approval].shown = k
  BY DEF OpenIsShown, Open
<1>1. /\ action[k].approval \in 1 .. lastApproval
      /\ approval[action[k].approval].shown = k
      /\ action'[k].approval = action[k].approval
  BY DEF OpenIsShown
<1>2. action[k].approval \in ApprovalIds
  BY <1>1, OutboxAssumption DEF ApprovalIds, TypeOK
<1> QED BY <1>1, <1>2

LEMMA SetStatusTies ==
  ASSUME TypeOK, NEW j, NEW s, s \notin Open, action' = [action EXCEPT ![j].status = s]
  PROVE  \A k \in Keys : action'[k].status \in Open =>
           action[k].status \in Open /\ action'[k].approval = action[k].approval
BY DEF TypeOK, ActionRow, Open

LEMMA SupersedeTies ==
  ASSUME TypeOK, NEW q, NEW k, NEW j \in Keys, SupersedeExcept(q, k)[j].status \in Open
  PROVE  /\ SupersedeExcept(q, k)[j] = action[j]
         /\ j[1] # q \/ j = k
BY DEF TypeOK, ActionRow, SupersedeExcept, Open

LEMMA DecideShows ==
  ASSUME TypeOK, NEW p \in ApprovalIds, NEW s, Decide(p, s), NEW r \in ApprovalIds
  PROVE  approval'[r].shown = approval[r].shown
BY DEF TypeOK, ApprovalRow, Decide

\* Queueing rewrites the text of a pending approval, and supersedes what it showed before.
LEMMA QueueShown ==
  ASSUME TypeOK, ApprovalInv, NEW q \in Quotes, NEW t \in Recipients, QueueSend(q, t)
  PROVE  OpenIsShown'
<1>1. PICK k \in Keys, p \in ApprovalIds :
        /\ k[1] = q
        /\ \/ approval[p].status = "pending" /\ approval[p].shown[1] = q /\ lastApproval' = lastApproval
           \/ p = lastApproval + 1 /\ lastApproval' = p
        /\ \E i, r : /\ action' = [SupersedeExcept(q, k) EXCEPT
                                     ![k] = [status |-> "pending_approval", id |-> i, approval |-> p]]
                     /\ approval' = [approval EXCEPT
                                       ![p] = [status |-> "pending", shown |-> k, risk |-> r]]
  BY QueueWrites
<1>2. PICK i, r : /\ action' = [SupersedeExcept(q, k) EXCEPT
                                  ![k] = [status |-> "pending_approval", id |-> i, approval |-> p]]
                  /\ approval' = [approval EXCEPT
                                    ![p] = [status |-> "pending", shown |-> k, risk |-> r]]
  BY <1>1
<1>3. /\ action'[k].approval = p
      /\ \A j \in Keys : j # k => action'[j] = SupersedeExcept(q, k)[j]
      /\ approval'[p].shown = k
      /\ \A x \in ApprovalIds : x # p => approval'[x] = approval[x]
  BY <1>2 DEF SupersedeExcept, TypeOK
<1>4. p \in 1 .. lastApproval' /\ lastApproval' >= lastApproval
  <2>1. lastApproval \in Nat /\ p \in Nat /\ p >= 1
    BY OutboxAssumption DEF TypeOK, ApprovalIds
  <2>2. approval[p].status = "pending" => ~(p > lastApproval)
    BY DEF ApprovalInv
  <2> QED BY <1>1, <2>1, <2>2
<1> SUFFICES ASSUME NEW j \in Keys, action'[j].status \in Open
             PROVE  /\ action'[j].approval \in 1 .. lastApproval'
                    /\ approval'[action'[j].approval].shown = j
  BY DEF OpenIsShown, Open
<1>5. CASE j = k
  BY <1>3, <1>4, <1>5
<1>6. CASE j # k
  <2>1. action'[j] = action[j] /\ action[j].status \in Open /\ j[1] # q
    BY <1>3, <1>6, SupersedeTies
  <2>2. action[j].approval \in 1 .. lastApproval /\ approval[action[j].approval].shown = j
    BY <2>1 DEF ApprovalInv, OpenIsShown
  <2>3. action[j].approval \in ApprovalIds /\ action[j].approval <= lastApproval
    BY <2>2, OutboxAssumption DEF ApprovalIds, TypeOK
  <2>4. action[j].approval # p
    BY <1>1, <2>1, <2>2, <2>3, OutboxAssumption DEF TypeOK
  <2>5. approval'[action'[j].approval].shown = j
    BY <1>3, <2>1, <2>2, <2>3, <2>4
  <2>6. lastApproval \in Nat /\ lastApproval' \in Nat /\ lastApproval' >= lastApproval
    BY <1>1, <1>4, OutboxAssumption DEF TypeOK, ApprovalIds
  <2>7. action'[j].approval \in 1 .. lastApproval'
    BY <2>1, <2>2, <2>6
  <2> QED BY <2>5, <2>7
<1> QED BY <1>5, <1>6

LEMMA ShownNext == TypeOK /\ ApprovalInv /\ [Next]_vars => OpenIsShown'
<1> SUFFICES ASSUME TypeOK, ApprovalInv, [Next]_vars PROVE OpenIsShown'
  OBVIOUS
<1>0. OpenIsShown
  BY DEF ApprovalInv
<1>1. ASSUME NEW q, action' = SupersedeExcept(q, NoKey), UNCHANGED <<approval, lastApproval>>
      PROVE  OpenIsShown'
  BY <1>0, <1>1, SupersedeTies, ShownFrame
<1>2. ASSUME NEW j, NEW s \in {"sending", "superseded", "sent", "failed"},
             action' = [action EXCEPT ![j].status = s], UNCHANGED <<approval, lastApproval>>
      PROVE  OpenIsShown'
  <2>1. s \notin Open
    BY DEF Open
  <2> QED BY <1>0, <1>2, <2>1, SetStatusTies, ShownFrame
<1>3. ASSUME NEW p \in ApprovalIds, NEW s, Decide(p, s), UNCHANGED <<action, lastApproval>>
      PROVE  OpenIsShown'
  BY <1>0, <1>3, DecideShows, ShownFrame
<1>4. ASSUME NEW h \in Handlers, NextRoutine(h) PROVE OpenIsShown'
  <2>1. PICK p \in handler[h].rest :
          IF approval[p].status = "pending" THEN Decide(p, "approved") ELSE UNCHANGED approval
    BY <1>4 DEF NextRoutine
  <2>2. p \in ApprovalIds
    BY <2>1 DEF TypeOK, RequestState
  <2>3. UNCHANGED <<action, lastApproval>>
    BY <1>4 DEF NextRoutine
  <2>4. CASE UNCHANGED approval
    BY <1>0, <2>3, <2>4, ShownFrame
  <2> QED BY <1>3, <2>1, <2>2, <2>3, <2>4
<1>5. CASE UNCHANGED <<action, approval, lastApproval>>
  BY <1>0, <1>5, ShownFrame
<1>6. ASSUME NEW h \in Handlers, HandlerStep(h) PROVE OpenIsShown'
  <2>1. CASE \E k \in Keys : Claim(h, k)
    BY <1>2, <2>1 DEF Claim
  <2>2. CASE RefuseRevision(h)
    BY <1>2, <2>2 DEF RefuseRevision
  <2>3. CASE RecordSent(h)
    BY <1>2, <2>3 DEF RecordSent
  <2>4. CASE RecordFailed(h)
    BY <1>2, <2>4 DEF RecordFailed
  <2> QED BY <1>4, <1>5, <1>6, <2>1, <2>2, <2>3, <2>4
            DEF HandlerStep, RefuseClaim, CallProvider, tables
<1> QED
  BY <1>1, <1>3, <1>5, <1>6, QueueShown
     DEF Next, EditQuote, EditInterrupted, ArchiveQuote, ArchiveInterrupted, Skip, Approve,
         ApproveRoutine, ProviderAccepts, Restart, tables, vars

LEMMA FreshRowsNext ==
  ASSUME TypeOK, ApprovalInv, [Next]_vars
  PROVE  \A p \in ApprovalIds : p > lastApproval' => approval'[p].status = "none"
<1>1. ASSUME NEW q \in Quotes, NEW t \in Recipients, QueueSend(q, t)
      PROVE  \A p \in ApprovalIds : p > lastApproval' => approval'[p].status = "none"
  <2>1. PICK k \in Keys, x \in ApprovalIds :
          /\ \/ approval[x].status = "pending" /\ lastApproval' = lastApproval
             \/ x = lastApproval + 1 /\ lastApproval' = x
          /\ \E i, r : approval' = [approval EXCEPT ![x] = [status |-> "pending", shown |-> k, risk |-> r]]
    BY <1>1, QueueWrites
  <2>2. \A p \in ApprovalIds : p # x => approval'[p] = approval[p]
    BY <2>1 DEF TypeOK
  <2>3. lastApproval \in Nat /\ x \in Nat
    BY OutboxAssumption DEF TypeOK, ApprovalIds
  <2>4. ~(x > lastApproval') /\ lastApproval' >= lastApproval /\ lastApproval' \in Nat
    BY <2>1, <2>3 DEF ApprovalInv
  <2> QED BY <2>2, <2>3, <2>4, OutboxAssumption DEF ApprovalInv, ApprovalIds
<1>2. ASSUME NEW r \in ApprovalIds, NEW s, Decide(r, s), approval[r].status = "pending",
             lastApproval' = lastApproval
      PROVE  \A p \in ApprovalIds : p > lastApproval' => approval'[p].status = "none"
  BY <1>2 DEF ApprovalInv, Decide, TypeOK, ApprovalRow
<1>3. ASSUME NEW h \in Handlers, NextRoutine(h)
      PROVE  \A p \in ApprovalIds : p > lastApproval' => approval'[p].status = "none"
  <2>1. PICK p \in handler[h].rest :
          IF approval[p].status = "pending" THEN Decide(p, "approved") ELSE UNCHANGED approval
    BY <1>3 DEF NextRoutine
  <2>2. p \in ApprovalIds /\ lastApproval' = lastApproval
    BY <1>3, <2>1 DEF TypeOK, RequestState, NextRoutine
  <2> QED BY <1>2, <2>1, <2>2 DEF ApprovalInv
<1>4. CASE UNCHANGED <<approval, lastApproval>>
  BY <1>4 DEF ApprovalInv
<1> QED
  BY <1>1, <1>2, <1>3, <1>4
     DEF Next, HandlerStep, EditQuote, EditInterrupted, ArchiveQuote, ArchiveInterrupted, Skip,
         Approve, ApproveRoutine, RefuseClaim, Claim, CallProvider, RefuseRevision,
         ProviderAccepts, RecordSent, RecordFailed, Restart, tables, vars

LEMMA ApprovalInit == Init => ApprovalInv
BY DEF Init, ApprovalInv, OpenIsShown, Open, RequestSound, Holding, Working, Idle, Request

LEMMA ApprovalNext == TypeOK /\ ApprovalInv /\ [Next]_vars => ApprovalInv'
<1> SUFFICES ASSUME TypeOK, ApprovalInv, [Next]_vars PROVE ApprovalInv'
  OBVIOUS
<1>1. \A h \in Handlers : RequestSound(h)'
  BY RequestsNext
<1> QED BY <1>1, ShownNext, FreshRowsNext DEF ApprovalInv

\* Unless its action was re-queued in mid-send or after a failure, the mail under way is the
\* one the decided approval displays (queueProposalSend supersedes what an approval it reuses
\* showed before; executeAction refuses a superseded action).
THEOREM ShowsTheApproved == Spec => []FirstOpeningShowsApproval
<1>1. ApprovalInv => FirstOpeningShowsApproval
  BY DEF ApprovalInv, RequestSound, FirstOpeningShowsApproval, InFlight, Working
<1> QED BY <1>1, TypeInit, TypeNext, ApprovalInit, ApprovalNext, PTL DEF Spec

\* A request for one approval (POST /:id/approve) sends only what a person approved, whatever
\* bulk requests, skips and re-queues do meanwhile.
THEOREM OneByOne == Spec => []OneByOneIsApproved
<1>1. ApprovalInv => OneByOneIsApproved
  BY DEF ApprovalInv, RequestSound, OneByOneIsApproved, InFlight, Holding
<1> QED BY <1>1, TypeInit, TypeNext, ApprovalInit, ApprovalNext, PTL DEF Spec
=============================================================================
