------------------------------- MODULE Outbox -------------------------------
(***************************************************************************)
(* The external-action outbox (services/outbox.ts), the approvals inbox    *)
(* that releases it (routes/approvals.ts), and the estimating routes that  *)
(* edit a quote underneath both (routes/estimatingBuilder.ts).             *)
(*                                                                         *)
(* A proposal email is queued as a row of external_actions, keyed by       *)
(* quote, content and recipient, and tied to a row of approvals.  A person *)
(* approves (or a bulk request approves everything routine); the request   *)
(* claims the action, re-checks the revision, and calls Microsoft 365.     *)
(*                                                                         *)
(* The server is one Node process: a request runs without interruption     *)
(* until it awaits the network, so other requests interleave only with the *)
(* two awaiting phases.  The process may be killed between any two         *)
(* statements; the tables survive.                                         *)
(***************************************************************************)
EXTENDS Integers, FiniteSets

\* The columns that are only reported (attempts, provider_detail, decided_by, the
\* event and audit rows) are left out.
CONSTANTS
  Quotes,        \* ids of the quotes being sold
  Contents,      \* abstract contents of a quote (everything the hash covers)
  Recipients,    \* customer addresses
  Sensitive,     \* contents priced at $25k or more, or below the margin floor
  Handlers,      \* approve requests that can be in progress at once
  MaxApprovals,  \* bound: rows the approvals table may hold
  MaxRestarts,   \* bound: how often the process is killed
  BulkAllowed,   \* TRUE when approve-routine is used
  NoKey          \* "no outbox row" (a model value)

Keys == Quotes \X Contents \X Recipients   \* the UNIQUE idempotency_key
ApprovalIds == 1 .. MaxApprovals

ASSUME OutboxAssumption ==
  /\ IsFiniteSet(Handlers)
  /\ Sensitive \subseteq Contents
  /\ MaxApprovals \in Nat
  /\ MaxRestarts \in Nat
  /\ BulkAllowed \in BOOLEAN
  /\ NoKey \notin Keys

VARIABLES
  content,       \* est_quotes: the send-relevant content of each quote
  archived,      \* est_quotes.deleted_at IS NOT NULL
  action,        \* external_actions, one row at most per key
  lastAction,    \* AUTOINCREMENT of external_actions
  approval,      \* approvals, the rows of kind send_email
  lastApproval,  \* AUTOINCREMENT of approvals
  handler,       \* the approve requests in progress
  delivered,     \* Microsoft 365: mails accepted for each key
  reopened,      \* history: how often an attempt that had begun was made possible again
  restarts

tables == <<action, lastAction, approval, lastApproval>>
vars == <<content, archived, action, lastAction, approval, lastApproval,
          handler, delivered, reopened, restarts>>

-----------------------------------------------------------------------------
ActionStatus == {"none", "pending_approval", "sending", "sent", "failed", "superseded"}
ApprovalStatus == {"none", "pending", "approved", "skipped"}
Phases == {"idle",      \* no request
           "loop",      \* approve-routine, about to take its next row
           "step",      \* the approval is decided, executeForApproval is next
           "claimed",   \* the claim is committed, the revision check is next
           "calling",   \* awaiting Microsoft 365
           "accepted"}  \* Microsoft 365 took the mail, the answer is on its way

\* A request to route r in phase f on approval p, with the approvals rest still to work through.
Routes == {"approve", "approve-routine"}
Request(r, f, p, rest) ==
  [route |-> r, phase |-> f, approval |-> p, key |-> NoKey, rest |-> rest]
Idle == Request("approve", "idle", 0, {})

ActionRow == [status: ActionStatus, id: Nat, approval: 0 .. MaxApprovals]
ApprovalRow == [status: ApprovalStatus, shown: Keys \cup {NoKey}, risk: {"routine", "sensitive"}]
RequestState == [route: Routes, phase: Phases, approval: 0 .. MaxApprovals,
                 key: Keys \cup {NoKey}, rest: SUBSET ApprovalIds]

TypeOK ==
  /\ content \in [Quotes -> Contents]
  /\ archived \in [Quotes -> BOOLEAN]
  /\ action \in [Keys -> ActionRow]
  /\ lastAction \in Nat
  /\ approval \in [ApprovalIds -> ApprovalRow]
  /\ lastApproval \in 0 .. MaxApprovals
  /\ handler \in [Handlers -> RequestState]
  /\ delivered \in [Keys -> Nat]
  /\ reopened \in [Keys -> Nat]
  /\ restarts \in 0 .. MaxRestarts

Init ==
  /\ content \in [Quotes -> Contents]
  /\ archived = [q \in Quotes |-> FALSE]
  /\ action = [k \in Keys |-> [status |-> "none", id |-> 0, approval |-> 0]]
  /\ lastAction = 0
  /\ approval = [p \in ApprovalIds |-> [status |-> "none", shown |-> NoKey, risk |-> "routine"]]
  /\ lastApproval = 0
  /\ handler = [h \in Handlers |-> Idle]
  /\ delivered = [k \in Keys |-> 0]
  /\ reopened = [k \in Keys |-> 0]
  /\ restarts = 0

(***************************************************************************)
(* A request that is not awaiting the network holds the event loop.        *)
(***************************************************************************)
Awaiting == {"idle", "calling", "accepted"}
LoopFree == \A h \in Handlers : handler[h].phase \in Awaiting

Open == {"pending_approval"}
Risk(k) == IF k[2] \in Sensitive THEN "sensitive" ELSE "routine"

\* Mutant: the supersede statement is lost.
SupersedeNothing(q, k) == action

\* The table with every open action of quote q, except that of key k, superseded.
SupersedeExcept(q, k) ==
  [j \in Keys |-> IF j[1] = q /\ j # k /\ action[j].status \in Open
                  THEN [action[j] EXCEPT !.status = "superseded"]
                  ELSE action[j]]

-----------------------------------------------------------------------------
(***************************************************************************)
(* Estimating routes.                                                      *)
(***************************************************************************)

\* Any edit of a live quote, then invalidateQuoteActions.
EditQuote(q, c) ==
  /\ LoopFree
  /\ ~archived[q]
  /\ content' = [content EXCEPT ![q] = c]
  /\ action' = SupersedeExcept(q, NoKey)
  /\ UNCHANGED <<archived, lastAction, approval, lastApproval, handler, delivered, reopened, restarts>>

ArchiveQuote(q) ==
  /\ LoopFree
  /\ ~archived[q]
  /\ archived' = [archived EXCEPT ![q] = TRUE]
  /\ action' = SupersedeExcept(q, NoKey)
  /\ UNCHANGED <<content, lastAction, approval, lastApproval, handler, delivered, reopened, restarts>>

\* The process is killed: every request in progress is gone.
Kill ==
  /\ restarts < MaxRestarts
  /\ restarts' = restarts + 1
  /\ handler' = [h \in Handlers |-> Idle]

Restart ==
  /\ Kill
  /\ UNCHANGED <<content, archived, tables, delivered, reopened>>

\* Killed after the edit was saved and before invalidateQuoteActions ran.
EditInterrupted(q, c) ==
  /\ LoopFree
  /\ ~archived[q]
  /\ content' = [content EXCEPT ![q] = c]
  /\ Kill
  /\ UNCHANGED <<archived, tables, delivered, reopened>>

ArchiveInterrupted(q) ==
  /\ LoopFree
  /\ ~archived[q]
  /\ archived' = [archived EXCEPT ![q] = TRUE]
  /\ Kill
  /\ UNCHANGED <<content, tables, delivered, reopened>>

(***************************************************************************)
(* queueProposalSend and createApproval, one transaction.  A pending       *)
(* approval of the quote is reused: its text is replaced, its risk is not. *)
(***************************************************************************)
PendingFor(q) ==
  {p \in ApprovalIds : approval[p].status = "pending" /\ approval[p].shown[1] = q}

QueueSend(q, t) ==
  LET k == <<q, content[q], t>>
      fresh == PendingFor(q) = {}
      p == IF fresh THEN lastApproval + 1 ELSE CHOOSE x \in PendingFor(q) : TRUE
      isNew == action[k].status = "none"
  IN
  /\ LoopFree
  /\ ~archived[q]
  /\ action[k].status # "sent"
  /\ p \in ApprovalIds
  /\ action' = [SupersedeExcept(q, k) EXCEPT
                  ![k] = [status |-> "pending_approval",
                          id |-> IF isNew THEN lastAction + 1 ELSE action[k].id,
                          approval |-> p]]
  /\ lastAction' = IF isNew THEN lastAction + 1 ELSE lastAction
  /\ approval' = [approval EXCEPT
                    ![p] = [status |-> "pending", shown |-> k,
                            risk |-> IF fresh THEN Risk(k) ELSE approval[p].risk]]
  /\ lastApproval' = IF fresh THEN p ELSE lastApproval
  /\ reopened' = [reopened EXCEPT ![k] = IF action[k].status \in {"sending", "failed"} THEN @ + 1 ELSE @]
  /\ UNCHANGED <<content, archived, handler, delivered, restarts>>

-----------------------------------------------------------------------------
(***************************************************************************)
(* The approvals inbox.                                                    *)
(***************************************************************************)
Decide(p, s) == approval' = [approval EXCEPT ![p].status = s]

Approve(h, p) ==
  /\ LoopFree
  /\ handler[h].phase = "idle"
  /\ approval[p].status = "pending"
  /\ Decide(p, "approved")
  /\ handler' = [handler EXCEPT ![h] = Request("approve", "step", p, {})]
  /\ UNCHANGED <<content, archived, action, lastAction, lastApproval, delivered, reopened, restarts>>

\* Mutant: the UPDATE does not ask for a pending row.
SkipAnything(p) ==
  /\ LoopFree
  /\ approval[p].status # "none"
  /\ Decide(p, "skipped")
  /\ UNCHANGED <<content, archived, action, lastAction, lastApproval, handler, delivered, reopened, restarts>>

Skip(p) ==
  /\ LoopFree
  /\ approval[p].status = "pending"
  /\ Decide(p, "skipped")
  /\ UNCHANGED <<content, archived, action, lastAction, lastApproval, handler, delivered, reopened, restarts>>

\* approve-routine reads its list once, then works through it across awaits.
ApproveRoutine(h) ==
  LET rows == {p \in ApprovalIds : approval[p].status = "pending" /\ approval[p].risk = "routine"}
  IN
  /\ BulkAllowed
  /\ LoopFree
  /\ handler[h].phase = "idle"
  /\ rows # {}
  /\ handler' = [handler EXCEPT ![h] = Request("approve-routine", "loop", 0, rows)]
  /\ UNCHANGED <<content, archived, tables, delivered, reopened, restarts>>

\* The UPDATE is conditional on the row being pending; what follows it is not.
NextRoutine(h) ==
  /\ handler[h].phase = "loop"
  /\ \E p \in handler[h].rest :
       /\ IF approval[p].status = "pending" THEN Decide(p, "approved") ELSE UNCHANGED approval
       /\ handler' = [handler EXCEPT ![h] = Request("approve-routine", "step", p, handler[h].rest \ {p})]
  /\ UNCHANGED <<content, archived, action, lastAction, lastApproval, delivered, reopened, restarts>>

\* Where a request goes when one approval has been dealt with.
Resume(h) ==
  handler' = [handler EXCEPT
                ![h] = IF handler[h].rest = {} THEN Idle
                       ELSE Request("approve-routine", "loop", 0, handler[h].rest)]

-----------------------------------------------------------------------------
(***************************************************************************)
(* executeForApproval and executeAction.                                   *)
(***************************************************************************)
TiedTo(p) == {k \in Keys : action[k].approval = p /\ action[k].status # "none"}

\* actionForApproval: ORDER BY id DESC LIMIT 1.
IsNewestTiedTo(k, p) ==
  /\ k \in TiedTo(p)
  /\ \A j \in TiedTo(p) : action[j].id <= action[k].id

\* Mutants: the claim forgets one of the states that forbid it.
ClaimsSuperseded == {"sent", "sending"}
ClaimsSent == {"superseded", "sending"}

Settled == {"sent", "superseded", "sending"}

\* The claim transaction refuses, or there is no action: nothing is sent.
RefuseClaim(h) ==
  LET p == handler[h].approval IN
  /\ handler[h].phase = "step"
  /\ \A k \in Keys : IsNewestTiedTo(k, p) => action[k].status \in Settled
  /\ Resume(h)
  /\ UNCHANGED <<content, archived, tables, delivered, reopened, restarts>>

Claim(h, k) ==
  /\ handler[h].phase = "step"
  /\ IsNewestTiedTo(k, handler[h].approval)
  /\ action[k].status \notin Settled
  /\ action' = [action EXCEPT ![k].status = "sending"]
  /\ reopened' = [reopened EXCEPT ![k] = IF action[k].status = "failed" THEN @ + 1 ELSE @]
  /\ handler' = [handler EXCEPT ![h].phase = "claimed", ![h].key = k]
  /\ UNCHANGED <<content, archived, lastAction, approval, lastApproval, delivered, restarts>>

\* The quote still hashes to the revision the action was queued with.
Current(k) == ~archived[k[1]] /\ content[k[1]] = k[2]

CallProvider(h) ==
  /\ handler[h].phase = "claimed"
  /\ Current(handler[h].key)
  /\ handler' = [handler EXCEPT ![h].phase = "calling"]
  /\ UNCHANGED <<content, archived, tables, delivered, reopened, restarts>>

RefuseRevision(h) ==
  /\ handler[h].phase = "claimed"
  /\ ~Current(handler[h].key)
  /\ action' = [action EXCEPT ![handler[h].key].status = "superseded"]
  /\ Resume(h)
  /\ UNCHANGED <<content, archived, lastAction, approval, lastApproval, delivered, reopened, restarts>>

\* Microsoft 365 takes the mail; it cannot be taken back.
ProviderAccepts(h) ==
  /\ handler[h].phase = "calling"
  /\ delivered' = [delivered EXCEPT ![handler[h].key] = @ + 1]
  /\ handler' = [handler EXCEPT ![h].phase = "accepted"]
  /\ UNCHANGED <<content, archived, tables, reopened, restarts>>

RecordSent(h) ==
  /\ LoopFree
  /\ handler[h].phase = "accepted"
  /\ action' = [action EXCEPT ![handler[h].key].status = "sent"]
  /\ Resume(h)
  /\ UNCHANGED <<content, archived, lastAction, approval, lastApproval, delivered, reopened, restarts>>

\* Mutant: the catch block records nothing.
ForgetFailure(h) ==
  /\ LoopFree
  /\ handler[h].phase \in {"calling", "accepted"}
  /\ Resume(h)
  /\ UNCHANGED <<content, archived, tables, delivered, reopened, restarts>>

\* No token, a refusal, or a connection that broke before or after the mail was taken.
RecordFailed(h) ==
  /\ LoopFree
  /\ handler[h].phase \in {"calling", "accepted"}
  /\ action' = [action EXCEPT ![handler[h].key].status = "failed"]
  /\ Resume(h)
  /\ UNCHANGED <<content, archived, lastAction, approval, lastApproval, delivered, reopened, restarts>>

-----------------------------------------------------------------------------
HandlerStep(h) ==
  \/ NextRoutine(h)
  \/ RefuseClaim(h)
  \/ \E k \in Keys : Claim(h, k)
  \/ CallProvider(h)
  \/ RefuseRevision(h)
  \/ RecordSent(h)
  \/ RecordFailed(h)

Next ==
  \/ \E q \in Quotes, c \in Contents : EditQuote(q, c) \/ EditInterrupted(q, c)
  \/ \E q \in Quotes : ArchiveQuote(q) \/ ArchiveInterrupted(q)
  \/ \E q \in Quotes, t \in Recipients : QueueSend(q, t)
  \/ \E p \in ApprovalIds : Skip(p) \/ \E h \in Handlers : Approve(h, p)
  \/ \E h \in Handlers : ApproveRoutine(h) \/ ProviderAccepts(h) \/ HandlerStep(h)
  \/ Restart

Spec == Init /\ [][Next]_vars

(***************************************************************************)
(* The event loop keeps running, and every network call ends: fetch either *)
(* answers or times out.  Nothing is assumed of people or of restarts.     *)
(***************************************************************************)
FairSpec == Spec /\ \A h \in Handlers : WF_vars(HandlerStep(h))

-----------------------------------------------------------------------------
Working(h) == handler[h].phase \in {"claimed", "calling", "accepted"}
InFlight(h) == handler[h].phase \in {"calling", "accepted"}

(***************************************************************************)
(* Properties that hold.                                                   *)
(***************************************************************************)

\* However edits, re-queues, failures and restarts interleave, a quote never has two
\* actions that a person could still release: queueing one supersedes the others.
OnePendingPerQuote ==
  \A j, k \in Keys :
    (j[1] = k[1] /\ action[j].status \in Open /\ action[k].status \in Open) => j = k

\* The claim protocol sends one mail per opening of an action: a second mail for the same
\* quote, content and recipient needs somebody to queue the action again while it was being
\* sent or after it failed, or an approval to run into a failed action again.
AtMostOncePerOpening == \A k \in Keys : delivered[k] <= 1 + reopened[k]

\* A row is left in 'sending', which no request will ever finish, only by a restart.
OrphanNeedsRestart ==
  \A k \in Keys :
    action[k].status = "sending" =>
      restarts > 0 \/ \E h \in Handlers : Working(h) /\ handler[h].key = k

\* Unless its action was re-queued in mid-send, the mail under way is the one whose revision
\* and recipient the decided approval displays.
FirstOpeningShowsApproval ==
  \A h \in Handlers :
    InFlight(h) /\ reopened[handler[h].key] = 0
      => approval[handler[h].approval].shown = handler[h].key

\* A request for one approval sends only what a person approved, whatever bulk requests,
\* skips and re-queues do meanwhile; approve-routine (approvals.ts:173) also executes a row
\* that was skipped after it read its list.
OneByOneIsApproved ==
  \A h \in Handlers :
    InFlight(h) /\ handler[h].route = "approve"
      => approval[handler[h].approval].status = "approved"

\* While the process stays up, an action being sent ends up sent, failed or superseded.
SendingResolves ==
  \A k \in Keys : action[k].status = "sending" ~> action[k].status # "sending"

(***************************************************************************)
(* What the comments promise and the code does not keep.                   *)
(***************************************************************************)

\* outbox.ts: a retry, refresh, double-click or worker restart never sends twice.
NeverTwice == \A k \in Keys : delivered[k] <= 1

\* outbox.ts: an old approval can no longer execute once the quote was edited.
SendsWhatTheApprovalShows ==
  \A h \in Handlers : InFlight(h) => approval[handler[h].approval].shown = handler[h].key
=============================================================================
