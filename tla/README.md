# Verification of the 1st Fire Protection OS

TLA+ models of the parts of this repository where several actors touch the same rows, TLC
configurations that check them on small instances, and theorems with proofs that TLAPS checks for
every value of the constants. The system is one Node process (`src/server`) over one SQLite file,
with a browser client, an agent on a domain controller (`src/dc-agent`), and Microsoft Graph,
ServiceTrade, BambooHR, Inngest and mail behind `fetch`.

What makes it worth modelling is the same everywhere. SQLite statements are synchronous, so a handler
runs without interruption *until it awaits the network*; what it read before the await may be old
when it goes on. Most handlers are several statements outside a transaction, so a kill (a deploy on
Fly restarts the process) can fall between any two. Timers do not ask whether their last run has
ended. And the answer of a remote call may be lost after the call took effect.

Every model therefore has the same grain: an action is what a handler does between two awaits; an
action called `...Interrupted` or `...Killed` is the same handler cut by a kill between two of its
statements; `Kill`/`Restart` ends every handler in progress and keeps the tables.

## Inventory

| Component | State | Operations | Hard part | Module |
|---|---|---|---|---|
| Outbox of external sends: `services/outbox.ts`, `routes/approvals.ts`, the quote routes | `external_actions`, `approvals`, quote content | queue, edit, archive, approve, skip, approve-routine, claim, send, record | two approvals of one action, edits during a send, lost answers, restarts | `Outbox` |
| Domain-controller jobs: `services/dcJobs.ts`, `dc-agent/collect-ad-inventory.ps1` | `dc_jobs`; the agent's hands; Active Directory | enqueue, claim with reclaim after ten minutes, run, post result | a reclaimed job runs twice; results late, repeated, reordered | `DcJobs` |
| Offboarding board: `services/offboardingAgent.ts`, `offboardingAutomation.ts`, `routes/offboarding.ts` | requests, items, derived status | create, decide, cancel, run on the DC or in the cloud, mail, handover, app lists, boot repair | eight handlers derive one status; kills while creating; late results for decided items | `Offboarding` |
| Onboarding board: `services/onboardingAgent.ts`, `adProvision.ts`, `routes/onboarding.ts` | requests, items, follow-ups, derived status | create, decide, approve with follow-up, discard, provision groups, create the account | repeated approvals, stale reads across awaits, handlers that do not derive the status | `Onboarding` |
| Licence queue: `services/entraLicensing.ts` | `entra_license_queue`; Entra | queue, pass, assign, fail, wait, expire | overlapping passes, lost answers, retry for 72 hours | `Onboarding` |
| People directory: `people/service.ts`, `people/routing.ts`, `routes/people.ts` | employees, workflows, tasks, approvals, access, assets | hire, leave, complete, approve, reject, import, sync | gates between tasks; several statements a handler; a footprint read once | `People` |
| Intake links: `services/intakeLinks.ts` | single-use invites | create, open, submit, nudge, void, send again | old links in mailboxes; a submission cut short | `IntakeLinks` |
| Bulk mail: `services/emailCampaign.ts` | recipients and their outcome | batch, send, retry | calls that overlap, lost answers | `Campaign` |
| Event dispatcher: `platform/eventDispatcher.ts`, `inngest.ts` | event rows, attempts, backoff | receive, pass, send, retry, recover | at-least-once delivery; events that fail for ever in front of others | `Dispatcher`, `EventDelivery` |
| Sync scheduler: `services/syncScheduler.ts` | schedule and last run per integration | tick, run now, pause, change cadence | ticks that overlap; one that fails | `SyncTimer` |
| Mail by the clock: `reportScheduler.ts`, `personalTasks.ts`, `app.ts` | marks: next run, last digest, flags | weekly, daily and one-time runs | the mark is set before or after the send; overlap, midnight | `ScheduledMail` |
| Collections: `services/collectionWorkflow.ts` | workflows, messages, invoices | enrol, run, pause, resume, stop, pay | paid or paused during the draft of a message | `Collections` |
| ServiceTrade mirror: `servicetradeSync.ts`, `deficiencySync.ts`, `routes/reviews.ts`, `routes/deficiencies.ts` | mirrored rows, cursors, dispositions | scheduled and manual pulls, rebuild | records that change under the pages; a cursor past what was not read | `Mirror` |
| Review requests: `services/reviewRequests.ts`, `routes/reviews.ts` | requests, reminders, marks | sweep, hold, drain, remind, send held, approve, regenerate | two senders on the lists they read; one cap for both kinds | `Reviews` |
| SharePoint scan: `services/spScanEngine.ts`, `sp-access.html` | the walk, saved with the scan | start, step | a page that fails, a call the browser gave up on, overlap | `SpScan` |
| Exceptions queue: `os/exceptions.ts` | exceptions | detect, resolve automatically, resolve, dismiss, reopen | detection and people write one row | `Exceptions` |
| Approval links: `services/approvalLinks.ts` | none: signed addresses | open, decide | decided twice | the decision is `ApproveItem`/`RejectItem` of `Onboarding` |
| Workflow ledger, idempotent resources, policies, action ledger: `platform/*` | runs, keys, records | begin, step, create once | check, await, create | not modelled: no caller |
| Quotes and prices, pipeline, inspections, dispatch, costing | business rows | edits | floats, or no concurrency of their own | not modelled |
| Imports: AD audit, devices, licences, app lists, plans, schedules | mirrored rows | replace | none; what app lists do to checklists is in `Offboarding` | not modelled |
| Agents, harness; voice, Teams, receptionist | conversations | call a language model or telephony | answers of external services | not modelled |
| Roles, scopes, sign-in; client, deployment, wiring, schema | none of their own | | | not modelled |

How they interact. The two boards enqueue rows of `dc_jobs`, whose results are dispatched back to them
by kind (`dispatchSideEffects`); a successful account job also queues a licence, and a licence pass
writes an onboarding item. Approvals of quotes and the outbox share rows, and edits of a quote reach
into both. An intake link ends in an onboarding request. The sync scheduler starts the pulls, and after
them the review drain and the exception detection. Timers in `app.ts` start the handover, the licence
pass, the dispatcher, the reports, the dunning and the digests. App user lists, loaded by a sync, close
items of both boards.

What makes each component correct:

- *Outbox*: one mail per opening of an action; only what an approval shows and a person approved.
- *Job queue*: a row that says done did happen; a second effect needs a claim that ran out.
- *Boards*: the derived status agrees with the items; nothing destructive or restricted without an
  approval; a decision stands; cancelled and discarded requests stay so.
- *Licence queue*: a row that says assigned is a licence; no row waits for ever.
- *People*: nothing restricted without its approval; every open workflow has work somebody can do; a
  leaver keeps nothing; the employee's status follows the workflows.
- *Links, campaigns, reviews, mails by the clock, dunning*: once each, in their period, within their cap,
  not to those who paid, unless an answer was lost or a run was cut.
- *Dispatcher*: every event Inngest takes is delivered, and is closed only then.
- *Mirror*: what a cursor has passed is in the mirror; what people add survives a rebuild.
- *Scan*: a scan that is done has reported every share it could reach.
- *Exceptions*: the queue is what was detected last, but for what people decided.

## Modules

| Module | What it is |
|---|---|
| `DcJobs` | The job queue and its agent. `JobsSpec` is also the abstract specification of what the boards build on. |
| `Offboarding`, `Onboarding` | EXTEND `DcJobs`: every step of the queue is taken inside a handler of the board. `Onboarding` has the licence queue. |
| `Outbox` | The outbox with its approvals and quotes. |
| `People` | One person in the People directory, hired and let go. |
| `IntakeLinks`, `Campaign` | The invites; the bulk mail. |
| `EventDelivery`, `Dispatcher` | What the platform promises of an event; the passes that implement it (`Promise == INSTANCE EventDelivery WITH ...`). |
| `SyncTimer`, `ScheduledMail`, `Collections` | What the process does by the clock. |
| `Mirror`, `Exceptions` | The pulls of ServiceTrade and deficiencies; the queue detected in what they wrote. |
| `Reviews`, `SpScan` | Review requests; the SharePoint scan. |
| `MC...` | Instances for TLC. |
| `...Proofs` | Theorems and proofs: `DcJobsProofs`, `OutboxProofs`, `OffboardingProofs`, `OnboardingProofs`, `PeopleProofs` (the directory, invites and bulk mail), `MirrorProofs` (the pulls, and the exceptions detected after a sync), `TimersProofs` (the timer, mail by the clock, collections and the dispatcher), `ReviewsProofs`. |

Some MC modules hold several components that share no state (`MCTimers`, `MCRetries`, `MCPeople`,
`MCMirror`) or two instances of one (`MCOutbox`). A variable `part` says at the start which of them moves;
the others stay in their initial state. So one run explores the sum of their state spaces, not the
product, and a property of one of them is checked over all its behaviours.

**Outbox.** `action[k]` is the row of `external_actions` with the idempotency key `k`, a quote, a
content and a recipient: the revision hash is a function of the content, so equal contents share a
key. `approval[p]` is a row of `approvals`, with the action whose text it displays. A request goes
through `Approve` or `ApproveRoutine`/`NextRoutine`, `Claim` (the transaction of `executeAction`),
`CallProvider` or `RefuseRevision` (the revision guard), `ProviderAccepts` (Microsoft 365 took the
mail), and `RecordSent` or `RecordFailed`. `reopened` and `delivered` are history.

**DcJobs.** `ClaimPending(b)` is one transaction of `claimPending`; `b` says how far back claims are
stale, so that time needs no clock. `held` counts the copies of a job in the agent's hands, `applied`
its effects in Active Directory; `posted` is a set from which a result may arrive never, late, or many
times. The script posts each result once; that the network repeats it is an over-approximation.
`RecordResult` is the first half of `completeJob`; the boards add the second, `dispatchSideEffects`.

**Offboarding.** An item has a status and who decided it; `verdict` is history. `Recomputed` is
`recompute`. Handlers that await keep what they read in `call[h]`: `SendEmail`/`EmailSent`,
`RunInCloud`/`CloudDone`/`CallFailed`, `HandoverRun`/`HandedOver`/`HandoverFailed`. `Boot` repairs the
board before anybody is served and may come with a release that plans more codes.

**Onboarding.** The items of a request are slots; which slots a form is routed to (`routeItems`) is
the parameter `Forms`, and `FollowUp` is `followUpFor`. `call[h]` holds the rows a provisioning request
or a licence pass has read and not dealt with. `account`, `member` and `licensed` are what Active
Directory and Entra hold. Nothing repairs this board at boot.

**People.** Every statement of `people/service.ts` selects by employee or by workflow, so one person
stands for all. A handler is a sequence of statements; `Commits` lets a restart keep any prefix of it, and
`cut` remembers the workflows that were cut. `CreateOnboarding` and `StartOffboarding` route work items;
`CompleteTask`, `ApproveTask` and `RejectTask` end in `AndFinish` (`maybeFinishWorkflow`). The imports of
BambooHR and Microsoft 365 and the changes by hand write the same rows.

**IntakeLinks, Campaign.** A link has a status, an expiry and the onboarding requests it `made`; whoever
holds one may open or submit it at any time. A submission is several statements and may be cut. A batch of a
campaign holds the rows it read (`SELECT ... LIMIT`) and sends to them one by one.

**Dispatcher.** `event[e]` is the row; `pass[s]` the pass in progress, `running` the module's flag; `taken`
is what Inngest has. `received` orders the rows. `Promise` maps it to `EventDelivery`.

**SyncTimer, ScheduledMail, Collections.** `loop[l]` is a tick or a manual run that awaits one integration
after another. A mail run awaits each mail and then sets its mark. A dunning run has the workflows it read in
`ahead`; `touched` is the history of an invoice's last message. Clocks are in ticks, and ages are capped
where the code no longer tells them apart.

**Mirror, SpScan, Reviews, Exceptions.** A pull fetches a page, writes it, and sets its cursor to the time it
*began*; `noted` is the history of what a listing had to answer for. `SpScan` keeps the walk (queue, current
folder, page) as the code saves it, `Reviews` each sender's list beside the table. `Exceptions` reconciles the
rows of each category with what its detector found; a detector that throws has found nothing.

## Runs

| Run | Instance | Shows |
|---|---|---|
| `outbox` | one quote, two contents, two requests, three approvals, one restart; and two quotes with approve-routine, fair, no restart | claim, revision guard and supersede rule: one mail per opening, nothing unapproved, an action being sent is resolved |
| `offboarding_dc` | one leaver, a task and an approval for the DC, two jobs, three polls, one kill | approvals stand; what the agent closed was done |
| `offboarding_desk` | one leaver, mail, cloud, handover and app list, a later release, two kills, fair | the board agrees with its items; cancelled stays; the handover happens |
| `onboarding` | one hire, two forms, two handlers, one job, one licence row, one kill, fair | access needs an approval; reports are true; a licence settles |
| `people` | one person, two workflows, a restricted system, a premium device, a vehicle, a group; three links over three days; a bulk mail of three | gates hold, workflows end, a leaver keeps nothing; one request per invite; re-runs send once |
| `people_stuck` | violation | a vehicle task waits for an item that was never made |
| `mirror` | an account, two jobs, a deficiency, pages of one; a site of three folders; three subjects in two categories | cursors cover; the scan loses no share; the exceptions queue is present |
| `mirror_disposition` | violation | a restart between rebuild and put-back loses the dispositions |
| `exceptions_decisions` | violation | a dismissal without a reason of a row once resolved automatically is undone |
| `reviews` | three jobs of two customers, two days, the drain and one desk, one trouble | requests apart, one mail each, the cap |
| `timers` | two runs at once of weekly, daily and one-time mail, dunning and integrations | once per period, once a day, not when paid or paused |
| `retries` | two events (one refused), two integrations, two accounts and a site, fair | the dispatcher implements `EventDelivery`; the timer comes to everything; pulls catch up |

The "violation" runs each check one sentence of a comment; PROJECT.json quotes it with the line of code
that does otherwise. Type invariants of `Outbox`, `DcJobs`, `Offboarding`, `Onboarding` and `Dispatcher` are
theorems and are not run again.

Why the bounds are enough for what they check:

- *Two requests, runs, ticks, batches or passes* are what a race needs: the one in progress, and the one
  that comes between.
- *Two contents* give an edit and the way back (A, B, A); *three approvals* allow a re-queue of each.
  Two quotes are needed only where approve-routine works through a list.
- *Two jobs, three polls*: a job, its reclaim and a second job for the same or the other item.
- *One leaver, one hire, one person*: they share no row but the queues, whose sharing is covered by the
  theorems (any number of references), and by approve-routine in the outbox.
- *One kill* falls anywhere, inside or between handlers. `offboarding_desk` has two, because the boot
  repair can itself be killed.
- *People*: an onboarding and an offboarding, or two offboardings. One change by hand, import or sync. HR's
  items with nothing behind them are one (`Closeout`), since each is closed by itself.
- *Invites*: three links are an invite, its replacement and the replacement's; a link lives one day of three.
  Each submission may be cut once. *Bulk mail*: three recipients in batches of two, so that batches overlap
  in some rows; a recipient's mails are counted to two.
- *Mirror*: pages of one record, so that every record is a page of its own; two jobs, so that one moves
  while the other is read. *Scan*: a library of two pages, a folder at the depth limit and one beyond it.
  *Exceptions*: two subjects of one category and one of another, so that a detector reconciles its own.
- *Reviews*: two jobs of one customer and one of another; the cap is two of three. Trouble comes while the
  third job has not (`MCNext` names the bound).
- *Timers*: clocks run past one week of three ticks and two days of two.
- *Dispatcher*: a limit of one, so that a refused event can block the other. Its backoff ends at 640
  seconds, the sixth attempt's: the cap of 900 in the code is never reached.

Symmetry is declared over the runs of `timers`, which checks no liveness. `CHECK_DEADLOCK FALSE` is set where
a bounded instance comes to rest when its jobs, approvals, days and kills are used up.

## Fairness

- *Outbox*: the event loop runs and a network call ends, by an answer or a time-out
  (`WF` on a request's next step). Nothing is assumed of people.
- *Offboarding*: the process is started again (`WF` on `Boot`), network calls end, the hourly tick
  keeps coming (`SF`, because a slot may be busy), and the handover of one leaver does not fail for
  ever (`SF` on `HandedOver`): the code retries daily and has no give-up.
- *Onboarding*: the five-minute timer keeps coming, Graph gives a token, calls end, and no row waits
  in every pass for ever, because a pass expires a row of 72 hours (`SF` on assign, fail or expire).
  Without a token the code leaves even an old row alone, so the token is a true assumption.
- *Dispatcher*: the timer fires (`WF` on `Tick`), a send ends, and Inngest takes and answers for an event it
  does not refuse if it is asked often enough (`SF`: each restart or lost answer takes the chance away).
  Of a refused event nothing is assumed; that it does not block the others is what the refinement shows.
- *Sync timer*: a tick comes and a sync ends. *Mirror*: the scheduled sync is called, a request answers or
  fails, the pull goes on, and no page fails for ever.

`MCRetries` has the three together. A step of one part is never enabled in another, so a condition on
`A \/ B`, with `A` of one part and `B` of another, is the condition on each; merging them keeps the
temporal formula within what TLC can take.

## Proofs

All proofs are checked by `tlapm` to the last leaf, from the named assumptions on the constants alone.

*Outbox* (`OutboxProofs`). `TypeCorrect`. `OnePending`: only `QueueSend` makes an action releasable, and
it supersedes the others of its quote in the same step. `OrphanRule`: inductive as it stands; each path of
`executeAction` records an outcome. `OncePerOpening` is not inductive: it says nothing of requests that have
claimed and not yet sent. `Budget` adds them: what was delivered, plus the requests that may still send, is
at most the re-openings plus one if an attempt has begun. Its proof counts a finite set of requests
(`FiniteSetTheorems`), which is why `Handlers` is assumed finite. `ShowsTheApproved` and `OneByOne` rest on
`ApprovalInv`: an open action belongs to an approval that displays it, a request that holds an approval holds
one that was decided, and (but for re-opened actions) the text of that approval is what it is about to send.

*Job queue* (`DcJobsProofs`). `JobsInvariant` strengthens three properties at once: `Fresh` (rows above the
counter are unused), `JobBudget` (copies in hand, effects, and one if the row may still be handed out, are
paid for by the first hand-out and the reclaims), `PostedApplied` (a posted success took effect). From it:
`OnceUnlessReclaimed`, `DoneIsTrue`, and `DoneStays` as an action property.

*Offboarding* (`OffboardingProofs`). `BoardImplementsJobs` is the refinement: every step of the board,
interrupted ones included, is a step or a stutter of `JobsSpec`, so the queue's theorems hold of the
board (`BoardOnceUnlessReclaimed`, `BoardDoneIsTrue`). `BoardTypeCorrect` and `CancelledForGood` are
by cases over the handlers. For approvals, `ApprovalInv` adds that awaiting handlers hold no approval
(`CallsApart`), that an approved approval was approved by a person (`ApprovalsRecorded`), and that
requests not yet made have no items (`Unstarted`). The proof goes through one intermediate notion, `Lawful`: each action is
shown lawful once (what it may do to an item and to a verdict), and `ApprovalsAreFinal` and
`DeletionApproved` follow from lawfulness without looking at the actions again. `StatusIsDerived` and
`NoStepMissing` share `BoardInv`: a handler that writes items recomputes their request in the same step; one
that is killed before leaves a board that serves nobody until `Boot` has gone over all of them. `TheAgentDidIt`
(`AgentInv`) carries `JobsInv` along: an item is closed by the agent on a result that was posted, and what is
posted was applied.

*Onboarding* (`OnboardingProofs`). `HiresImplementJobs` and `HiresTypeCorrect` as above. The four invariants
of the run have a strengthening each. `FollowInv`: a slot of a request not yet made is blank and a handler
holds only groups that exist. `AccessInv` adds that the payload of a job and the members of groups are
existing items. `ReportInv`: a posted success of an account job is an account; accounts and licences are
never taken away. `SettledInv`: handlers that close items without deriving the status only make fewer
items pending and reject none, so a status that claims more than "open" still holds. `DiscardedForGood`.

*People* (`PeopleProofs`). A handler is a sequence of statements that a restart may cut anywhere, so the
invariant is one of tables and of the set `cut`, and is kept statement by statement: `Sound(tables, cut)`.
`NoDeadEnd` alone is not inductive, since a blocked task is released by the handler that decides what it waits for:
`Waits` says that of every blocked task something undecided is left (or nobody reports at all). `Alive` says that a
workflow with no open item was completed, `Held` that whatever an offboarded person still has is the work of a
pending item, `BesideSound` and `Settles` which workflow has the last word about the employee's status.
`FlowSound` is claimed of the workflows not in `cut`; the gates (`ItemsSound`) and `DoneIsDone` of all. From it
`NothingBeforeItsGate`, `SomebodyCanDecide`, `TheLeaverIsClean` and `TheStatusIsTheWorkflows`.

*Invites and bulk mail* (`PeopleProofs`). `CampaignInv`: whoever may still be sent to, by a batch that has the
row or by one to come, was not mailed yet or is among the reasons. `IntakeInv`: of the links of an invite that
was never renewed one is not voided, and a link that made a request is closed. From them `NobodyTwice`,
`OneHireOnce` and `DeadForGood`.

*Pulls of ServiceTrade* (`MirrorProofs`). `CursorNeverPassesAChange` says nothing of a pull under way, whose end moves the
cursor. `PullSound` adds, for each puller: what its listing has to answer for is in the mirror, among the rows in
hand, or on a page still to come. That a record does not slip from a later page to an earlier one between two requests
is where the order of the listing enters, and the tables where it does are `disturbed`. `TablesSound` bounds mirror and
cursor by ServiceTrade and the clock, `DisturbedSound` says that pulls that cross are noted. `MirrorNeverGoesBack`
and `RebuildKeepsDispositions` are steps under the same invariant.

*Exceptions* (`MirrorProofs`). `QueueInv`: the text of a resolution
tells who closed a row, so that what nobody decided was closed by a detection (`QueueReflectsThePresent`; the
proof is with the syncs that end in a detection, and shows what is missing without a reason: the marker).

*SharePoint scan* (`MirrorProofs`). `ScanReports` says that a scan which is done told of every share in reach, and
told of it once. `ScanInv` carries two ledgers of every walk, the one in the row and those of the calls in progress.
`Covers`: with some set of places it has listed, each folder below a listed one is listed, queued or in progress,
and each share on a listed page was told; a walk with nothing left then told of all (`DrainedTold`, by the least
level that would have a folder unlisted; `LevelIs` shows that the recursive `Level` exists). `Budget`: what was
reported of an item, the calls that may still come to it and the walk in the row are at most one and the strays.
Since the site is a tree (`SpScanAssumption`: to each item there is one way down from a drive), a walk has at most
one entry of that way before it (`OneWay`), and listing a page, dealing with an item and turning the page keep it so.
From it `TheScanReports`.

*Clock* (`TimersProofs`). `SyncInv`: an integration that does not run ended no sooner than
the timer began it, or was excused; `PauseHolds` and `CadenceKept` follow for any integrations and ticks.
`CInv`: the next due time of an invoice, and those read ahead by a run, are a day from its last message, and an
invoice in the hands of two runs is marked as such. `MailInv`: a mail that went out has a mark that tells it, or is
with the run that will set the mark, or lost it; what a run alone has ahead may go; a one-time mail is in one
run's hands, with its flag set if it is claimed. `OnceAPeriod` follows without looking at the step.

*Dispatcher* (`TimersProofs`). `DInv`: one pass at a time, its rows are open and in order, the row at its
head is taken, and closed rows are taken. `DeliverySafe`: every step is a step or a stutter of the safety part
of `EventDelivery`. Its liveness part is `ImplementsDelivery` of the run.

*Reviews* (`ReviewsProofs`). The three properties count what was mailed; the invariant counts also what is owed.
`RowOK`: the mails and reminders of a request, and those that senders still owe it, are at most one and its
excuses. `CapBudget`: on a day on which no two senders met, what was sent and what the one at work has in hand
fit the cap. `LoopOK`: a list in hand has no request twice; `Ascending` (a list of ids in order) is shown to exist
by the least counterexample, since induction is not available. From `ReviewsInv`: `OnePerPeriod`, `OncePaidFor`, `TheCapHolds`.

Only model-checked: every liveness property (`BulkResolves`, `HandoverHappens`, `LicenceSettles`,
`ImplementsDelivery`, `SyncsGoOn`, `AccountsCatchUp`), which the prover cannot express with fairness.

## What the excuses say

Several properties name the cases in which the code does otherwise. They are part of what was found:

- Everything that mails does so at least once and not exactly once: a lost answer, a kill after the mail, or
  two senders with the same row send it again (`AtMostOncePerOpening`, `OncePerPeriod`, `OnceADay`,
  `OnceUnlessExcused`, `ReRunsSendOnce`).
- Reviews are kept apart by `created_at`, not by the time of the mail: a held request that is mailed late may be
  followed by another within 90 days of it (`reviewRequests.ts:17`).
- A hire without work items never completes, and a handler of `People` that is cut by a restart can leave a
  workflow without work; `NoDeadEnd` excuses the workflows in `cut`, nothing repairs them.
- Overlapping pulls of one table (`routes/reviews.ts:54`, `routes/deficiencies.ts:129`) may set the mirror back,
  and a page of open jobs may shift under a pull: the properties exclude the tables in `disturbed`.
- Two requests of one campaign, or two steps of one scan, run side by side when the browser gave up on the first.

## Known divergences without a run of their own

Outbox and quotes

- `outbox.ts:152`: "never sends twice" does not survive a lost answer, which is recorded as failed and may be
  queued again; `outbox.ts:120`: the claim is "inside a transaction so concurrent callers can't both proceed",
  but `queueProposalSend` resets a row in `sending` (92-94), and a second request claims it beside the first.
- `approvals.ts:173`: approve-routine executes a row that was skipped after it read its list.
- A pending approval that is reused keeps the risk of the content it was made for (`approvals.ts:55`), and
  its text is rewritten while somebody may be reading the old one. `outbox.ts:53` takes the newest row of an
  approval: after A, B, A a failed action of an old text can be claimed under another approval's text.
- `proposalEmail.ts:80` sets the quote to sent after the await, whatever it has become meanwhile.

Boards

- `dcJobs.ts:33-34`: "a job is never handed out twice" holds within a poll; a claim that ran out is
  handed out again (`OnceUnlessStale` says how often). A row in error is overwritten by a late success
  (56 settles only done and cancelled). A kill between the row and its effects (61) leaves a done job and a
  pending item, since the repeated result finds the job settled.
- `offboardingAutomation.ts:75` and `offboardingAgent.ts:574` rewrite who decided an item.
  `offboardingAgent.ts:377-384`: a kill between the insert of a late step and its N/A mark makes the next
  boot reopen a finished offboarding. Cancelling one leaves its queued jobs on the queue (581).
- `onboardingAgent.ts:539` leaves a request open with nothing pending; 548-556 closes every security-group item
  although the agent reports which it added (`collect-ad-inventory.ps1:166` skips those it cannot), and adds
  none for an account that existed; 555 marks the company email done before any licence.
- `entraLicensing.ts:31` avoids duplicate open rows, but a pass that read a row before another pass set it
  to error may set it to assigned after a second row was queued.

People

- Completing one asset-recovery task marks every asset of that type returned (`people/service.ts:186`).
- An onboarding that ends during an offboarding sets the leaver active (206; `StatusFollows` excuses it), and a
  late onboarding task or the Microsoft 365 sync puts revoked access back.

Clock and mail

- A paused or stopped collection workflow still gets the message of a run that had its row; a digest run that
  goes on past midnight puts yesterday's mark back over today's.
- `emailCampaign.ts:11`: "a re-run never double-sends" holds without overlapping calls and lost answers.
- Sending a *test* intake link again makes a real one.

SharePoint and exceptions

- `spScanEngine.ts:178`: a kill, or a step beside another, lists a share twice. 136 asks for the first fifty
  permissions of an item and follows no page: grants beyond them are not listed.
- `spFolderConvert.ts:97-99`: shares are revoked "only once the group is granted, so access is never dropped
  to zero", but a person whom `addUserToGroup` failed to add loses the direct share all the same, and an
  on-prem group needs only one member, not these, for the shares of all of them to be revoked.
- A detector of `exceptions.ts` that throws has found nothing, so its whole category is resolved automatically
  and opened again by the next detection (36). A row that a person resolved stays resolved if its condition
  clears and later returns.

## Not modelled

Formatting, texts, due dates, routing of mail, audit rows, counters that are only reported. Attempts and
`provider_detail` of the outbox. In the boards, the identity of people: a request stands for a person, so two
requests for one person are outside (`offboardingAgent.ts:216` does not ask for one). In `Onboarding`, the tasks
nobody but a person closes are represented by one (`trade`, which ServiceTrade's list may close as well); a
group item without a group id is never read by `Provision`; hires whose account was made by hand are those
whose job finds an account. In `People`, credentials and the linking of identities. In `Reviews`, a click on a
review link comes at any time; `queueReviewRequest` and the approval route the page does not call are left out.
In `IntakeLinks`, `createRequest` is one of the statements of a submission.

The map covers about a tenth of the implementation, and a faithful model will not cover much more. Most of
the rest has nothing in it that a model checker could tell apart:

- a tenth is schema, seed and demo data; another large part composes pages, mails, prompts, CSV and scripts;
- imports and audits (devices, licences, phone lists, AD, plans, schedules) read a remote list and replace a
  table in one transaction, and reports and metrics are queries over it;
- agents, the harness, voice and the receptionist act on a language model's or a telephone system's answers;
- price book, takeoff and costing are arithmetic on floats, and their guards (thresholds, margins) are outside
  TLC's integers; only that an edit changes the content of a quote matters to the outbox;
- roles and scopes are tables of constants and functions of one request; a model of them would be their text
  again, compared with itself;
- `platform/workflowLedger.ts`, `idempotency.ts`, `executor.ts`, `actionLedger.ts` and `outcomes.ts` are called
  by nothing but their own test;
- an approval link is a signed address without a row.

## What is left

1. `BoardMatchesItems` and `FirstOpeningShowsApproval` for any number of leavers and quotes.
2. The folder conversion of the SharePoint suite, with the sentence quoted above as a run.
3. `Mirror`: `CursorCovers` as a theorem, for any records, pages and pulls.
