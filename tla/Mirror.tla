------------------------------- MODULE Mirror -------------------------------
(* The mirror of ServiceTrade's records, services/servicetradeSync.ts and    *)
(* services/deficiencySync.ts: pulls of one listing after another, page by    *)
(* page, each page an awaited GET and then one transaction.  Every listing    *)
(* has a cursor, the time its last finished pull began, and the next pull     *)
(* asks only for what changed since: what a pull overlooks is never asked     *)
(* for again.  That is what the properties are about.                         *)
(* ServiceTrade itself is external: clocks agree, a listing is in the order   *)
(* of ids and "updatedAfter" includes its own second.                         *)
EXTENDS Integers, FiniteSets, Sequences, SequencesExt, FiniteSetsExt

CONSTANTS
  Accounts, Sites, Invoices, Quotes, Jobs, Deficiencies,  \* disjoint sets of ids
  Old,         \* the records there before the first pull
  Parent,      \* the account of a site and of an invoice
  PageSize,    \* records on a page of ServiceTrade's answer
  MaxTime,     \* bound: the seconds the clock may show
  MaxChanges,  \* bound: changes made in ServiceTrade
  MaxActs      \* bound: pulls started by hand and restarts of the process

Records == Accounts \cup Sites \cup Invoices \cup Quotes \cup Jobs \cup Deficiencies

(* Ids are numbers, and ServiceTrade numbers each kind of record by itself:   *)
(* here their numbers are apart.                                              *)
Kinds == <<Accounts, Sites, Invoices, Quotes, Jobs, Deficiencies>>

ASSUME MirrorAssumption ==
  /\ Records \subseteq Nat /\ IsFiniteSet(Records)
  /\ \A i, j \in 1..6 : i # j => Kinds[i] \cap Kinds[j] = {}
  /\ Old \subseteq Records \ Deficiencies
  /\ Parent \in [Sites \cup Invoices -> Accounts]
  /\ PageSize \in Nat \ {0} /\ MaxTime \in Nat \ {0} /\ MaxChanges \in Nat \ {0} /\ MaxActs \in Nat

VARIABLES
  now,        \* the clock, in seconds
  remote,     \* ServiceTrade: the second and the number of a record's last change
  completed,  \* ServiceTrade: the jobs with a completedOn
  mirror,     \* our tables: the change a row shows, 0 when there is no row
  skipped,    \* history: the change of a row last passed over for want of its account
  cursor,     \* st_cursor_<entity> in app_state, 0 when never pulled
  noted,      \* the deficiencies a person gave a disposition
  pull,       \* the pulls of this process
  disturbed,  \* history: the listings whose pull something crossed: another
              \* pull, a job that closes, a kill inside the rebuild
  acts        \* pulls started by hand and restarts so far

vars == <<now, remote, completed, mirror, skipped, cursor, noted, pull, disturbed, acts>>

(* The order of runScheduledSync.  Deficiencies have no cursor.              *)
Order == <<"accounts", "sites", "invoices", "jobs", "quotes", "deficiencies", "completed_jobs">>
Entity == Range(Order)
Aggregated == {"invoices", "deficiencies"}   \* written once, after the last page

(* "sync" is the pull under runningEntity: the scheduled one or a person's    *)
(* full pull.  "reviews" is the history or backfill pull of routes/reviews.ts *)
(* and "desk" the refresh of routes/deficiencies.ts: neither looks at it.     *)
Pullers == {"sync", "reviews", "desk"}

Idle == [pc |-> "idle", entity |-> "accounts", scheduled |-> FALSE, since |-> 0,
         began |-> 0, page |-> 0, pages |-> 0, held |-> {}, seen |-> {}]

Row == [id : Records, change : 1..MaxChanges, completed : BOOLEAN]
Pull == [pc : {"idle", "asking", "answered"}, entity : Entity, scheduled : BOOLEAN,
         since : 0..MaxTime, began : 0..MaxTime, page : Nat, pages : Nat,
         held : SUBSET Row, seen : SUBSET Row]

(* The types of the state.                                                    *)
TypeOK ==
  /\ now \in 1..MaxTime
  /\ remote \in [Records -> [at : 0..MaxTime, change : 0..MaxChanges]]
  /\ completed \subseteq Jobs
  /\ mirror \in [Records -> 0..MaxChanges]
  /\ skipped \in [Records -> 0..MaxChanges]
  /\ cursor \in [Entity -> 0..MaxTime]
  /\ noted \subseteq Deficiencies
  /\ pull \in [Pullers -> Pull]
  /\ disturbed \subseteq Entity
  /\ acts \in 0..MaxActs

-----------------------------------------------------------------------------
(* ServiceTrade's answers.  A listing of jobs shows the open ones; completed  *)
(* jobs are asked for with status=* when there is a cursor, and by completion *)
(* date when there is none.                                                   *)
Members(entity, since) ==
  CASE entity = "accounts"       -> Accounts
    [] entity = "sites"          -> Sites
    [] entity = "invoices"       -> Invoices
    [] entity = "jobs"           -> Jobs \ completed
    [] entity = "quotes"         -> Quotes
    [] entity = "deficiencies"   -> Deficiencies
    [] entity = "completed_jobs" -> IF since = 0 THEN completed ELSE Jobs

Listing(entity, since) ==
  {r \in Members(entity, since) : remote[r].at > 0 /\ remote[r].at >= since}

Page(listing, n) ==
  {r \in listing : Cardinality({q \in listing : q < r}) \div PageSize = n - 1}

Pages(listing) == Max({1, (Cardinality(listing) + PageSize - 1) \div PageSize})

RowOf(r) == [id |-> r, change |-> remote[r].change, completed |-> r \in completed]

-----------------------------------------------------------------------------
(* A pull.                                                                    *)
Begin(entity, since, scheduled) ==
  [Idle EXCEPT !.pc = "asking", !.entity = entity, !.since = since,
               !.scheduled = scheduled, !.began = now, !.page = 1]

(* runScheduledSync goes on with the next listing that has a cursor.  Its     *)
(* invoices and deficiencies are always pulled in full.                       *)
Follow(entity, scheduled, curs) ==
  LET after == {i \in 1..Len(Order) :
                  /\ \E j \in 1..(i - 1) : Order[j] = entity
                  /\ Order[i] = "deficiencies" \/ curs[Order[i]] > 0}
  IN IF ~scheduled \/ after = {} THEN Idle
     ELSE LET next == Order[Min(after)]
          IN Begin(next, IF next \in Aggregated THEN 0 ELSE curs[next], TRUE)

(* Two pulls of one table at once: crm_jobs for jobs and completed jobs,      *)
(* deficiencies for itself.                                                   *)
JobListings == {"jobs", "completed_jobs"}
Crossed(pulls) ==
  LET busy(p, listings) == pulls[p].pc # "idle" /\ pulls[p].entity \in listings
  IN (IF busy("sync", JobListings) /\ busy("reviews", JobListings) THEN JobListings ELSE {})
     \cup (IF busy("sync", {"deficiencies"}) /\ busy("desk", {"deficiencies"})
           THEN {"deficiencies"} ELSE {})

Pulls(p, q) ==
  /\ pull' = [pull EXCEPT ![p] = q]
  /\ disturbed' = disturbed \cup Crossed(pull')

TablesStand == UNCHANGED <<now, remote, completed, mirror, skipped, cursor, noted>>
ByHand == acts < MaxActs /\ acts' = acts + 1

(* runScheduledSync: nothing while another pull has runningEntity.            *)
ScheduledSync ==
  /\ pull["sync"].pc = "idle"
  /\ LET due == {i \in 1..Len(Order) : Order[i] = "deficiencies" \/ cursor[Order[i]] > 0}
         first == Order[Min(due)]
     IN Pulls("sync", Begin(first, IF first \in Aggregated THEN 0 ELSE cursor[first], TRUE))
  /\ TablesStand /\ UNCHANGED acts

\* Mutant: a full pull does not ask whether another pull is running.
StartPullAnyway(entity) ==
  /\ ByHand
  /\ pull["desk"].pc = "idle"
  /\ Pulls("desk", Begin(entity, 0, FALSE))
  /\ TablesStand

(* POST /pull/:entity: a full pull in the background, one at a time.          *)
StartPull(entity) ==
  /\ ByHand
  /\ pull["sync"].pc = "idle"
  /\ Pulls("sync", Begin(entity, 0, FALSE))
  /\ TablesStand

(* POST /api/reviews/history and /backfill call pullCompletedJobs directly.   *)
ReviewsPull ==
  /\ ByHand
  /\ pull["reviews"].pc = "idle"
  /\ Pulls("reviews", Begin("completed_jobs", 0, FALSE))
  /\ TablesStand

(* POST /api/deficiencies/sync calls syncDeficiencies directly.               *)
DeskRefresh ==
  /\ ByHand
  /\ pull["desk"].pc = "idle"
  /\ Pulls("desk", Begin("deficiencies", 0, FALSE))
  /\ TablesStand

(* ServiceTrade answers a page.                                               *)
Fetch(p) ==
  LET q == pull[p]
      listing == Listing(q.entity, q.since)
  IN /\ q.pc = "asking"
     /\ pull' = [pull EXCEPT ![p].pc = "answered", ![p].pages = Pages(listing),
                             ![p].held = {RowOf(r) : r \in Page(listing, q.page)}]
     /\ UNCHANGED <<now, remote, completed, mirror, skipped, cursor, noted, disturbed, acts>>

\* Mutant: the cursor is the time the pull ended.
CursorAtEnd(q) == IF q.entity = "deficiencies" THEN cursor
                  ELSE [cursor EXCEPT ![q.entity] = now]

(* The cursor is the time the pull began.                                     *)
NewCursor(q) == IF q.entity = "deficiencies" THEN cursor
                ELSE [cursor EXCEPT ![q.entity] = q.began]

\* Mutant: a failing pull moves its cursor as a finished one does.
FetchFailsDone(p) ==
  /\ pull[p].pc = "asking"
  /\ cursor' = NewCursor(pull[p])
  /\ Pulls(p, Idle)
  /\ UNCHANGED <<now, remote, completed, mirror, skipped, noted, acts>>

(* The GET fails: the pull ends and its cursor stays; only the deficiencies'  *)
(* failure is swallowed by the scheduled sync, which goes on.                 *)
FetchFails(p) ==
  /\ pull[p].pc = "asking"
  /\ Pulls(p, IF pull[p].entity = "deficiencies"
              THEN Follow("deficiencies", pull[p].scheduled, cursor) ELSE Idle)
  /\ TablesStand /\ UNCHANGED acts

(* What a page's transaction writes.  A site needs its account, an invoice    *)
(* adds to a balance only of an account that is mirrored.                     *)
Ready(q) == q.entity \notin Aggregated \/ q.page >= q.pages
Batch(q) == IF q.entity \in Aggregated THEN q.seen \cup q.held ELSE q.held
Orphan(row) == row.id \in DOMAIN Parent /\ mirror[Parent[row.id]] = 0
Written(q) == {row \in Batch(q) : ~Orphan(row) /\ (q.entity = "completed_jobs" => row.completed)}

Changes(rows, r) == {row.change : row \in {x \in rows : x.id = r}}
Over(table, rows) ==
  [r \in DOMAIN table |-> IF Changes(rows, r) = {} THEN table[r] ELSE Max(Changes(rows, r))]

(* The deficiencies are deleted and written anew, and the dispositions of the *)
(* rows that come back are put back.                                          *)
Mirrored(q) ==
  IF q.entity = "deficiencies"
  THEN Over([r \in Records |-> IF r \in Deficiencies THEN 0 ELSE mirror[r]], Written(q))
  ELSE Over(mirror, Written(q))

\* Mutant: the rebuild does not put the dispositions back.
WritePageAndForget(p) ==
  LET q == pull[p]
  IN /\ mirror' = IF Ready(q) THEN Mirrored(q) ELSE mirror
     /\ noted' = IF Ready(q) /\ q.entity = "deficiencies" THEN {} ELSE noted
     /\ skipped' = IF Ready(q) THEN Over(skipped, {row \in Batch(q) : Orphan(row)}) ELSE skipped

WritePage(p) ==
  LET q == pull[p]
  IN /\ mirror' = IF Ready(q) THEN Mirrored(q) ELSE mirror
     /\ noted' = {d \in noted : mirror'[d] > 0}
     /\ skipped' = IF Ready(q) THEN Over(skipped, {row \in Batch(q) : Orphan(row)}) ELSE skipped

(* The answer is here: one page written, and the next one asked for.          *)
NextPage(p) ==
  LET q == pull[p]
  IN /\ q.pc = "answered" /\ q.page < q.pages
     /\ WritePage(p)
     /\ pull' = [pull EXCEPT ![p].pc = "asking", ![p].page = @ + 1, ![p].held = {},
                   ![p].seen = IF q.entity \in Aggregated THEN @ \cup q.held ELSE @]
     /\ UNCHANGED <<now, remote, completed, cursor, disturbed, acts>>

(* The last page: the cursor moves, and the scheduled sync goes on at once.   *)
Finish(p) ==
  LET q == pull[p]
  IN /\ q.pc = "answered" /\ q.page >= q.pages
     /\ WritePage(p)
     /\ cursor' = NewCursor(q)
     /\ Pulls(p, Follow(q.entity, q.scheduled, cursor'))
     /\ UNCHANGED <<now, remote, completed, acts>>

-----------------------------------------------------------------------------
(* The rest of the world.                                                     *)
Tick ==
  /\ now < MaxTime
  /\ now' = now + 1
  /\ UNCHANGED <<remote, completed, mirror, skipped, cursor, noted, pull, disturbed, acts>>

ChangesSoFar == Max({remote[r].change : r \in Records})

(* A record is made or changed; a job may be completed by it, which takes it  *)
(* out of the listing of open jobs, under the pages a pull has yet to ask for.*)
RemoteChange(r) ==
  /\ ChangesSoFar < MaxChanges
  /\ remote' = [remote EXCEPT ![r] = [at |-> now, change |-> ChangesSoFar + 1]]
  /\ \/ UNCHANGED <<completed, disturbed>>
     \/ /\ r \in Jobs \ completed
        /\ completed' = completed \cup {r}
        /\ disturbed' = IF pull["sync"].pc # "idle" /\ pull["sync"].entity = "jobs"
                        THEN disturbed \cup {"jobs"} ELSE disturbed
  /\ UNCHANGED <<now, mirror, skipped, cursor, noted, pull, acts>>

(* A person gives a deficiency on the board a disposition, or clears it.      *)
Dispose(d) ==
  /\ mirror[d] > 0
  /\ noted' \in {noted \cup {d}, noted \ {d}}
  /\ UNCHANGED <<now, remote, completed, mirror, skipped, cursor, pull, disturbed, acts>>

Kill ==
  /\ ByHand
  /\ pull' = [p \in Pullers |-> Idle]
  /\ TablesStand /\ UNCHANGED disturbed

(* The rebuilt table and the dispositions put back are two transactions: the  *)
(* process may end between them.                                              *)
RebuildInterrupted(p) ==
  LET q == pull[p]
  IN /\ ByHand
     /\ q.pc = "answered" /\ q.page >= q.pages /\ q.entity = "deficiencies"
     /\ mirror' = Mirrored(q)
     /\ noted' = {}
     /\ pull' = [x \in Pullers |-> Idle]
     /\ disturbed' = disturbed \cup {"deficiencies"}
     /\ UNCHANGED <<now, remote, completed, skipped, cursor>>

(* The old records are in ServiceTrade, either never pulled or all of them    *)
(* pulled in second 1.                                                        *)
Init ==
  /\ now = 1
  /\ remote = [r \in Records |-> IF r \in Old THEN [at |-> 1, change |-> 1]
                                              ELSE [at |-> 0, change |-> 0]]
  /\ completed = {} /\ noted = {} /\ disturbed = {}
  /\ skipped = [r \in Records |-> 0]
  /\ \E pulled \in {0, 1} :
       /\ mirror = [r \in Records |-> pulled * remote[r].change]
       /\ cursor = [e \in Entity |-> IF e = "deficiencies" THEN 0 ELSE pulled]
  /\ pull = [p \in Pullers |-> Idle]
  /\ acts = 0

Next ==
  \/ ScheduledSync \/ ReviewsPull \/ DeskRefresh
  \/ \E e \in Entity \ {"deficiencies", "completed_jobs"} : StartPull(e)
  \/ \E p \in Pullers : Fetch(p) \/ FetchFails(p) \/ NextPage(p) \/ Finish(p)
                       \/ RebuildInterrupted(p)
  \/ Tick \/ Kill
  \/ \E r \in Records : RemoteChange(r)
  \/ \E d \in Deficiencies : Dispose(d)

(* The timer calls runScheduledSync for ever, every GET is answered or fails,  *)
(* the event loop resumes a pull, and no page of accounts fails for ever.      *)
Fairness ==
  /\ WF_vars(ScheduledSync)
  /\ WF_vars(Fetch("sync") \/ FetchFails("sync"))
  /\ WF_vars(NextPage("sync") \/ Finish("sync"))
  /\ \A n \in 1..(Cardinality(Accounts) + 1) :
       SF_vars(Fetch("sync") /\ pull["sync"].entity = "accounts" /\ pull["sync"].page = n)

Spec == Init /\ [][Next]_vars /\ Fairness

-----------------------------------------------------------------------------
(* What a listing answers for: what its pull may leave unasked for ever.      *)
Settled(entity) ==
  IF entity = "completed_jobs" THEN completed
  ELSE IF entity \in disturbed THEN {} ELSE Members(entity, 1)

(* Nothing that changed before the cursor is missing: it is in the mirror as  *)
(* it is in ServiceTrade, or was passed over because its account is not       *)
(* mirrored (pullSites: "a site whose parent account isn't in our mirror is   *)
(* skipped").  Kills, failing pages and changes between two pages included.   *)
CursorCovers ==
  \A e \in Entity \ (disturbed \cup {"deficiencies"}) : \A r \in Settled(e) :
    remote[r].at \in 1..(cursor[e] - 1) => remote[r].change \in {mirror[r], skipped[r]}

(* "Preserve human dispositions across the clean rebuild": no pull loses one, *)
(* as long as two refreshes do not run at once and no kill parts the rebuild. *)
DispositionsKept ==
  [][pull' # pull => noted \subseteq noted' \/ "deficiencies" \in disturbed']_vars

(* The same without the reservation, as the comment in syncDeficiencies says  *)
(* it: does not hold.                                                         *)
DispositionsSurvive == [][pull' # pull => noted \subseteq noted']_vars

(* The mirror does not go back in time, overlapping pulls aside.              *)
NeverOlder ==
  [][\A r \in Records : mirror'[r] >= mirror[r]
       \/ (r \in Jobs /\ JobListings \subseteq disturbed)
       \/ (r \in Deficiencies /\ "deficiencies" \in disturbed)]_vars

(* An account that was ever pulled in full catches up with ServiceTrade.      *)
CatchesUp ==
  \A a \in Accounts : (cursor["accounts"] > 0) ~> (mirror[a] = remote[a].change)
=============================================================================
