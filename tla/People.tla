------------------------------ MODULE People ------------------------------
(* The lifecycle of one person in the People directory (people/service.ts,   *)
(* people/routing.ts, routes/people.ts): the hire is routed into tasks and    *)
(* approvals, the leaver's footprint into tasks that take it back.  Every     *)
(* statement of the code selects by employee or by workflow, so one person    *)
(* stands for all.                                                            *)
(*                                                                            *)
(* A handler is a row of statements that each commit on their own: "cut" are  *)
(* the workflows one of whose handlers a restart has cut short.               *)
EXTENDS Naturals, Sequences, FiniteSets, SequencesExt

CONSTANTS
  Desk,         \* a hire's work items of HR and safety, with nothing behind them
  Closeout,     \* a leaver's work items of HR
  Systems,      \* software, SharePoint groups and portals
  Restricted,   \* the systems an approver has to grant
  Devices,      \* hardware and cards
  Premium,      \* the devices an executive has to grant
  Vehicle,      \* the asset that waits for the motor vehicle report
  Groups,       \* security groups of Microsoft 365
  MaxFlows,     \* bound on the workflows of the person
  MaxRows,      \* bound on the rows of access, and on the rows of assets
  MaxByHand     \* bound on the changes made by hand, by import or by sync

ASSUME PeopleAssumption ==
  /\ Restricted \subseteq Systems /\ Premium \subseteq Devices /\ Vehicle \notin Devices
  /\ Systems \cap Groups = {} /\ IsFiniteSet(Systems) /\ IsFiniteSet(Devices)
  /\ MaxFlows \in Nat \ {0} /\ MaxRows \in Nat /\ MaxByHand \in Nat

VARIABLES
  db,       \* the tables, for this person
  cut,      \* history: workflows with a handler that was cut short
  byHand    \* changes made by hand, by import or by sync (bounded)

vars == <<db, cut, byHand>>

(* ------------------------------ routing ----------------------------------- *)

Task(key, gate, system, asset) ==
  [key |-> key, kind |-> "task", gate |-> gate, system |-> system, asset |-> asset]

Approval(key, system) ==
  [key |-> key, kind |-> "approval", gate |-> {}, system |-> system, asset |-> {}]

Gated(gate, task, approval) == {Approval(gate, approval), [task EXCEPT !.gate = {gate}]}

Mvr == <<"safety_mvr", Vehicle>>

Intakes ==
  [desk: SUBSET Desk, systems: SUBSET Systems, devices: SUBSET Devices,
   premium: BOOLEAN, mvr: BOOLEAN, vehicle: {"none", "company", "transfer"}]

RouteSystem(s) ==
  LET provision == Task(<<"it", s>>, {}, {s}, {}) IN
  IF s \in Restricted THEN Gated(<<"appr", s>>, provision, {s}) ELSE {provision}

RouteDevice(d, premium) ==
  LET issue == Task(<<"it", d>>, {}, {}, {d}) IN
  IF premium /\ d \in Premium THEN Gated(<<"exec_hw", d>>, issue, {}) ELSE {issue}

RouteVehicle(intake) ==
  {i \in {Task(Mvr, {}, {}, {}), Task(<<"safety_vehicle", Vehicle>>, {Mvr}, {}, {Vehicle})} :
     IF i.key = Mvr THEN intake.mvr \/ intake.vehicle = "company" ELSE intake.vehicle # "none"}

RouteOnboarding(intake) ==
  {Task(<<"hr", k>>, {}, {}, {}) : k \in intake.desk}
    \cup (UNION {RouteSystem(s) : s \in intake.systems})
    \cup (UNION {RouteDevice(d, intake.premium) : d \in intake.devices})
    \cup RouteVehicle(intake)

HoldingProvisioned(d) == {r \in DOMAIN d.access : d.access[r].status = "provisioned"}

(* What the leaver has, by row: the footprint and its reversal.               *)
Holding(d) == {r \in DOMAIN d.access : d.access[r].status \in {"requested", "awaiting_approval", "approved", "provisioned"}}
InHand(d) == {r \in DOMAIN d.assets : d.assets[r].status \in {"assigned", "pending_return"}}

RouteOffboarding(d) ==
  {Task(<<"off_hr", k>>, {}, {}, {}) : k \in Closeout}
    \cup {Task(<<"off_access", r>>, {}, {d.access[r].system}, {}) : r \in Holding(d)}
    \cup {Task(<<"off_asset", r>>, {}, {}, {d.assets[r].type}) : r \in InHand(d)}

(* ------------------------------ statements -------------------------------- *)
(* Each takes the tables and gives them after one statement has committed.    *)

Open == {"pending", "blocked", "awaiting_approval"}

InitialStatus(i) ==
  IF i.kind = "approval" THEN "awaiting_approval" ELSE IF i.gate # {} THEN "blocked" ELSE "pending"

Here(d) == Len(d.flows)

Access(d, s, status) == [system |-> s, status |-> status, since |-> Here(d)]
Asset(d, t, status) == [type |-> t, status |-> status, since |-> Here(d)]

Employed(d, status) == [d EXCEPT !.employment = status]

InsertFlow(d, kind) ==
  [d EXCEPT !.flows = Append(@, [kind |-> kind, status |-> "open",
                                 beside |-> {w \in DOMAIN d.flows : d.flows[w].status = "open"}]),
            !.tasks = Append(@, << >>)]

(* The tasks of a workflow, and the access a hire is going to have, in one    *)
(* transaction.                                                               *)
PersistItems(d, items, mode) ==
  LET wanted == {i \in items : i.kind = "task" /\ i.system # {}}
      row(i) == Access(d, CHOOSE s \in i.system : TRUE, IF i.gate # {} THEN "awaiting_approval" ELSE "requested")
      rows == [n \in 1..Cardinality(wanted) |-> row(SetToSeq(wanted)[n])]
  IN [d EXCEPT !.tasks[Here(d)] = [i \in items |-> InitialStatus(i)],
               !.access = IF mode = "onboarding" THEN @ \o rows ELSE @]

Decided(d, w, i, status) == [d EXCEPT !.tasks[w][i] = status]

NotRemoved == {"requested", "awaiting_approval", "approved", "provisioned", "revoked"}

Marked(d, row, status) ==
  [row EXCEPT !.status = status, !.since = IF status \in {"revoked", "removed"} THEN @ ELSE Here(d)]

EveryAccess(d, i, from, status) ==
  [d EXCEPT !.access = [r \in DOMAIN @ |->
     IF @[r].system \in i.system /\ @[r].status \in from THEN Marked(d, @[r], status) ELSE @[r]]]

AccessChanged(d, w, i) ==
  IF d.flows[w].kind = "offboarding"
  THEN EveryAccess(d, i, NotRemoved \ {"revoked"}, "revoked")
  ELSE EveryAccess(d, i, NotRemoved, "provisioned")

AssetChanged(d, w, i) ==
  IF d.flows[w].kind = "offboarding"
  THEN [d EXCEPT !.assets = [r \in DOMAIN @ |->
         IF @[r].type \in i.asset /\ @[r].status \in {"assigned", "pending_return"}
         THEN [@[r] EXCEPT !.status = "returned"] ELSE @[r]]]
  ELSE [d EXCEPT !.assets = @ \o SetToSeq(
         {Asset(d, t, "assigned") : t \in {t \in i.asset :
            ~ \E r \in DOMAIN d.assets : d.assets[r].type = t /\ d.assets[r].status = "assigned"}})]

Dependents(d, w, i, status) ==
  [d EXCEPT !.tasks[w] = [j \in DOMAIN @ |->
     IF i.key \in j.gate /\ @[j] = "blocked" THEN status ELSE @[j]]]

(* maybeFinishWorkflow, two statements: the workflow, then the person.        *)
Finishes(d, w) == d.flows[w].status = "open" /\ \A i \in DOMAIN d.tasks[w] : d.tasks[w][i] \notin Open

FlowDone(d, w) == IF Finishes(d, w) THEN [d EXCEPT !.flows[w].status = "complete"] ELSE d

Follow(d, w) ==
  IF Finishes(d, w)
  THEN Employed(FlowDone(d, w), IF d.flows[w].kind = "onboarding" THEN "active" ELSE "terminated")
  ELSE d

AndFinish(before, d, w) == before \o <<FlowDone(d, w), Follow(d, w)>>

(* A handler leaves what its last statement leaves, or what an earlier one    *)
(* left when a restart cut it short (bounded: that happens once).             *)
Commits(steps, w) ==
  \E k \in 1..Len(steps) :
    /\ steps[k] = Last(steps) \/ cut = {}
    /\ db' = steps[k]
    /\ cut' = IF steps[k] = Last(steps) THEN cut ELSE cut \cup {w}

(* ------------------------------ handlers ---------------------------------- *)

Init ==
  /\ db \in {[employment |-> "none", source |-> "manual", flows |-> << >>, tasks |-> << >>,
              access |-> << >>, assets |-> << >>],
             [employment |-> "active", source |-> "bamboo", flows |-> << >>, tasks |-> << >>,
              access |-> << >>, assets |-> << >>]}
  /\ cut = {}
  /\ byHand = 0

Room(d) == Len(d.access) <= MaxRows /\ Len(d.assets) <= MaxRows

CreateOnboarding(intake) ==
  /\ db.employment = "none"
  /\ LET hired == Employed(db, "onboarding")
         opened == InsertFlow(hired, "onboarding")
     IN Commits(<<hired, opened, PersistItems(opened, RouteOnboarding(intake), "onboarding")>>, 1)
  /\ Room(db')
  /\ UNCHANGED byHand

AssetsPending(d) ==
  [d EXCEPT !.assets = [r \in DOMAIN @ |->
     IF @[r].status = "assigned" THEN [@[r] EXCEPT !.status = "pending_return"] ELSE @[r]]]

StartOffboarding ==
  /\ db.employment # "none"
  /\ Here(db) < MaxFlows
  /\ LET opened == InsertFlow(db, "offboarding")
         leaving == Employed(opened, "offboarding")
         routed == PersistItems(leaving, RouteOffboarding(db), "offboarding")
     IN Commits(<<opened, leaving, routed, AssetsPending(routed)>>, Here(db) + 1)
  /\ UNCHANGED byHand

CompleteTask(w, i) ==
  /\ i.kind = "task"
  /\ db.tasks[w][i] \in Open \ {"blocked"}
  /\ LET d1 == Decided(db, w, i, "completed")
         d2 == AccessChanged(d1, w, i)
         d3 == AssetChanged(d2, w, i)
         d4 == Dependents(d3, w, i, "pending")
     IN Commits(AndFinish(<<d1, d2, d3, d4>>, d4, w), w)
  /\ Room(db')
  /\ UNCHANGED byHand

ApproveTask(w, i) ==
  /\ i.kind = "approval"
  /\ db.tasks[w][i] \in Open
  /\ LET d1 == Decided(db, w, i, "approved")
         d2 == EveryAccess(d1, i, NotRemoved \ {"provisioned"}, "approved")
         d3 == Dependents(d2, w, i, "pending")
     IN Commits(AndFinish(<<d1, d2, d3>>, d3, w), w)
  /\ UNCHANGED byHand

RejectedFrees(d, w, i) == Dependents(d, w, i, "pending")

Rejected(d, w, i) == Dependents(d, w, i, "failed")

RejectStepsOnly(d, w, i) ==
  LET d1 == Decided(d, w, i, "rejected") IN <<d1, Rejected(d1, w, i)>>

RejectSteps(d, w, i) ==
  LET d1 == Decided(d, w, i, "rejected")
      d2 == Rejected(d1, w, i)
  IN AndFinish(<<d1, d2>>, d2, w)

RejectTask(w, i) ==
  /\ i.kind = "approval"
  /\ db.tasks[w][i] \in Open
  /\ Commits(RejectSteps(db, w, i), w)
  /\ UNCHANGED byHand

(* ------------------------- by hand, by import, by sync -------------------- *)

ByHand(d) == /\ byHand < MaxByHand
             /\ byHand' = byHand + 1
             /\ db' = d
             /\ Room(d)
             /\ UNCHANGED cut

InFlightHiring == {"prehire", "onboarding", "notice"}

InFlight == {"prehire", "onboarding", "notice", "offboarding"}

(* importFromBamboo: the person as BambooHR has them.  What follows a new     *)
(* termination is the offboarding board's.                                    *)
ImportFromBamboo ==
  /\ db.source = "bamboo"
  /\ db.employment \notin InFlight
  /\ \E status \in {"active", "terminated"} \ {db.employment} : ByHand(Employed(db, status))

Put(d, r, status) == [d EXCEPT !.access[r] = Marked(d, @, status)]

(* addAccess and provisionAccessGroup; updateAccessStatus and                 *)
(* deprovisionAccessGroup; removeAccess.                                      *)
AddAccess ==
  /\ db.employment # "none"
  /\ \E s \in Systems \cup Groups, status \in {"requested", "provisioned"} :
       ByHand([db EXCEPT !.access = Append(@, Access(db, s, status))])

UpdateAccess(r) ==
  /\ db.access[r].status # "removed"
  /\ \E status \in {"approved", "provisioned", "revoked", "removed"} : ByHand(Put(db, r, status))

(* syncAccessFromM365, for one person or for the roster: every group          *)
(* Microsoft 365 lists is provisioned, on a row it has or on a new one.       *)
SyncAccess(g) ==
  /\ db.employment # "none"
  /\ LET rows == {r \in DOMAIN db.access : db.access[r].system = g /\ db.access[r].status # "removed"}
     IN IF rows = {} THEN ByHand([db EXCEPT !.access = Append(@, Access(db, g, "provisioned"))])
        ELSE \E r \in rows : ByHand(Put(db, r, "provisioned"))

AddAsset ==
  /\ db.employment # "none"
  /\ \E t \in Devices : ByHand([db EXCEPT !.assets = Append(@, Asset(db, t, "assigned"))])

(* updateAsset and removeAsset                                                *)
UpdateAsset(r) ==
  /\ db.assets[r].status # "removed"
  /\ \E status \in {"assigned", "returned", "missing", "removed"} \ {db.assets[r].status} :
       ByHand([db EXCEPT !.assets[r] = Asset(db, db.assets[r].type, status)])

Decisions ==
  \E w \in DOMAIN db.flows : \E i \in DOMAIN db.tasks[w] :
    CompleteTask(w, i) \/ ApproveTask(w, i) \/ RejectTask(w, i)

Next ==
  \/ \E intake \in Intakes : CreateOnboarding(intake)
  \/ StartOffboarding
  \/ Decisions
  \/ ImportFromBamboo
  \/ AddAccess
  \/ \E r \in DOMAIN db.access : UpdateAccess(r)
  \/ \E g \in Groups : SyncAccess(g)
  \/ AddAsset
  \/ \E r \in DOMAIN db.assets : UpdateAsset(r)

Spec == Init /\ [][Next]_vars

(* ------------------------------ properties -------------------------------- *)

Flows == DOMAIN db.flows

(* Restricted access, exceptional hardware and the vehicle are given only     *)
(* after the approval or the report they wait for (dependsOn, routing.ts),    *)
(* whoever decides in which order and wherever a handler is cut.              *)
GateHolds ==
  \A w \in Flows : \A i \in DOMAIN db.tasks[w] :
    i.gate # {} /\ db.tasks[w][i] \in {"pending", "completed"} =>
      \E j \in DOMAIN db.tasks[w] : j.key \in i.gate /\ db.tasks[w][j] \in {"approved", "completed"}

Actionable(w) == \E i \in DOMAIN db.tasks[w] : db.tasks[w][i] \in Open \ {"blocked"}

(* An open workflow with work in it has something a person can decide: it     *)
(* never waits only for itself (unblockDependents, maybeFinishWorkflow).      *)
OpenHasWork ==
  \A w \in Flows \ cut : db.flows[w].status = "open" /\ DOMAIN db.tasks[w] # {} => Actionable(w)

(* The same, but for the vehicle that waits for a report nobody was asked for. *)
NoDeadEnd ==
  \A w \in Flows \ cut :
    \/ db.flows[w].status = "complete" \/ DOMAIN db.tasks[w] = {} \/ Actionable(w)
    \/ \E i \in DOMAIN db.tasks[w] : db.tasks[w][i] = "blocked" /\ i.gate = {Mvr}
         /\ \A j \in DOMAIN db.tasks[w] : j.key # Mvr

(* When an offboarding is complete, all the access and all the assets the     *)
(* person had when it started have been taken back: what is still theirs was  *)
(* given after that (startOffboarding, applySideEffects).                     *)
LeaverKeepsNothing ==
  \A w \in Flows \ cut :
    db.flows[w].kind = "offboarding" /\ db.flows[w].status = "complete" =>
      /\ \A r \in DOMAIN db.access : db.access[r].since < w => db.access[r].status \in {"revoked", "removed"}
      /\ \A r \in DOMAIN db.assets : db.assets[r].since < w => db.assets[r].status \notin {"assigned", "pending_return"}

(* The employment status says what the last workflow says, unless another one *)
(* was open beside it: no import makes an employee of a leaver or of a hire   *)
(* (IN_FLIGHT_STATUSES, maybeFinishWorkflow).                                 *)
StatusFollows ==
  LET w == Len(db.flows) IN
  w > 0 /\ cut = {} /\ db.flows[w].beside = {} =>
    \/ db.flows[w].status = "open" /\ db.employment = db.flows[w].kind
    \/ db.flows[w].status = "complete" /\ db.source = "bamboo"
    \/ db.flows[w].status = "complete"
         /\ db.employment = (IF db.flows[w].kind = "onboarding" THEN "active" ELSE "terminated")

TypeOK ==
  /\ db.employment \in {"none", "onboarding", "active", "offboarding", "terminated"}
  /\ db.source \in {"bamboo", "manual"}
  /\ Len(db.flows) <= MaxFlows /\ Len(db.tasks) = Len(db.flows)
  /\ \A w \in Flows :
       /\ db.flows[w].kind \in {"onboarding", "offboarding"}
       /\ db.flows[w].status \in {"open", "complete"}
       /\ \A i \in DOMAIN db.tasks[w] :
            db.tasks[w][i] \in Open \cup {"completed", "approved", "rejected", "failed"}
  /\ cut \subseteq 1..MaxFlows
  /\ byHand \in 0..MaxByHand
=============================================================================
