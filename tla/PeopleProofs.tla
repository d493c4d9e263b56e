---------------------------- MODULE PeopleProofs ----------------------------
(* For any catalogue, any number of workflows, rows and changes by hand, and  *)
(* wherever a restart cuts a handler: what has to be approved is given only    *)
(* after it, no workflow waits only for itself, a leaver keeps nothing, and    *)
(* the status of a person is that of the last workflow.  A bulk mail reaches  *)
(* nobody twice without a reason, and an intake link makes one request and,    *)
(* once dead, none: for any number of recipients, batches, links and days.     *)
EXTENDS People, IntakeLinks, Campaign, FiniteSetTheorems, TLAPS

-----------------------------------------------------------------------------
(* The types of the tables.                                                   *)

What == Desk \cup Closeout \cup Systems \cup Devices \cup {Vehicle} \cup Nat
Label == {"hr", "it", "appr", "exec_hw", "safety_vehicle", "safety_mvr", "off_hr", "off_access", "off_asset"}
Key == Label \X What
Item == [key : Key, kind : {"task", "approval"}, gate : SUBSET Key,
         system : SUBSET (Systems \cup Groups), asset : SUBSET (Devices \cup {Vehicle})]

TaskStatus == {"pending", "blocked", "completed", "failed"}
ApprovalStatus == {"awaiting_approval", "approved", "rejected"}
TaskTable == UNION {[I -> TaskStatus \cup ApprovalStatus] : I \in SUBSET Item}

Employment == {"none", "onboarding", "active", "offboarding", "terminated"}
FlowRow == [kind : {"onboarding", "offboarding"}, status : {"open", "complete"}, beside : SUBSET Nat]
AccessRow == [system : Systems \cup Groups,
              status : {"requested", "awaiting_approval", "approved", "provisioned", "revoked", "removed"},
              since : Nat]
AssetRow == [type : Devices \cup {Vehicle},
             status : {"assigned", "pending_return", "returned", "missing", "removed"}, since : Nat]

Tables == [employment : Employment, source : {"bamboo", "manual"}, flows : Seq(FlowRow),
           tasks : Seq(TaskTable), access : Seq(AccessRow), assets : Seq(AssetRow)]

-----------------------------------------------------------------------------
(* The inductive invariant, of the tables d and of the workflows X in which a  *)
(* handler was cut short.                                                     *)

Shape(d) ==
  /\ d \in Tables /\ Len(d.tasks) = Len(d.flows)
  /\ d.employment = "none" => Len(d.flows) = 0

(* A task waits, is done or fails, an approval is decided; and what waits for  *)
(* another goes on only after that.                                           *)
ItemsSound(t) ==
  \A i \in DOMAIN t :
    /\ i.kind = "task" => t[i] \in TaskStatus
    /\ i.kind = "approval" => t[i] \in ApprovalStatus /\ i.gate = {}
    /\ i.gate # {} /\ t[i] \in {"pending", "completed"} =>
         \E j \in DOMAIN t : j.key \in i.gate /\ t[j] \in {"approved", "completed"}

AllDone(t) == \A i \in DOMAIN t : t[i] \notin Open

DoneIsDone(d) == \A w \in DOMAIN d.flows : d.flows[w].status = "complete" => AllDone(d.tasks[w])

(* What waits has something to wait for, or waits for a report nobody owes.    *)
Waits(t) ==
  \A j \in DOMAIN t : t[j] = "blocked" =>
    \/ \E i \in DOMAIN t : i.key \in j.gate /\ t[i] \in Open \ {"blocked"}
    \/ j.gate = {Mvr} /\ \A i \in DOMAIN t : i.key # Mvr

Alive(d, w) == d.flows[w].status = "complete" \/ DOMAIN d.tasks[w] = {} \/ ~AllDone(d.tasks[w])

(* What the leaver still has is the work of a task.                           *)
Kept(row) == row.status \notin {"revoked", "removed"}
Hand(row) == row.status \in {"assigned", "pending_return"}

Held(d, w) ==
  d.flows[w].kind = "offboarding" =>
    /\ \A r \in DOMAIN d.access : d.access[r].since < w /\ Kept(d.access[r]) =>
         \E i \in DOMAIN d.tasks[w] : d.access[r].system \in i.system /\ d.tasks[w][i] = "pending"
    /\ \A r \in DOMAIN d.assets : d.assets[r].since < w /\ Hand(d.assets[r]) =>
         \E i \in DOMAIN d.tasks[w] : d.assets[r].type \in i.asset /\ d.tasks[w][i] = "pending"

(* What is open was open when a later workflow began.                         *)
BesideSound(d) ==
  \A v, w \in DOMAIN d.flows : v < w /\ d.flows[v].status = "open" => v \in d.flows[w].beside

Settles(d) ==
  LET w == Len(d.flows) IN
  w > 0 /\ d.flows[w].beside = {} =>
    \/ d.flows[w].status = "open" /\ d.employment = d.flows[w].kind
    \/ d.flows[w].status = "complete" /\ d.source = "bamboo"
    \/ d.flows[w].status = "complete"
         /\ d.employment = (IF d.flows[w].kind = "onboarding" THEN "active" ELSE "terminated")

FlowSound(d, w) == Waits(d.tasks[w]) /\ Alive(d, w) /\ Held(d, w)

Sound(d, X) ==
  /\ Shape(d) /\ DoneIsDone(d) /\ BesideSound(d)
  /\ \A w \in DOMAIN d.flows : ItemsSound(d.tasks[w])
  /\ \A w \in DOMAIN d.flows \ X : FlowSound(d, w)
  /\ X = {} => Settles(d)

PeopleInv ==
  /\ Sound(db, cut) /\ Len(db.flows) <= MaxFlows
  /\ cut \subseteq 1..MaxFlows /\ byHand \in 0..MaxByHand

-----------------------------------------------------------------------------
(* What one statement may do to the tables.                                   *)

LEMMA TaskTables ==
  /\ \A t \in TaskTable : DOMAIN t \in SUBSET Item /\ t = [i \in DOMAIN t |-> t[i]]
                          /\ \A i \in DOMAIN t : t[i] \in TaskStatus \cup ApprovalStatus
  /\ \A I \in SUBSET Item : [I -> TaskStatus \cup ApprovalStatus] \subseteq TaskTable
BY DEF TaskTable

(* The access of the person: a row stays, is taken back or is given now.      *)
LEMMA AccessStep ==
  ASSUME NEW d, NEW X, Sound(d, X), NEW a \in Seq(AccessRow), Len(d.flows) \in Nat,
         \A r \in DOMAIN a : \/ r \in DOMAIN d.access /\ a[r] = d.access[r]
                             \/ a[r].since = Len(d.flows) \/ ~Kept(a[r])
  PROVE  Sound([d EXCEPT !.access = a], X)
<1> DEFINE e == [d EXCEPT !.access = a]
<1>1. d \in Tables
  BY DEF Sound, Shape
<1>2. /\ e \in Tables /\ e.access = a /\ e.assets = d.assets /\ e.flows = d.flows /\ e.tasks = d.tasks
      /\ e.employment = d.employment /\ e.source = d.source
  BY <1>1 DEF Tables
<1> HIDE DEF e
<1>3. ASSUME NEW w \in DOMAIN d.flows, FlowSound(d, w) PROVE FlowSound(e, w)
  <2>1. w <= Len(d.flows) /\ w \in Nat
    BY <1>1 DEF Tables
  <2>2. Held(e, w)
    <3> SUFFICES ASSUME d.flows[w].kind = "offboarding", NEW r \in DOMAIN a, a[r].since < w, Kept(a[r])
                 PROVE  \E i \in DOMAIN d.tasks[w] : a[r].system \in i.system /\ d.tasks[w][i] = "pending"
      BY <1>2, <1>3 DEF Held, FlowSound
    <3>1. r \in DOMAIN d.access /\ a[r] = d.access[r]
      BY <2>1
    <3> QED
      BY <3>1, <1>3 DEF Held, FlowSound
  <2> QED
    BY <1>2, <1>3, <2>2 DEF FlowSound, Alive
<1> QED
  BY <1>2, <1>3 DEF Sound, Shape, DoneIsDone, BesideSound, Settles, e

(* What the person has in hand: a row stays, is given back, or is given now.   *)
LEMMA AssetStep ==
  ASSUME NEW d, NEW X, Sound(d, X), NEW a \in Seq(AssetRow), Len(d.flows) \in Nat,
         \A r \in DOMAIN a : \/ r \in DOMAIN d.assets /\ a[r] = d.assets[r]
                             \/ r \in DOMAIN d.assets /\ Hand(d.assets[r]) /\ a[r].type = d.assets[r].type
                                  /\ a[r].since = d.assets[r].since
                             \/ a[r].since = Len(d.flows) \/ ~Hand(a[r])
  PROVE  Sound([d EXCEPT !.assets = a], X)
<1> DEFINE e == [d EXCEPT !.assets = a]
<1>1. d \in Tables
  BY DEF Sound, Shape
<1>2. /\ e \in Tables /\ e.access = d.access /\ e.assets = a /\ e.flows = d.flows /\ e.tasks = d.tasks
      /\ e.employment = d.employment /\ e.source = d.source
  BY <1>1 DEF Tables
<1> HIDE DEF e
<1>3. ASSUME NEW w \in DOMAIN d.flows, FlowSound(d, w) PROVE FlowSound(e, w)
  <2>1. w <= Len(d.flows) /\ w \in Nat
    BY <1>1 DEF Tables
  <2>2. Held(e, w)
    <3> SUFFICES ASSUME d.flows[w].kind = "offboarding", NEW r \in DOMAIN a, a[r].since < w, Hand(a[r])
                 PROVE  \E i \in DOMAIN d.tasks[w] : a[r].type \in i.asset /\ d.tasks[w][i] = "pending"
      BY <1>2, <1>3 DEF Held, FlowSound
    <3>1. r \in DOMAIN d.assets /\ Hand(d.assets[r]) /\ d.assets[r].since < w /\ a[r].type = d.assets[r].type
      BY <2>1
    <3> QED
      BY <3>1, <1>3 DEF Held, FlowSound
  <2> QED
    BY <1>2, <1>3, <2>2 DEF FlowSound, Alive
<1> QED
  BY <1>2, <1>3 DEF Sound, Shape, DoneIsDone, BesideSound, Settles, e

(* The tasks of a workflow whose handler is under way.                        *)
LEMMA TaskStep ==
  ASSUME NEW d, NEW X, Sound(d, X), NEW w \in DOMAIN d.flows \cap X, NEW t \in TaskTable, ItemsSound(t),
         d.flows[w].status = "complete" => AllDone(t)
  PROVE  Sound([d EXCEPT !.tasks[w] = t], X)
<1> DEFINE e == [d EXCEPT !.tasks[w] = t]
<1>1. d \in Tables /\ DOMAIN d.tasks = DOMAIN d.flows
  BY DEF Sound, Shape, Tables
<1>2. [d.tasks EXCEPT ![w] = t] \in Seq(TaskTable) /\ Len([d.tasks EXCEPT ![w] = t]) = Len(d.tasks)
  BY <1>1 DEF Tables
<1>3. /\ e \in Tables /\ e.access = d.access /\ e.assets = d.assets /\ e.flows = d.flows
      /\ e.tasks = [d.tasks EXCEPT ![w] = t] /\ e.employment = d.employment /\ e.source = d.source
  BY <1>1, <1>2 DEF Tables
<1>4. Len(e.tasks) = Len(d.tasks) /\ e.tasks[w] = t /\ \A v \in DOMAIN d.flows \ {w} : e.tasks[v] = d.tasks[v]
  BY <1>1, <1>2, <1>3
<1> HIDE DEF e
<1>5. ASSUME NEW v \in DOMAIN d.flows \ X PROVE FlowSound(e, v)
  <2>1. e.tasks[v] = d.tasks[v] /\ FlowSound(d, v)
    BY <1>4 DEF Sound
  <2> QED
    BY <1>3, <2>1 DEF FlowSound, Alive, Held
<1>6. X # {}
  OBVIOUS
<1>7. Shape(e) /\ DoneIsDone(e) /\ BesideSound(e) /\ \A v \in DOMAIN e.flows : ItemsSound(e.tasks[v])
  BY <1>3, <1>4 DEF Sound, Shape, DoneIsDone, BesideSound
<1> QED
  BY <1>3, <1>5, <1>6, <1>7 DEF Sound, e

(* The status of the person, and of a workflow that is done.                  *)
LEMMA EmployedStep ==
  ASSUME NEW d, NEW X, Sound(d, X), NEW s \in Employment \ {"none"}, X # {}
  PROVE  Sound(Employed(d, s), X)
<1> DEFINE e == [d EXCEPT !.employment = s]
<1>1. d \in Tables
  BY DEF Sound, Shape
<1>2. /\ e \in Tables /\ e.access = d.access /\ e.assets = d.assets /\ e.flows = d.flows /\ e.tasks = d.tasks
      /\ e.employment = s /\ e.source = d.source
  BY <1>1 DEF Tables
<1>3. Employed(d, s) = e
  BY DEF Employed
<1> HIDE DEF e
<1> QED
  BY <1>2, <1>3 DEF Sound, Shape, DoneIsDone, BesideSound, FlowSound, Alive, Held

LEMMA FlowDoneStep ==
  ASSUME NEW d, NEW X, Sound(d, X), NEW w \in DOMAIN d.flows \cap X
  PROVE  /\ Sound(FlowDone(d, w), X)
         /\ LET e == FlowDone(d, w) IN
              /\ e.access = d.access /\ e.assets = d.assets /\ e.tasks = d.tasks
              /\ e.employment = d.employment /\ e.source = d.source
              /\ Len(e.flows) = Len(d.flows)
              /\ e.flows = IF Finishes(d, w) THEN [d.flows EXCEPT ![w] = [@ EXCEPT !.status = "complete"]]
                           ELSE d.flows
<1> DEFINE done == [d.flows[w] EXCEPT !.status = "complete"]
           e == [d EXCEPT !.flows[w].status = "complete"]
<1>1. d \in Tables /\ DOMAIN d.tasks = DOMAIN d.flows
  BY DEF Sound, Shape, Tables
<1>2. CASE ~Finishes(d, w)
  BY <1>2 DEF FlowDone
<1>3. CASE Finishes(d, w)
  <2>1. FlowDone(d, w) = e
    BY <1>3 DEF FlowDone
  <2>2. /\ [d.flows EXCEPT ![w] = done] \in Seq(FlowRow) /\ Len([d.flows EXCEPT ![w] = done]) = Len(d.flows)
        /\ DOMAIN [d.flows EXCEPT ![w] = done] = DOMAIN d.flows
    <3>1. d.flows \in Seq(FlowRow) /\ d.flows[w] \in FlowRow
      BY <1>1 DEF Tables
    <3>2. done \in FlowRow
      BY <3>1 DEF FlowRow
    <3> HIDE DEF done
    <3> QED
      BY <3>1, <3>2
  <2>3. /\ e \in Tables /\ e.access = d.access /\ e.assets = d.assets /\ e.tasks = d.tasks
        /\ e.flows = [d.flows EXCEPT ![w] = done] /\ e.employment = d.employment /\ e.source = d.source
    BY <1>1, <2>2 DEF Tables
  <2>4. /\ Len(e.flows) = Len(d.flows) /\ DOMAIN e.flows = DOMAIN d.flows
        /\ \A v \in DOMAIN d.flows \ {w} : e.flows[v] = d.flows[v]
        /\ e.flows[w].status = "complete" /\ e.flows[w].kind = d.flows[w].kind
        /\ e.flows[w].beside = d.flows[w].beside
    BY <1>1, <2>2, <2>3 DEF Tables, FlowRow
  <2>5. AllDone(d.tasks[w])
    BY <1>3 DEF Finishes, AllDone
  <2> HIDE DEF e
  <2>6. ASSUME NEW v \in DOMAIN d.flows \ X PROVE FlowSound(e, v)
    <3>1. e.flows[v] = d.flows[v] /\ FlowSound(d, v)
      BY <2>4 DEF Sound
    <3> QED
      BY <2>3, <3>1 DEF FlowSound, Alive, Held
  <2>7. Shape(e) /\ DoneIsDone(e)
    BY <2>3, <2>4, <2>5 DEF Sound, Shape, DoneIsDone
  <2>8. BesideSound(e)
    BY <2>4 DEF Sound, BesideSound
  <2> QED
    BY <1>3, <2>1, <2>3, <2>4, <2>6, <2>7, <2>8 DEF Sound
<1> QED
  BY <1>2, <1>3

(* A workflow begins.                                                         *)
LEMMA InsertFlowStep ==
  ASSUME NEW d, NEW X, Sound(d, X), NEW kind \in {"onboarding", "offboarding"}, d.employment # "none",
         Len(d.flows) + 1 \in X
  PROVE  /\ Sound(InsertFlow(d, kind), X)
         /\ LET e == InsertFlow(d, kind)
                w == Len(d.flows) + 1
            IN /\ e.access = d.access /\ e.assets = d.assets /\ e.employment = d.employment
               /\ e.source = d.source /\ Len(e.flows) = w /\ w \in DOMAIN e.flows
               /\ e.flows[w].kind = kind /\ e.flows[w].status = "open"
<1> DEFINE e == InsertFlow(d, kind)
           n == Len(d.flows)
           flow == [kind |-> kind, status |-> "open", beside |-> {w \in DOMAIN d.flows : d.flows[w].status = "open"}]
<1>1. /\ d \in Tables /\ n \in Nat /\ DOMAIN d.flows = 1..n /\ DOMAIN d.tasks = 1..n /\ Len(d.tasks) = n
      /\ d.flows \in Seq(FlowRow) /\ d.tasks \in Seq(TaskTable)
  BY DEF Sound, Shape, Tables
<1>2. flow \in FlowRow
  BY <1>1 DEF FlowRow
<1>3. << >> \in TaskTable /\ DOMAIN << >> = {}
  <2>1. << >> = [i \in {} |-> "pending"]
    OBVIOUS
  <2> QED
    BY <2>1, TaskTables DEF TaskStatus
<1> DEFINE flows == Append(d.flows, flow)
           tasks == Append(d.tasks, << >>)
<1>4. /\ flows \in Seq(FlowRow) /\ Len(flows) = n + 1 /\ DOMAIN flows = 1..(n + 1)
      /\ flows[n + 1] = flow /\ \A w \in 1..n : flows[w] = d.flows[w]
  BY <1>1, <1>2
<1>5. /\ tasks \in Seq(TaskTable) /\ Len(tasks) = n + 1
      /\ tasks[n + 1] = << >> /\ \A w \in 1..n : tasks[w] = d.tasks[w]
  BY <1>1, <1>3
<1>6. e = [d EXCEPT !.flows = flows, !.tasks = tasks]
  BY DEF InsertFlow
<1> HIDE DEF e, flows, tasks
<1>7. /\ e \in Tables /\ e.access = d.access /\ e.assets = d.assets /\ e.flows = flows /\ e.tasks = tasks
      /\ e.employment = d.employment /\ e.source = d.source
  BY <1>1, <1>4, <1>5, <1>6 DEF Tables
<1>8. /\ flow.kind = kind /\ flow.status = "open"
      /\ flow.beside = {w \in DOMAIN d.flows : d.flows[w].status = "open"}
  OBVIOUS
<1> HIDE DEF flow
<1>9. Shape(e) /\ DoneIsDone(e)
  BY SMTT(20), <1>1, <1>4, <1>5, <1>7, <1>8 DEF Sound, Shape, DoneIsDone
<1>10. BesideSound(e)
  <2> SUFFICES ASSUME NEW v \in 1..(n + 1), NEW w \in 1..(n + 1), v < w, flows[v].status = "open"
               PROVE  v \in flows[w].beside
    BY <1>4, <1>7 DEF BesideSound
  <2>1. v \in 1..n /\ d.flows[v].status = "open"
    BY <1>1, <1>4
  <2>2. CASE w = n + 1
    BY <2>1, <2>2, <1>1, <1>4, <1>8
  <2>3. CASE w \in 1..n
    BY <2>1, <2>3, <1>1, <1>4 DEF Sound, BesideSound
  <2> QED
    BY <2>2, <2>3, <1>1
<1>11. \A w \in DOMAIN e.flows : ItemsSound(e.tasks[w])
  <2>1. ItemsSound(<< >>)
    BY <1>3 DEF ItemsSound
  <2> QED
    BY <2>1, <1>1, <1>4, <1>5, <1>7 DEF Sound
<1>12. ASSUME NEW w \in DOMAIN e.flows \ X PROVE FlowSound(e, w)
  <2>1. w \in 1..n /\ e.flows[w] = d.flows[w] /\ e.tasks[w] = d.tasks[w] /\ FlowSound(d, w)
    BY <1>1, <1>4, <1>5, <1>7 DEF Sound
  <2> QED
    BY <2>1, <1>7 DEF FlowSound, Alive, Held
<1> QED
  BY <1>4, <1>7, <1>8, <1>9, <1>10, <1>11, <1>12 DEF Sound, e

(* The items of a workflow that has none, and the access a hire will have.     *)
LEMMA SetToSeqType ==
  ASSUME NEW S, IsFiniteSet(S)
  PROVE  /\ SetToSeq(S) \in [1..Cardinality(S) -> S] /\ Cardinality(S) \in Nat
         /\ SetToSeq(S) \in Seq(S) /\ Len(SetToSeq(S)) = Cardinality(S)
<1>1. Cardinality(S) \in Nat /\ ExistsBijection(1..Cardinality(S), S)
  BY FS_CardinalityType
<1>2. \E f \in [1..Cardinality(S) -> S] : IsInjective(f)
  BY <1>1 DEF ExistsBijection, Bijection, Injection
<1>3. SetToSeq(S) \in [1..Cardinality(S) -> S]
  BY <1>2 DEF SetToSeq
<1> QED
  BY <1>1, <1>3

FirstStatus(items) == [i \in items |-> InitialStatus(i)]
Wanted(items) == {i \in items : i.kind = "task" /\ i.system # {}}

LEMMA PersistStep ==
  ASSUME NEW d, NEW X, Sound(d, X), NEW items \in SUBSET Item, NEW mode, Len(d.flows) \in X,
         Len(d.flows) \in DOMAIN d.flows, d.flows[Len(d.flows)].status = "open",
         \A i \in items : i.gate # {} => i.kind = "task",
         mode = "onboarding" => IsFiniteSet(Wanted(items))
  PROVE  /\ Sound(PersistItems(d, items, mode), X)
         /\ LET e == PersistItems(d, items, mode)
            IN /\ e.assets = d.assets /\ e.employment = d.employment /\ e.source = d.source
               /\ e.flows = d.flows /\ e.tasks[Len(d.flows)] = FirstStatus(items)
               /\ mode # "onboarding" => e.access = d.access
<1> DEFINE w == Len(d.flows)
           t == FirstStatus(items)
           row(i) == Access(d, CHOOSE s \in i.system : TRUE, IF i.gate # {} THEN "awaiting_approval" ELSE "requested")
           rows == [n \in 1..Cardinality(Wanted(items)) |-> row(SetToSeq(Wanted(items))[n])]
           access == IF mode = "onboarding" THEN d.access \o rows ELSE d.access
           e1 == [d EXCEPT !.tasks[w] = t]
           e == [e1 EXCEPT !.access = access]
<1>1. d \in Tables /\ w \in Nat /\ d.access \in Seq(AccessRow) /\ Len(d.tasks) = w
  BY DEF Sound, Shape, Tables
<1>2. t \in TaskTable /\ ItemsSound(t)
  <2>1. DOMAIN t = items /\ \A i \in items : t[i] = InitialStatus(i)
    BY DEF FirstStatus
  <2>2. \A i \in items : i.kind \in {"task", "approval"}
    BY DEF Item
  <2>3. t \in [items -> TaskStatus \cup ApprovalStatus]
    BY <2>1 DEF FirstStatus, InitialStatus, TaskStatus, ApprovalStatus
  <2>4. ItemsSound(t)
    BY <2>1, <2>2 DEF ItemsSound, InitialStatus, TaskStatus, ApprovalStatus
  <2> QED
    BY <2>3, <2>4, TaskTables
<1> HIDE DEF t
<1>3. Sound(e1, X)
  BY <1>2, TaskStep
<1>4. /\ e1.assets = d.assets /\ e1.access = d.access /\ e1.employment = d.employment /\ e1.source = d.source
      /\ e1.flows = d.flows /\ e1.tasks[w] = t
  BY <1>1 DEF Tables, Sound, Shape
<1>5. PersistItems(d, items, mode) = e
  BY DEF PersistItems, Here, t, FirstStatus, Wanted
<1>6. CASE mode = "onboarding"
  <2>1. Cardinality(Wanted(items)) \in Nat /\ SetToSeq(Wanted(items)) \in [1..Cardinality(Wanted(items)) -> Wanted(items)]
    BY <1>6, SetToSeqType
  <2>2. ASSUME NEW i \in Wanted(items) PROVE row(i) \in AccessRow /\ row(i).since = w
    <3>1. (CHOOSE s \in i.system : TRUE) \in Systems \cup Groups
      BY DEF Wanted, Item
    <3> QED
      BY <3>1, <1>1 DEF Access, AccessRow, Here
  <2> HIDE DEF row
  <2>3. rows \in Seq(AccessRow) /\ \A n \in DOMAIN rows : rows[n].since = w
    BY <2>1, <2>2
  <2> HIDE DEF rows
  <2>4. /\ access \in Seq(AccessRow)
        /\ \A r \in DOMAIN access : (r \in DOMAIN d.access /\ access[r] = d.access[r]) \/ access[r].since = w
    BY <1>1, <1>6, <2>3
  <2> HIDE DEF e1, access
  <2>5. Sound(e, X)
    BY <1>1, <1>3, <1>4, <2>4, AccessStep
  <2>6. /\ e.assets = e1.assets /\ e.employment = e1.employment /\ e.source = e1.source
        /\ e.flows = e1.flows /\ e.tasks = e1.tasks
    BY <1>3 DEF Sound, Shape, Tables
  <2> QED
    BY <1>4, <1>5, <1>6, <2>5, <2>6 DEF t
<1>7. CASE mode # "onboarding"
  <2>1. e = e1
    <3>1. access = e1.access
      BY <1>4, <1>7
    <3> HIDE DEF e1, access
    <3> QED
      BY <1>3, <3>1 DEF Sound, Shape, Tables
  <2> QED
    BY <1>3, <1>4, <1>5, <1>7, <2>1 DEF t
<1> QED
  BY <1>6, <1>7

(* A restart leaves what some statement left.                                 *)
LEMMA CommitsSound ==
  ASSUME NEW steps, NEW w, Commits(steps, w), Len(steps) \in Nat,
         \A k \in 1..Len(steps) : Sound(steps[k], cut \cup {w}), Sound(Last(steps), cut)
  PROVE  Sound(db', cut')
BY DEF Commits

LEMMA AfterAll ==
  ASSUME NEW d, NEW w \in DOMAIN d.flows, Sound(d, cut \cup {w}),
         w \notin cut => FlowSound(d, w), cut = {} => Settles(d)
  PROVE  Sound(d, cut)
BY DEF Sound

-----------------------------------------------------------------------------
(* Routing.                                                                   *)

LEMMA TaskItem ==
  ASSUME NEW key \in Key, NEW gate \in SUBSET Key, NEW system \in SUBSET (Systems \cup Groups),
         NEW asset \in SUBSET (Devices \cup {Vehicle})
  PROVE  LET i == Task(key, gate, system, asset)
         IN /\ i \in Item /\ i.key = key /\ i.kind = "task" /\ i.gate = gate /\ i.system = system
            /\ i.asset = asset
BY DEF Task, Item

LEMMA ApprovalItem ==
  ASSUME NEW key \in Key, NEW system \in SUBSET (Systems \cup Groups)
  PROVE  LET a == Approval(key, system) IN a \in Item /\ a.key = key /\ a.kind = "approval" /\ a.gate = {}
BY DEF Approval, Item

LEMMA GatedItems ==
  ASSUME NEW gate, NEW key, NEW system, NEW asset, NEW granted
  PROVE  Gated(gate, Task(key, {}, system, asset), granted)
           = {Approval(gate, granted), Task(key, {gate}, system, asset)}
<1>1. [Task(key, {}, system, asset) EXCEPT !.gate = {gate}] = Task(key, {gate}, system, asset)
  BY DEF Task
<1> QED
  BY <1>1 DEF Gated

LEMMA Keys ==
  ASSUME NEW k \in What
  PROVE  /\ <<"hr", k>> \in Key /\ <<"it", k>> \in Key /\ <<"appr", k>> \in Key
         /\ <<"exec_hw", k>> \in Key /\ <<"safety_vehicle", k>> \in Key /\ <<"safety_mvr", k>> \in Key
         /\ <<"off_hr", k>> \in Key /\ <<"off_access", k>> \in Key /\ <<"off_asset", k>> \in Key
         /\ <<"hr", k>> # Mvr /\ <<"it", k>> # Mvr /\ <<"appr", k>> # Mvr
         /\ <<"exec_hw", k>> # Mvr /\ <<"safety_vehicle", k>> # Mvr
BY DEF Key, Label, Mvr

(* One system's items: its provisioning, and the approval that goes before.   *)
Provision(s) == Task(<<"it", s>>, IF s \in Restricted THEN {<<"appr", s>>} ELSE {}, {s}, {})

LEMMA RoutedSystem ==
  ASSUME NEW s \in Systems
  PROVE  /\ RouteSystem(s) \in SUBSET Item /\ \A i \in RouteSystem(s) : i.key # Mvr
         /\ \A i \in RouteSystem(s) : i.gate # {} =>
              i.kind = "task" /\ \E j \in RouteSystem(s) : j.key \in i.gate /\ j.kind = "approval"
         /\ Provision(s) \in RouteSystem(s) /\ \A i \in RouteSystem(s) : i.kind = "task" => i = Provision(s)
<1>1. s \in What /\ {s} \in SUBSET (Systems \cup Groups) /\ {} \in SUBSET (Devices \cup {Vehicle})
  BY DEF What
<1>2. <<"it", s>> \in Key /\ <<"appr", s>> \in Key /\ <<"it", s>> # Mvr /\ <<"appr", s>> # Mvr
  BY <1>1, Keys
<1>3. CASE s \in Restricted
  <2> DEFINE a == Approval(<<"appr", s>>, {s})
             t == Task(<<"it", s>>, {<<"appr", s>>}, {s}, {})
  <2>1. RouteSystem(s) = Gated(<<"appr", s>>, Task(<<"it", s>>, {}, {s}, {}), {s})
    BY <1>3 DEF RouteSystem
  <2>2. /\ RouteSystem(s) = {a, t}
        /\ a \in Item /\ a.key = <<"appr", s>> /\ a.kind = "approval" /\ a.gate = {}
    <3>1. RouteSystem(s) = {a, t}
      <4>1. Gated(<<"appr", s>>, Task(<<"it", s>>, {}, {s}, {}), {s}) = {a, t}
        BY GatedItems
      <4> QED
        BY <2>1, <4>1, Zenon
    <3> QED
      BY <1>1, <1>2, <3>1, ApprovalItem
  <2>3. t \in Item /\ t.key = <<"it", s>> /\ t.kind = "task" /\ t.gate = {<<"appr", s>>}
    BY <1>1, <1>2, TaskItem
  <2>4. t = Provision(s)
    BY <1>3 DEF Provision
  <2> HIDE DEF a, t
  <2> QED
    BY <1>2, <2>2, <2>3, <2>4
<1>4. CASE s \notin Restricted
  <2>1. RouteSystem(s) = {Provision(s)}
    BY <1>4 DEF RouteSystem, Provision
  <2>2. /\ Provision(s) \in Item /\ Provision(s).key = <<"it", s>>
        /\ Provision(s).kind = "task" /\ Provision(s).gate = {}
    BY <1>1, <1>2, <1>4, TaskItem DEF Provision
  <2> QED
    BY <1>2, <2>1, <2>2
<1> QED
  BY <1>3, <1>4

LEMMA RoutedDevice ==
  ASSUME NEW v \in Devices, NEW premium \in BOOLEAN
  PROVE  LET items == RouteDevice(v, premium)
         IN /\ items \in SUBSET Item /\ \A i \in items : i.key # Mvr
            /\ \A i \in items : i.gate # {} =>
                 i.kind = "task" /\ \E j \in items : j.key \in i.gate /\ j.kind = "approval"
            /\ \A i \in items : i.kind = "task" => i.system = {}
<1>1. v \in What /\ {v} \in SUBSET (Devices \cup {Vehicle}) /\ {} \in SUBSET (Systems \cup Groups)
  BY DEF What
<1>2. /\ <<"it", v>> \in Key /\ <<"exec_hw", v>> \in Key
      /\ <<"it", v>> # Mvr /\ <<"exec_hw", v>> # Mvr
  BY <1>1, Keys
<1>3. CASE premium /\ v \in Premium
  <2> DEFINE a == Approval(<<"exec_hw", v>>, {})
             t == Task(<<"it", v>>, {<<"exec_hw", v>>}, {}, {v})
  <2>1. RouteDevice(v, premium) = Gated(<<"exec_hw", v>>, Task(<<"it", v>>, {}, {}, {v}), {})
    BY <1>3 DEF RouteDevice
  <2>2. /\ RouteDevice(v, premium) = {a, t}
        /\ a \in Item /\ a.key = <<"exec_hw", v>> /\ a.kind = "approval" /\ a.gate = {}
    <3>1. RouteDevice(v, premium) = {a, t}
      <4>1. Gated(<<"exec_hw", v>>, Task(<<"it", v>>, {}, {}, {v}), {}) = {a, t}
        BY GatedItems
      <4> QED
        BY <2>1, <4>1, Zenon
    <3> QED
      BY <1>1, <1>2, <3>1, ApprovalItem
  <2>3. t \in Item /\ t.key = <<"it", v>> /\ t.kind = "task" /\ t.gate = {<<"exec_hw", v>>} /\ t.system = {}
    BY <1>1, <1>2, TaskItem
  <2> HIDE DEF a, t
  <2> QED
    BY <1>2, <2>2, <2>3
<1>4. CASE ~(premium /\ v \in Premium)
  <2> DEFINE t == Task(<<"it", v>>, {}, {}, {v})
  <2>1. RouteDevice(v, premium) = {t}
    BY <1>4 DEF RouteDevice
  <2>2. t \in Item /\ t.key = <<"it", v>> /\ t.kind = "task" /\ t.gate = {} /\ t.system = {}
    BY <1>1, <1>2, TaskItem
  <2> HIDE DEF t
  <2> QED
    BY <1>2, <2>1, <2>2
<1> QED
  BY <1>3, <1>4

LEMMA RoutedVehicle ==
  ASSUME NEW intake
  PROVE  LET items == RouteVehicle(intake)
         IN /\ items \in SUBSET Item /\ \A i \in items : i.kind = "task" /\ i.system = {}
            /\ \A i \in items : i.gate # {} => i.gate = {Mvr}
            /\ \A i \in items : i.key = Mvr => i.gate = {}
<1> DEFINE report == Task(Mvr, {}, {}, {})
           vehicle == Task(<<"safety_vehicle", Vehicle>>, {Mvr}, {}, {Vehicle})
<1>1. Vehicle \in What
  BY DEF What
<1>2. Mvr \in Key /\ <<"safety_vehicle", Vehicle>> \in Key /\ <<"safety_vehicle", Vehicle>> # Mvr
  BY <1>1, Keys DEF Mvr
<1>3. report \in Item /\ report.kind = "task" /\ report.system = {} /\ report.gate = {} /\ report.key = Mvr
  BY <1>2, TaskItem
<1>4. /\ vehicle \in Item /\ vehicle.kind = "task" /\ vehicle.system = {} /\ vehicle.gate = {Mvr}
      /\ vehicle.key # Mvr
  BY <1>2, TaskItem
<1>5. RouteVehicle(intake) \subseteq {report, vehicle}
  BY DEF RouteVehicle
<1> HIDE DEF report, vehicle
<1> QED
  BY <1>3, <1>4, <1>5

LEMMA RoutedHires ==
  ASSUME NEW intake \in Intakes
  PROVE  LET items == RouteOnboarding(intake)
         IN /\ items \in SUBSET Item /\ \A i \in items : i.gate # {} => i.kind = "task"
            /\ IsFiniteSet(Wanted(items)) /\ Waits(FirstStatus(items))
<1> DEFINE desk == {Task(<<"hr", k>>, {}, {}, {}) : k \in intake.desk}
           systems == UNION {RouteSystem(s) : s \in intake.systems}
           devices == UNION {RouteDevice(v, intake.premium) : v \in intake.devices}
           items == RouteOnboarding(intake)
<1>1. /\ intake.desk \subseteq Desk /\ intake.systems \subseteq Systems /\ intake.devices \subseteq Devices
      /\ intake.premium \in BOOLEAN
  BY DEF Intakes
<1>2. items = desk \cup systems \cup devices \cup RouteVehicle(intake)
  BY DEF RouteOnboarding
<1>3. desk \in SUBSET Item /\ \A i \in desk : i.key # Mvr /\ i.kind = "task" /\ i.gate = {} /\ i.system = {}
  <2> SUFFICES ASSUME NEW k \in intake.desk
               PROVE  LET i == Task(<<"hr", k>>, {}, {}, {})
                      IN i \in Item /\ i.key # Mvr /\ i.kind = "task" /\ i.gate = {} /\ i.system = {}
    OBVIOUS
  <2>1. k \in What
    BY <1>1 DEF What
  <2>2. <<"hr", k>> \in Key /\ <<"hr", k>> # Mvr
    BY <2>1, Keys
  <2> QED
    BY <2>2, TaskItem
<1>4. /\ systems \in SUBSET Item /\ \A i \in systems : i.key # Mvr
      /\ \A i \in systems : i.gate # {} =>
           i.kind = "task" /\ \E j \in systems : j.key \in i.gate /\ j.kind = "approval"
      /\ \A i \in systems : i.kind = "task" => \E s \in intake.systems : i = Provision(s)
  BY <1>1, RoutedSystem
<1>5. /\ devices \in SUBSET Item /\ \A i \in devices : i.key # Mvr
      /\ \A i \in devices : i.gate # {} =>
           i.kind = "task" /\ \E j \in devices : j.key \in i.gate /\ j.kind = "approval"
      /\ \A i \in devices : i.kind = "task" => i.system = {}
  BY <1>1, RoutedDevice
<1>6. /\ RouteVehicle(intake) \in SUBSET Item
      /\ \A i \in RouteVehicle(intake) : /\ i.kind = "task" /\ i.system = {} /\ (i.gate # {} => i.gate = {Mvr})
                                         /\ i.key = Mvr => i.gate = {}
  BY RoutedVehicle
<1> HIDE DEF desk, systems, devices
<1>7. items \in SUBSET Item /\ \A i \in items : i.gate # {} => i.kind = "task"
  BY <1>2, <1>3, <1>4, <1>5, <1>6
<1>8. IsFiniteSet(Wanted(items))
  <2> DEFINE f == [s \in intake.systems |-> Provision(s)]
             T == {Provision(s) : s \in intake.systems}
  <2>1. Wanted(items) \subseteq T
    BY <1>2, <1>3, <1>4, <1>5, <1>6 DEF Wanted
  <2>2. f \in Surjection(intake.systems, T)
    BY DEF Surjection
  <2>3. IsFiniteSet(intake.systems)
    BY <1>1, PeopleAssumption, FS_Subset
  <2>4. IsFiniteSet(T)
    BY <2>2, <2>3, FS_Surjection
  <2> QED
    BY <2>1, <2>4, FS_Subset
<1>9. Waits(FirstStatus(items))
  <2> DEFINE t == FirstStatus(items)
  <2>1. DOMAIN t = items /\ \A i \in items : t[i] = InitialStatus(i)
    BY DEF FirstStatus
  <2> SUFFICES ASSUME NEW j \in items, t[j] = "blocked"
               PROVE  \/ \E i \in items : i.key \in j.gate /\ t[i] \in Open \ {"blocked"}
                      \/ j.gate = {Mvr} /\ \A i \in items : i.key # Mvr
    BY <2>1 DEF Waits
  <2>2. j.gate # {}
    BY <2>1 DEF InitialStatus
  <2>3. \A i \in items : i.kind = "approval" => t[i] = "awaiting_approval"
    BY <2>1 DEF InitialStatus
  <2>4. \A i \in items : i.kind = "task" /\ i.gate = {} => t[i] = "pending"
    BY <2>1 DEF InitialStatus
  <2>5. CASE j \in systems \cup devices
    BY <2>2, <2>3, <2>5, <1>2, <1>4, <1>5 DEF Open
  <2>6. CASE j \in RouteVehicle(intake)
    <3>1. j.gate = {Mvr}
      BY <2>2, <2>6, <1>6
    <3>2. ASSUME NEW i \in items, i.key = Mvr PROVE t[i] = "pending"
      <4>1. i \in RouteVehicle(intake)
        BY <3>2, <1>2, <1>3, <1>4, <1>5
      <4> QED
        BY <3>2, <4>1, <1>6, <2>4
    <3> QED
      BY <3>1, <3>2 DEF Open
  <2> QED
    BY <2>2, <2>5, <2>6, <1>2, <1>3
<1> QED
  BY <1>7, <1>8, <1>9

LEMMA RoutedLeavers ==
  ASSUME NEW d \in Tables
  PROVE  LET items == RouteOffboarding(d)
         IN /\ items \in SUBSET Item /\ \A i \in items : i.gate = {} /\ i.kind = "task"
            /\ \A r \in Holding(d) : \E i \in items : d.access[r].system \in i.system
            /\ \A r \in InHand(d) : \E i \in items : d.assets[r].type \in i.asset
<1> DEFINE desk == {Task(<<"off_hr", k>>, {}, {}, {}) : k \in Closeout}
           access == {Task(<<"off_access", r>>, {}, {d.access[r].system}, {}) : r \in Holding(d)}
           assets == {Task(<<"off_asset", r>>, {}, {}, {d.assets[r].type}) : r \in InHand(d)}
<1>1. \A k \in Closeout : <<"off_hr", k>> \in Key
  BY Keys DEF What
<1>2. \A r \in Holding(d) : <<"off_access", r>> \in Key /\ d.access[r].system \in Systems \cup Groups
  <2> TAKE r \in Holding(d)
  <2>1. r \in What /\ d.access[r] \in AccessRow
    BY DEF Holding, Tables, What
  <2> QED
    BY <2>1, Keys DEF AccessRow
<1>3. \A r \in InHand(d) : <<"off_asset", r>> \in Key /\ d.assets[r].type \in Devices \cup {Vehicle}
  <2> TAKE r \in InHand(d)
  <2>1. r \in What /\ d.assets[r] \in AssetRow
    BY DEF InHand, Tables, What
  <2> QED
    BY <2>1, Keys DEF AssetRow
<1>4. desk \in SUBSET Item /\ \A i \in desk : i.gate = {} /\ i.kind = "task"
  <2>1. ASSUME NEW k \in Closeout
        PROVE  LET i == Task(<<"off_hr", k>>, {}, {}, {}) IN i \in Item /\ i.gate = {} /\ i.kind = "task"
    BY <1>1, TaskItem
  <2> QED
    BY <2>1
<1>5. /\ access \in SUBSET Item /\ \A i \in access : i.gate = {} /\ i.kind = "task"
      /\ \A r \in Holding(d) : \E i \in access : d.access[r].system \in i.system
  <2>1. ASSUME NEW r \in Holding(d)
        PROVE  LET i == Task(<<"off_access", r>>, {}, {d.access[r].system}, {})
               IN i \in Item /\ i.gate = {} /\ i.kind = "task" /\ d.access[r].system \in i.system
    <3>1. {d.access[r].system} \in SUBSET (Systems \cup Groups)
      BY <1>2
    <3> QED
      BY <1>2, <3>1, TaskItem
  <2> QED
    BY <2>1
<1>6. /\ assets \in SUBSET Item /\ \A i \in assets : i.gate = {} /\ i.kind = "task"
      /\ \A r \in InHand(d) : \E i \in assets : d.assets[r].type \in i.asset
  <2>1. ASSUME NEW r \in InHand(d)
        PROVE  LET i == Task(<<"off_asset", r>>, {}, {}, {d.assets[r].type})
               IN i \in Item /\ i.gate = {} /\ i.kind = "task" /\ d.assets[r].type \in i.asset
    <3>1. {d.assets[r].type} \in SUBSET (Devices \cup {Vehicle})
      BY <1>3
    <3> QED
      BY <1>3, <3>1, TaskItem
  <2> QED
    BY <2>1
<1>7. RouteOffboarding(d) = desk \cup access \cup assets
  BY DEF RouteOffboarding
<1> HIDE DEF desk, access, assets
<1> QED
  BY <1>4, <1>5, <1>6, <1>7

-----------------------------------------------------------------------------
(* A hire, and a leaver.                                                      *)

LEMMA Tuple3 ==
  ASSUME NEW a, NEW b, NEW c
  PROVE  /\ Len(<<a, b, c>>) = 3 /\ Last(<<a, b, c>>) = c
         /\ \A k \in 1..3 : <<a, b, c>>[k] \in {a, b, c}
BY DEF Last

LEMMA Tuple4 ==
  ASSUME NEW a, NEW b, NEW c, NEW e
  PROVE  /\ Len(<<a, b, c, e>>) = 4 /\ Last(<<a, b, c, e>>) = e
         /\ \A k \in 1..4 : <<a, b, c, e>>[k] \in {a, b, c, e}
BY DEF Last

LEMMA MoreCut ==
  ASSUME NEW d, NEW X, Sound(d, X), NEW w PROVE Sound(d, X \cup {w})
BY DEF Sound

LEMMA HireKeepsSound ==
  ASSUME Sound(db, cut), NEW intake \in Intakes, CreateOnboarding(intake)
  PROVE  Sound(db', cut') /\ Len(db'.flows) \in 0..1 /\ cut' \subseteq cut \cup {1}
<1> DEFINE hired == Employed(db, "onboarding")
           opened == InsertFlow(hired, "onboarding")
           items == RouteOnboarding(intake)
           last == PersistItems(opened, items, "onboarding")
           X == cut \cup {1}
<1>1. db \in Tables /\ Len(db.flows) = 0 /\ Commits(<<hired, opened, last>>, 1)
  BY DEF CreateOnboarding, Sound, Shape
<1>2. Sound(hired, X) /\ hired.employment = "onboarding" /\ hired.flows = db.flows
  <2>1. Sound(hired, X)
    BY MoreCut, EmployedStep DEF Employment
  <2> QED
    BY <1>1, <2>1 DEF Employed, Tables
<1>3. /\ Sound(opened, X) /\ Len(opened.flows) = 1 /\ 1 \in DOMAIN opened.flows
      /\ opened.flows[1].kind = "onboarding" /\ opened.flows[1].status = "open"
      /\ opened.employment = "onboarding"
  <2>1. hired.employment # "none" /\ Len(hired.flows) = 0 /\ Len(hired.flows) + 1 = 1 /\ Len(hired.flows) + 1 \in X
    BY <1>1, <1>2
  <2> HIDE DEF hired, X
  <2>2. /\ Sound(opened, X) /\ opened.employment = hired.employment
        /\ Len(opened.flows) = Len(hired.flows) + 1 /\ Len(hired.flows) + 1 \in DOMAIN opened.flows
        /\ opened.flows[Len(hired.flows) + 1].kind = "onboarding"
        /\ opened.flows[Len(hired.flows) + 1].status = "open"
    BY <1>2, <2>1, InsertFlowStep
  <2> QED
    BY <1>2, <2>1, <2>2
<1> HIDE DEF hired, opened
<1>4. /\ items \in SUBSET Item /\ \A i \in items : i.gate # {} => i.kind = "task"
      /\ IsFiniteSet(Wanted(items)) /\ Waits(FirstStatus(items))
  BY RoutedHires
<1> HIDE DEF items
<1>5. /\ Sound(last, X) /\ last.employment = "onboarding" /\ last.flows = opened.flows
      /\ last.tasks[1] = FirstStatus(items)
  <2> HIDE DEF X
  <2>1. Len(opened.flows) \in X
    BY <1>3 DEF X
  <2>2. /\ Len(opened.flows) \in DOMAIN opened.flows /\ opened.flows[Len(opened.flows)].status = "open"
        /\ "onboarding" = "onboarding" => IsFiniteSet(Wanted(items))
    BY <1>3, <1>4
  <2>3. /\ Sound(last, X)
        /\ LET e == last
           IN /\ e.assets = opened.assets /\ e.employment = opened.employment /\ e.source = opened.source
              /\ e.flows = opened.flows /\ e.tasks[Len(opened.flows)] = FirstStatus(items)
              /\ "onboarding" # "onboarding" => e.access = opened.access
    BY ONLY <1>3, <1>4, <2>1, <2>2, PersistStep
  <2> QED
    BY <1>3, <2>3
<1> HIDE DEF last
<1>6. Sound(last, cut)
  <2>1. Alive(last, 1)
    <3>1. DOMAIN FirstStatus(items) = items /\ \A i \in items : FirstStatus(items)[i] \in Open
      BY DEF FirstStatus, InitialStatus, Open
    <3> QED
      BY <3>1, <1>5 DEF Alive, AllDone
  <2>2. FlowSound(last, 1)
    BY <2>1, <1>3, <1>4, <1>5 DEF FlowSound, Held
  <2>3. Settles(last)
    BY <1>3, <1>5 DEF Settles
  <2> QED
    BY <1>3, <1>5, <2>2, <2>3, AfterAll
<1>7. /\ Len(<<hired, opened, last>>) = 3 /\ Last(<<hired, opened, last>>) = last
      /\ \A k \in 1..3 : <<hired, opened, last>>[k] \in {hired, opened, last}
  BY Tuple3
<1> DEFINE steps == <<hired, opened, last>>
<1> HIDE DEF steps
<1>8. Sound(db', cut')
  BY <1>1, <1>2, <1>3, <1>5, <1>6, <1>7, CommitsSound DEF steps
<1>9. db' \in {hired, opened, last} /\ cut' \subseteq cut \cup {1}
  BY <1>1, <1>7 DEF Commits
<1> QED
  <2>1. Len(hired.flows) \in 0..1 /\ Len(opened.flows) \in 0..1 /\ Len(last.flows) \in 0..1
    BY <1>1, <1>2, <1>3, <1>5
  <2>2. db' = hired \/ db' = opened \/ db' = last
    BY <1>9
  <2>3. Len(db'.flows) \in 0..1
    BY <2>1, <2>2
  <2> QED
    BY <1>8, <1>9, <2>3

LEMMA LeaveKeepsSound ==
  ASSUME Sound(db, cut), StartOffboarding
  PROVE  Sound(db', cut') /\ Len(db'.flows) = Len(db.flows) + 1 /\ cut' \subseteq cut \cup {Len(db'.flows)}
<1> DEFINE opened == InsertFlow(db, "offboarding")
           leaving == Employed(opened, "offboarding")
           items == RouteOffboarding(db)
           routed == PersistItems(leaving, items, "offboarding")
           last == AssetsPending(routed)
           w == Len(db.flows) + 1
           X == cut \cup {w}
<1>1. db \in Tables /\ db.employment # "none" /\ Commits(<<opened, leaving, routed, last>>, w)
  BY DEF StartOffboarding, Sound, Shape, Here
<1>2. /\ Sound(opened, X) /\ Len(opened.flows) = w /\ w \in DOMAIN opened.flows
      /\ opened.flows[w].kind = "offboarding" /\ opened.flows[w].status = "open"
      /\ opened.access = db.access /\ opened.assets = db.assets
  <2>1. Sound(db, X) /\ w \in X
    BY MoreCut
  <2> HIDE DEF X
  <2> QED
    BY <1>1, <2>1, InsertFlowStep
<1> HIDE DEF opened
<1>3. /\ Sound(leaving, X) /\ leaving.flows = opened.flows /\ leaving.employment = "offboarding"
      /\ leaving.access = db.access /\ leaving.assets = db.assets
  <2>1. Sound(leaving, X)
    BY <1>2, EmployedStep DEF Employment
  <2>2. opened \in Tables
    BY <1>2 DEF Sound, Shape
  <2> QED
    BY <1>2, <2>1, <2>2 DEF Employed, Tables
<1> HIDE DEF leaving
<1>4. /\ items \in SUBSET Item /\ \A i \in items : i.gate = {} /\ i.kind = "task"
      /\ \A r \in Holding(db) : \E i \in items : db.access[r].system \in i.system
      /\ \A r \in InHand(db) : \E i \in items : db.assets[r].type \in i.asset
  BY <1>1, RoutedLeavers
<1> HIDE DEF items
<1>5. /\ Sound(routed, X) /\ routed.flows = opened.flows /\ routed.employment = "offboarding"
      /\ routed.access = db.access /\ routed.assets = db.assets /\ routed.tasks[w] = FirstStatus(items)
  <2>1. w \in X /\ Len(leaving.flows) = w
    BY <1>2, <1>3
  <2> HIDE DEF X, w
  <2>2. /\ Len(leaving.flows) \in X /\ Len(leaving.flows) \in DOMAIN leaving.flows
        /\ leaving.flows[Len(leaving.flows)].status = "open"
        /\ "offboarding" = "onboarding" => IsFiniteSet(Wanted(items))
        /\ \A i \in items : i.gate # {} => i.kind = "task"
    BY <1>2, <1>3, <1>4, <2>1
  <2>3. /\ Sound(routed, X)
        /\ LET e == routed
           IN /\ e.assets = leaving.assets /\ e.employment = leaving.employment /\ e.source = leaving.source
              /\ e.flows = leaving.flows /\ e.tasks[Len(leaving.flows)] = FirstStatus(items)
              /\ "offboarding" # "onboarding" => e.access = leaving.access
    BY ONLY <1>3, <1>4, <2>2, PersistStep
  <2> QED
    BY <1>3, <2>1, <2>3
<1> HIDE DEF routed
<1> DEFINE assets == [r \in DOMAIN db.assets |-> IF db.assets[r].status = "assigned"
                        THEN [db.assets[r] EXCEPT !.status = "pending_return"] ELSE db.assets[r]]
<1>6. last = [routed EXCEPT !.assets = assets]
  BY <1>5 DEF AssetsPending
<1>7. /\ assets \in Seq(AssetRow) /\ DOMAIN assets = DOMAIN db.assets
      /\ \A r \in DOMAIN assets : /\ assets[r].type = db.assets[r].type /\ assets[r].since = db.assets[r].since
                                  /\ assets[r] = db.assets[r] \/ Hand(db.assets[r])
                                  /\ Hand(assets[r]) => Hand(db.assets[r])
  <2>1. db.assets \in Seq(AssetRow)
    BY <1>1 DEF Tables
  <2>2. ASSUME NEW r \in DOMAIN db.assets
        PROVE  /\ assets[r] \in AssetRow /\ assets[r].type = db.assets[r].type
               /\ assets[r].since = db.assets[r].since
               /\ assets[r] = db.assets[r] \/ Hand(db.assets[r])
               /\ Hand(assets[r]) => Hand(db.assets[r])
    <3>1. db.assets[r] \in AssetRow
      BY <2>1
    <3> QED
      BY <3>1 DEF AssetRow, Hand
  <2>3. DOMAIN assets = 1..Len(db.assets) /\ Len(db.assets) \in Nat
    BY <2>1
  <2> HIDE DEF assets
  <2>4. assets \in Seq(AssetRow)
    <3>1. assets \in [1..Len(db.assets) -> AssetRow]
      <4>1. assets = [r \in DOMAIN db.assets |-> assets[r]]
        BY DEF assets
      <4> QED
        BY <2>2, <2>3, <4>1, <2>1
    <3> QED
      BY <2>3, <3>1
  <2> QED
    BY <2>1, <2>2, <2>3, <2>4
<1> HIDE DEF assets
<1>8. /\ Sound(last, X) /\ last.flows = opened.flows /\ last.employment = "offboarding"
      /\ last.access = db.access /\ last.assets = assets /\ last.tasks[w] = FirstStatus(items)
  <2>1. Sound(last, X)
    <3>1. Len(routed.flows) \in Nat
      BY <1>1, <1>2, <1>5 DEF Tables
    <3>2. \A r \in DOMAIN assets :
             \/ r \in DOMAIN routed.assets /\ assets[r] = routed.assets[r]
             \/ r \in DOMAIN routed.assets /\ Hand(routed.assets[r]) /\ assets[r].type = routed.assets[r].type
                  /\ assets[r].since = routed.assets[r].since
      BY <1>5, <1>7
    <3> HIDE DEF X
    <3>3. Sound([routed EXCEPT !.assets = assets], X)
      BY <1>5, <1>7, <3>1, <3>2, AssetStep
    <3> QED
      BY <1>6, <3>3
  <2> QED
    BY <1>5, <1>6, <2>1 DEF Sound, Shape, Tables
<1> HIDE DEF last
<1>9. Sound(last, cut)
  <2>1. DOMAIN FirstStatus(items) = items /\ \A i \in items : FirstStatus(items)[i] = "pending"
    BY <1>4 DEF FirstStatus, InitialStatus
  <2>2. Alive(last, w) /\ Waits(last.tasks[w])
    BY <1>8, <2>1 DEF Alive, AllDone, Waits, Open
  <2>3. Held(last, w)
    <3>1. \A r \in DOMAIN db.access : Kept(db.access[r]) => r \in Holding(db)
      <4> SUFFICES ASSUME NEW r \in DOMAIN db.access, Kept(db.access[r]) PROVE r \in Holding(db)
        OBVIOUS
      <4>1. db.access[r] \in AccessRow
        BY <1>1 DEF Tables
      <4> QED
        BY <4>1 DEF AccessRow, Kept, Holding
    <3>2. \A r \in DOMAIN assets : Hand(assets[r]) => r \in InHand(db)
      BY <1>7 DEF Hand, InHand
    <3> QED
      BY <1>4, <1>7, <1>8, <2>1, <3>1, <3>2 DEF Held
  <2>4. Settles(last)
    BY <1>2, <1>8 DEF Settles
  <2> QED
    BY <1>2, <1>8, <2>2, <2>3, <2>4, AfterAll DEF FlowSound
<1> DEFINE steps == <<opened, leaving, routed, last>>
<1>10. /\ Len(steps) = 4 /\ Last(steps) = last
       /\ \A k \in 1..4 : steps[k] \in {opened, leaving, routed, last}
  BY Tuple4
<1> HIDE DEF steps
<1>11. Sound(db', cut')
  BY <1>1, <1>2, <1>3, <1>5, <1>8, <1>9, <1>10, CommitsSound DEF steps
<1>12. db' \in {opened, leaving, routed, last} /\ cut' \subseteq cut \cup {w}
  BY <1>1, <1>10 DEF Commits, steps
<1> QED
  BY <1>2, <1>3, <1>5, <1>8, <1>11, <1>12

-----------------------------------------------------------------------------
(* A decision.                                                                *)

SameFlows(d, e) == e.flows = d.flows /\ e.employment = d.employment /\ e.source = d.source

LEMMA TaskFields ==
  ASSUME NEW d, NEW X, Sound(d, X), NEW w \in DOMAIN d.flows, NEW t
  PROVE  LET e == [d EXCEPT !.tasks[w] = t]
         IN SameFlows(d, e) /\ e.access = d.access /\ e.assets = d.assets /\ e.tasks[w] = t
BY DEF Sound, Shape, Tables, SameFlows

LEMMA TaskTypes ==
  ASSUME NEW d, NEW X, Sound(d, X), NEW w \in DOMAIN d.flows
  PROVE  /\ d.tasks[w] \in TaskTable /\ DOMAIN d.tasks[w] \in SUBSET Item /\ ItemsSound(d.tasks[w])
         /\ \A i \in DOMAIN d.tasks[w] : i.kind \in {"task", "approval"}
         /\ d.tasks[w] \in [DOMAIN d.tasks[w] -> TaskStatus \cup ApprovalStatus]
<1>1. d.tasks[w] \in TaskTable
  BY DEF Sound, Shape, Tables
<1>2. ItemsSound(d.tasks[w])
  BY DEF Sound
<1> QED
  BY <1>1, <1>2, TaskTables DEF Item

LEMMA DecidedStep ==
  ASSUME NEW d, NEW X, Sound(d, X), NEW w \in DOMAIN d.flows \cap X, NEW i \in DOMAIN d.tasks[w], NEW s,
         \/ i.kind = "task" /\ d.tasks[w][i] = "pending" /\ s = "completed"
         \/ i.kind = "approval" /\ d.tasks[w][i] = "awaiting_approval" /\ s \in {"approved", "rejected"}
  PROVE  LET e == Decided(d, w, i, s)
         IN /\ Sound(e, X) /\ SameFlows(d, e) /\ e.access = d.access /\ e.assets = d.assets
            /\ e.tasks[w] = [d.tasks[w] EXCEPT ![i] = s]
<1> DEFINE t == d.tasks[w]
           u == [t EXCEPT ![i] = s]
<1>1. /\ DOMAIN t \in SUBSET Item /\ ItemsSound(t) /\ t \in [DOMAIN t -> TaskStatus \cup ApprovalStatus]
  BY TaskTypes
<1>2. t[i] \in Open
  BY DEF Open
<1>3. u \in [DOMAIN t -> TaskStatus \cup ApprovalStatus] /\ u[i] = s /\ \A j \in DOMAIN t \ {i} : u[j] = t[j]
  BY <1>1 DEF TaskStatus, ApprovalStatus
<1> HIDE DEF u
<1>4. u \in TaskTable
  BY <1>1, <1>3, TaskTables
<1>5. ItemsSound(u)
  <2> SUFFICES ASSUME NEW j \in DOMAIN t
               PROVE  /\ j.kind = "task" => u[j] \in TaskStatus
                      /\ j.kind = "approval" => u[j] \in ApprovalStatus /\ j.gate = {}
                      /\ j.gate # {} /\ u[j] \in {"pending", "completed"} =>
                           \E k \in DOMAIN t : k.key \in j.gate /\ u[k] \in {"approved", "completed"}
    BY <1>3 DEF ItemsSound
  <2>1. (j.kind = "task" => u[j] \in TaskStatus) /\ (j.kind = "approval" => u[j] \in ApprovalStatus /\ j.gate = {})
    BY <1>1, <1>3 DEF ItemsSound, TaskStatus, ApprovalStatus
  <2>2. ASSUME j.gate # {}, u[j] \in {"pending", "completed"}
        PROVE  \E k \in DOMAIN t : k.key \in j.gate /\ u[k] \in {"approved", "completed"}
    <3>1. t[j] \in {"pending", "completed"}
      BY <2>2, <1>3
    <3>2. PICK k \in DOMAIN t : k.key \in j.gate /\ t[k] \in {"approved", "completed"}
      BY <2>2, <3>1, <1>1 DEF ItemsSound
    <3>3. k # i
      BY <3>2
    <3> QED
      BY <3>2, <3>3, <1>3
  <2> QED
    BY <2>1, <2>2
<1>6. d.flows[w].status # "complete"
  BY <1>2 DEF Sound, DoneIsDone, AllDone
<1>7. Decided(d, w, i, s) = [d EXCEPT !.tasks[w] = u]
  BY DEF Decided, u
<1> HIDE DEF t
<1>8. Sound([d EXCEPT !.tasks[w] = u], X)
  BY <1>4, <1>5, <1>6, TaskStep
<1>9. LET e == [d EXCEPT !.tasks[w] = u]
      IN SameFlows(d, e) /\ e.access = d.access /\ e.assets = d.assets /\ e.tasks[w] = u
  BY TaskFields
<1> QED
  BY <1>7, <1>8, <1>9 DEF u, t

(* What waits for i, and is blocked, gets the status s.                       *)
Freed(t, i, s) == [j \in DOMAIN t |-> IF i.key \in j.gate /\ t[j] = "blocked" THEN s ELSE t[j]]

LEMMA DependentsStep ==
  ASSUME NEW d, NEW X, Sound(d, X), NEW w \in DOMAIN d.flows \cap X, NEW i \in DOMAIN d.tasks[w], NEW s,
         s = "failed" \/ (s = "pending" /\ d.tasks[w][i] \in {"approved", "completed"})
  PROVE  LET e == Dependents(d, w, i, s)
         IN /\ Sound(e, X) /\ SameFlows(d, e) /\ e.access = d.access /\ e.assets = d.assets
            /\ e.tasks[w] = Freed(d.tasks[w], i, s)
<1> DEFINE t == d.tasks[w]
           u == Freed(t, i, s)
<1>1. /\ DOMAIN t \in SUBSET Item /\ ItemsSound(t) /\ t \in [DOMAIN t -> TaskStatus \cup ApprovalStatus]
      /\ \A j \in DOMAIN t : j.kind \in {"task", "approval"}
  BY TaskTypes
<1>2. /\ DOMAIN u = DOMAIN t
      /\ \A j \in DOMAIN t : u[j] = t[j] \/ (u[j] = s /\ t[j] = "blocked" /\ i.key \in j.gate)
  BY DEF Freed
<1>3. u \in [DOMAIN t -> TaskStatus \cup ApprovalStatus]
  BY <1>1 DEF Freed, TaskStatus
<1> HIDE DEF u
<1>4. u \in TaskTable
  BY <1>1, <1>3, TaskTables
<1>5. \A k \in DOMAIN t : t[k] \in {"approved", "completed"} => u[k] = t[k]
  BY <1>2
<1>6. ItemsSound(u)
  <2> SUFFICES ASSUME NEW j \in DOMAIN t
               PROVE  /\ j.kind = "task" => u[j] \in TaskStatus
                      /\ j.kind = "approval" => u[j] \in ApprovalStatus /\ j.gate = {}
                      /\ j.gate # {} /\ u[j] \in {"pending", "completed"} =>
                           \E k \in DOMAIN t : k.key \in j.gate /\ u[k] \in {"approved", "completed"}
    BY <1>2 DEF ItemsSound
  <2>1. CASE u[j] = t[j]
    BY <2>1, <1>1, <1>5 DEF ItemsSound
  <2>2. CASE u[j] = s /\ t[j] = "blocked" /\ i.key \in j.gate
    <3>1. j.kind = "task"
      BY <2>2, <1>1 DEF ItemsSound, ApprovalStatus
    <3>2. s = "pending" => u[i] \in {"approved", "completed"}
      BY <1>5
    <3> QED
      BY <2>2, <3>1, <3>2 DEF TaskStatus
  <2> QED
    BY <2>1, <2>2, <1>2
<1>7. AllDone(t) => AllDone(u)
  BY <1>2 DEF AllDone, Open
<1>8. d.flows[w].status = "complete" => AllDone(u)
  BY <1>7 DEF Sound, DoneIsDone
<1>9. Dependents(d, w, i, s) = [d EXCEPT !.tasks[w] = u]
  BY DEF Dependents, u, Freed
<1> HIDE DEF t
<1>10. Sound([d EXCEPT !.tasks[w] = u], X)
  BY <1>4, <1>6, <1>8, TaskStep
<1>11. LET e == [d EXCEPT !.tasks[w] = u]
       IN SameFlows(d, e) /\ e.access = d.access /\ e.assets = d.assets /\ e.tasks[w] = u
  BY TaskFields
<1> QED
  BY <1>9, <1>10, <1>11 DEF u, t

(* After a decision, and what it frees, everything else waits as it did.       *)
LEMMA WaitsOn ==
  ASSUME NEW t, Waits(t), NEW i \in DOMAIN t, NEW s, s # "blocked", NEW f, f # "blocked"
  PROVE  LET u == Freed([t EXCEPT ![i] = s], i, f)
         IN /\ Waits(u) /\ DOMAIN u = DOMAIN t /\ u[i] = s
            /\ \A k \in DOMAIN t \ {i} : t[k] # "blocked" => u[k] = t[k]
<1> DEFINE u == Freed([t EXCEPT ![i] = s], i, f)
<1>1. /\ DOMAIN u = DOMAIN t /\ u[i] = s
      /\ \A k \in DOMAIN t \ {i} : t[k] # "blocked" => u[k] = t[k]
      /\ \A j \in DOMAIN t : u[j] = "blocked" => j # i /\ t[j] = "blocked" /\ i.key \notin j.gate
  BY DEF Freed
<1> HIDE DEF u
<1>2. Waits(u)
  <2> SUFFICES ASSUME NEW j \in DOMAIN t, u[j] = "blocked"
               PROVE  \/ \E k \in DOMAIN t : k.key \in j.gate /\ u[k] \in Open \ {"blocked"}
                      \/ j.gate = {Mvr} /\ \A k \in DOMAIN t : k.key # Mvr
    BY <1>1 DEF Waits
  <2>1. t[j] = "blocked" /\ i.key \notin j.gate
    BY <1>1
  <2>2. CASE \E k \in DOMAIN t : k.key \in j.gate /\ t[k] \in Open \ {"blocked"}
    BY <2>1, <2>2, <1>1
  <2>3. CASE j.gate = {Mvr} /\ \A k \in DOMAIN t : k.key # Mvr
    BY <2>3
  <2> QED
    BY <2>1, <2>2, <2>3 DEF Waits
<1> QED
  BY <1>1, <1>2 DEF u

(* Access that is given or taken back for a decision, row by row.              *)
LEMMA EveryAccessStep ==
  ASSUME NEW d, NEW X, Sound(d, X), NEW i, NEW from, NEW s \in {"approved", "provisioned", "revoked"}
  PROVE  LET e == EveryAccess(d, i, from, s)
         IN /\ Sound(e, X) /\ SameFlows(d, e) /\ e.tasks = d.tasks /\ e.assets = d.assets
            /\ DOMAIN e.access = DOMAIN d.access
            /\ \A r \in DOMAIN d.access :
                 IF d.access[r].system \in i.system /\ d.access[r].status \in from
                 THEN /\ e.access[r].status = s /\ e.access[r].system = d.access[r].system
                      /\ e.access[r].since = IF s = "revoked" THEN d.access[r].since ELSE Len(d.flows)
                 ELSE e.access[r] = d.access[r]
<1> DEFINE row(r) == Marked(d, d.access[r], s)
           a == [r \in DOMAIN d.access |->
                   IF d.access[r].system \in i.system /\ d.access[r].status \in from THEN row(r) ELSE d.access[r]]
<1>1. d \in Tables /\ d.access \in Seq(AccessRow) /\ Len(d.flows) \in Nat
  BY DEF Sound, Shape, Tables
<1>2. ASSUME NEW r \in DOMAIN d.access
      PROVE  /\ row(r) \in AccessRow /\ row(r).status = s /\ row(r).system = d.access[r].system
             /\ row(r).since = IF s = "revoked" THEN d.access[r].since ELSE Len(d.flows)
  <2>1. d.access[r] \in AccessRow
    BY <1>1
  <2> QED
    BY <1>1, <2>1 DEF AccessRow, Marked, Here
<1> HIDE DEF row
<1>3. /\ DOMAIN a = 1..Len(d.access) /\ Len(d.access) \in Nat
      /\ \A r \in DOMAIN a : a[r] \in AccessRow
  BY <1>1, <1>2
<1>4. a \in Seq(AccessRow)
  <2>1. a = [r \in 1..Len(d.access) |-> a[r]]
    BY <1>3
  <2> HIDE DEF a
  <2> QED
    BY <1>3, <2>1
<1>5. /\ DOMAIN a = DOMAIN d.access
      /\ \A r \in DOMAIN d.access : /\ d.access[r].system \in i.system /\ d.access[r].status \in from => a[r] = row(r)
                                    /\ ~(d.access[r].system \in i.system /\ d.access[r].status \in from) =>
                                         a[r] = d.access[r]
  OBVIOUS
<1>6. EveryAccess(d, i, from, s) = [d EXCEPT !.access = a]
  BY DEF EveryAccess, row
<1> HIDE DEF a
<1>7. \A r \in DOMAIN a : \/ r \in DOMAIN d.access /\ a[r] = d.access[r]
                          \/ a[r].since = Len(d.flows) \/ ~Kept(a[r])
  BY <1>2, <1>5 DEF Kept
<1>8. Sound([d EXCEPT !.access = a], X)
  BY <1>1, <1>4, <1>7, AccessStep
<1>9. LET e == [d EXCEPT !.access = a]
      IN SameFlows(d, e) /\ e.tasks = d.tasks /\ e.assets = d.assets /\ e.access = a
  BY <1>1 DEF Tables, SameFlows
<1> QED
  BY <1>2, <1>5, <1>6, <1>8, <1>9

(* What is in hand, for a decision of a leaver: what the item names is back.    *)
LEMMA AssetChangedStep ==
  ASSUME NEW d, NEW X, Sound(d, X), NEW w \in DOMAIN d.flows, NEW i \in Item
  PROVE  LET e == AssetChanged(d, w, i)
         IN /\ Sound(e, X) /\ SameFlows(d, e) /\ e.tasks = d.tasks /\ e.access = d.access
            /\ d.flows[w].kind = "offboarding" =>
                 /\ DOMAIN e.assets = DOMAIN d.assets
                 /\ \A r \in DOMAIN d.assets :
                      \/ e.assets[r] = d.assets[r] /\ ~(d.assets[r].type \in i.asset /\ Hand(d.assets[r]))
                      \/ ~Hand(e.assets[r])
<1>1. d \in Tables /\ d.assets \in Seq(AssetRow) /\ Len(d.flows) \in Nat
  BY DEF Sound, Shape, Tables
<1>2. CASE d.flows[w].kind = "offboarding"
  <2> DEFINE row(r) == [d.assets[r] EXCEPT !.status = "returned"]
             a == [r \in DOMAIN d.assets |->
                     IF d.assets[r].type \in i.asset /\ d.assets[r].status \in {"assigned", "pending_return"}
                     THEN row(r) ELSE d.assets[r]]
  <2>1. ASSUME NEW r \in DOMAIN d.assets PROVE row(r) \in AssetRow /\ row(r).status = "returned"
    <3>1. d.assets[r] \in AssetRow
      BY <1>1
    <3> QED
      BY <3>1 DEF AssetRow
  <2> HIDE DEF row
  <2>2. DOMAIN a = 1..Len(d.assets) /\ Len(d.assets) \in Nat /\ \A r \in DOMAIN a : a[r] \in AssetRow
    BY <1>1, <2>1
  <2>3. a \in Seq(AssetRow)
    <3>1. a = [r \in 1..Len(d.assets) |-> a[r]]
      BY <2>2
    <3> HIDE DEF a
    <3>2. a \in [1..Len(d.assets) -> AssetRow]
      BY <2>2, <3>1
    <3> QED
      BY <2>2, <3>2
  <2>4. /\ DOMAIN a = DOMAIN d.assets
        /\ \A r \in DOMAIN d.assets : /\ d.assets[r].type \in i.asset /\ Hand(d.assets[r]) => a[r] = row(r)
                                      /\ ~(d.assets[r].type \in i.asset /\ Hand(d.assets[r])) => a[r] = d.assets[r]
    BY DEF Hand
  <2>5. AssetChanged(d, w, i) = [d EXCEPT !.assets = a]
    BY <1>2 DEF AssetChanged, row
  <2> HIDE DEF a
  <2>6. \A r \in DOMAIN d.assets : (a[r] = d.assets[r] /\ ~(d.assets[r].type \in i.asset /\ Hand(d.assets[r]))) \/ ~Hand(a[r])
    BY <2>1, <2>4 DEF Hand
  <2>7. Sound([d EXCEPT !.assets = a], X)
    BY <1>1, <2>3, <2>4, <2>6, AssetStep
  <2>8. LET e == [d EXCEPT !.assets = a]
        IN SameFlows(d, e) /\ e.tasks = d.tasks /\ e.access = d.access /\ e.assets = a
    BY <1>1 DEF Tables, SameFlows
  <2> QED
    BY <2>4, <2>5, <2>6, <2>7, <2>8
<1>3. CASE d.flows[w].kind # "offboarding"
  <2> DEFINE types == {t \in i.asset : ~ \E r \in DOMAIN d.assets : d.assets[r].type = t /\ d.assets[r].status = "assigned"}
             rows == {Asset(d, t, "assigned") : t \in types}
             new == SetToSeq(rows)
             a == d.assets \o new
  <2>1. i.asset \subseteq Devices \cup {Vehicle}
    BY DEF Item
  <2>2. \A row \in rows : row \in AssetRow /\ row.since = Len(d.flows)
    BY <1>1, <2>1 DEF Asset, AssetRow, Here
  <2>3. IsFiniteSet(rows)
    <3> DEFINE f == [t \in types |-> Asset(d, t, "assigned")]
    <3>1. f \in Surjection(types, rows)
      BY DEF Surjection
    <3>2. IsFiniteSet(Devices \cup {Vehicle})
      BY PeopleAssumption, FS_AddElement
    <3>3. IsFiniteSet(types)
      BY <2>1, <3>2, FS_Subset
    <3> QED
      BY <3>1, <3>3, FS_Surjection
  <2> HIDE DEF rows
  <2>4. new \in Seq(rows)
    BY <2>3, SetToSeqType
  <2> HIDE DEF new
  <2>5. /\ a \in Seq(AssetRow)
        /\ \A r \in DOMAIN a : (r \in DOMAIN d.assets /\ a[r] = d.assets[r]) \/ a[r].since = Len(d.flows)
    <3>1. new \in Seq(AssetRow) /\ \A n \in DOMAIN new : new[n].since = Len(d.flows)
      BY <2>2, <2>4
    <3> QED
      BY <1>1, <3>1
  <2>6. AssetChanged(d, w, i) = [d EXCEPT !.assets = a]
    BY <1>3 DEF AssetChanged, new, rows
  <2> HIDE DEF a
  <2>7. Sound([d EXCEPT !.assets = a], X)
    BY <1>1, <2>5, AssetStep
  <2>8. LET e == [d EXCEPT !.assets = a]
        IN SameFlows(d, e) /\ e.tasks = d.tasks /\ e.access = d.access
    BY <1>1 DEF Tables, SameFlows
  <2> QED
    BY <1>3, <2>6, <2>7, <2>8
<1> QED
  BY <1>2, <1>3

(* maybeFinishWorkflow ends every decision: whatever is done is complete, and   *)
(* the person follows the workflow, unless a later one decides that.            *)
LEMMA FinishStep ==
  ASSUME NEW d, NEW w \in DOMAIN d.flows, Sound(d, cut \cup {w}),
         w \notin cut => Waits(d.tasks[w]) /\ Held(d, w), cut = {} => Settles(d)
  PROVE  /\ Sound(FlowDone(d, w), cut \cup {w}) /\ Sound(Follow(d, w), cut \cup {w}) /\ Sound(Follow(d, w), cut)
         /\ Len(FlowDone(d, w).flows) = Len(d.flows) /\ Len(Follow(d, w).flows) = Len(d.flows)
<1> DEFINE X == cut \cup {w}
           f == FlowDone(d, w)
           e == Follow(d, w)
           end == IF d.flows[w].kind = "onboarding" THEN "active" ELSE "terminated"
<1>1. /\ Sound(f, X) /\ f.access = d.access /\ f.assets = d.assets /\ f.tasks = d.tasks
      /\ f.employment = d.employment /\ f.source = d.source /\ Len(f.flows) = Len(d.flows)
      /\ f.flows = IF Finishes(d, w) THEN [d.flows EXCEPT ![w] = [@ EXCEPT !.status = "complete"]] ELSE d.flows
  BY FlowDoneStep
<1> HIDE DEF f, X
<1>2. CASE ~Finishes(d, w)
  <2>1. e = d /\ f = d
    BY <1>2 DEF Follow, FlowDone, f
  <2> HIDE DEF e
  <2>2. w \notin cut => FlowSound(d, w)
    <3>1. d.flows[w].status \in {"open", "complete"}
      <4>1. d.flows[w] \in FlowRow
        BY DEF Sound, Shape, Tables
      <4> QED
        BY <4>1 DEF FlowRow
    <3>2. Alive(d, w)
      BY <1>2, <3>1 DEF Finishes, Alive, AllDone
    <3> QED
      BY <3>2 DEF FlowSound
  <2>3. Sound(d, cut)
    BY <2>2, AfterAll
  <2> QED
    BY <1>1, <2>1, <2>3 DEF e, f, X
<1>3. CASE Finishes(d, w)
  <2>1. e = Employed(f, end)
    BY <1>3 DEF Follow, f
  <2>2. end \in Employment \ {"none"}
    BY DEF Employment
  <2> HIDE DEF end
  <2>3. Sound(e, X)
    <3>1. X # {}
      BY DEF X
    <3> QED
      BY <1>1, <2>1, <2>2, <3>1, EmployedStep
  <2>4. /\ e.access = d.access /\ e.assets = d.assets /\ e.tasks = d.tasks /\ e.flows = f.flows
        /\ e.employment = end /\ e.source = d.source
    <3>1. f \in Tables
      BY <1>1 DEF Sound, Shape
    <3> QED
      BY <1>1, <2>1, <3>1 DEF Employed, Tables
  <2> HIDE DEF e
  <2>5. d.flows \in Seq(FlowRow) /\ Len(d.flows) \in Nat /\ d.flows[w] \in FlowRow
    BY DEF Sound, Shape, Tables
  <2>6. /\ e.flows[w].status = "complete" /\ e.flows[w].kind = d.flows[w].kind
        /\ e.flows[w].beside = d.flows[w].beside
        /\ \A v \in DOMAIN d.flows \ {w} : e.flows[v] = d.flows[v]
        /\ DOMAIN e.flows = DOMAIN d.flows /\ Len(e.flows) = Len(d.flows)
    BY <1>1, <1>3, <2>4, <2>5 DEF FlowRow
  <2>7. w \notin cut => FlowSound(e, w)
    BY <2>4, <2>6 DEF FlowSound, Alive, Held
  <2>8. ASSUME cut = {} PROVE Settles(e)
    <3> DEFINE last == Len(d.flows)
    <3> SUFFICES ASSUME last > 0, e.flows[last].beside = {}
                 PROVE  \/ e.flows[last].status = "complete" /\ d.source = "bamboo"
                        \/ e.flows[last].status = "complete"
                             /\ end = (IF e.flows[last].kind = "onboarding" THEN "active" ELSE "terminated")
      BY <2>4, <2>6 DEF Settles
    <3>1. last \in DOMAIN d.flows /\ w <= last /\ w \in Nat
      BY <2>5
    <3>2. CASE w = last
      BY <2>6, <3>2 DEF end
    <3>3. CASE w < last
      <4>1. w \in d.flows[last].beside
        BY <1>3, <3>1, <3>3 DEF Finishes, Sound, BesideSound
      <4> QED
        BY <2>6, <3>1, <3>3, <4>1
    <3> QED
      BY <2>5, <3>1, <3>2, <3>3
  <2>9. Sound(e, cut)
    <3>1. w \in DOMAIN e.flows
      BY <2>6
    <3> QED
      BY <2>3, <2>7, <2>8, <3>1, AfterAll DEF X
  <2> QED
    BY <1>1, <2>3, <2>6, <2>9 DEF e, f, X
<1> QED
  BY <1>2, <1>3

(* A handler that ends with what y is, wherever it is cut.                     *)
LEMMA HandlerSound ==
  ASSUME NEW S, NEW before \in Seq(S), NEW x \in S, NEW y \in S, NEW w, NEW n,
         Commits(before \o <<x, y>>, w), Sound(y, cut),
         \A e \in S : Sound(e, cut \cup {w}) /\ Len(e.flows) = n
  PROVE  Sound(db', cut') /\ Len(db'.flows) = n /\ cut' \subseteq cut \cup {w}
<1> DEFINE steps == before \o <<x, y>>
<1>1. steps \in Seq(S) /\ Len(steps) \in Nat /\ steps[Len(steps)] = y
  OBVIOUS
<1> HIDE DEF steps
<1>2. Last(steps) = y /\ \A k \in 1..Len(steps) : steps[k] \in S
  BY <1>1 DEF Last
<1>3. Commits(steps, w)
  BY DEF steps
<1>4. Sound(db', cut')
  BY <1>1, <1>2, <1>3, CommitsSound
<1>5. db' \in S /\ cut' \subseteq cut \cup {w}
  BY <1>2, <1>3 DEF Commits
<1> QED
  BY <1>4, <1>5

LEMMA SettlesOn ==
  ASSUME NEW d, Settles(d), NEW e, SameFlows(d, e) PROVE Settles(e)
BY DEF Settles, SameFlows

LEMMA CompleteKeepsSound ==
  ASSUME Sound(db, cut), NEW w \in DOMAIN db.flows, NEW i \in DOMAIN db.tasks[w], CompleteTask(w, i)
  PROVE  Sound(db', cut') /\ Len(db'.flows) = Len(db.flows) /\ cut' \subseteq cut \cup {w}
<1> DEFINE X == cut \cup {w}
           t == db.tasks[w]
           d1 == Decided(db, w, i, "completed")
           d2 == AccessChanged(d1, w, i)
           d3 == AssetChanged(d2, w, i)
           d4 == Dependents(d3, w, i, "pending")
           f == FlowDone(d4, w)
           e == Follow(d4, w)
<1>1. /\ i.kind = "task" /\ t[i] \in Open \ {"blocked"} /\ Commits(<<d1, d2, d3, d4>> \o <<f, e>>, w)
  BY DEF CompleteTask, AndFinish
<1>2. Sound(db, X) /\ w \in X /\ i \in Item /\ t[i] = "pending"
  <2>1. i \in Item /\ t[i] \in TaskStatus
    BY <1>1, TaskTypes DEF ItemsSound
  <2> QED
    BY <1>1, <2>1, MoreCut DEF Open, TaskStatus
<1> HIDE DEF X
<1>3. /\ Sound(d1, X) /\ SameFlows(db, d1) /\ d1.access = db.access /\ d1.assets = db.assets
      /\ d1.tasks[w] = [t EXCEPT ![i] = "completed"]
  BY <1>1, <1>2, DecidedStep
<1> HIDE DEF d1
<1>4. /\ Sound(d2, X) /\ SameFlows(d1, d2) /\ d2.tasks = d1.tasks /\ d2.assets = d1.assets
      /\ db.flows[w].kind = "offboarding" =>
           /\ DOMAIN d2.access = DOMAIN d1.access
           /\ \A r \in DOMAIN d1.access :
                \/ d2.access[r] = d1.access[r] /\ (Kept(d1.access[r]) => d1.access[r].system \notin i.system)
                \/ ~Kept(d2.access[r])
  <2>1. CASE d1.flows[w].kind = "offboarding"
    <3>1. d2 = EveryAccess(d1, i, NotRemoved \ {"revoked"}, "revoked")
      BY <2>1 DEF AccessChanged
    <3> HIDE DEF d2
    <3>2. /\ Sound(d2, X) /\ SameFlows(d1, d2) /\ d2.tasks = d1.tasks /\ d2.assets = d1.assets
          /\ DOMAIN d2.access = DOMAIN d1.access
          /\ \A r \in DOMAIN d1.access :
               IF d1.access[r].system \in i.system /\ d1.access[r].status \in NotRemoved \ {"revoked"}
               THEN d2.access[r].status = "revoked" ELSE d2.access[r] = d1.access[r]
      BY <1>3, <3>1, EveryAccessStep
    <3>3. \A r \in DOMAIN d1.access : Kept(d1.access[r]) => d1.access[r].status \in NotRemoved \ {"revoked"}
      <4> TAKE r \in DOMAIN d1.access
      <4>1. d1.access[r] \in AccessRow
        BY <1>3 DEF Sound, Shape, Tables
      <4> QED
        BY <4>1 DEF AccessRow, Kept, NotRemoved
    <3> QED
      BY <3>2, <3>3 DEF Kept
  <2>2. CASE d1.flows[w].kind # "offboarding"
    <3>1. d2 = EveryAccess(d1, i, NotRemoved, "provisioned")
      BY <2>2 DEF AccessChanged
    <3> HIDE DEF d2
    <3>2. Sound(d2, X) /\ SameFlows(d1, d2) /\ d2.tasks = d1.tasks /\ d2.assets = d1.assets
      BY <1>3, <3>1, EveryAccessStep
    <3> QED
      BY <1>3, <2>2, <3>2 DEF SameFlows
  <2> QED
    BY <2>1, <2>2
<1> HIDE DEF d2
<1>5. /\ Sound(d3, X) /\ SameFlows(d2, d3) /\ d3.tasks = d2.tasks /\ d3.access = d2.access
      /\ db.flows[w].kind = "offboarding" =>
           /\ DOMAIN d3.assets = DOMAIN d2.assets
           /\ \A r \in DOMAIN d2.assets :
                \/ d3.assets[r] = d2.assets[r] /\ ~(d2.assets[r].type \in i.asset /\ Hand(d2.assets[r]))
                \/ ~Hand(d3.assets[r])
  <2>1. w \in DOMAIN d2.flows /\ d2.flows = db.flows
    BY <1>3, <1>4 DEF SameFlows
  <2> QED
    BY <1>2, <1>4, <2>1, AssetChangedStep
<1> HIDE DEF d3
<1>6. w \in DOMAIN d3.flows /\ i \in DOMAIN d3.tasks[w] /\ d3.tasks[w][i] = "completed"
  BY <1>2, <1>3, <1>4, <1>5 DEF SameFlows
<1>7. /\ Sound(d4, X) /\ SameFlows(d3, d4) /\ d4.access = d3.access /\ d4.assets = d3.assets
      /\ d4.tasks[w] = Freed([t EXCEPT ![i] = "completed"], i, "pending")
  <2>1. w \in DOMAIN d3.flows \cap X
    BY <1>2, <1>6
  <2>2. d3.tasks[w] = [t EXCEPT ![i] = "completed"]
    BY <1>3, <1>4, <1>5
  <2> QED
    BY <1>5, <1>6, <2>1, <2>2, DependentsStep
<1> HIDE DEF d4
<1>8. SameFlows(db, d4)
  BY <1>3, <1>4, <1>5, <1>7 DEF SameFlows
<1>9. ASSUME w \notin cut PROVE Waits(d4.tasks[w]) /\ Held(d4, w)
  <2>1. Waits(t) /\ Held(db, w)
    BY <1>9 DEF Sound, FlowSound
  <2>2. /\ Waits(d4.tasks[w]) /\ DOMAIN d4.tasks[w] = DOMAIN t
        /\ \A k \in DOMAIN t \ {i} : t[k] # "blocked" => d4.tasks[w][k] = t[k]
    BY <1>7, <2>1, WaitsOn
  <2> HIDE DEF t
  <2>3. ASSUME db.flows[w].kind = "offboarding", NEW r \in DOMAIN d4.access, d4.access[r].since < w, Kept(d4.access[r])
        PROVE  \E k \in DOMAIN t : d4.access[r].system \in k.system /\ d4.tasks[w][k] = "pending"
    <3>1. r \in DOMAIN db.access /\ d4.access[r] = db.access[r] /\ db.access[r].system \notin i.system
      BY <1>3, <1>4, <1>5, <1>7, <2>3
    <3>2. PICK k \in DOMAIN t : db.access[r].system \in k.system /\ t[k] = "pending"
      BY <2>1, <2>3, <3>1 DEF Held, t
    <3>3. k # i
      BY <3>1, <3>2
    <3> QED
      BY <2>2, <3>1, <3>2, <3>3
  <2>4. ASSUME db.flows[w].kind = "offboarding", NEW r \in DOMAIN d4.assets, d4.assets[r].since < w, Hand(d4.assets[r])
        PROVE  \E k \in DOMAIN t : d4.assets[r].type \in k.asset /\ d4.tasks[w][k] = "pending"
    <3>1. r \in DOMAIN db.assets /\ d4.assets[r] = db.assets[r] /\ db.assets[r].type \notin i.asset
      BY <1>3, <1>4, <1>5, <1>7, <2>4
    <3>2. PICK k \in DOMAIN t : db.assets[r].type \in k.asset /\ t[k] = "pending"
      BY <2>1, <2>4, <3>1 DEF Held, t
    <3>3. k # i
      BY <3>1, <3>2
    <3> QED
      BY <2>2, <3>1, <3>2, <3>3
  <2> QED
    BY <1>8, <2>2, <2>3, <2>4 DEF Held, SameFlows
<1>10. cut = {} => Settles(d4)
  BY <1>8, SettlesOn DEF Sound
<1>11. w \in DOMAIN d4.flows
  BY <1>8 DEF SameFlows
<1>12. /\ Sound(f, X) /\ Sound(e, X) /\ Sound(e, cut)
       /\ Len(f.flows) = Len(d4.flows) /\ Len(e.flows) = Len(d4.flows)
  BY <1>7, <1>9, <1>10, <1>11, FinishStep DEF X
<1> HIDE DEF f, e
<1> DEFINE S == {d1, d2, d3, d4, f, e}
<1>13. \A s \in S : Sound(s, X) /\ Len(s.flows) = Len(db.flows)
  BY <1>3, <1>4, <1>5, <1>7, <1>12 DEF SameFlows
<1>14. <<d1, d2, d3, d4>> \in Seq(S) /\ f \in S /\ e \in S
  OBVIOUS
<1> HIDE DEF S
<1> QED
  BY <1>1, <1>12, <1>13, <1>14, HandlerSound DEF X

LEMMA ApproveKeepsSound ==
  ASSUME Sound(db, cut), NEW w \in DOMAIN db.flows, NEW i \in DOMAIN db.tasks[w], ApproveTask(w, i)
  PROVE  Sound(db', cut') /\ Len(db'.flows) = Len(db.flows) /\ cut' \subseteq cut \cup {w}
<1> DEFINE X == cut \cup {w}
           t == db.tasks[w]
           d1 == Decided(db, w, i, "approved")
           d2 == EveryAccess(d1, i, NotRemoved \ {"provisioned"}, "approved")
           d3 == Dependents(d2, w, i, "pending")
           f == FlowDone(d3, w)
           e == Follow(d3, w)
<1>1. i.kind = "approval" /\ t[i] \in Open /\ Commits(<<d1, d2, d3>> \o <<f, e>>, w)
  BY DEF ApproveTask, AndFinish
<1>2. Sound(db, X) /\ w \in X /\ t[i] = "awaiting_approval"
  <2>1. t[i] \in ApprovalStatus
    BY <1>1, TaskTypes DEF ItemsSound
  <2> QED
    BY <1>1, <2>1, MoreCut DEF Open, ApprovalStatus
<1> HIDE DEF X
<1>3. /\ Sound(d1, X) /\ SameFlows(db, d1) /\ d1.access = db.access /\ d1.assets = db.assets
      /\ d1.tasks[w] = [t EXCEPT ![i] = "approved"]
  BY <1>1, <1>2, DecidedStep
<1> HIDE DEF d1
<1>4. /\ Sound(d2, X) /\ SameFlows(d1, d2) /\ d2.tasks = d1.tasks /\ d2.assets = d1.assets
      /\ DOMAIN d2.access = DOMAIN d1.access
      /\ \A r \in DOMAIN d1.access : d2.access[r] = d1.access[r] \/ d2.access[r].since = Len(d1.flows)
  BY <1>3, EveryAccessStep
<1> HIDE DEF d2
<1>5. w \in DOMAIN d2.flows /\ i \in DOMAIN d2.tasks[w] /\ d2.tasks[w][i] = "approved"
  BY <1>2, <1>3, <1>4 DEF SameFlows
<1>6. /\ Sound(d3, X) /\ SameFlows(d2, d3) /\ d3.access = d2.access /\ d3.assets = d2.assets
      /\ d3.tasks[w] = Freed([t EXCEPT ![i] = "approved"], i, "pending")
  <2>1. w \in DOMAIN d2.flows \cap X
    BY <1>2, <1>5
  <2>2. d2.tasks[w] = [t EXCEPT ![i] = "approved"]
    BY <1>3, <1>4
  <2> QED
    BY <1>4, <1>5, <2>1, <2>2, DependentsStep
<1> HIDE DEF d3
<1>7. SameFlows(db, d3)
  BY <1>3, <1>4, <1>6 DEF SameFlows
<1>8. ASSUME w \notin cut PROVE Waits(d3.tasks[w]) /\ Held(d3, w)
  <2>1. Waits(t) /\ Held(db, w)
    BY <1>8 DEF Sound, FlowSound
  <2>2. /\ Waits(d3.tasks[w]) /\ DOMAIN d3.tasks[w] = DOMAIN t
        /\ \A k \in DOMAIN t \ {i} : t[k] # "blocked" => d3.tasks[w][k] = t[k]
    BY <1>6, <2>1, WaitsOn
  <2>3. \A k \in DOMAIN t : t[k] = "pending" => d3.tasks[w][k] = "pending"
    BY <1>2, <2>2
  <2>4. w \in 1..Len(db.flows) /\ Len(db.flows) \in Nat
    BY DEF Sound, Shape, Tables
  <2>5. \A r \in DOMAIN d3.access : d3.access[r].since < w => r \in DOMAIN db.access /\ d3.access[r] = db.access[r]
    BY <1>3, <1>4, <1>6, <2>4 DEF SameFlows
  <2> HIDE DEF t
  <2> QED
    BY <1>3, <1>4, <1>6, <1>7, <2>1, <2>2, <2>3, <2>5 DEF Held, SameFlows, t
<1>9. cut = {} => Settles(d3)
  BY <1>7, SettlesOn DEF Sound
<1>10. w \in DOMAIN d3.flows
  BY <1>7 DEF SameFlows
<1>11. /\ Sound(f, X) /\ Sound(e, X) /\ Sound(e, cut)
       /\ Len(f.flows) = Len(d3.flows) /\ Len(e.flows) = Len(d3.flows)
  BY <1>6, <1>8, <1>9, <1>10, FinishStep DEF X
<1> HIDE DEF f, e
<1> DEFINE S == {d1, d2, d3, f, e}
<1>12. \A s \in S : Sound(s, X) /\ Len(s.flows) = Len(db.flows)
  BY <1>3, <1>4, <1>6, <1>11 DEF SameFlows
<1>13. <<d1, d2, d3>> \in Seq(S) /\ f \in S /\ e \in S
  OBVIOUS
<1> HIDE DEF S
<1> QED
  BY <1>1, <1>11, <1>12, <1>13, HandlerSound DEF X

LEMMA RejectKeepsSound ==
  ASSUME Sound(db, cut), NEW w \in DOMAIN db.flows, NEW i \in DOMAIN db.tasks[w], RejectTask(w, i)
  PROVE  Sound(db', cut') /\ Len(db'.flows) = Len(db.flows) /\ cut' \subseteq cut \cup {w}
<1> DEFINE X == cut \cup {w}
           t == db.tasks[w]
           d1 == Decided(db, w, i, "rejected")
           d2 == Dependents(d1, w, i, "failed")
           f == FlowDone(d2, w)
           e == Follow(d2, w)
<1>1. i.kind = "approval" /\ t[i] \in Open /\ Commits(<<d1, d2>> \o <<f, e>>, w)
  BY DEF RejectTask, RejectSteps, Rejected, AndFinish
<1>2. Sound(db, X) /\ w \in X /\ t[i] = "awaiting_approval"
  <2>1. t[i] \in ApprovalStatus
    BY <1>1, TaskTypes DEF ItemsSound
  <2> QED
    BY <1>1, <2>1, MoreCut DEF Open, ApprovalStatus
<1> HIDE DEF X
<1>3. /\ Sound(d1, X) /\ SameFlows(db, d1) /\ d1.access = db.access /\ d1.assets = db.assets
      /\ d1.tasks[w] = [t EXCEPT ![i] = "rejected"]
  BY <1>1, <1>2, DecidedStep
<1> HIDE DEF d1
<1>4. /\ Sound(d2, X) /\ SameFlows(d1, d2) /\ d2.access = d1.access /\ d2.assets = d1.assets
      /\ d2.tasks[w] = Freed([t EXCEPT ![i] = "rejected"], i, "failed")
  <2>1. w \in DOMAIN d1.flows \cap X /\ i \in DOMAIN d1.tasks[w]
    BY <1>2, <1>3 DEF SameFlows
  <2> QED
    BY <1>3, <2>1, DependentsStep
<1> HIDE DEF d2
<1>5. SameFlows(db, d2)
  BY <1>3, <1>4 DEF SameFlows
<1>6. ASSUME w \notin cut PROVE Waits(d2.tasks[w]) /\ Held(d2, w)
  <2>1. Waits(t) /\ Held(db, w)
    BY <1>6 DEF Sound, FlowSound
  <2>2. /\ Waits(d2.tasks[w]) /\ DOMAIN d2.tasks[w] = DOMAIN t
        /\ \A k \in DOMAIN t \ {i} : t[k] # "blocked" => d2.tasks[w][k] = t[k]
    BY <1>4, <2>1, WaitsOn
  <2>3. \A k \in DOMAIN t : t[k] = "pending" => d2.tasks[w][k] = "pending"
    BY <1>2, <2>2
  <2> HIDE DEF t
  <2> QED
    BY <1>3, <1>4, <1>5, <2>1, <2>2, <2>3 DEF Held, SameFlows, t
<1>7. cut = {} => Settles(d2)
  BY <1>5, SettlesOn DEF Sound
<1>8. w \in DOMAIN d2.flows
  BY <1>5 DEF SameFlows
<1>9. /\ Sound(f, X) /\ Sound(e, X) /\ Sound(e, cut)
      /\ Len(f.flows) = Len(d2.flows) /\ Len(e.flows) = Len(d2.flows)
  BY <1>4, <1>6, <1>7, <1>8, FinishStep DEF X
<1> HIDE DEF f, e
<1> DEFINE S == {d1, d2, f, e}
<1>10. \A s \in S : Sound(s, X) /\ Len(s.flows) = Len(db.flows)
  BY <1>3, <1>4, <1>9 DEF SameFlows
<1>11. <<d1, d2>> \in Seq(S) /\ f \in S /\ e \in S
  OBVIOUS
<1> HIDE DEF S
<1> QED
  BY <1>1, <1>9, <1>10, <1>11, HandlerSound DEF X

-----------------------------------------------------------------------------
(* By hand, by import, by sync.                                               *)

LEMMA AppendAccess ==
  ASSUME NEW d, NEW X, Sound(d, X), NEW s \in Systems \cup Groups, NEW status \in {"requested", "provisioned"}
  PROVE  Sound([d EXCEPT !.access = Append(d.access, Access(d, s, status))], X)
<1> DEFINE row == Access(d, s, status)
           a == Append(d.access, row)
<1>1. d.access \in Seq(AccessRow) /\ Len(d.flows) \in Nat
  BY DEF Sound, Shape, Tables
<1>2. row \in AccessRow /\ row.since = Len(d.flows)
  BY <1>1 DEF Access, AccessRow, Here
<1> HIDE DEF row
<1>3. a \in Seq(AccessRow) /\ \A r \in DOMAIN a : (r \in DOMAIN d.access /\ a[r] = d.access[r]) \/ a[r].since = Len(d.flows)
  BY <1>1, <1>2
<1> HIDE DEF a
<1>4. Sound([d EXCEPT !.access = a], X)
  BY <1>1, <1>3, AccessStep
<1> QED
  BY <1>4 DEF a, row

LEMMA PutStep ==
  ASSUME NEW d, NEW X, Sound(d, X), NEW r \in DOMAIN d.access,
         NEW status \in {"approved", "provisioned", "revoked", "removed"}
  PROVE  Sound(Put(d, r, status), X)
<1> DEFINE row == Marked(d, d.access[r], status)
           a == [d.access EXCEPT ![r] = row]
<1>1. d.access \in Seq(AccessRow) /\ Len(d.flows) \in Nat /\ d.access[r] \in AccessRow
  BY DEF Sound, Shape, Tables
<1>2. row \in AccessRow /\ row.status = status /\ (status \notin {"revoked", "removed"} => row.since = Len(d.flows))
  BY <1>1 DEF Marked, AccessRow, Here
<1> HIDE DEF row
<1>3. /\ a \in Seq(AccessRow)
      /\ \A q \in DOMAIN a : \/ q \in DOMAIN d.access /\ a[q] = d.access[q]
                             \/ a[q].since = Len(d.flows) \/ ~Kept(a[q])
  BY <1>1, <1>2 DEF Kept
<1> HIDE DEF a
<1>4. Sound([d EXCEPT !.access = a], X)
  BY <1>1, <1>3, AccessStep
<1> QED
  BY <1>4 DEF Put, a, row

LEMMA HandKeepsSound ==
  ASSUME Sound(db, cut),
         \/ AddAccess \/ (\E r \in DOMAIN db.access : UpdateAccess(r)) \/ (\E g \in Groups : SyncAccess(g))
         \/ AddAsset \/ (\E r \in DOMAIN db.assets : UpdateAsset(r))
  PROVE  Sound(db', cut) /\ cut' = cut /\ db'.flows = db.flows
<1>1. db \in Tables /\ db.assets \in Seq(AssetRow) /\ db.access \in Seq(AccessRow) /\ Len(db.flows) \in Nat
  BY DEF Sound, Shape, Tables
<1>2. CASE AddAccess
  <2>1. PICK s \in Systems \cup Groups, status \in {"requested", "provisioned"} :
           ByHand([db EXCEPT !.access = Append(@, Access(db, s, status))])
    BY <1>2 DEF AddAccess
  <2>2. db' = [db EXCEPT !.access = Append(db.access, Access(db, s, status))] /\ cut' = cut
    BY <2>1 DEF ByHand
  <2> QED
    BY <1>1, <2>2, AppendAccess DEF Tables
<1>3. CASE \E r \in DOMAIN db.access : UpdateAccess(r)
  <2>1. PICK r \in DOMAIN db.access, status \in {"approved", "provisioned", "revoked", "removed"} :
           ByHand(Put(db, r, status))
    BY <1>3 DEF UpdateAccess
  <2>2. db' = Put(db, r, status) /\ cut' = cut
    BY <2>1 DEF ByHand
  <2> QED
    BY <1>1, <2>2, PutStep DEF Put, Tables
<1>4. CASE \E g \in Groups : SyncAccess(g)
  <2>1. PICK g \in Groups : SyncAccess(g)
    BY <1>4
  <2>2. cut' = cut /\ \/ db' = [db EXCEPT !.access = Append(db.access, Access(db, g, "provisioned"))]
                      \/ \E r \in DOMAIN db.access : db' = Put(db, r, "provisioned")
    BY <2>1 DEF SyncAccess, ByHand
  <2>3. CASE db' = [db EXCEPT !.access = Append(db.access, Access(db, g, "provisioned"))]
    BY <1>1, <2>2, <2>3, AppendAccess DEF Tables
  <2>4. CASE \E r \in DOMAIN db.access : db' = Put(db, r, "provisioned")
    <3>1. PICK r \in DOMAIN db.access : db' = Put(db, r, "provisioned")
      BY <2>4
    <3>2. Sound(db', cut)
      BY <3>1, PutStep
    <3> QED
      BY <1>1, <2>2, <3>1, <3>2 DEF Put, Tables
  <2> QED
    BY <2>2, <2>3, <2>4
<1>5. CASE AddAsset
  <2>1. PICK v \in Devices : ByHand([db EXCEPT !.assets = Append(@, Asset(db, v, "assigned"))])
    BY <1>5 DEF AddAsset
  <2> DEFINE row == Asset(db, v, "assigned")
             a == Append(db.assets, row)
  <2>2. db' = [db EXCEPT !.assets = a] /\ cut' = cut
    BY <2>1 DEF ByHand
  <2>3. row \in AssetRow /\ row.since = Len(db.flows)
    BY <1>1 DEF Asset, AssetRow, Here
  <2> HIDE DEF row
  <2>4. /\ a \in Seq(AssetRow)
        /\ \A r \in DOMAIN a : (r \in DOMAIN db.assets /\ a[r] = db.assets[r]) \/ a[r].since = Len(db.flows)
    BY <1>1, <2>3
  <2> HIDE DEF a
  <2>5. Sound([db EXCEPT !.assets = a], cut)
    BY <1>1, <2>4, AssetStep
  <2> QED
    BY <1>1, <2>2, <2>5 DEF Tables
<1>6. CASE \E r \in DOMAIN db.assets : UpdateAsset(r)
  <2>1. PICK r \in DOMAIN db.assets, status \in {"assigned", "returned", "missing", "removed"} :
           ByHand([db EXCEPT !.assets[r] = Asset(db, db.assets[r].type, status)])
    BY <1>6 DEF UpdateAsset
  <2> DEFINE row == Asset(db, db.assets[r].type, status)
             a == [db.assets EXCEPT ![r] = row]
  <2>2. db' = [db EXCEPT !.assets = a] /\ cut' = cut
    BY <2>1 DEF ByHand
  <2>3. row \in AssetRow /\ row.since = Len(db.flows)
    <3>1. db.assets[r] \in AssetRow
      BY <1>1
    <3> QED
      BY <1>1, <3>1 DEF Asset, AssetRow, Here
  <2> HIDE DEF row
  <2>4. /\ a \in Seq(AssetRow)
        /\ \A q \in DOMAIN a : (q \in DOMAIN db.assets /\ a[q] = db.assets[q]) \/ a[q].since = Len(db.flows)
    BY <1>1, <2>3
  <2> HIDE DEF a
  <2>5. Sound([db EXCEPT !.assets = a], cut)
    BY <1>1, <2>4, AssetStep
  <2> QED
    BY <1>1, <2>2, <2>5 DEF Tables
<1> QED
  BY <1>2, <1>3, <1>4, <1>5, <1>6

(* An import leaves alone who is being hired and who is leaving.               *)
LEMMA ImportKeepsSound ==
  ASSUME Sound(db, cut), ImportFromBamboo
  PROVE  Sound(db', cut) /\ cut' = cut /\ db'.flows = db.flows
<1>1. PICK s \in {"active", "terminated"} : db' = Employed(db, s)
  BY DEF ImportFromBamboo, ByHand
<1>2. /\ cut' = cut /\ db.source = "bamboo" /\ db.employment \notin {"onboarding", "offboarding"}
  BY DEF ImportFromBamboo, ByHand, InFlight
<1>3. db \in Tables /\ db.flows \in Seq(FlowRow)
  BY DEF Sound, Shape, Tables
<1>4. /\ db' \in Tables /\ db'.access = db.access /\ db'.assets = db.assets /\ db'.flows = db.flows
      /\ db'.tasks = db.tasks /\ db'.employment = s /\ db'.source = db.source
  BY <1>1, <1>3 DEF Employed, Tables, Employment
<1>5. cut = {} => Settles(db')
  <2> SUFFICES ASSUME cut = {}, Len(db.flows) > 0, db.flows[Len(db.flows)].beside = {}
               PROVE  db.flows[Len(db.flows)].status = "complete"
    BY <1>2, <1>4 DEF Settles
  <2>1. db.flows[Len(db.flows)] \in FlowRow
    BY <1>3
  <2> QED
    BY <1>2, <2>1 DEF Sound, Settles, FlowRow
<1>6. Shape(db') /\ DoneIsDone(db') /\ BesideSound(db')
  BY <1>4 DEF Sound, Shape, DoneIsDone, BesideSound
<1>7. \A w \in DOMAIN db.flows \ cut : FlowSound(db', w)
  BY <1>4 DEF Sound, FlowSound, Alive, Held
<1> QED
  BY <1>2, <1>4, <1>5, <1>6, <1>7 DEF Sound

-----------------------------------------------------------------------------
(* The invariant holds, and what it says of the directory.                     *)

LEMMA InitPeopleInv == Init => PeopleInv
<1> SUFFICES ASSUME Init PROVE PeopleInv
  OBVIOUS
<1>1. /\ db.employment \in Employment /\ db.source \in {"bamboo", "manual"} /\ db.flows = << >> /\ db.tasks = << >>
      /\ db.access = << >> /\ db.assets = << >> /\ cut = {} /\ byHand = 0
      /\ db = [employment |-> db.employment, source |-> db.source, flows |-> << >>, tasks |-> << >>,
               access |-> << >>, assets |-> << >>]
  BY DEF Init, Employment
<1>2. db \in Tables /\ Len(db.flows) = 0 /\ Len(db.tasks) = 0 /\ DOMAIN db.flows = {}
  <2> DEFINE e == db.employment
             s == db.source
  <2>1. [employment |-> e, source |-> s, flows |-> << >>, tasks |-> << >>, access |-> << >>, assets |-> << >>] \in Tables
    <3> HIDE DEF e, s
    <3>1. e \in Employment /\ s \in {"bamboo", "manual"}
      BY <1>1 DEF e, s
    <3> QED
      BY <3>1 DEF Tables
  <2>2. db \in Tables
    BY <1>1, <2>1
  <2> QED
    BY <1>1, <2>2
<1>3. Shape(db) /\ DoneIsDone(db) /\ BesideSound(db) /\ Settles(db)
  BY <1>2 DEF Shape, DoneIsDone, BesideSound, Settles
<1>4. Sound(db, cut)
  BY <1>2, <1>3 DEF Sound
<1> QED
  BY <1>1, <1>2, <1>4, PeopleAssumption DEF PeopleInv

LEMMA NextPeopleInv == PeopleInv /\ [Next]_vars => PeopleInv'
<1> SUFFICES ASSUME PeopleInv, [Next]_vars PROVE PeopleInv'
  OBVIOUS
<1>1. /\ Sound(db, cut) /\ Len(db.flows) <= MaxFlows /\ Len(db.flows) \in Nat /\ DOMAIN db.flows = 1..Len(db.flows)
      /\ cut \subseteq 1..MaxFlows /\ byHand \in 0..MaxByHand /\ MaxFlows \in Nat \ {0} /\ MaxByHand \in Nat
  BY PeopleAssumption DEF PeopleInv, Sound, Shape, Tables
<1>2. CASE UNCHANGED vars
  BY <1>2 DEF PeopleInv, vars
<1>3. ASSUME NEW intake \in Intakes, CreateOnboarding(intake) PROVE PeopleInv'
  <2>1. Sound(db', cut') /\ Len(db'.flows) \in 0..1 /\ cut' \subseteq cut \cup {1}
    BY <1>1, <1>3, HireKeepsSound
  <2>2. byHand' = byHand /\ Len(db'.flows) <= MaxFlows /\ cut' \subseteq 1..MaxFlows
    <3>1. \A n \in 0..1 : n <= MaxFlows
      BY <1>1
    <3>2. byHand' = byHand
      BY <1>3 DEF CreateOnboarding
    <3>3. cut' \subseteq 1..MaxFlows
      BY <1>1, <2>1
    <3> QED
      BY <2>1, <3>1, <3>2, <3>3
  <2> QED
    BY <1>1, <2>1, <2>2 DEF PeopleInv
<1>4. CASE StartOffboarding
  <2>1. Sound(db', cut') /\ Len(db'.flows) = Len(db.flows) + 1 /\ cut' \subseteq cut \cup {Len(db'.flows)}
    BY <1>1, <1>4, LeaveKeepsSound
  <2>2. Len(db.flows) < MaxFlows /\ byHand' = byHand
    BY <1>4 DEF StartOffboarding, Here
  <2> QED
    BY <1>1, <2>1, <2>2 DEF PeopleInv
<1>5. CASE Decisions
  <2> PICK w \in DOMAIN db.flows :
         \E i \in DOMAIN db.tasks[w] : CompleteTask(w, i) \/ ApproveTask(w, i) \/ RejectTask(w, i)
    BY <1>5 DEF Decisions
  <2>1. PICK i \in DOMAIN db.tasks[w] : CompleteTask(w, i) \/ ApproveTask(w, i) \/ RejectTask(w, i)
    OBVIOUS
  <2>2. Sound(db', cut') /\ Len(db'.flows) = Len(db.flows) /\ cut' \subseteq cut \cup {w}
    BY <1>1, <2>1, CompleteKeepsSound, ApproveKeepsSound, RejectKeepsSound
  <2>3. byHand' = byHand
    BY <2>1 DEF CompleteTask, ApproveTask, RejectTask
  <2> QED
    BY <1>1, <2>2, <2>3 DEF PeopleInv
<1>6. CASE \/ AddAccess \/ (\E r \in DOMAIN db.access : UpdateAccess(r)) \/ (\E g \in Groups : SyncAccess(g))
          \/ AddAsset \/ (\E r \in DOMAIN db.assets : UpdateAsset(r))
  <2>1. Sound(db', cut) /\ cut' = cut /\ db'.flows = db.flows
    BY <1>1, <1>6, HandKeepsSound
  <2>2. byHand < MaxByHand /\ byHand' = byHand + 1
    BY <1>6 DEF AddAccess, UpdateAccess, SyncAccess, AddAsset, UpdateAsset, ByHand
  <2> QED
    BY <1>1, <2>1, <2>2 DEF PeopleInv
<1>7. CASE ImportFromBamboo
  <2>1. Sound(db', cut) /\ cut' = cut /\ db'.flows = db.flows
    BY <1>1, <1>7, ImportKeepsSound
  <2>2. byHand < MaxByHand /\ byHand' = byHand + 1
    BY <1>7 DEF ImportFromBamboo, ByHand
  <2> QED
    BY <1>1, <2>1, <2>2 DEF PeopleInv
<1> QED
  BY <1>2, <1>3, <1>4, <1>5, <1>6, <1>7 DEF Next

(* The tables of the person are sound in every state that can be reached.      *)
THEOREM PeopleSound == Spec => []PeopleInv
<1>1. Init => PeopleInv
  BY InitPeopleInv
<1>2. PeopleInv /\ [Next]_vars => PeopleInv'
  BY NextPeopleInv
<1> QED
  BY <1>1, <1>2, PTL DEF Spec

(* The types of the model.                                                    *)
THEOREM PeopleTypes == Spec => []TypeOK
<1>1. PeopleInv => TypeOK
  <2> SUFFICES ASSUME PeopleInv PROVE TypeOK
    OBVIOUS
  <2>1. db \in Tables /\ db.flows \in Seq(FlowRow)
    BY DEF PeopleInv, Sound, Shape, Tables
  <2>2. ASSUME NEW w \in DOMAIN db.flows
        PROVE  /\ db.flows[w].kind \in {"onboarding", "offboarding"} /\ db.flows[w].status \in {"open", "complete"}
               /\ \A i \in DOMAIN db.tasks[w] :
                    db.tasks[w][i] \in Open \cup {"completed", "approved", "rejected", "failed"}
    <3>1. db.flows[w] \in FlowRow
      BY <2>1
    <3>2. \A i \in DOMAIN db.tasks[w] : db.tasks[w][i] \in TaskStatus \cup ApprovalStatus
      BY TaskTypes DEF PeopleInv
    <3> QED
      BY <3>1, <3>2 DEF FlowRow, Open, TaskStatus, ApprovalStatus
  <2> QED
    BY <2>1, <2>2 DEF TypeOK, PeopleInv, Sound, Shape, Tables, Employment, Flows
<1> QED
  BY <1>1, PeopleSound, PTL

(* Restricted access, exceptional hardware and the vehicle are given only       *)
(* after what they wait for.                                                   *)
THEOREM NothingBeforeItsGate == Spec => []GateHolds
<1>1. PeopleInv => GateHolds
  BY DEF PeopleInv, Sound, ItemsSound, GateHolds, Flows
<1> QED
  BY <1>1, PeopleSound, PTL

(* A workflow whose handlers all ran to their end never waits only for itself,  *)
(* but for the vehicle that waits for a report nobody was asked for.            *)
THEOREM SomebodyCanDecide == Spec => []NoDeadEnd
<1>1. PeopleInv => NoDeadEnd
  <2> SUFFICES ASSUME PeopleInv, NEW w \in DOMAIN db.flows \ cut,
                      db.flows[w].status # "complete", DOMAIN db.tasks[w] # {}, ~Actionable(w)
               PROVE  \E i \in DOMAIN db.tasks[w] : db.tasks[w][i] = "blocked" /\ i.gate = {Mvr}
                        /\ \A j \in DOMAIN db.tasks[w] : j.key # Mvr
    BY DEF NoDeadEnd, Flows
  <2>1. Waits(db.tasks[w]) /\ ~AllDone(db.tasks[w])
    BY DEF PeopleInv, Sound, FlowSound, Alive
  <2>2. PICK i \in DOMAIN db.tasks[w] : db.tasks[w][i] \in Open
    BY <2>1 DEF AllDone
  <2>3. \A j \in DOMAIN db.tasks[w] : db.tasks[w][j] \notin Open \ {"blocked"}
    BY DEF Actionable
  <2>4. db.tasks[w][i] = "blocked"
    BY <2>2, <2>3
  <2> QED
    BY <2>1, <2>3, <2>4 DEF Waits
<1> QED
  BY <1>1, PeopleSound, PTL

(* When an offboarding is complete, what the person had when it started has     *)
(* been taken back.                                                            *)
THEOREM TheLeaverIsClean == Spec => []LeaverKeepsNothing
<1>1. PeopleInv => LeaverKeepsNothing
  <2> SUFFICES ASSUME PeopleInv, NEW w \in DOMAIN db.flows \ cut,
                      db.flows[w].kind = "offboarding", db.flows[w].status = "complete"
               PROVE  /\ \A r \in DOMAIN db.access : db.access[r].since < w => db.access[r].status \in {"revoked", "removed"}
                      /\ \A r \in DOMAIN db.assets : db.assets[r].since < w => db.assets[r].status \notin {"assigned", "pending_return"}
    BY DEF LeaverKeepsNothing, Flows
  <2>1. AllDone(db.tasks[w]) /\ Held(db, w)
    BY DEF PeopleInv, Sound, FlowSound, DoneIsDone
  <2>2. \A i \in DOMAIN db.tasks[w] : db.tasks[w][i] # "pending"
    BY <2>1 DEF AllDone, Open
  <2> QED
    BY <2>1, <2>2 DEF Held, Kept, Hand
<1> QED
  BY <1>1, PeopleSound, PTL

(* The employment status says what the last workflow says.                     *)
THEOREM TheStatusIsTheWorkflows == Spec => []StatusFollows
<1>1. PeopleInv => StatusFollows
  BY DEF PeopleInv, Sound, Settles, StatusFollows
<1> QED
  BY <1>1, PeopleSound, PTL

-----------------------------------------------------------------------------
(* ------------------------------ bulk mail --------------------------------- *)

Reason(r) == mailed[r] = 0 \/ r \in reasons

(* The inductive invariant: whoever may still be sent to, by a batch that has *)
(* the row or by one to come, was not mailed yet or is among the reasons.     *)
CampaignInv ==
  /\ CampaignTypeOK
  /\ ReRunsSendOnce
  /\ \A r \in Recipients : recipient[r] # "sent" => Reason(r)
  /\ \A b \in Batches, r \in Recipients : r \in batch[b] => Reason(r)
  /\ \A b, c \in Batches, r \in Recipients : b # c /\ r \in batch[b] /\ r \in batch[c] => r \in reasons

LEMMA CampaignInitInv == CampaignInit => CampaignInv
  BY SMT DEF CampaignInit, CampaignInv, CampaignTypeOK, ReRunsSendOnce, Reason

LEMMA SendBatchInv == ASSUME CampaignInv, NEW b \in Batches, SendBatch(b) PROVE CampaignInv'
<1>1. PICK retryFailed \in BOOLEAN : recipient' = Requeued(retryFailed) /\ batch' = [batch EXCEPT ![b] = Taken(Pending')]
  BY DEF SendBatch
<1>2. recipient' \in [Recipients -> {"pending", "sent", "failed"}]
  BY <1>1 DEF Requeued, CampaignInv, CampaignTypeOK
<1>3. \A r \in Recipients : recipient'[r] # "sent" <=> recipient[r] # "sent"
  BY <1>1 DEF Requeued, CampaignInv, CampaignTypeOK
<1>4. Taken(Pending') \subseteq {r \in Recipients : recipient'[r] = "pending"}
  BY DEF Taken, Pending
<1>5. batch' \in [Batches -> SUBSET Recipients]
  BY <1>1, <1>4 DEF CampaignInv, CampaignTypeOK
<1>6. /\ reasons \subseteq reasons' /\ reasons' \subseteq Recipients /\ mailed' = mailed
      /\ \A c \in Batches, r \in Recipients : c # b /\ r \in batch'[b] /\ r \in batch[c] => r \in reasons'
  BY <1>5 DEF SendBatch, CampaignInv, CampaignTypeOK
<1>7. /\ batch'[b] = Taken(Pending')
      /\ \A c \in Batches : c # b => batch'[c] = batch[c]
  BY <1>1 DEF CampaignInv, CampaignTypeOK
<1>8. \A r \in Recipients : r \in batch'[b] => Reason(r)
  BY <1>3, <1>4, <1>7 DEF CampaignInv
<1>9. \A r \in Recipients : Reason(r) => Reason(r)'
  BY <1>6 DEF Reason
<1>10. CampaignTypeOK'
  BY <1>2, <1>5, <1>6 DEF CampaignInv, CampaignTypeOK
<1>11. ReRunsSendOnce'
  BY <1>3, <1>6 DEF CampaignInv, ReRunsSendOnce
<1>12. \A c, d \in Batches, r \in Recipients : c # d /\ r \in batch'[c] /\ r \in batch'[d] => r \in reasons'
  BY <1>6, <1>7 DEF CampaignInv
<1> QED
  BY <1>3, <1>7, <1>8, <1>9, <1>10, <1>11, <1>12 DEF CampaignInv

LEMMA AnsweredInv ==
  ASSUME CampaignInv, NEW b \in Batches, NEW r \in Recipients, Sent(b, r) \/ Refused(b, r) \/ AnswerLost(b, r)
  PROVE  CampaignInv'
<1>1. r \in batch[b] /\ Reason(r)
  BY DEF Sent, Refused, AnswerLost, IsHead, CampaignInv
<1>2. \A c \in Batches : batch'[c] \subseteq batch[c]
  BY DEF Sent, Refused, AnswerLost, CampaignInv, CampaignTypeOK
<1>3. batch' \in [Batches -> SUBSET Recipients]
  BY DEF Sent, Refused, AnswerLost, CampaignInv, CampaignTypeOK
<1>4. CASE Sent(b, r)
  <2>1. /\ mailed'[r] = mailed[r] + 1 /\ recipient'[r] = "sent" /\ reasons' = reasons
        /\ \A q \in Recipients : q # r => mailed'[q] = mailed[q] /\ recipient'[q] = recipient[q]
        /\ r \notin batch'[b]
    BY <1>4 DEF Sent, CampaignInv, CampaignTypeOK
  <2>2. CampaignTypeOK'
    BY <1>3, <1>4 DEF Sent, CampaignInv, CampaignTypeOK
  <2>3. ReRunsSendOnce'
    BY <1>1, <2>1 DEF ReRunsSendOnce, Reason, CampaignInv, CampaignTypeOK
  <2>4. \A c \in Batches, q \in Recipients : q \in batch'[c] => Reason(q)'
    BY <1>1, <1>2, <2>1 DEF Reason, CampaignInv
  <2> QED
    BY <1>2, <2>1, <2>2, <2>3, <2>4 DEF CampaignInv, Reason
<1>5. CASE Refused(b, r)
  BY <1>1, <1>2, <1>3, <1>5 DEF Refused, CampaignInv, CampaignTypeOK, ReRunsSendOnce, Reason
<1>6. CASE AnswerLost(b, r)
  <2>1. /\ reasons \subseteq reasons' /\ reasons' \subseteq Recipients /\ recipient' = recipient
        /\ mailed' \in [Recipients -> Nat]
        /\ \A q \in Recipients : mailed'[q] # mailed[q] => q \in reasons'
        /\ \A q \in Recipients : mailed'[q] >= mailed[q]
    BY <1>6 DEF AnswerLost, CampaignInv, CampaignTypeOK
  <2> QED
    BY <1>2, <1>3, <2>1 DEF CampaignInv, CampaignTypeOK, ReRunsSendOnce, Reason
<1> QED
  BY <1>4, <1>5, <1>6

LEMMA CampaignRestartInv == CampaignInv /\ CampaignRestart => CampaignInv'
<1> SUFFICES ASSUME CampaignInv, CampaignRestart PROVE CampaignInv'
  OBVIOUS
<1>1. PICK taken \in SUBSET Recipients :
        /\ mailed' = [r \in Recipients |-> IF r \in taken THEN mailed[r] + 1 ELSE mailed[r]]
        /\ reasons' = reasons \cup taken
  BY DEF CampaignRestart
<1>2. batch' = [b \in Batches |-> {}] /\ recipient' = recipient
  BY DEF CampaignRestart
<1> QED
  BY <1>1, <1>2 DEF CampaignInv, CampaignTypeOK, ReRunsSendOnce, Reason

(* A recipient of a bulk mail is mailed twice only if two calls had the row   *)
(* at once or an answer was lost, and who is marked sent was mailed, whatever *)
(* batches are called for and whenever the process restarts.                  *)
THEOREM NobodyTwice == CampaignSpec => []ReRunsSendOnce
<1>1. CampaignInv /\ [CampaignNext]_campaignVars => CampaignInv'
  <2> SUFFICES ASSUME CampaignInv, [CampaignNext]_campaignVars PROVE CampaignInv'
    OBVIOUS
  <2>1. CASE UNCHANGED campaignVars
    BY <2>1 DEF campaignVars, CampaignInv, CampaignTypeOK, ReRunsSendOnce, Reason
  <2>2. CASE \E b \in Batches : SendBatch(b)
    BY <2>2, SendBatchInv
  <2>3. CASE \E b \in Batches, r \in Recipients : Sent(b, r) \/ Refused(b, r) \/ AnswerLost(b, r)
    BY <2>3, AnsweredInv
  <2>4. CASE CampaignRestart
    BY <2>4, CampaignRestartInv
  <2> QED
    BY <2>1, <2>2, <2>3, <2>4 DEF CampaignNext
<1>2. CampaignInv => ReRunsSendOnce
  BY DEF CampaignInv
<1> QED
  BY CampaignInitInv, <1>1, <1>2, PTL DEF CampaignSpec

(* ----------------------------- intake links ------------------------------- *)

IsLink(l) == link[l].status # "none"
Used(l) == made[l] > 0
Counts(l) == link[l].status # "voided"

(* The inductive invariant: of the links of an invite that was never renewed  *)
(* one is not voided, and a link that made a request is closed.               *)
IntakeInv ==
  /\ IntakeTypeOK
  /\ \A l \in LinkIds : IsLink(l) => link[l].invite \in LinkIds /\ IsLink(link[l].invite)
  /\ \A l \in LinkIds : ~IsLink(l) => link[l] = NoLink /\ made[l] = 0
  /\ \A l \in LinkIds : IsLink(l) /\ link[l].invite \notin renewed =>
       made[l] <= 1 /\ (Used(l) => link[l].status = "submitted")
  /\ \A k, l \in LinkIds :
       IsLink(k) /\ IsLink(l) /\ link[k].invite = link[l].invite /\ link[k].invite \notin renewed
       /\ Counts(k) /\ Counts(l) => k = l

LEMMA IntakeInitInv == IntakeInit => IntakeInv
  BY IntakeAssumption DEF IntakeInit, IntakeInv, IntakeTypeOK, IsLink, Used, Counts, NoLink, LinkIds

LEMMA IntakeInvImplies == IntakeInv => OneRequestPerInvite
<1> SUFFICES ASSUME IntakeInv, NEW v \in LinkIds \ renewed, NEW k \in LinkIds, NEW l \in LinkIds
             PROVE  /\ k \in Invited(v) => made[k] <= 1
                    /\ {k, l} \subseteq Invited(v) /\ made[k] > 0 /\ made[l] > 0 => k = l
  BY DEF OneRequestPerInvite
<1>1. \A n \in LinkIds : link[n].invite = v => IsLink(n)
  BY DEF IntakeInv, NoLink, LinkIds
<1> QED
  BY <1>1 DEF IntakeInv, Invited, Used, Counts

LinkTable == [LinkIds -> [status : {"none", "sent", "opened", "submitted", "voided"},
                          expires : Nat, test : BOOLEAN, invite : 0..MaxLinks]]

(* What a step that adds no link has to show.                                 *)
LEMMA NoNewLink ==
  ASSUME IntakeInv, today' \in Nat, link' \in LinkTable, made' \in [LinkIds -> Nat],
         renewed \subseteq renewed', renewed' \subseteq LinkIds,
         \A k \in LinkIds : (IsLink(k)' <=> IsLink(k)) /\ link'[k].invite = link[k].invite,
         \A k \in LinkIds : ~IsLink(k) => link'[k] = link[k] /\ made'[k] = made[k],
         \A k \in LinkIds : Counts(k)' => Counts(k),
         \A k \in LinkIds : IsLink(k) /\ link[k].invite \notin renewed' =>
           made'[k] <= 1 /\ (made'[k] > 0 => link'[k].status = "submitted")
  PROVE  IntakeInv'
<1>1. IntakeTypeOK'
  BY DEF IntakeTypeOK, LinkTable
<1>2. \A k \in LinkIds : IsLink(k)' => link'[k].invite \in LinkIds /\ IsLink(link[k].invite)'
  BY DEF IntakeInv
<1>3. \A k \in LinkIds : ~IsLink(k)' => link'[k] = NoLink /\ made'[k] = 0
  BY DEF IntakeInv
<1>4. \A j, k \in LinkIds :
        IsLink(j)' /\ IsLink(k)' /\ link'[j].invite = link'[k].invite /\ link'[j].invite \notin renewed'
        /\ Counts(j)' /\ Counts(k)' => j = k
  BY DEF IntakeInv
<1> QED
  BY <1>1, <1>2, <1>3, <1>4 DEF IntakeInv, Used, NoLink

LEMMA OneRowInv ==
  ASSUME IntakeInv, NEW l \in LinkIds, IsLink(l),
         MarkOpened(l) \/ SubmitIntake(l) \/ SubmitCut(l) \/ VoidIntakeLink(l) \/ NudgeIntakeLink(l)
  PROVE  IntakeInv'
<1>1. link \in LinkTable /\ made \in [LinkIds -> Nat] /\ today \in Nat /\ renewed \subseteq LinkIds
  BY DEF IntakeInv, IntakeTypeOK, LinkTable
<1>2. link[l].status \in {"sent", "opened"}
  BY DEF MarkOpened, SubmitIntake, SubmitCut, VoidIntakeLink, NudgeIntakeLink, Live
<1>3. /\ \A k \in LinkIds : IsLink(k) /\ link[k].invite \notin renewed =>
           made[k] <= 1 /\ (made[k] > 0 => link[k].status = "submitted")
      /\ IsLink(l) => link[l].invite \in LinkIds
  BY DEF IntakeInv, Used
<1>4. CASE MarkOpened(l)
  <2>1. UNCHANGED <<today, made, renewed>> /\ link' = [link EXCEPT ![l].status = "opened"]
    BY <1>4 DEF MarkOpened
  <2>2. /\ link' \in LinkTable
        /\ link'[l].status = "opened" /\ link'[l].invite = link[l].invite
        /\ \A k \in LinkIds : k # l => link'[k] = link[k]
    BY <1>1, <2>1 DEF LinkTable
  <2> QED
    BY <1>1, <1>2, <1>3, <2>1, <2>2, NoNewLink DEF IsLink, Counts
<1>5. CASE NudgeIntakeLink(l)
  <2>1. UNCHANGED <<today, made, renewed>> /\ link' = [link EXCEPT ![l].expires = today + TTL]
    BY <1>5 DEF NudgeIntakeLink
  <2>2. /\ link' \in LinkTable
        /\ link'[l].status = link[l].status /\ link'[l].invite = link[l].invite
        /\ \A k \in LinkIds : k # l => link'[k] = link[k]
    BY <1>1, <2>1, IntakeAssumption DEF LinkTable
  <2> QED
    BY <1>1, <1>2, <1>3, <2>1, <2>2, NoNewLink DEF IsLink, Counts
<1>6. CASE VoidIntakeLink(l)
  <2>1. UNCHANGED <<today, made, renewed>> /\ link' = [link EXCEPT ![l].status = "voided"]
    BY <1>2, <1>6 DEF VoidIntakeLink, Voided
  <2>2. /\ link' \in LinkTable
        /\ link'[l].status = "voided" /\ link'[l].invite = link[l].invite
        /\ \A k \in LinkIds : k # l => link'[k] = link[k]
    BY <1>1, <2>1 DEF LinkTable
  <2> QED
    BY <1>1, <1>2, <1>3, <2>1, <2>2, NoNewLink DEF IsLink, Counts
<1>7. CASE SubmitIntake(l)
  <2>1. /\ UNCHANGED <<today, renewed>> /\ link' = [link EXCEPT ![l].status = "submitted"]
        /\ made' = [made EXCEPT ![l] = @ + Gained(l)] /\ Gained(l) \in {0, 1}
    BY <1>7 DEF SubmitIntake, Gained
  <2>2. /\ link' \in LinkTable
        /\ link'[l].status = "submitted" /\ link'[l].invite = link[l].invite
        /\ \A k \in LinkIds : k # l => link'[k] = link[k]
    BY <1>1, <2>1 DEF LinkTable
  <2>3. /\ made' \in [LinkIds -> Nat] /\ made'[l] <= made[l] + 1
        /\ \A k \in LinkIds : k # l => made'[k] = made[k]
    BY <1>1, <2>1
  <2>4. link[l].invite \notin renewed => made[l] = 0
    BY <1>1, <1>2, <1>3
  <2> QED
    BY <1>1, <1>2, <1>3, <2>1, <2>2, <2>3, <2>4, NoNewLink DEF IsLink, Counts
<1>8. CASE SubmitCut(l)
  <2>1. /\ UNCHANGED <<today, link>> /\ made' = [made EXCEPT ![l] = @ + 1]
        /\ renewed' = renewed \cup {link[l].invite}
    BY <1>8 DEF SubmitCut
  <2>2. made' \in [LinkIds -> Nat] /\ \A k \in LinkIds : k # l => made'[k] = made[k]
    BY <1>1, <2>1
  <2> QED
    BY <1>1, <1>3, <2>1, <2>2, NoNewLink DEF IsLink, Counts
<1> QED
  BY <1>4, <1>5, <1>6, <1>7, <1>8

LEMMA CreateInv == IntakeInv /\ CreateIntakeLink => IntakeInv'
<1> SUFFICES ASSUME IntakeInv, CreateIntakeLink PROVE IntakeInv'
  OBVIOUS
<1>1. PICK l \in LinkIds, test \in BOOLEAN : IsNext(l) /\ link' = [link EXCEPT ![l] = Fresh(l, test)]
  BY DEF CreateIntakeLink
<1>2. ~IsLink(l) /\ made[l] = 0
  BY <1>1 DEF IsNext, NoLink, IsLink, IntakeInv
<1>3. /\ link'[l].status = "sent" /\ link'[l].invite = l
      /\ \A k \in LinkIds : k # l => link'[k] = link[k]
      /\ link' \in LinkTable
  BY <1>1, IntakeAssumption DEF Fresh, LinkTable, LinkIds, IntakeInv, IntakeTypeOK
<1>4. \A k \in LinkIds : IsLink(k) => link[k].invite # l
  BY <1>2 DEF IntakeInv
<1>5. UNCHANGED <<today, made, renewed>>
  BY DEF CreateIntakeLink
<1>6. \A k \in LinkIds : IsLink(k)' => link'[k].invite \in LinkIds /\ IsLink(link[k].invite)'
  <2>1. \A k \in LinkIds : IsLink(k) => IsLink(k)'
    BY <1>2, <1>3 DEF IsLink
  <2>2. IsLink(l)'
    BY <1>3 DEF IsLink
  <2> QED
    BY <1>3, <2>1, <2>2 DEF IntakeInv, IsLink
<1>7. \A k \in LinkIds : ~IsLink(k)' => link'[k] = NoLink /\ made'[k] = 0
  BY <1>3, <1>5 DEF IntakeInv, IsLink
<1>8. \A k \in LinkIds : IsLink(k)' /\ link'[k].invite \notin renewed' =>
        made'[k] <= 1 /\ (made'[k] > 0 => link'[k].status = "submitted")
  BY <1>2, <1>3, <1>5 DEF IntakeInv, IsLink, Used
<1>9. \A j, k \in LinkIds :
        IsLink(j)' /\ IsLink(k)' /\ link'[j].invite = link'[k].invite /\ link'[j].invite \notin renewed'
        /\ Counts(j)' /\ Counts(k)' => j = k
  BY <1>3, <1>4, <1>5 DEF IntakeInv, IsLink, Counts
<1>10. IntakeTypeOK'
  BY <1>3, <1>5 DEF IntakeInv, IntakeTypeOK, LinkTable
<1> QED
  BY <1>6, <1>7, <1>8, <1>9, <1>10 DEF IntakeInv, Used, NoLink

LEMMA ResendInv == ASSUME IntakeInv, NEW l \in LinkIds, ResendIntakeLink(l) PROVE IntakeInv'
<1>1. PICK n \in LinkIds : IsNext(n) /\ link' = [Voided(l) EXCEPT ![n] = Fresh(link[l].invite, FALSE)]
  BY DEF ResendIntakeLink
<1>2. ~IsLink(n) /\ made[n] = 0 /\ n # l /\ IsLink(l)
  BY <1>1 DEF ResendIntakeLink, IsNext, NoLink, IsLink, IntakeInv
<1>3. /\ link'[n].status = "sent" /\ link'[n].invite = link[l].invite
      /\ link'[l].invite = link[l].invite
      /\ link'[l].status = IF link[l].status = "submitted" THEN "submitted" ELSE "voided"
      /\ \A k \in LinkIds \ {l, n} : link'[k] = link[k]
      /\ link' \in LinkTable
  <2> DEFINE mid == Voided(l)
  <2>1. link \in LinkTable /\ link[l].invite \in LinkIds
    BY <1>2 DEF IntakeInv, IntakeTypeOK, LinkTable
  <2>2. /\ mid \in LinkTable /\ mid[l].invite = link[l].invite
        /\ mid[l].status = IF link[l].status = "submitted" THEN "submitted" ELSE "voided"
        /\ \A k \in LinkIds : k # l => mid[k] = link[k]
    BY <2>1 DEF Voided, LinkTable
  <2>3. Fresh(link[l].invite, FALSE) \in [status : {"none", "sent", "opened", "submitted", "voided"},
                                         expires : Nat, test : BOOLEAN, invite : 0..MaxLinks]
    BY <2>1, IntakeAssumption DEF Fresh, LinkIds, IntakeInv, IntakeTypeOK
  <2> HIDE DEF mid
  <2>4. link' = [mid EXCEPT ![n] = Fresh(link[l].invite, FALSE)]
    BY <1>1 DEF mid
  <2> QED
    BY <1>2, <2>1, <2>2, <2>3, <2>4 DEF LinkTable, Fresh
<1>4. /\ UNCHANGED <<today, made>> /\ renewed \subseteq renewed' /\ renewed' \subseteq LinkIds
      /\ link[l].status \in {"submitted", "voided"} => link[l].invite \in renewed'
  BY <1>2 DEF ResendIntakeLink, IntakeInv, IntakeTypeOK
<1>5. link[l].invite \notin renewed' =>
        /\ link'[l].status = "voided" /\ made[l] = 0
        /\ \A k \in LinkIds \ {l, n} : IsLink(k) /\ link[k].invite = link[l].invite => ~Counts(k)
  BY <1>2, <1>3, <1>4 DEF IntakeInv, IntakeTypeOK, IsLink, Used, Counts
<1>6. \A k \in LinkIds : IsLink(k)' => link'[k].invite \in LinkIds /\ IsLink(link[k].invite)'
  BY <1>2, <1>3 DEF IntakeInv, IsLink
<1>7. \A k \in LinkIds : ~IsLink(k)' => link'[k] = NoLink /\ made'[k] = 0
  BY <1>2, <1>3, <1>4 DEF IntakeInv, IsLink
<1>8. \A k \in LinkIds : IsLink(k)' /\ link'[k].invite \notin renewed' =>
        made'[k] <= 1 /\ (made'[k] > 0 => link'[k].status = "submitted")
  BY <1>2, <1>3, <1>4, <1>5 DEF IntakeInv, IntakeTypeOK, IsLink, Used
<1>9. \A j, k \in LinkIds :
        IsLink(j)' /\ IsLink(k)' /\ link'[j].invite = link'[k].invite /\ link'[j].invite \notin renewed'
        /\ Counts(j)' /\ Counts(k)' => j = k
  BY <1>2, <1>3, <1>4, <1>5 DEF IntakeInv, IsLink, Counts
<1> QED
  BY <1>3, <1>4, <1>6, <1>7, <1>8, <1>9 DEF IntakeInv, IntakeTypeOK, LinkTable, Used

LEMMA IntakeStep == IntakeInv /\ [IntakeNext]_intakeVars => IntakeInv'
<1> SUFFICES ASSUME IntakeInv, [IntakeNext]_intakeVars PROVE IntakeInv'
  OBVIOUS
<1>1. CASE UNCHANGED intakeVars
  BY <1>1 DEF intakeVars, IntakeInv, IntakeTypeOK, IsLink, Used, Counts
<1>2. CASE CreateIntakeLink
  BY <1>2, CreateInv
<1>3. CASE NextDay
  BY <1>3, NoNewLink DEF NextDay, IntakeInv, IntakeTypeOK, LinkTable, IsLink, Used, Counts
<1>4. ASSUME NEW l \in LinkIds, OfLink(l) PROVE IntakeInv'
  <2>1. CASE ResendIntakeLink(l)
    BY <2>1, ResendInv
  <2>2. CASE ~ResendIntakeLink(l)
    <3>1. IsLink(l)
      BY <1>4, <2>2 DEF OfLink, MarkOpened, SubmitIntake, SubmitCut, VoidIntakeLink, NudgeIntakeLink, Live, IsLink
    <3> QED
      BY <1>4, <2>2, <3>1, OneRowInv DEF OfLink
  <2> QED
    BY <2>1, <2>2
<1> QED
  BY <1>1, <1>2, <1>3, <1>4 DEF IntakeNext

(* One invite makes one onboarding request, whatever is opened, submitted,    *)
(* nudged, voided or sent again and in whatever order, unless a link that had *)
(* ended was sent again or a submission was cut short.                        *)
THEOREM OneHireOnce == IntakeSpec => []OneRequestPerInvite
  BY IntakeInitInv, IntakeStep, IntakeInvImplies, PTL DEF IntakeSpec

(* A link that was submitted or voided or has expired is never live again and *)
(* makes no request, whatever call comes for it.                              *)
THEOREM DeadForGood == IntakeSpec => DeadStaysDead
<1>1. IntakeInv /\ [IntakeNext]_intakeVars =>
        \A l \in LinkIds : link[l] # NoLink /\ ~Live(l) => ~Live(l)' /\ made'[l] = made[l]
  <2> SUFFICES ASSUME IntakeInv, [IntakeNext]_intakeVars, NEW l \in LinkIds, link[l] # NoLink, ~Live(l)
               PROVE  ~Live(l)' /\ made'[l] = made[l]
    OBVIOUS
  <2>1. link \in LinkTable /\ made \in [LinkIds -> Nat] /\ today \in Nat
    BY DEF IntakeInv, IntakeTypeOK, LinkTable
  <2>2. CASE link'[l] = link[l] /\ made'[l] = made[l] /\ today' \in {today, today + 1}
    BY <2>1, <2>2 DEF Live, LinkTable
  <2>3. CASE UNCHANGED intakeVars
    BY <2>1, <2>2, <2>3 DEF intakeVars
  <2>4. CASE CreateIntakeLink
    <3>1. PICK n \in LinkIds, test \in BOOLEAN : IsNext(n) /\ link' = [link EXCEPT ![n] = Fresh(n, test)]
      BY <2>4 DEF CreateIntakeLink
    <3>2. n # l
      BY <3>1 DEF IsNext
    <3> QED
      BY <2>1, <2>2, <2>4, <3>1, <3>2 DEF CreateIntakeLink, LinkTable
  <2>5. CASE NextDay
    BY <2>1, <2>2, <2>5 DEF NextDay
  <2>6. ASSUME NEW k \in LinkIds, OfLink(k) PROVE ~Live(l)' /\ made'[l] = made[l]
    <3>1. CASE MarkOpened(k) \/ SubmitIntake(k) \/ SubmitCut(k) \/ NudgeIntakeLink(k)
      <4>1. k # l /\ today' = today
        BY <3>1 DEF MarkOpened, SubmitIntake, SubmitCut, NudgeIntakeLink
      <4> QED
        BY <2>1, <2>2, <3>1, <4>1 DEF MarkOpened, SubmitIntake, SubmitCut, NudgeIntakeLink, LinkTable
    <3>2. CASE VoidIntakeLink(k)
      <4>1. /\ UNCHANGED <<today, made>> /\ link[k].status \in {"sent", "opened"}
            /\ link' = [link EXCEPT ![k].status = IF @ = "submitted" THEN @ ELSE "voided"]
        BY <3>2 DEF VoidIntakeLink, Voided
      <4>2. link'[k].status = "voided" /\ (k # l => link'[l] = link[l])
        BY <2>1, <4>1 DEF LinkTable
      <4> QED
        BY <2>1, <2>2, <4>1, <4>2 DEF Live
    <3>3. CASE ResendIntakeLink(k)
      <4>1. PICK n \in LinkIds : IsNext(n) /\ link' = [Voided(k) EXCEPT ![n] = Fresh(link[k].invite, FALSE)]
        BY <3>3 DEF ResendIntakeLink
      <4>2. n # l /\ today' = today /\ made' = made
        BY <3>3, <4>1 DEF ResendIntakeLink, IsNext
      <4>3. k # l => link'[l] = link[l]
        BY <2>1, <4>1, <4>2 DEF Voided, LinkTable
      <4>4. k = l => link'[l].status \in {"submitted", "voided"}
        BY <2>1, <4>1, <4>2 DEF Voided, LinkTable
      <4> QED
        BY <2>1, <2>2, <4>2, <4>3, <4>4 DEF Live
    <3> QED
      BY <2>6, <3>1, <3>2, <3>3 DEF OfLink
  <2> QED
    BY <2>3, <2>4, <2>5, <2>6 DEF IntakeNext
<1> QED
  BY IntakeInitInv, IntakeStep, <1>1, PTL DEF IntakeSpec, DeadStaysDead
=============================================================================
