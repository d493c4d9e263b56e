----------------------------- MODULE MirrorProofs -----------------------------
(* For every number of records, size of a page and length of a run: what is   *)
(* older than a cursor is in the mirror, the mirror does not go back, and a    *)
(* disposition outlives the pulls.  The exceptions that a pull ends by         *)
(* detecting are the present ones, for any subjects and detectors.  And the    *)
(* scan of a SharePoint site tells of every share, for any tree of folders.    *)
EXTENDS Mirror, Exceptions, SpScan, FiniteSetTheorems, WellFoundedInduction, TLAPS

-----------------------------------------------------------------------------
(* Arithmetic of pages, and the largest of some numbers.                      *)

LEMMA Division ==
  ASSUME NEW a \in Nat, NEW k \in Nat \ {0}
  PROVE  /\ a \div k \in Nat
         /\ (a \div k) * k <= a
         /\ a < (a \div k) * k + k
OBVIOUS

(* a is not on one of the first n pages of k.                                 *)
LEMMA BeyondPages ==
  ASSUME NEW a \in Nat, NEW k \in Nat \ {0}, NEW n \in Nat, a >= n * k
  PROVE  a \div k >= n
<1> DEFINE d == a \div k
<1>1. d \in Nat /\ a < d * k + k
  BY Division
<1>2. CASE d < n
  <2>1. PICK e \in Nat : n = d + 1 + e
    BY <1>1, <1>2
  <2>2. n * k = d * k + k + e * k /\ e * k \in Nat
    BY <2>1, <1>1
  <2> QED
    BY <2>2, <1>1
<1> QED
  BY <1>1, <1>2

LEMMA NotOnPage ==
  ASSUME NEW a \in Nat, NEW k \in Nat \ {0}, NEW n \in Nat, a >= n * k, a \div k # n
  PROVE  a >= (n + 1) * k
<1> DEFINE d == a \div k
<1>1. d \in Nat /\ d * k <= a /\ d > n
  BY Division, BeyondPages
<1> HIDE DEF d
<1>2. PICK e \in Nat : d = n + 1 + e
  BY <1>1
<1>3. d * k = (n + 1) * k + e * k /\ e * k \in Nat
  BY <1>2, <1>1
<1> QED
  BY <1>1, <1>3

LEMMA LeastOf == ASSUME NEW S \in SUBSET Nat, S # {} PROVE \E x \in S : \A y \in S : x <= y
<1> DEFINE R == {p \in Nat \X Nat : p[1] < p[2]}
<1>1. IsWellFoundedOn(R, Nat)
  BY NatLessThanWellFounded, Zenon DEF OpToRel
<1> HIDE DEF R
<1>2. \E x \in S : \A y \in S : <<y, x>> \notin R
  BY <1>1, WFMin
<1>3. \A x, y \in Nat : <<y, x>> \notin R => x <= y
  BY DEF R
<1> QED
  BY <1>2, <1>3

LEMMA MinIsLeast == ASSUME NEW S \in SUBSET Nat, S # {} PROVE Min(S) \in S
BY LeastOf DEF Min

LEMMA MaxIsGreatest ==
  ASSUME NEW n \in Nat, NEW S \in SUBSET 0..n, S # {}
  PROVE  Max(S) \in S /\ \A y \in S : Max(S) >= y
<1> DEFINE T == {n - y : y \in S}
<1>1. T \in SUBSET Nat /\ T # {}
  <2>1. \A y \in S : n - y \in Nat
    OBVIOUS
  <2>2. PICK s \in S : TRUE
    OBVIOUS
  <2> QED
    BY <2>1, <2>2
<1>2. PICK x \in T : \A y \in T : x <= y
  BY <1>1, LeastOf
<1>3. PICK s \in S : x = n - s
  BY <1>2
<1>4. \A y \in S : s >= y
  BY SMTT(20), <1>2, <1>3
<1> QED
  BY <1>4 DEF Max
-----------------------------------------------------------------------------
(* The inductive invariant.                                                   *)

Kind(entity) ==
  CASE entity = "accounts"     -> Accounts
    [] entity = "sites"        -> Sites
    [] entity = "invoices"     -> Invoices
    [] entity = "quotes"       -> Quotes
    [] entity = "deficiencies" -> Deficiencies
    [] entity \in JobListings  -> Jobs

(* A row that two pulls at once may have put back to an older change.         *)
Exempt(r) ==
  \/ r \in Jobs /\ "completed_jobs" \in disturbed
  \/ r \in Deficiencies /\ "deficiencies" \in disturbed

Shown(r) == remote[r].change \in {mirror[r], skipped[r]}

InHand(q) == q.seen \cup q.held

(* What a pull has in its hands is no older than the mirror, and, where        *)
(* nothing changed since the pull began, it is what ServiceTrade has.          *)
RowSound(q, row) ==
  /\ row \in Row /\ row.id \in Kind(q.entity) /\ remote[row.id].at > 0
  /\ row.change <= remote[row.id].change
  /\ remote[row.id].at < q.began => row = RowOf(row.id)
  /\ Exempt(row.id) \/ (row.change >= mirror[row.id] /\ row.change >= skipped[row.id])

(* What a pull has to find: every change from before it began that the mirror *)
(* lacks, and every deficiency the rebuild is about to delete.                *)
Wanted(q, r) ==
  IF q.entity = "deficiencies"
  THEN q.entity \notin disturbed /\ r \in Deficiencies /\ mirror[r] > 0
  ELSE /\ q.entity \notin disturbed /\ r \in Settled(q.entity)
       /\ remote[r].at \in 1..(q.began - 1) /\ ~Shown(r)

Below(q, r) == {x \in Listing(q.entity, q.since) : x < r}

PagesRead(q) == IF q.pc = "asking" THEN q.page - 1 ELSE q.page

(* It is on a page that was not asked for yet.                                *)
OnALaterPage(q, r) ==
  /\ r \in Listing(q.entity, q.since)
  /\ Cardinality(Below(q, r)) >= PagesRead(q) * PageSize
  /\ q.pc = "asking" \/ q.page < q.pages

HasRow(q, r) == \E row \in InHand(q) : row.id = r

(* The local state of a pull.                                                 *)
PullShape(p, q) ==
  /\ q \in Pull
  /\ q.pc = "idle" => q = Idle
  /\ q.pc # "idle" => q.page >= 1 /\ q.began <= now /\ q.since <= q.began
  /\ q.pc = "asking" => q.held = {}
  /\ q.entity \notin Aggregated => q.seen = {}
  /\ q.entity = "deficiencies" => q.since = 0
  /\ p = "reviews" /\ q.pc # "idle" => q.entity = "completed_jobs" /\ ~q.scheduled
  /\ p = "desk" /\ q.pc # "idle" => q.entity = "deficiencies" /\ ~q.scheduled

PullRows(q) == \A row \in InHand(q) : RowSound(q, row)

PullCovers(q) ==
  q.pc # "idle" => \A r \in Records : Wanted(q, r) => HasRow(q, r) \/ OnALaterPage(q, r)

PullSound(p) == PullShape(p, pull[p]) /\ PullRows(pull[p]) /\ PullCovers(pull[p])

(* The tables against ServiceTrade.                                           *)
TablesSound ==
  /\ \A r \in Records : /\ mirror[r] <= remote[r].change /\ skipped[r] <= remote[r].change
                        /\ remote[r].change > 0 <=> remote[r].at > 0
  /\ \A e \in Entity : cursor[e] <= now
  /\ \A d \in noted : mirror[d] > 0

(* What is in progress crosses only what is noted as disturbed.               *)
DisturbedSound ==
  /\ Crossed(pull) \subseteq disturbed
  /\ "completed_jobs" \in disturbed => "jobs" \in disturbed

MirrorInv ==
  /\ TypeOK /\ TablesSound /\ DisturbedSound /\ CursorCovers
  /\ \A p \in Pullers : PullSound(p)

-----------------------------------------------------------------------------
(* Kinds of records and what a listing holds.                                 *)

LEMMA Entities ==
  Entity = {"accounts", "sites", "invoices", "jobs", "quotes", "deficiencies", "completed_jobs"}
BY DEF Entity, Order, Range

LEMMA KindsAreRecords == \A e \in Entity : Kind(e) \subseteq Records
BY Entities DEF Kind, JobListings, Records

LEMMA KindsApart ==
  ASSUME NEW e \in Entity, NEW f \in Entity, NEW r \in Kind(e), r \in Kind(f)
  PROVE  e = f \/ (e \in JobListings /\ f \in JobListings)
<1>1. \A i, j \in 1..6 : i # j => Kinds[i] \cap Kinds[j] = {}
  BY MirrorAssumption
<1>2. /\ Kinds[1] = Accounts /\ Kinds[2] = Sites /\ Kinds[3] = Invoices
      /\ Kinds[4] = Quotes /\ Kinds[5] = Jobs /\ Kinds[6] = Deficiencies
  BY DEF Kinds
<1>3. /\ Accounts \cap Sites = {} /\ Accounts \cap Invoices = {} /\ Accounts \cap Quotes = {}
      /\ Accounts \cap Jobs = {} /\ Accounts \cap Deficiencies = {} /\ Sites \cap Invoices = {}
      /\ Sites \cap Quotes = {} /\ Sites \cap Jobs = {} /\ Sites \cap Deficiencies = {}
      /\ Invoices \cap Quotes = {} /\ Invoices \cap Jobs = {} /\ Invoices \cap Deficiencies = {}
      /\ Quotes \cap Jobs = {} /\ Quotes \cap Deficiencies = {} /\ Jobs \cap Deficiencies = {}
  BY <1>1, <1>2
<1> QED
  BY <1>3, Entities DEF Kind, JobListings

LEMMA MembersOfKind ==
  ASSUME NEW e \in Entity, NEW s \in Nat, completed \subseteq Jobs
  PROVE  Members(e, s) \subseteq Kind(e)
BY Entities DEF Members, Kind, JobListings

LEMMA SettledAreMembers ==
  ASSUME NEW e \in Entity, NEW s \in Nat, completed \subseteq Jobs
  PROVE  /\ Settled(e) \subseteq Members(e, s)
         /\ e = "completed_jobs" => Settled(e) = completed
BY Entities DEF Members, Settled

LEMMA ListingFinite ==
  ASSUME NEW e \in Entity, NEW s \in Nat, completed \subseteq Jobs
  PROVE  /\ Listing(e, s) \subseteq Kind(e)
         /\ IsFiniteSet(Listing(e, s))
         /\ Cardinality(Listing(e, s)) \in Nat
<1>1. Listing(e, s) \subseteq Kind(e)
  BY MembersOfKind DEF Listing
<1>2. Listing(e, s) \in SUBSET Records
  BY <1>1, KindsAreRecords
<1> QED
  BY <1>1, <1>2, MirrorAssumption, FS_Subset, FS_CardinalityType

(* A record that is neither on the first n - 1 pages nor on page n.           *)
LEMMA LaterPage ==
  ASSUME NEW L, IsFiniteSet(L), L \subseteq Nat, NEW r \in L, NEW n \in Nat \ {0},
         Cardinality({x \in L : x < r}) >= (n - 1) * PageSize, r \notin Page(L, n)
  PROVE  /\ Cardinality({x \in L : x < r}) >= n * PageSize
         /\ n < Pages(L)
<1> DEFINE a == Cardinality({x \in L : x < r})
           c == Cardinality(L)
<1>1. PageSize \in Nat \ {0}
  BY MirrorAssumption
<1>2. a \in Nat /\ c \in Nat /\ a < c
  <2>1. {x \in L : x < r} \in SUBSET L /\ {x \in L : x < r} # L
    OBVIOUS
  <2> QED
    BY <2>1, FS_Subset, FS_CardinalityType
<1>3. a \div PageSize # n - 1 /\ a >= (n - 1) * PageSize
  BY DEF Page
<1> DEFINE d == (c + PageSize - 1) \div PageSize
<1>4. Pages(L) = Max({1, d})
  BY DEF Pages
<1> HIDE DEF a, c
<1>5. a >= n * PageSize
  <2>1. n - 1 \in Nat /\ (n - 1) + 1 = n
    OBVIOUS
  <2> QED
    BY <1>1, <1>2, <1>3, <2>1, NotOnPage
<1>6. d \in Nat /\ d >= n + 1
  <2>1. n * PageSize \in Nat /\ (n + 1) * PageSize = n * PageSize + PageSize
    BY <1>1
  <2>2. c + PageSize - 1 \in Nat /\ c + PageSize - 1 >= (n + 1) * PageSize
    BY <1>1, <1>2, <1>5, <2>1
  <2> QED
    BY <1>1, <2>2, BeyondPages, Division
<1> HIDE DEF d
<1>7. {1, d} \in SUBSET (0..(1 + d)) /\ {1, d} # {} /\ 1 + d \in Nat
  BY <1>6
<1>8. Max({1, d}) \in {1, d} /\ Max({1, d}) >= d
  BY <1>7, MaxIsGreatest
<1> QED
  BY <1>4, <1>5, <1>6, <1>8 DEF a

-----------------------------------------------------------------------------
(* Two pulls of one record at once, and what is exempt for it.                *)

LEMMA JobsAreAKind ==
  Jobs = Kind("jobs") /\ Deficiencies = Kind("deficiencies") /\ {"jobs", "deficiencies"} \subseteq Entity
BY Entities DEF Kind, JobListings

LEMMA NotExempt ==
  ASSUME TypeOK, DisturbedSound, NEW e \in Entity \ {"deficiencies"}, e \notin disturbed,
         NEW r \in Settled(e)
  PROVE  r \in Kind(e) /\ r \in Records /\ r \notin Deficiencies /\ ~Exempt(r)
<1>1. completed \subseteq Jobs /\ 0 \in Nat
  BY DEF TypeOK
<1>2. r \in Kind(e) /\ r \in Records
  <2>1. Settled(e) \subseteq Members(e, 0) /\ Members(e, 0) \subseteq Kind(e)
    BY <1>1, SettledAreMembers, MembersOfKind
  <2> QED
    BY <2>1, KindsAreRecords
<1>3. r \notin Deficiencies
  BY <1>2, JobsAreAKind, KindsApart DEF JobListings
<1>4. r \in Jobs => e \in JobListings
  BY <1>2, JobsAreAKind, KindsApart DEF JobListings
<1> QED
  BY <1>2, <1>3, <1>4 DEF Exempt, DisturbedSound, JobListings

LEMMA TogetherMeansExempt ==
  ASSUME DisturbedSound, NEW p \in Pullers, NEW o \in Pullers, p # o,
         PullShape(p, pull[p]), PullShape(o, pull[o]), pull[p].pc # "idle", pull[o].pc # "idle",
         NEW r \in Kind(pull[p].entity), r \in Kind(pull[o].entity)
  PROVE  Exempt(r)
<1>1. pull[p].entity \in Entity /\ pull[o].entity \in Entity
  BY DEF PullShape, Pull
<1>2. \/ pull[p].entity = pull[o].entity
      \/ pull[p].entity \in JobListings /\ pull[o].entity \in JobListings
  BY <1>1, KindsApart
<1>3. \/ p = "sync" /\ o = "reviews" /\ pull[o].entity = "completed_jobs"
      \/ p = "reviews" /\ o = "sync" /\ pull[p].entity = "completed_jobs"
      \/ p = "sync" /\ o = "desk" /\ pull[o].entity = "deficiencies"
      \/ p = "desk" /\ o = "sync" /\ pull[p].entity = "deficiencies"
      \/ {pull[p].entity, pull[o].entity} = {"completed_jobs", "deficiencies"}
  BY DEF PullShape, Pullers
<1>4. CASE "completed_jobs" \in {pull[p].entity, pull[o].entity}
  <2>1. "completed_jobs" \in Crossed(pull) /\ r \in Jobs
    BY <1>2, <1>3, <1>4 DEF Crossed, JobListings, Kind
  <2> QED
    BY <2>1 DEF Exempt, DisturbedSound
<1>5. CASE "completed_jobs" \notin {pull[p].entity, pull[o].entity}
  <2>1. "deficiencies" \in Crossed(pull) /\ r \in Deficiencies
    BY <1>2, <1>3, <1>5 DEF Crossed, JobListings, Kind
  <2> QED
    BY <2>1 DEF Exempt, DisturbedSound
<1> QED
  BY <1>4, <1>5

-----------------------------------------------------------------------------
(* What a transaction writes.                                                 *)

LEMMA OverFacts ==
  ASSUME NEW table, NEW rows \in SUBSET Row, NEW r \in DOMAIN table
  PROVE  /\ (\A row \in rows : row.id # r) => Over(table, rows)[r] = table[r]
         /\ (\E row \in rows : row.id = r) =>
              \E row \in rows : /\ row.id = r /\ Over(table, rows)[r] = row.change
                                /\ \A x \in rows : x.id = r => x.change <= row.change
<1> DEFINE S == Changes(rows, r)
<1>1. Over(table, rows)[r] = IF S = {} THEN table[r] ELSE Max(S)
  BY DEF Over
<1>2. S = {} <=> \A row \in rows : row.id # r
  BY DEF Changes
<1>3. ASSUME S # {} PROVE Max(S) \in S /\ \A y \in S : Max(S) >= y
  <2>1. S \in SUBSET (0..MaxChanges) /\ MaxChanges \in Nat
    BY MirrorAssumption DEF Changes, Row
  <2> QED
    BY <1>3, <2>1, MaxIsGreatest
<1>4. \A x \in rows : x.change \in Nat
  BY MirrorAssumption DEF Row
<1> QED
  BY <1>1, <1>2, <1>3, <1>4 DEF Changes

Orphans(q) == {row \in Batch(q) : Orphan(row)}

LEMMA BatchIsSound ==
  ASSUME MirrorInv, NEW p \in Pullers, pull[p].pc = "answered", Ready(pull[p])
  PROVE  /\ Batch(pull[p]) = InHand(pull[p])
         /\ Batch(pull[p]) \in SUBSET Row /\ Written(pull[p]) \in SUBSET Row /\ Orphans(pull[p]) \in SUBSET Row
         /\ \A row \in Batch(pull[p]) : RowSound(pull[p], row)
         /\ pull[p].entity \in Entity
         /\ pull[p].entity = "deficiencies" => Orphans(pull[p]) = {}
<1> DEFINE q == pull[p]
<1>1. PullShape(p, q) /\ PullRows(q)
  BY DEF MirrorInv, PullSound
<1>2. Batch(q) = InHand(q)
  BY <1>1 DEF PullShape, Batch, InHand
<1>3. \A row \in Batch(q) : RowSound(q, row)
  BY <1>1, <1>2 DEF PullRows
<1>4. Batch(q) \in SUBSET Row
  BY <1>3 DEF RowSound
<1>5. q.entity \in Entity
  BY <1>1 DEF PullShape, Pull
<1>6. q.entity = "deficiencies" => Orphans(q) = {}
  <2>1. \A row \in Batch(q) : row.id \in Kind(q.entity)
    BY <1>3 DEF RowSound
  <2>2. DOMAIN Parent = Kind("sites") \cup Kind("invoices")
    BY MirrorAssumption DEF Kind, JobListings
  <2>3. q.entity = "deficiencies" => \A row \in Batch(q) : row.id \notin DOMAIN Parent
    BY <2>1, <2>2, Entities, KindsApart, <1>5 DEF JobListings
  <2> QED
    BY <2>3 DEF Orphans, Orphan
<1> QED
  BY <1>2, <1>3, <1>4, <1>5, <1>6 DEF Written, Orphans

(* The transaction of a page, or of a rebuild.                                *)
Writes(q) == mirror' = Mirrored(q) /\ skipped' = Over(skipped, Orphans(q))

LEMMA WriteTypes ==
  ASSUME MirrorInv, NEW p \in Pullers, pull[p].pc = "answered", Ready(pull[p]), Writes(pull[p])
  PROVE  /\ mirror' \in [Records -> 0..MaxChanges] /\ skipped' \in [Records -> 0..MaxChanges]
         /\ \A r \in Records : mirror'[r] <= remote[r].change /\ skipped'[r] <= remote[r].change
<1> DEFINE q == pull[p]
<1>1. /\ Written(q) \in SUBSET Row /\ Orphans(q) \in SUBSET Row
      /\ \A row \in Written(q) \cup Orphans(q) : row.change <= remote[row.id].change
  BY BatchIsSound DEF Written, Orphans, RowSound
<1>2. /\ mirror \in [Records -> 0..MaxChanges] /\ skipped \in [Records -> 0..MaxChanges]
      /\ remote \in [Records -> [at : 0..MaxTime, change : 0..MaxChanges]]
      /\ \A r \in Records : mirror[r] <= remote[r].change /\ skipped[r] <= remote[r].change
  BY DEF MirrorInv, TypeOK, TablesSound
<1>3. ASSUME NEW table \in [Records -> 0..MaxChanges], NEW rows \in SUBSET Row,
             \A r \in Records : table[r] <= remote[r].change,
             \A row \in rows : row.change <= remote[row.id].change
      PROVE  /\ Over(table, rows) \in [Records -> 0..MaxChanges]
             /\ \A r \in Records : Over(table, rows)[r] <= remote[r].change
  <2>1. DOMAIN Over(table, rows) = Records /\ Over(table, rows) = [r \in Records |-> Over(table, rows)[r]]
    BY DEF Over
  <2>2. \A r \in Records : Over(table, rows)[r] \in 0..MaxChanges /\ Over(table, rows)[r] <= remote[r].change
    <3> TAKE r \in Records
    <3>1. CASE \A row \in rows : row.id # r
      BY <3>1, <1>3, OverFacts
    <3>2. CASE \E row \in rows : row.id = r
      <4>1. PICK row \in rows : row.id = r /\ Over(table, rows)[r] = row.change
        BY <3>2, OverFacts
      <4> QED
        BY <4>1, <1>3, MirrorAssumption DEF Row
    <3> QED
      BY <3>1, <3>2
  <2> QED
    BY <2>1, <2>2
<1> DEFINE emptied == [r \in Records |-> IF r \in Deficiencies THEN 0 ELSE mirror[r]]
<1>4. /\ emptied \in [Records -> 0..MaxChanges]
      /\ \A r \in Records : emptied[r] <= remote[r].change
  BY <1>2, MirrorAssumption
<1>5. mirror' \in {Over(emptied, Written(q)), Over(mirror, Written(q))}
  BY DEF Writes, Mirrored
<1> HIDE DEF emptied, q
<1> QED
  BY <1>1, <1>2, <1>3, <1>4, <1>5 DEF Writes, q

LEMMA WritesItsKind ==
  ASSUME MirrorInv, NEW p \in Pullers, pull[p].pc = "answered", Ready(pull[p]), Writes(pull[p])
  PROVE  /\ \A r \in Records \ Kind(pull[p].entity) : mirror'[r] = mirror[r] /\ skipped'[r] = skipped[r]
         /\ pull[p].entity = "deficiencies" => skipped' = skipped
<1> DEFINE q == pull[p]
<1>1. /\ Written(q) \in SUBSET Row /\ Orphans(q) \in SUBSET Row
      /\ \A row \in Written(q) \cup Orphans(q) : row.id \in Kind(q.entity)
      /\ q.entity = "deficiencies" => Orphans(q) = {}
  BY BatchIsSound DEF Written, Orphans, RowSound
<1>2. /\ mirror \in [Records -> 0..MaxChanges] /\ skipped \in [Records -> 0..MaxChanges]
  BY DEF MirrorInv, TypeOK
<1>3. \A r \in Records \ Kind(q.entity) : skipped'[r] = skipped[r]
  BY <1>1, <1>2, OverFacts DEF Writes
<1>4. \A r \in Records \ Kind(q.entity) : mirror'[r] = mirror[r]
  <2>1. CASE q.entity = "deficiencies"
    <3>1. Kind(q.entity) = Deficiencies
      BY <2>1, JobsAreAKind
    <3> DEFINE emptied == [r \in Records |-> IF r \in Deficiencies THEN 0 ELSE mirror[r]]
    <3>2. mirror' = Over(emptied, Written(q))
      BY <2>1 DEF Writes, Mirrored
    <3>3. \A r \in Records \ Kind(q.entity) : Over(emptied, Written(q))[r] = emptied[r]
      BY <1>1, OverFacts
    <3> QED
      BY <3>1, <3>2, <3>3
  <2>2. CASE q.entity # "deficiencies"
    <3>1. mirror' = Over(mirror, Written(q))
      BY <2>2 DEF Writes, Mirrored
    <3> QED
      BY <3>1, <1>1, <1>2, OverFacts
  <2> QED
    BY <2>1, <2>2
<1>5. q.entity = "deficiencies" => skipped' = skipped
  <2> SUFFICES ASSUME q.entity = "deficiencies" PROVE skipped' = skipped
    OBVIOUS
  <2>1. skipped' \in [Records -> 0..MaxChanges]
    BY WriteTypes
  <2>2. \A r \in Records : skipped'[r] = skipped[r]
    BY <1>1, <1>2, OverFacts DEF Writes
  <2> QED
    BY <2>1, <2>2, <1>2
<1> QED
  BY <1>3, <1>4, <1>5

(* A write never puts back an older change, and a record that the mirror      *)
(* shows as it is stays so.                                                   *)
LEMMA WritesForward ==
  ASSUME MirrorInv, NEW p \in Pullers, pull[p].pc = "answered", Ready(pull[p]), Writes(pull[p]),
         NEW r \in Records, ~Exempt(r), r \notin Deficiencies
  PROVE  /\ mirror'[r] >= mirror[r]
         /\ Shown(r) => remote[r].change \in {mirror'[r], skipped'[r]}
         /\ RowOf(r) \in Batch(pull[p]) /\ (pull[p].entity = "completed_jobs" => r \in completed)
              => remote[r].change \in {mirror'[r], skipped'[r]}
<1> DEFINE q == pull[p]
<1>1. /\ Batch(q) \in SUBSET Row /\ Written(q) \in SUBSET Row /\ Orphans(q) \in SUBSET Row
      /\ q.entity \in Entity
      /\ \A row \in Batch(q) : RowSound(q, row)
  BY BatchIsSound
<1>2. /\ mirror \in [Records -> 0..MaxChanges] /\ skipped \in [Records -> 0..MaxChanges]
      /\ remote \in [Records -> [at : 0..MaxTime, change : 0..MaxChanges]]
      /\ mirror[r] <= remote[r].change /\ skipped[r] <= remote[r].change
  BY DEF MirrorInv, TypeOK, TablesSound
<1>3. \A row \in Batch(q) : row.id = r => /\ row.change \in Nat /\ row.change <= remote[r].change
                                         /\ row.change >= mirror[r] /\ row.change >= skipped[r]
  BY <1>1, MirrorAssumption DEF RowSound, Row
<1>4. Written(q) \subseteq Batch(q) /\ Orphans(q) \subseteq Batch(q)
  BY DEF Written, Orphans
<1>5. \/ mirror'[r] = mirror[r] /\ \A row \in Written(q) : row.id # r
      \/ \E row \in Written(q) : /\ row.id = r /\ mirror'[r] = row.change
                                 /\ \A x \in Written(q) : x.id = r => x.change <= row.change
  <2>1. CASE q.entity = "deficiencies"
    <3> DEFINE emptied == [x \in Records |-> IF x \in Deficiencies THEN 0 ELSE mirror[x]]
    <3>1. mirror' = Over(emptied, Written(q)) /\ emptied[r] = mirror[r] /\ r \in DOMAIN emptied
      BY <2>1 DEF Writes, Mirrored
    <3> HIDE DEF emptied
    <3> QED
      BY <3>1, <1>1, OverFacts
  <2>2. CASE q.entity # "deficiencies"
    <3>1. mirror' = Over(mirror, Written(q)) /\ r \in DOMAIN mirror
      BY <2>2, <1>2 DEF Writes, Mirrored
    <3> QED
      BY <3>1, <1>1, OverFacts
  <2> QED
    BY <2>1, <2>2
<1>6. \/ skipped'[r] = skipped[r] /\ \A row \in Orphans(q) : row.id # r
      \/ \E row \in Orphans(q) : /\ row.id = r /\ skipped'[r] = row.change
                                 /\ \A x \in Orphans(q) : x.id = r => x.change <= row.change
  BY <1>1, <1>2, OverFacts DEF Writes
<1>7. mirror'[r] >= mirror[r] /\ mirror'[r] <= remote[r].change
  BY <1>2, <1>3, <1>4, <1>5
<1>8. skipped'[r] >= skipped[r] /\ skipped'[r] <= remote[r].change
  BY <1>2, <1>3, <1>4, <1>6
<1>9. mirror'[r] \in Nat /\ skipped'[r] \in Nat /\ mirror[r] \in Nat /\ skipped[r] \in Nat /\ remote[r].change \in Nat
  BY <1>2, WriteTypes, MirrorAssumption
<1>10. Shown(r) => remote[r].change \in {mirror'[r], skipped'[r]}
  BY <1>7, <1>8, <1>9 DEF Shown
<1>11. RowOf(r) \in Batch(q) /\ (q.entity = "completed_jobs" => r \in completed)
        => remote[r].change \in {mirror'[r], skipped'[r]}
  <2> SUFFICES ASSUME RowOf(r) \in Batch(q), q.entity = "completed_jobs" => r \in completed
               PROVE  remote[r].change \in {mirror'[r], skipped'[r]}
    OBVIOUS
  <2>1. RowOf(r).id = r /\ RowOf(r).change = remote[r].change /\ (RowOf(r).completed <=> r \in completed)
    BY DEF RowOf
  <2>2. RowOf(r) \in Written(q) \/ RowOf(r) \in Orphans(q)
    BY <2>1 DEF Written, Orphans
  <2> QED
    BY <2>1, <2>2, <1>5, <1>6, <1>7, <1>8, <1>9
<1> QED
  BY <1>7, <1>10, <1>11

(* The rebuild brings back every deficiency it deletes.                       *)
LEMMA RebuildForward ==
  ASSUME MirrorInv, NEW p \in Pullers, pull[p].pc = "answered", pull[p].page >= pull[p].pages,
         pull[p].entity = "deficiencies", Writes(pull[p]),
         NEW r \in Deficiencies, ~Exempt(r)
  PROVE  mirror'[r] >= mirror[r]
<1> DEFINE q == pull[p]
           emptied == [x \in Records |-> IF x \in Deficiencies THEN 0 ELSE mirror[x]]
<1>1. /\ PullShape(p, q) /\ PullCovers(q) /\ Ready(q) /\ r \in Records
      /\ mirror \in [Records -> 0..MaxChanges]
  BY DEF MirrorInv, PullSound, Ready, Records, TypeOK
<1>2. /\ Batch(q) = InHand(q) /\ Written(q) \in SUBSET Row /\ Orphans(q) = {}
      /\ \A row \in Batch(q) : RowSound(q, row)
  BY <1>1, BatchIsSound
<1>3. mirror' = Over(emptied, Written(q)) /\ r \in DOMAIN emptied /\ emptied[r] = 0
  BY <1>1 DEF Writes, Mirrored
<1> HIDE DEF emptied
<1>4. CASE mirror[r] = 0
  BY <1>1, <1>4, WriteTypes, MirrorAssumption
<1>5. CASE mirror[r] > 0
  <2>1. Wanted(q, r)
    BY <1>5 DEF Wanted, Exempt
  <2>2. ~OnALaterPage(q, r)
    BY <1>1 DEF OnALaterPage, PullShape, Pull
  <2>3. PICK row \in InHand(q) : row.id = r
    BY <2>1, <2>2, <1>1 DEF PullCovers, HasRow
  <2>4. row \in Written(q)
    BY <2>3, <1>2 DEF Written, Orphans
  <2>5. \A x \in Written(q) : x.id = r => x.change >= mirror[r]
    BY <1>2 DEF Written, RowSound
  <2> QED
    BY <1>2, <1>3, <2>3, <2>4, <2>5, OverFacts
<1> QED
  BY <1>1, <1>4, <1>5, MirrorAssumption

-----------------------------------------------------------------------------
(* Pulls that begin, end and wait.                                            *)

(* What a pull may begin with: everything, or what changed since its cursor.  *)
Beginning(p, q, curs) ==
  \E e \in Entity, scheduled \in BOOLEAN : \E since \in {0, curs[e]} :
    /\ q = Begin(e, since, scheduled)
    /\ e = "deficiencies" => since = 0
    /\ p = "reviews" => e = "completed_jobs" /\ ~scheduled
    /\ p = "desk" => e = "deficiencies" /\ ~scheduled

LEMMA OrderIsEntities == \A i \in 1..Len(Order) : Order[i] \in Entity
BY DEF Entity, Range, Order

LEMMA FollowBegins ==
  ASSUME NEW p, NEW e \in Entity, NEW scheduled \in BOOLEAN, NEW curs \in [Entity -> 0..MaxTime],
         scheduled => p \notin {"reviews", "desk"}
  PROVE  Follow(e, scheduled, curs) = Idle \/ Beginning(p, Follow(e, scheduled, curs), curs)
<1> DEFINE after == {i \in 1..Len(Order) : (\E j \in 1..(i - 1) : Order[j] = e)
                                           /\ (Order[i] = "deficiencies" \/ curs[Order[i]] > 0)}
           next == Order[Min(after)]
           since == IF next \in Aggregated THEN 0 ELSE curs[next]
<1>1. Follow(e, scheduled, curs) = IF ~scheduled \/ after = {} THEN Idle ELSE Begin(next, since, TRUE)
  BY DEF Follow
<1>2. CASE ~scheduled \/ after = {}
  BY <1>1, <1>2
<1>3. CASE scheduled /\ after # {}
  <2>1. after \in SUBSET Nat
    BY DEF Order
  <2>2. Min(after) \in after
    BY <1>3, <2>1, MinIsLeast
  <2>3. next \in Entity
    BY <2>2, OrderIsEntities
  <2>4. since \in {0, curs[next]} /\ (next = "deficiencies" => since = 0)
    BY DEF Aggregated
  <2> HIDE DEF next, since, after
  <2> QED
    BY <1>1, <1>3, <2>3, <2>4 DEF Beginning
<1> QED
  BY <1>2, <1>3

LEMMA IdleIsSound == ASSUME NEW p \in Pullers, pull'[p] = Idle, MirrorAssumption PROVE PullSound(p)'
BY Entities DEF PullSound, PullShape, PullRows, PullCovers, InHand, Idle, Pull

LEMMA BeginIsSound ==
  ASSUME TypeOK', CursorCovers', TablesSound', now' = now, NEW p \in Pullers,
         Beginning(p, pull'[p], cursor')
  PROVE  PullSound(p)'
<1>1. PICK e \in Entity, scheduled \in BOOLEAN : \E since \in {0, cursor'[e]} :
        /\ pull'[p] = Begin(e, since, scheduled)
        /\ e = "deficiencies" => since = 0
        /\ p = "reviews" => e = "completed_jobs" /\ ~scheduled
        /\ p = "desk" => e = "deficiencies" /\ ~scheduled
  BY DEF Beginning
<1>2. PICK since \in {0, cursor'[e]} :
        /\ pull'[p] = Begin(e, since, scheduled)
        /\ e = "deficiencies" => since = 0
        /\ p = "reviews" => e = "completed_jobs" /\ ~scheduled
        /\ p = "desk" => e = "deficiencies" /\ ~scheduled
  BY <1>1
<1> DEFINE q == pull'[p]
<1>3. /\ q.pc = "asking" /\ q.entity = e /\ q.since = since /\ q.began = now' /\ q.page = 1
      /\ q.held = {} /\ q.seen = {} /\ q.scheduled = scheduled /\ q \in Pull
  <2>1. since \in 0..MaxTime /\ now' \in 0..MaxTime
    BY MirrorAssumption DEF TypeOK
  <2>2. q = [pc |-> "asking", entity |-> e, scheduled |-> scheduled, since |-> since,
             began |-> now', page |-> 1, pages |-> 0, held |-> {}, seen |-> {}]
    BY <1>2 DEF Begin, Idle
  <2>3. q \in Pull
    BY <2>1, <2>2 DEF Pull
  <2> QED
    BY <2>2, <2>3
<1>4. since <= now' /\ since \in Nat /\ now' \in Nat
  BY MirrorAssumption DEF TypeOK, TablesSound
<1>5. PullShape(p, pull[p])'
  <2>1. p = "reviews" => e = "completed_jobs" /\ ~scheduled
    BY <1>2
  <2>2. p = "desk" => e = "deficiencies" /\ ~scheduled
    BY <1>2
  <2>3. e = "deficiencies" => since = 0
    BY <1>2
  <2> QED
    BY <2>1, <2>2, <2>3, <1>3, <1>4 DEF PullShape
<1>6. PullRows(pull[p])'
  BY <1>3 DEF PullRows, InHand
<1>7. ASSUME NEW r \in Records, Wanted(pull[p], r)' PROVE OnALaterPage(pull[p], r)'
  <2>1. r \in Listing(e, since)'
    <3>1. CASE e = "deficiencies"
      <4>1. r \in Deficiencies /\ mirror'[r] > 0 /\ since = 0
        BY <1>2, <1>3, <1>7, <3>1 DEF Wanted
      <4>2. remote'[r].at > 0 /\ remote'[r].at \in Nat
        BY <4>1, MirrorAssumption DEF TablesSound, TypeOK
      <4> QED
        BY <1>3, <3>1, <4>1, <4>2 DEF Listing, Members
    <3>2. CASE e # "deficiencies"
      <4>1. /\ e \notin disturbed' /\ r \in Settled(e)' /\ remote'[r].at \in 1..(now' - 1)
            /\ remote'[r].change \notin {mirror'[r], skipped'[r]}
        BY <1>3, <1>7, <3>2 DEF Wanted, Shown
      <4>2. r \in Members(e, since)'
        <5>1. (completed \subseteq Jobs)'
          BY DEF TypeOK
        <5> QED
          BY <4>1, <5>1, <1>4, Entities DEF Members, Settled
      <4>3. ~(remote'[r].at \in 1..(cursor'[e] - 1))
        BY <4>1, <3>2 DEF CursorCovers
      <4>4. remote'[r].at >= since
        BY <4>1, <4>3, <1>4, MirrorAssumption DEF TypeOK
      <4> QED
        BY <1>3, <4>1, <4>2, <4>4 DEF Listing
    <3> QED
      BY <3>1, <3>2
  <2>2. Cardinality(Below(pull[p], r)') \in Nat
    <3>1. (completed \subseteq Jobs)'
      BY DEF TypeOK
    <3>2. Members(e, since)' \subseteq Records
      BY <3>1, <1>4, Entities DEF Members, Records
    <3>3. Below(pull[p], r)' \in SUBSET Records
      BY <3>2, <1>3 DEF Below, Listing
    <3> QED
      BY <3>3, MirrorAssumption, FS_Subset, FS_CardinalityType
  <2>3. PagesRead(pull[p])' * PageSize = 0
    BY <1>3, MirrorAssumption DEF PagesRead
  <2> QED
    BY <1>3, <2>1, <2>2, <2>3 DEF OnALaterPage
<1>8. PullCovers(pull[p])'
  BY <1>7 DEF PullCovers
<1> QED
  BY <1>5, <1>6, <1>8 DEF PullSound

(* A pull stays sound while others write rows of other kinds, or rows that    *)
(* are exempt.                                                                *)
LEMMA KeptIsSound ==
  ASSUME MirrorInv, TypeOK', NEW o \in Pullers, pull'[o] = pull[o], UNCHANGED <<remote, completed>>,
         disturbed \subseteq disturbed', now <= now',
         pull[o].pc # "idle" => \A r \in Kind(pull[o].entity) :
           Exempt(r) \/ (mirror'[r] = mirror[r] /\ skipped'[r] = skipped[r])
  PROVE  PullSound(o)'
<1> DEFINE q == pull[o]
<1>1. PullShape(o, q) /\ PullRows(q) /\ PullCovers(q)
  BY DEF MirrorInv, PullSound
<1>2. CASE q.pc = "idle"
  <2>1. pull'[o] = Idle
    BY <1>1, <1>2 DEF PullShape
  <2> QED
    BY <2>1, IdleIsSound, MirrorAssumption
<1>3. CASE q.pc # "idle"
  <2>1. PullShape(o, pull[o])'
    BY <1>1, MirrorAssumption DEF PullShape, Pull, TypeOK, MirrorInv
  <2>2. \A r : Exempt(r) => Exempt(r)'
    BY DEF Exempt
  <2>3. PullRows(pull[o])'
    <3> SUFFICES ASSUME NEW row \in InHand(q) PROVE RowSound(pull[o], row)'
      BY DEF PullRows, InHand
    <3>1. RowSound(q, row)
      BY <1>1 DEF PullRows
    <3> QED
      BY <3>1, <2>2, <1>3 DEF RowSound, RowOf
  <2>4. ASSUME NEW r \in Records, Wanted(pull[o], r)' PROVE Wanted(q, r)
    <3>1. q.entity \notin disturbed /\ q.entity \in Entity
      BY <2>4, <1>1 DEF Wanted, PullShape, Pull
    <3>2. CASE q.entity = "deficiencies"
      <4>1. r \in Deficiencies /\ mirror'[r] > 0
        BY <2>4, <3>2 DEF Wanted
      <4>2. ~Exempt(r)
        <5>1. r \notin Jobs
          BY <4>1, JobsAreAKind, KindsApart DEF JobListings
        <5> QED
          BY <5>1, <3>1, <3>2 DEF Exempt
      <4>3. mirror'[r] = mirror[r]
        BY <4>1, <4>2, <3>2, <1>3, JobsAreAKind
      <4> QED
        BY <4>1, <4>3, <3>1, <3>2 DEF Wanted
    <3>3. CASE q.entity # "deficiencies"
      <4>1. r \in Settled(q.entity)' /\ remote[r].at \in 1..(q.began - 1) /\ ~Shown(r)'
        BY <2>4, <3>3 DEF Wanted
      <4>2. r \in Settled(q.entity)
        BY <4>1, <3>1, <3>3 DEF Settled, Members
      <4>3. r \in Kind(q.entity) /\ ~Exempt(r)
        BY <4>2, <3>1, <3>3, NotExempt DEF MirrorInv
      <4>4. ~Shown(r)
        BY <4>1, <4>3, <1>3 DEF Shown
      <4> QED
        BY <4>1, <4>2, <4>4, <3>1, <3>3 DEF Wanted
    <3> QED
      BY <3>2, <3>3
  <2>5. PullCovers(pull[o])'
    <3> SUFFICES ASSUME NEW r \in Records, Wanted(q, r) PROVE HasRow(pull[o], r)' \/ OnALaterPage(pull[o], r)'
      BY <2>4 DEF PullCovers
    <3>1. HasRow(q, r) \/ OnALaterPage(q, r)
      BY <1>1, <1>3 DEF PullCovers
    <3> QED
      BY <3>1 DEF HasRow, InHand, OnALaterPage, Below, PagesRead, Listing, Members
  <2> QED
    BY <2>1, <2>3, <2>5 DEF PullSound
<1> QED
  BY <1>2, <1>3

LEMMA CrossedFacts ==
  \A pulls : Crossed(pulls) \subseteq Entity /\ ("completed_jobs" \in Crossed(pulls) => "jobs" \in Crossed(pulls))
BY Entities DEF Crossed, JobListings

LEMMA PullTypes ==
  /\ Idle \in Pull
  /\ \A p, q, curs : /\ now \in 1..MaxTime /\ curs \in [Entity -> 0..MaxTime] /\ Beginning(p, q, curs)
                    => q \in Pull
<1>1. Idle \in Pull
  BY Entities, MirrorAssumption DEF Idle, Pull
<1>2. ASSUME NEW p, NEW q, NEW curs \in [Entity -> 0..MaxTime], now \in 1..MaxTime, Beginning(p, q, curs)
      PROVE  q \in Pull
  <2>1. PICK e \in Entity, scheduled \in BOOLEAN, since \in 0..MaxTime : q = Begin(e, since, scheduled)
    BY <1>2, MirrorAssumption DEF Beginning
  <2>2. q = [pc |-> "asking", entity |-> e, scheduled |-> scheduled, since |-> since,
             began |-> now, page |-> 1, pages |-> 0, held |-> {}, seen |-> {}]
    BY <2>1 DEF Begin, Idle
  <2> QED
    BY <2>2, <1>2, MirrorAssumption DEF Pull
<1> QED
  BY <1>1, <1>2

LEMMA PullsFacts ==
  ASSUME DisturbedSound, TypeOK, NEW p \in Pullers, NEW q \in Pull, Pulls(p, q)
  PROVE  /\ DisturbedSound' /\ disturbed \subseteq disturbed' /\ disturbed' \subseteq Entity
         /\ pull' \in [Pullers -> Pull] /\ pull'[p] = q
         /\ \A o \in Pullers : o # p => pull'[o] = pull[o]
<1>1. pull' = [pull EXCEPT ![p] = q] /\ disturbed' = disturbed \cup Crossed(pull')
  BY DEF Pulls
<1> QED
  BY <1>1, CrossedFacts DEF DisturbedSound, TypeOK

(* What was shown before a cursor is still shown before it.                   *)
LEMMA CursorKept ==
  ASSUME MirrorInv, UNCHANGED <<remote, completed>>, disturbed \subseteq disturbed',
         \A r \in Records \ Deficiencies : ~Exempt(r) /\ Shown(r) => Shown(r)',
         NEW e \in Entity \ {"deficiencies"}, e \notin disturbed', cursor'[e] = cursor[e],
         NEW r \in Settled(e)', remote'[r].at \in 1..(cursor'[e] - 1)
  PROVE  Shown(r)'
<1>1. e \notin disturbed /\ r \in Settled(e)
  BY DEF Settled, Members
<1>2. r \in Records \ Deficiencies /\ ~Exempt(r)
  BY <1>1, NotExempt DEF MirrorInv
<1>3. Shown(r)
  BY <1>1 DEF MirrorInv, CursorCovers, Shown
<1> QED
  BY <1>2, <1>3

LEMMA TablesStandFacts ==
  ASSUME MirrorInv, TablesStand, disturbed \subseteq disturbed'
  PROVE  TablesSound' /\ CursorCovers'
<1>1. TablesSound'
  BY DEF MirrorInv, TablesStand, TablesSound
<1>2. \A r : Shown(r) => Shown(r)'
  BY DEF Shown, TablesStand
<1>3. CursorCovers'
  BY <1>2, CursorKept DEF CursorCovers, TablesStand, Shown
<1> QED
  BY <1>1, <1>3

LEMMA PullStep ==
  ASSUME MirrorInv, NEW p \in Pullers, NEW q, q = Idle \/ Beginning(p, q, cursor),
         Pulls(p, q), TablesStand, acts' \in 0..MaxActs
  PROVE  MirrorInv'
<1>1. q \in Pull /\ TypeOK
  BY PullTypes DEF MirrorInv, TypeOK
<1>2. /\ DisturbedSound' /\ disturbed \subseteq disturbed' /\ disturbed' \subseteq Entity
      /\ pull' \in [Pullers -> Pull] /\ pull'[p] = q
      /\ \A o \in Pullers : o # p => pull'[o] = pull[o]
  BY <1>1, PullsFacts DEF MirrorInv
<1>3. TablesSound' /\ CursorCovers'
  BY <1>2, TablesStandFacts
<1>4. TypeOK'
  BY <1>1, <1>2 DEF TypeOK, TablesStand
<1>5. PullSound(p)'
  <2>1. CASE q = Idle
    BY <2>1, <1>2, IdleIsSound, MirrorAssumption
  <2>2. CASE Beginning(p, q, cursor)
    <3>1. now' = now /\ cursor' = cursor
      BY DEF TablesStand
    <3>2. Beginning(p, pull'[p], cursor')
      BY <2>2, <1>2, <3>1
    <3> QED
      BY <1>3, <1>4, <3>1, <3>2, BeginIsSound
  <2> QED
    BY <2>1, <2>2
<1>6. ASSUME NEW o \in Pullers, o # p PROVE PullSound(o)'
  <2>1. now <= now' /\ UNCHANGED <<remote, completed, mirror, skipped>>
    BY <1>1 DEF TablesStand, TypeOK
  <2> QED
    BY <1>2, <1>4, <1>6, <2>1, KeptIsSound
<1> QED
  BY <1>2, <1>3, <1>4, <1>5, <1>6 DEF MirrorInv

LEMMA BeginningsKeepInv ==
  ASSUME MirrorInv,
         \/ ScheduledSync \/ ReviewsPull \/ DeskRefresh
         \/ \E e \in Entity \ {"deficiencies", "completed_jobs"} : StartPull(e)
         \/ \E p \in Pullers : FetchFails(p)
  PROVE  MirrorInv'
<1>1. cursor \in [Entity -> 0..MaxTime] /\ acts \in 0..MaxActs /\ MaxActs \in Nat
  BY MirrorAssumption DEF MirrorInv, TypeOK
<1>2. CASE ScheduledSync
  <2> DEFINE due == {i \in 1..Len(Order) : Order[i] = "deficiencies" \/ cursor[Order[i]] > 0}
             first == Order[Min(due)]
             since == IF first \in Aggregated THEN 0 ELSE cursor[first]
  <2>1. Pulls("sync", Begin(first, since, TRUE)) /\ TablesStand /\ acts' = acts
    BY <1>2 DEF ScheduledSync
  <2>2. due \in SUBSET Nat /\ 6 \in due
    BY DEF Order
  <2>3. first \in Entity
    BY <2>2, MinIsLeast, OrderIsEntities
  <2>4. since \in {0, cursor[first]} /\ (first = "deficiencies" => since = 0)
    BY DEF Aggregated
  <2> HIDE DEF due, first, since
  <2>5. Beginning("sync", Begin(first, since, TRUE), cursor)
    BY <2>3, <2>4 DEF Beginning
  <2> QED
    BY <2>1, <2>5, <1>1, PullStep DEF Pullers
<1>3. CASE ReviewsPull
  <2>1. Beginning("reviews", Begin("completed_jobs", 0, FALSE), cursor)
    BY Entities DEF Beginning
  <2>2. Pulls("reviews", Begin("completed_jobs", 0, FALSE)) /\ TablesStand /\ acts < MaxActs /\ acts' = acts + 1
    BY <1>3 DEF ReviewsPull, ByHand
  <2>3. acts' \in 0..MaxActs /\ "reviews" \in Pullers
    BY <1>1, <2>2 DEF Pullers
  <2> QED
    BY <2>1, <2>2, <2>3, PullStep
<1>4. CASE DeskRefresh
  <2>1. Beginning("desk", Begin("deficiencies", 0, FALSE), cursor)
    BY Entities DEF Beginning
  <2>2. Pulls("desk", Begin("deficiencies", 0, FALSE)) /\ TablesStand /\ acts < MaxActs /\ acts' = acts + 1
    BY <1>4 DEF DeskRefresh, ByHand
  <2>3. acts' \in 0..MaxActs /\ "desk" \in Pullers
    BY <1>1, <2>2 DEF Pullers
  <2> QED
    BY <2>1, <2>2, <2>3, PullStep
<1>5. ASSUME NEW e \in Entity, StartPull(e) PROVE MirrorInv'
  <2>1. Beginning("sync", Begin(e, 0, FALSE), cursor)
    BY DEF Beginning
  <2>2. Pulls("sync", Begin(e, 0, FALSE)) /\ TablesStand /\ acts < MaxActs /\ acts' = acts + 1
    BY <1>5 DEF StartPull, ByHand
  <2>3. acts' \in 0..MaxActs /\ "sync" \in Pullers
    BY <1>1, <2>2 DEF Pullers
  <2> QED
    BY <2>1, <2>2, <2>3, PullStep
<1>6. ASSUME NEW p \in Pullers, FetchFails(p) PROVE MirrorInv'
  <2> DEFINE q == IF pull[p].entity = "deficiencies"
                  THEN Follow("deficiencies", pull[p].scheduled, cursor) ELSE Idle
  <2>1. Pulls(p, q) /\ TablesStand /\ acts' = acts
    BY <1>6 DEF FetchFails
  <2>2. pull[p].scheduled \in BOOLEAN /\ (pull[p].scheduled => p \notin {"reviews", "desk"})
    BY <1>6 DEF FetchFails, MirrorInv, PullSound, PullShape, Pull
  <2>3. q = Idle \/ Beginning(p, q, cursor)
    BY <1>1, <2>2, FollowBegins, Entities
  <2> QED
    BY <1>1, <2>1, <2>3, PullStep
<1> QED
  BY <1>2, <1>3, <1>4, <1>5, <1>6

LEMMA KillKeepsInv == ASSUME MirrorInv, Kill PROVE MirrorInv'
<1>1. TablesStand /\ pull' = [p \in Pullers |-> Idle] /\ disturbed' = disturbed /\ acts' \in 0..MaxActs
  BY MirrorAssumption DEF Kill, ByHand, MirrorInv, TypeOK
<1>2. TablesSound' /\ CursorCovers'
  BY <1>1, TablesStandFacts
<1>3. TypeOK'
  BY <1>1, PullTypes DEF MirrorInv, TypeOK, TablesStand
<1>4. Crossed(pull') = {}
  BY <1>1 DEF Crossed, Pullers, Idle
<1>5. DisturbedSound'
  BY <1>1, <1>4 DEF MirrorInv, DisturbedSound
<1>6. \A p \in Pullers : PullSound(p)'
  BY <1>1, IdleIsSound, MirrorAssumption
<1> QED
  BY <1>2, <1>3, <1>5, <1>6 DEF MirrorInv

-----------------------------------------------------------------------------
(* A page arrives.                                                            *)

LEMMA PagesType == ASSUME NEW L, IsFiniteSet(L) PROVE Pages(L) \in Nat
<1> DEFINE d == (Cardinality(L) + PageSize - 1) \div PageSize
<1>1. Cardinality(L) + PageSize - 1 \in Nat /\ PageSize \in Nat \ {0}
  BY MirrorAssumption, FS_CardinalityType
<1>2. d \in Nat /\ Pages(L) = Max({1, d})
  BY <1>1, Division DEF Pages
<1> HIDE DEF d
<1>3. {1, d} \in SUBSET (0..(1 + d)) /\ {1, d} # {} /\ 1 + d \in Nat
  BY <1>2
<1>4. Max({1, d}) \in {1, d}
  BY <1>3, MaxIsGreatest
<1> QED
  BY <1>2, <1>4

LEMMA FetchKeepsInv == ASSUME MirrorInv, NEW p \in Pullers, Fetch(p) PROVE MirrorInv'
<1> DEFINE q == pull[p]
           L == Listing(q.entity, q.since)
           rows == {RowOf(r) : r \in Page(L, q.page)}
<1>1. /\ q.pc = "asking" /\ PullShape(p, q) /\ PullRows(q) /\ PullCovers(q)
      /\ q.entity \in Entity /\ q.since \in Nat /\ q.page \in Nat \ {0}
  BY MirrorAssumption DEF Fetch, MirrorInv, PullSound, PullShape, Pull
<1>2. /\ TablesStand /\ disturbed' = disturbed /\ acts' = acts
      /\ pull' = [pull EXCEPT ![p].pc = "answered", ![p].pages = Pages(L), ![p].held = rows]
  BY DEF Fetch, TablesStand
<1>3. TypeOK /\ completed \subseteq Jobs
  BY DEF MirrorInv, TypeOK
<1>4. L \subseteq Kind(q.entity) /\ L \subseteq Records /\ IsFiniteSet(L) /\ L \subseteq Nat
  BY <1>1, <1>3, ListingFinite, KindsAreRecords, MirrorAssumption
<1>5. \A r \in L : /\ RowOf(r) \in Row /\ remote[r].at > 0 /\ RowOf(r).id = r
                   /\ RowOf(r).change = remote[r].change
  <2> TAKE r \in L
  <2>1. r \in Records /\ remote[r].at > 0
    BY <1>4 DEF Listing
  <2>2. remote[r].change \in 1..MaxChanges
    BY <2>1, MirrorAssumption DEF MirrorInv, TypeOK, TablesSound
  <2> QED
    BY <2>1, <2>2 DEF RowOf, Row
<1>6. rows \in SUBSET Row /\ Pages(L) \in Nat
  BY <1>4, <1>5, PagesType DEF Page
<1>7. /\ pull' \in [Pullers -> Pull]
      /\ \A o \in Pullers : o # p => pull'[o] = pull[o]
      /\ pull'[p] = [q EXCEPT !.pc = "answered", !.pages = Pages(L), !.held = rows]
  <2>1. pull \in [Pullers -> Pull] /\ q \in Pull
    BY <1>3 DEF TypeOK
  <2>2. [q EXCEPT !.pc = "answered", !.pages = Pages(L), !.held = rows] \in Pull
    BY <2>1, <1>6 DEF Pull
  <2> HIDE DEF L, rows
  <2> QED
    BY <1>2, <2>1, <2>2
<1>8. /\ pull'[p].pc = "answered" /\ pull'[p].entity = q.entity /\ pull'[p].since = q.since
      /\ pull'[p].began = q.began /\ pull'[p].page = q.page /\ pull'[p].pages = Pages(L)
      /\ pull'[p].held = rows /\ pull'[p].seen = q.seen /\ pull'[p].scheduled = q.scheduled
      /\ pull'[p] \in Pull
  BY <1>7, <1>1 DEF PullShape, Pull
<1>9. TypeOK'
  BY <1>2, <1>3, <1>7 DEF TypeOK, TablesStand
<1>10. TablesSound' /\ CursorCovers'
  BY <1>2, TablesStandFacts
<1>11. DisturbedSound'
  <2>1. Crossed(pull') = Crossed(pull)
    BY <1>7, <1>8, <1>1 DEF Crossed, Pullers
  <2> QED
    BY <1>2, <2>1 DEF MirrorInv, DisturbedSound
<1>12. ASSUME NEW o \in Pullers, o # p PROVE PullSound(o)'
  <2>1. now <= now' /\ UNCHANGED <<remote, completed, mirror, skipped>>
    BY <1>2, <1>3 DEF TablesStand, TypeOK
  <2> QED
    BY <1>2, <1>7, <1>9, <1>12, <2>1, KeptIsSound
<1>13. PullSound(p)'
  <2>1. UNCHANGED <<now, remote, completed, mirror, skipped>> /\ disturbed' = disturbed
    BY <1>2 DEF TablesStand
  <2>2. PullShape(p, pull[p])'
    BY <1>1, <1>8, <2>1 DEF PullShape
  <2>3. PullRows(pull[p])'
    <3>1. ASSUME NEW row \in q.seen PROVE RowSound(pull[p], row)'
      <4>1. RowSound(q, row)
        BY <1>1, <3>1 DEF PullRows, InHand
      <4> QED
        BY <4>1, <1>8, <2>1 DEF RowSound, RowOf, Exempt
    <3>2. ASSUME NEW row \in rows PROVE RowSound(pull[p], row)'
      <4>1. PICK r \in L : row = RowOf(r)
        BY <3>2 DEF Page
      <4>2. /\ remote[r].change \in Nat /\ mirror[r] <= remote[r].change /\ skipped[r] <= remote[r].change
            /\ mirror[r] \in Nat /\ skipped[r] \in Nat
        BY <1>4, MirrorAssumption DEF MirrorInv, TypeOK, TablesSound
      <4>3. /\ row \in Row /\ row.id = r /\ r \in Kind(q.entity) /\ remote[r].at > 0
            /\ row.change = remote[r].change
        BY <4>1, <1>4, <1>5
      <4>4. row = RowOf(r)'
        BY <4>1, <2>1 DEF RowOf
      <4> QED
        BY <4>2, <4>3, <4>4, <1>8, <2>1 DEF RowSound
    <3> QED
      BY <3>1, <3>2, <1>8 DEF PullRows, InHand
  <2>4. ASSUME NEW r \in Records, Wanted(pull[p], r)' PROVE HasRow(pull[p], r)' \/ OnALaterPage(pull[p], r)'
    <3>1. Wanted(q, r)
      BY <2>4, <1>8, <2>1 DEF Wanted, Settled, Members, Shown
    <3>2. HasRow(q, r) \/ OnALaterPage(q, r)
      BY <3>1, <1>1 DEF PullCovers
    <3>3. CASE HasRow(q, r)
      BY <3>3, <1>1, <1>8 DEF HasRow, InHand, PullShape
    <3>4. CASE r \in Page(L, q.page)
      <4>1. RowOf(r) \in rows /\ RowOf(r).id = r
        BY <3>4 DEF RowOf
      <4> QED
        BY <4>1, <1>8 DEF HasRow, InHand
    <3>5. CASE OnALaterPage(q, r) /\ r \notin Page(L, q.page)
      <4>1. r \in L /\ Cardinality({x \in L : x < r}) >= (q.page - 1) * PageSize
        BY <3>5, <1>1 DEF OnALaterPage, Below, PagesRead
      <4>2. Cardinality({x \in L : x < r}) >= q.page * PageSize /\ q.page < Pages(L)
        BY <4>1, <3>5, <1>1, <1>4, LaterPage
      <4>3. Listing(pull[p].entity, pull[p].since)' = L
        BY <2>1, <1>8 DEF Listing, Members
      <4>4. Below(pull[p], r)' = {x \in L : x < r}
        BY <4>3, <1>8 DEF Below
      <4> QED
        BY <4>1, <4>2, <4>3, <4>4, <1>8 DEF OnALaterPage, PagesRead
    <3> QED
      BY <3>2, <3>3, <3>4, <3>5
  <2>5. PullCovers(pull[p])'
    BY <2>4 DEF PullCovers
  <2> QED
    BY <2>2, <2>3, <2>5 DEF PullSound
<1> QED
  BY <1>9, <1>10, <1>11, <1>12, <1>13 DEF MirrorInv

-----------------------------------------------------------------------------
(* A page is written.                                                         *)

Stores(q) == IF Ready(q) THEN Writes(q) ELSE UNCHANGED <<mirror, skipped>>

LEMMA StoresTypes ==
  ASSUME MirrorInv, NEW p \in Pullers, pull[p].pc = "answered", Stores(pull[p]),
         UNCHANGED remote
  PROVE  /\ mirror' \in [Records -> 0..MaxChanges] /\ skipped' \in [Records -> 0..MaxChanges]
         /\ \A r \in Records : /\ mirror'[r] <= remote'[r].change /\ skipped'[r] <= remote'[r].change
                               /\ remote'[r].change > 0 <=> remote'[r].at > 0
         /\ \A r \in Records \ Deficiencies :
              ~Exempt(r) => mirror'[r] >= mirror[r] /\ (Shown(r) => Shown(r)')
         /\ \A r \in Records \ Kind(pull[p].entity) : mirror'[r] = mirror[r] /\ skipped'[r] = skipped[r]
<1>1. CASE Ready(pull[p])
  <2>1. Writes(pull[p])
    BY <1>1 DEF Stores
  <2>2. /\ mirror' \in [Records -> 0..MaxChanges] /\ skipped' \in [Records -> 0..MaxChanges]
        /\ \A r \in Records : mirror'[r] <= remote[r].change /\ skipped'[r] <= remote[r].change
    BY <1>1, <2>1, WriteTypes
  <2>3. \A r \in Records \ Kind(pull[p].entity) : mirror'[r] = mirror[r] /\ skipped'[r] = skipped[r]
    BY <1>1, <2>1, WritesItsKind
  <2>4. ASSUME NEW r \in Records \ Deficiencies, ~Exempt(r)
        PROVE  mirror'[r] >= mirror[r] /\ (Shown(r) => Shown(r)')
    BY <1>1, <2>1, <2>4, WritesForward DEF Shown
  <2> QED
    BY <2>2, <2>3, <2>4 DEF MirrorInv, TablesSound
<1>2. CASE ~Ready(pull[p])
  <2>1. mirror' = mirror /\ skipped' = skipped
    BY <1>2 DEF Stores
  <2>2. \A r \in Records : mirror[r] \in Nat
    BY MirrorAssumption DEF MirrorInv, TypeOK
  <2> QED
    BY <2>1, <2>2 DEF MirrorInv, TypeOK, TablesSound, Shown
<1> QED
  BY <1>1, <1>2

LEMMA StoresOthers ==
  ASSUME MirrorInv, TypeOK', NEW p \in Pullers, pull[p].pc = "answered", Stores(pull[p]),
         UNCHANGED <<now, remote, completed>>, disturbed \subseteq disturbed',
         NEW o \in Pullers, o # p, pull'[o] = pull[o]
  PROVE  PullSound(o)'
<1>1. PullShape(p, pull[p]) /\ PullShape(o, pull[o]) /\ DisturbedSound
  BY DEF MirrorInv, PullSound
<1>2. pull[o].entity \in Entity
  BY <1>1 DEF PullShape, Pull
<1>3. ASSUME pull[o].pc # "idle", NEW r \in Kind(pull[o].entity)
      PROVE  Exempt(r) \/ (mirror'[r] = mirror[r] /\ skipped'[r] = skipped[r])
  <2>1. r \in Records
    BY <1>2, KindsAreRecords
  <2>2. CASE r \in Kind(pull[p].entity)
    BY <1>1, <1>3, <2>2, TogetherMeansExempt
  <2>3. CASE r \notin Kind(pull[p].entity)
    BY <2>1, <2>3, StoresTypes
  <2> QED
    BY <2>2, <2>3
<1>4. now <= now'
  BY MirrorAssumption DEF MirrorInv, TypeOK
<1> QED
  BY <1>3, <1>4, KeptIsSound

(* What a pull wanted and has no later page for is shown once it is written.  *)
LEMMA WantedIsWritten ==
  ASSUME MirrorInv, NEW p \in Pullers, pull[p].pc = "answered", Ready(pull[p]), Writes(pull[p]),
         UNCHANGED remote, pull[p].entity # "deficiencies", pull[p].entity \notin disturbed,
         NEW r \in Settled(pull[p].entity), remote[r].at \in 1..(pull[p].began - 1),
         Shown(r) \/ ~OnALaterPage(pull[p], r)
  PROVE  Shown(r)'
<1> DEFINE q == pull[p]
<1>1. PullShape(p, q) /\ PullCovers(q) /\ q.entity \in Entity /\ TypeOK /\ DisturbedSound
  BY DEF MirrorInv, PullSound, PullShape, Pull
<1>2. r \in Records /\ r \notin Deficiencies /\ ~Exempt(r)
  BY <1>1, NotExempt
<1>3. Shown(r) => Shown(r)'
  BY <1>2, WritesForward DEF Shown
<1>4. ASSUME ~Shown(r) PROVE Shown(r)'
  <2>1. Wanted(q, r)
    BY <1>4 DEF Wanted
  <2>2. HasRow(q, r)
    BY <1>1, <1>2, <1>4, <2>1 DEF PullCovers
  <2>3. Batch(q) = InHand(q) /\ \A row \in Batch(q) : RowSound(q, row)
    BY BatchIsSound
  <2>4. PICK row \in Batch(q) : row.id = r
    BY <2>2, <2>3 DEF HasRow
  <2>5. remote[r].at < q.began
    BY <1>1, MirrorAssumption DEF PullShape, Pull
  <2>6. RowOf(r) \in Batch(q)
    BY <2>3, <2>4, <2>5 DEF RowSound
  <2>7. q.entity = "completed_jobs" => r \in completed
    BY <1>1, SettledAreMembers DEF TypeOK
  <2> QED
    BY <1>2, <2>6, <2>7, WritesForward DEF Shown
<1> QED
  BY <1>3, <1>4

LEMMA PageStores ==
  ASSUME MirrorInv, NEW p \in Pullers, WritePage(p)
  PROVE  /\ Stores(pull[p])
         /\ noted' \subseteq Deficiencies /\ noted' \subseteq noted
         /\ \A d \in noted' : mirror'[d] > 0
         /\ \A d \in noted : d \in noted' \/ ~(mirror'[d] > 0)
BY DEF WritePage, Stores, Writes, Orphans, MirrorInv, TypeOK

LEMMA NextPageKeepsInv == ASSUME MirrorInv, NEW p \in Pullers, NextPage(p) PROVE MirrorInv'
<1> DEFINE q == pull[p]
           seen == IF q.entity \in Aggregated THEN q.seen \cup q.held ELSE q.seen
<1>1. /\ q.pc = "answered" /\ q.page < q.pages
      /\ PullShape(p, q) /\ PullRows(q) /\ PullCovers(q)
      /\ q.entity \in Entity /\ q.since \in Nat /\ q.page \in Nat \ {0} /\ q \in Pull /\ TypeOK
  BY MirrorAssumption DEF NextPage, MirrorInv, PullSound, PullShape, Pull
<1>2. /\ UNCHANGED <<now, remote, completed, cursor, disturbed, acts>> /\ WritePage(p)
      /\ pull' = [pull EXCEPT ![p].pc = "asking", ![p].page = q.page + 1, ![p].held = {}, ![p].seen = seen]
  BY DEF NextPage
<1>3. Stores(q) /\ noted' \subseteq Deficiencies /\ \A d \in noted' : mirror'[d] > 0
  BY <1>2, PageStores
<1>4. /\ pull' \in [Pullers -> Pull]
      /\ \A o \in Pullers : o # p => pull'[o] = pull[o]
      /\ pull'[p] = [q EXCEPT !.pc = "asking", !.page = q.page + 1, !.held = {}, !.seen = seen]
  <2>1. pull \in [Pullers -> Pull] /\ seen \in SUBSET Row /\ q.page + 1 \in Nat
    BY <1>1 DEF TypeOK, Pull
  <2>2. [q EXCEPT !.pc = "asking", !.page = q.page + 1, !.held = {}, !.seen = seen] \in Pull
    BY <1>1, <2>1 DEF Pull
  <2> HIDE DEF seen
  <2> QED
    BY <1>2, <2>1, <2>2
<1>5. /\ pull'[p].pc = "asking" /\ pull'[p].entity = q.entity /\ pull'[p].since = q.since
      /\ pull'[p].began = q.began /\ pull'[p].page = q.page + 1 /\ pull'[p].pages = q.pages
      /\ pull'[p].held = {} /\ pull'[p].seen = seen /\ pull'[p].scheduled = q.scheduled
      /\ pull'[p] \in Pull
  BY <1>1, <1>4 DEF Pull
<1>u. /\ now' = now /\ remote' = remote /\ completed' = completed /\ cursor' = cursor
      /\ disturbed' = disturbed /\ acts' = acts
  BY <1>2
<1>s. q.entity \notin Aggregated => q.seen = {} /\ seen = {}
  BY <1>1 DEF PullShape
<1> HIDE DEF seen
<1>6. TypeOK' /\ TablesSound'
  <2>1. /\ mirror' \in [Records -> 0..MaxChanges] /\ skipped' \in [Records -> 0..MaxChanges]
        /\ \A r \in Records : /\ mirror'[r] <= remote'[r].change /\ skipped'[r] <= remote'[r].change
                              /\ remote'[r].change > 0 <=> remote'[r].at > 0
    BY <1>1, <1>2, <1>3, StoresTypes
  <2>2. TypeOK'
    BY <1>1, <1>u, <1>3, <1>4, <2>1 DEF TypeOK
  <2>3. \A e \in Entity : cursor'[e] <= now'
    BY <1>u DEF TablesSound, MirrorInv
  <2>4. TablesSound'
    BY <1>3, <2>1, <2>3 DEF TablesSound
  <2> QED
    BY <2>2, <2>4
<1>7. \A r \in Records \ Deficiencies : ~Exempt(r) /\ Shown(r) => Shown(r)'
  BY <1>1, <1>2, <1>3, StoresTypes
<1>8. CursorCovers'
  BY <1>2, <1>7, CursorKept DEF CursorCovers, Shown
<1>9. DisturbedSound'
  <2>1. Crossed(pull') = Crossed(pull)
    BY <1>4, <1>5, <1>1 DEF Crossed, Pullers
  <2> QED
    BY <1>2, <2>1 DEF MirrorInv, DisturbedSound
<1>10. ASSUME NEW o \in Pullers, o # p PROVE PullSound(o)'
  BY <1>1, <1>2, <1>3, <1>4, <1>6, <1>10, StoresOthers
<1>l. ASSUME NEW r, OnALaterPage(q, r) PROVE OnALaterPage(pull[p], r)'
  <2>1. Listing(pull[p].entity, pull[p].since)' = Listing(q.entity, q.since)
    BY <1>u, <1>5 DEF Listing, Members
  <2>2. Below(pull[p], r)' = Below(q, r)
    BY <2>1 DEF Below
  <2>3. PagesRead(q) = q.page /\ PagesRead(pull[p])' = q.page
    BY <1>1, <1>5 DEF PagesRead
  <2> QED
    BY <1>l, <1>5, <2>1, <2>2, <2>3 DEF OnALaterPage
<1>11. PullShape(p, pull[p])'
  BY <1>1, <1>u, <1>s, <1>5 DEF PullShape
<1>12. CASE q.entity \in Aggregated
  <2>1. UNCHANGED <<mirror, skipped, now, remote, completed, disturbed>>
    BY <1>1, <1>2, <1>3, <1>12 DEF Stores, Ready, Pull
  <2>2. InHand(pull[p])' = InHand(q)
    BY <1>5, <1>12 DEF InHand, seen
  <2>3. PullRows(pull[p])'
    BY <1>1, <1>5, <2>1, <2>2 DEF PullRows, RowSound, RowOf, Exempt
  <2>4. ASSUME NEW r \in Records, Wanted(pull[p], r)' PROVE HasRow(pull[p], r)' \/ OnALaterPage(pull[p], r)'
    <3>1. Wanted(q, r)
      BY <2>4, <1>5, <2>1 DEF Wanted, Settled, Members, Shown
    <3>2. HasRow(q, r) \/ OnALaterPage(q, r)
      BY <3>1, <1>1 DEF PullCovers
    <3>3. HasRow(q, r) => HasRow(pull[p], r)'
      BY <2>2 DEF HasRow
    <3>4. OnALaterPage(q, r) => OnALaterPage(pull[p], r)'
      BY <1>l
    <3> QED
      BY <3>2, <3>3, <3>4
  <2> QED
    BY <1>6, <1>8, <1>9, <1>10, <1>11, <2>3, <2>4 DEF MirrorInv, PullSound, PullCovers
<1>13. CASE q.entity \notin Aggregated
  <2>1. Ready(q) /\ Writes(q) /\ q.entity # "deficiencies"
    BY <1>3, <1>13 DEF Stores, Ready, Aggregated
  <2>2. InHand(pull[p])' = {}
    BY <1>s, <1>5, <1>13 DEF InHand
  <2>3. ASSUME NEW r \in Records, Wanted(pull[p], r)' PROVE OnALaterPage(pull[p], r)'
    <3>1. /\ q.entity \notin disturbed /\ r \in Settled(q.entity) /\ remote[r].at \in 1..(q.began - 1)
          /\ ~Shown(r)'
      BY <2>1, <2>3, <1>u, <1>5 DEF Wanted, Settled, Members
    <3>2. OnALaterPage(q, r)
      BY <1>1, <1>2, <2>1, <3>1, WantedIsWritten
    <3> QED
      BY <3>2, <1>l
  <2>4. PullRows(pull[p])' /\ PullCovers(pull[p])'
    BY <2>2, <2>3 DEF PullRows, PullCovers
  <2> QED
    BY <1>6, <1>8, <1>9, <1>10, <1>11, <2>4 DEF MirrorInv, PullSound
<1> QED
  BY <1>12, <1>13

LEMMA FinishKeepsInv == ASSUME MirrorInv, NEW p \in Pullers, Finish(p) PROVE MirrorInv'
<1> DEFINE q == pull[p]
           next == Follow(q.entity, q.scheduled, cursor')
<1>1. /\ q.pc = "answered" /\ q.page >= q.pages /\ q.page \in Nat /\ q.pages \in Nat
      /\ PullShape(p, q) /\ q.entity \in Entity /\ q.began \in 0..MaxTime /\ q.began <= now
      /\ q.scheduled \in BOOLEAN /\ (q.scheduled => p \notin {"reviews", "desk"})
      /\ TypeOK /\ DisturbedSound
  BY DEF Finish, MirrorInv, PullSound, PullShape, Pull
<1>2. /\ now' = now /\ remote' = remote /\ completed' = completed /\ acts' = acts
      /\ WritePage(p) /\ cursor' = NewCursor(q) /\ Pulls(p, next)
  BY DEF Finish
<1>3. /\ Ready(q) /\ Stores(q) /\ Writes(q)
      /\ noted' \subseteq Deficiencies /\ \A d \in noted' : mirror'[d] > 0
  BY <1>1, <1>2, PageStores DEF Ready, Stores
<1>4. /\ cursor' \in [Entity -> 0..MaxTime]
      /\ \A e \in Entity : e # q.entity \/ e = "deficiencies" => cursor'[e] = cursor[e]
      /\ q.entity # "deficiencies" => cursor'[q.entity] = q.began
      /\ \A e \in Entity : cursor'[e] <= now'
  <2>1. cursor \in [Entity -> 0..MaxTime] /\ \A e \in Entity : cursor[e] <= now
    BY DEF MirrorInv, TypeOK, TablesSound
  <2> QED
    BY <1>1, <1>2, <2>1 DEF NewCursor
<1>5. next = Idle \/ Beginning(p, next, cursor')
  BY <1>1, <1>4, FollowBegins
<1> HIDE DEF next
<1>6. next \in Pull
  BY <1>1, <1>4, <1>5, PullTypes DEF TypeOK
<1>7. /\ DisturbedSound' /\ disturbed \subseteq disturbed' /\ disturbed' \subseteq Entity
      /\ pull' \in [Pullers -> Pull] /\ pull'[p] = next
      /\ \A o \in Pullers : o # p => pull'[o] = pull[o]
  BY <1>1, <1>2, <1>6, PullsFacts
<1>8. TypeOK' /\ TablesSound'
  <2>1. /\ mirror' \in [Records -> 0..MaxChanges] /\ skipped' \in [Records -> 0..MaxChanges]
        /\ \A r \in Records : /\ mirror'[r] <= remote'[r].change /\ skipped'[r] <= remote'[r].change
                              /\ remote'[r].change > 0 <=> remote'[r].at > 0
    BY <1>1, <1>2, <1>3, StoresTypes
  <2>2. TypeOK'
    BY <1>1, <1>2, <1>3, <1>4, <1>7, <2>1 DEF TypeOK
  <2>3. TablesSound'
    BY <1>3, <1>4, <2>1 DEF TablesSound
  <2> QED
    BY <2>2, <2>3
<1>9. \A r \in Records \ Deficiencies : ~Exempt(r) /\ Shown(r) => Shown(r)'
  BY <1>1, <1>2, <1>3, StoresTypes
<1>10. CursorCovers'
  <2> SUFFICES ASSUME NEW e \in Entity \ {"deficiencies"}, e \notin disturbed',
                      NEW r \in Settled(e)', remote'[r].at \in 1..(cursor'[e] - 1)
               PROVE  Shown(r)'
    BY DEF CursorCovers, Shown
  <2>1. CASE e # q.entity
    BY <2>1, <1>2, <1>4, <1>7, <1>9, CursorKept
  <2>2. CASE e = q.entity
    <3>1. e \notin disturbed /\ r \in Settled(e) /\ remote[r].at \in 1..(q.began - 1)
      BY <2>2, <1>2, <1>4, <1>7 DEF Settled, Members
    <3>2. ~OnALaterPage(q, r)
      BY <1>1 DEF OnALaterPage
    <3> QED
      BY <1>1, <1>2, <1>3, <2>2, <3>1, <3>2, WantedIsWritten
  <2> QED
    BY <2>1, <2>2
<1>11. ASSUME NEW o \in Pullers, o # p PROVE PullSound(o)'
  BY <1>1, <1>2, <1>3, <1>7, <1>8, <1>11, StoresOthers
<1>12. PullSound(p)'
  <2>1. CASE next = Idle
    BY <2>1, <1>7, IdleIsSound, MirrorAssumption
  <2>2. CASE Beginning(p, next, cursor')
    <3>1. Beginning(p, pull'[p], cursor')
      BY <2>2, <1>7
    <3> QED
      BY <1>2, <1>8, <1>10, <3>1, BeginIsSound
  <2> QED
    BY <1>5, <2>1, <2>2
<1> QED
  BY <1>7, <1>8, <1>10, <1>11, <1>12 DEF MirrorInv

(* The rebuild that is cut short writes the rows as a finished one does.      *)
LEMMA InterruptedWrites ==
  ASSUME MirrorInv, NEW p \in Pullers, RebuildInterrupted(p)
  PROVE  /\ pull[p].pc = "answered" /\ Ready(pull[p]) /\ Writes(pull[p]) /\ Stores(pull[p])
         /\ pull[p].entity = "deficiencies"
<1> DEFINE q == pull[p]
<1>1. q.pc = "answered" /\ q.entity = "deficiencies" /\ q.page >= q.pages
      /\ mirror' = Mirrored(q) /\ skipped' = skipped
  BY DEF RebuildInterrupted
<1>2. Ready(q) /\ Orphans(q) \in SUBSET Row /\ Orphans(q) = {}
  BY <1>1, BatchIsSound DEF Ready
<1>3. skipped \in [Records -> 0..MaxChanges]
  BY DEF MirrorInv, TypeOK
<1>4. Over(skipped, Orphans(q)) = skipped
  <2>1. Over(skipped, Orphans(q)) = [r \in Records |-> Over(skipped, Orphans(q))[r]]
    BY <1>3 DEF Over
  <2>2. \A r \in Records : Over(skipped, Orphans(q))[r] = skipped[r]
    BY <1>2, <1>3, OverFacts
  <2> QED
    BY <1>3, <2>1, <2>2
<1> QED
  BY <1>1, <1>2, <1>4 DEF Writes, Stores

LEMMA RebuildInterruptedKeepsInv ==
  ASSUME MirrorInv, NEW p \in Pullers, RebuildInterrupted(p) PROVE MirrorInv'
<1>1. /\ now' = now /\ remote' = remote /\ completed' = completed /\ cursor' = cursor
      /\ noted' = {} /\ pull' = [x \in Pullers |-> Idle] /\ disturbed' = disturbed \cup {"deficiencies"}
      /\ acts' \in 0..MaxActs
  BY MirrorAssumption DEF RebuildInterrupted, ByHand, MirrorInv, TypeOK
<1>2. TypeOK /\ DisturbedSound
  BY DEF MirrorInv
<1>3. /\ mirror' \in [Records -> 0..MaxChanges] /\ skipped' \in [Records -> 0..MaxChanges]
      /\ \A r \in Records : /\ mirror'[r] <= remote'[r].change /\ skipped'[r] <= remote'[r].change
                            /\ remote'[r].change > 0 <=> remote'[r].at > 0
      /\ \A r \in Records \ Deficiencies : ~Exempt(r) /\ Shown(r) => Shown(r)'
  BY <1>1, InterruptedWrites, StoresTypes
<1>4. TypeOK'
  BY <1>1, <1>2, <1>3, PullTypes, Entities DEF TypeOK
<1>5. TablesSound'
  <2>1. \A e \in Entity : cursor'[e] <= now'
    BY <1>1 DEF MirrorInv, TablesSound
  <2> QED
    BY <1>1, <1>3, <2>1 DEF TablesSound
<1>6. CursorCovers'
  <2>1. disturbed \subseteq disturbed'
    BY <1>1
  <2> QED
    BY <1>1, <1>3, <2>1, CursorKept DEF CursorCovers, Shown
<1>7. DisturbedSound'
  <2>1. Crossed(pull') = {}
    BY <1>1 DEF Crossed, Pullers, Idle
  <2> QED
    BY <1>1, <1>2, <2>1 DEF DisturbedSound
<1>8. \A o \in Pullers : PullSound(o)'
  BY <1>1, IdleIsSound, MirrorAssumption
<1> QED
  BY <1>4, <1>5, <1>6, <1>7, <1>8 DEF MirrorInv

-----------------------------------------------------------------------------
(* The rest of the world.                                                     *)

LEMMA QuietStepKeepsInv ==
  ASSUME MirrorInv, TypeOK', now <= now', UNCHANGED <<remote, completed, mirror, skipped, cursor, pull, disturbed>>,
         \A d \in noted' : mirror[d] > 0
  PROVE  MirrorInv'
<1>1. \A e \in Entity : cursor'[e] <= now'
  BY MirrorAssumption DEF MirrorInv, TypeOK, TablesSound
<1>2. TablesSound'
  BY <1>1 DEF MirrorInv, TablesSound
<1>3. CursorCovers' /\ DisturbedSound'
  BY DEF MirrorInv, CursorCovers, Settled, Members, DisturbedSound, Crossed
<1>4. \A o \in Pullers : PullSound(o)'
  BY KeptIsSound
<1> QED
  BY <1>2, <1>3, <1>4 DEF MirrorInv

LEMMA TickKeepsInv == ASSUME MirrorInv, Tick PROVE MirrorInv'
<1>1. TypeOK' /\ now <= now'
  BY MirrorAssumption DEF Tick, MirrorInv, TypeOK
<1> QED
  BY <1>1, QuietStepKeepsInv DEF Tick, MirrorInv, TablesSound

LEMMA DisposeKeepsInv == ASSUME MirrorInv, NEW d \in Deficiencies, Dispose(d) PROVE MirrorInv'
<1>1. TypeOK' /\ now <= now'
  BY MirrorAssumption DEF Dispose, MirrorInv, TypeOK
<1>2. \A x \in noted' : mirror[x] > 0
  BY DEF Dispose, MirrorInv, TablesSound
<1> QED
  BY <1>1, <1>2, QuietStepKeepsInv DEF Dispose

(* A change in ServiceTrade: nothing leaves a listing, except that a job which *)
(* closes leaves that of the open ones.                                       *)
LEMMA ChangeIsLatest ==
  ASSUME MirrorInv, NEW r \in Records, RemoteChange(r)
  PROVE  /\ remote' \in [Records -> [at : 0..MaxTime, change : 0..MaxChanges]]
         /\ remote'[r].at = now /\ now > 0 /\ remote'[r].change > 0
         /\ \A x \in Records : remote'[x].change >= remote[x].change
         /\ \A x \in Records \ {r} : remote'[x] = remote[x]
<1> DEFINE S == {remote[x].change : x \in Records}
           made == [at |-> now, change |-> ChangesSoFar + 1]
<1>1. /\ remote \in [Records -> [at : 0..MaxTime, change : 0..MaxChanges]]
      /\ now \in 1..MaxTime /\ MaxChanges \in Nat /\ MaxTime \in Nat
  BY MirrorAssumption DEF MirrorInv, TypeOK
<1>2. ChangesSoFar = Max(S) /\ ChangesSoFar < MaxChanges /\ remote' = [remote EXCEPT ![r] = made]
  BY DEF ChangesSoFar, RemoteChange
<1>3. S \in SUBSET (0..MaxChanges) /\ S # {}
  BY <1>1
<1>4. ChangesSoFar \in 0..MaxChanges /\ \A x \in Records : ChangesSoFar >= remote[x].change
  BY <1>1, <1>2, <1>3, MaxIsGreatest
<1>5. made \in [at : 0..MaxTime, change : 0..MaxChanges] /\ made.at = now /\ made.change = ChangesSoFar + 1
  BY <1>1, <1>2, <1>4
<1> HIDE DEF made
<1>6. remote'[r] = made /\ \A x \in Records \ {r} : remote'[x] = remote[x]
  BY <1>1, <1>2
<1>7. \A x \in Records : remote[x].change \in Nat
  BY <1>1
<1> QED
  BY <1>1, <1>2, <1>4, <1>5, <1>6, <1>7

LEMMA ChangeCompletes ==
  ASSUME MirrorInv, NEW r \in Records, RemoteChange(r)
  PROVE  /\ completed \subseteq completed' /\ completed' \subseteq Jobs /\ completed' \subseteq completed \cup {r}
         /\ disturbed \subseteq disturbed' /\ disturbed' \subseteq disturbed \cup {"jobs"}
         /\ completed' = completed \/ "jobs" \in disturbed'
              \/ ~(pull["sync"].pc # "idle" /\ pull["sync"].entity = "jobs")
BY DEF RemoteChange, MirrorInv, TypeOK

LEMMA ChangeKeepsPull ==
  ASSUME MirrorInv, NEW r \in Records, RemoteChange(r), NEW o \in Pullers
  PROVE  PullSound(o)'
<1> DEFINE q == pull[o]
<1>1. PullShape(o, q) /\ PullRows(q) /\ PullCovers(q) /\ TypeOK
  BY DEF MirrorInv, PullSound
<1>2. /\ now' = now /\ mirror' = mirror /\ skipped' = skipped /\ pull' = pull
  BY DEF RemoteChange
<1>3. CASE q.pc = "idle"
  <2>1. pull'[o] = Idle
    BY <1>1, <1>2, <1>3 DEF PullShape
  <2> QED
    BY <2>1, IdleIsSound, MirrorAssumption
<1>4. CASE q.pc # "idle"
  <2>1. /\ q.began <= now /\ q.since <= q.began /\ q.entity \in Entity
        /\ q.began \in Nat /\ q.since \in Nat /\ now \in Nat
    BY <1>1, <1>4, MirrorAssumption DEF PullShape, Pull, TypeOK
  <2>2. /\ remote' \in [Records -> [at : 0..MaxTime, change : 0..MaxChanges]]
        /\ remote'[r].at = now /\ now > 0 /\ remote'[r].change > 0
        /\ \A x \in Records : remote'[x].change >= remote[x].change
        /\ \A x \in Records \ {r} : remote'[x] = remote[x]
    BY ChangeIsLatest
  <2>3. /\ completed \subseteq completed' /\ completed' \subseteq Jobs /\ completed' \subseteq completed \cup {r}
        /\ disturbed \subseteq disturbed' /\ disturbed' \subseteq disturbed \cup {"jobs"}
    BY ChangeCompletes
  <2>4. PullShape(o, pull[o])'
    BY <1>1, <1>2 DEF PullShape
  <2>5. PullRows(pull[o])'
    <3> SUFFICES ASSUME NEW row \in InHand(q) PROVE RowSound(pull[o], row)'
      BY <1>2 DEF PullRows, InHand
    <3>1. RowSound(q, row) /\ row.id \in Records /\ row.change \in Nat
      BY <1>1, MirrorAssumption DEF PullRows, RowSound, Row
    <3>2. Exempt(row.id) => Exempt(row.id)'
      BY <2>3 DEF Exempt
    <3>3. CASE row.id = r
      <4>1. remote'[r].at > 0 /\ ~(remote'[r].at < q.began)
        BY <2>1, <2>2
      <4>2. row.change <= remote'[r].change
        <5>1. remote[r].change \in Nat /\ remote'[r].change \in Nat
          BY <1>1, <2>2, MirrorAssumption DEF TypeOK
        <5> QED
          BY <5>1, <2>2, <3>1, <3>3 DEF RowSound
      <4> QED
        BY <1>2, <3>1, <3>2, <3>3, <4>1, <4>2 DEF RowSound
    <3>4. CASE row.id # r
      <4>1. remote'[row.id] = remote[row.id] /\ RowOf(row.id)' = RowOf(row.id)
        BY <2>2, <2>3, <3>1, <3>4 DEF RowOf
      <4> QED
        BY <1>2, <3>1, <3>2, <4>1 DEF RowSound
    <3> QED
      BY <3>3, <3>4
  <2>6. ASSUME NEW x \in Records, Wanted(q, x)' PROVE Wanted(q, x) /\ (x = r => q.entity = "deficiencies")
    <3>1. CASE q.entity = "deficiencies"
      BY <2>6, <1>2, <2>3, <3>1 DEF Wanted
    <3>2. CASE q.entity # "deficiencies"
      <4>1. /\ q.entity \notin disturbed' /\ x \in Settled(q.entity)' /\ remote'[x].at \in 1..(q.began - 1)
            /\ ~Shown(x)'
        BY <2>6, <1>2, <3>2 DEF Wanted
      <4>2. x # r
        BY <4>1, <2>1, <2>2
      <4>3. q.entity \notin disturbed /\ x \in Settled(q.entity)
        BY <4>1, <4>2, <1>2, <2>3, <2>1, Entities DEF Settled, Members
      <4> QED
        BY <4>1, <4>2, <4>3, <3>2, <1>2, <2>2 DEF Wanted, Shown
    <3> QED
      BY <3>1, <3>2
  <2>7. ASSUME NEW x \in Records, Wanted(q, x)', OnALaterPage(q, x) PROVE OnALaterPage(q, x)'
    <3>1. q.entity \notin disturbed'
      BY <2>7, <1>2 DEF Wanted
    <3>2. q.entity = "jobs" => completed' = completed
      <4> SUFFICES ASSUME q.entity = "jobs" PROVE completed' = completed
        OBVIOUS
      <4>1. o = "sync"
        BY <1>1, <1>4 DEF PullShape, Pullers
      <4> QED
        BY <4>1, <3>1, <1>4, ChangeCompletes
    <3>3. Members(q.entity, q.since) \subseteq Members(q.entity, q.since)'
      BY <3>2, <1>2, <2>1, <2>3, Entities DEF Members
    <3>4. completed \subseteq Jobs /\ completed' \subseteq Jobs
      BY <1>1, <2>3 DEF TypeOK
    <3>5. Listing(q.entity, q.since) \subseteq Records
      BY <2>1, <3>4, ListingFinite, KindsAreRecords
    <3>6. Listing(q.entity, q.since) \subseteq Listing(q.entity, q.since)'
      <4> SUFFICES ASSUME NEW y \in Listing(q.entity, q.since) PROVE y \in Listing(q.entity, q.since)'
        OBVIOUS
      <4>1. y \in Records /\ y \in Members(q.entity, q.since)' /\ remote[y].at > 0 /\ remote[y].at >= q.since
        BY <3>3, <3>5 DEF Listing
      <4>2. remote'[y].at > 0 /\ remote'[y].at >= q.since
        <5>1. CASE y = r
          BY <5>1, <2>1, <2>2
        <5>2. CASE y # r
          BY <5>2, <4>1, <2>2
        <5> QED
          BY <5>1, <5>2
      <4> QED
        BY <4>1, <4>2, <1>2 DEF Listing
    <3>7. Below(q, x) \subseteq Below(q, x)'
      BY <3>6, <1>2 DEF Below
    <3>8. Below(q, x)' \in SUBSET Records
      <4>1. Members(q.entity, q.since)' \subseteq Records
        BY <1>2, <2>1, <3>4, Entities DEF Members, Records
      <4> QED
        BY <4>1, <1>2 DEF Below, Listing
    <3>9. /\ Cardinality(Below(q, x)) <= Cardinality(Below(q, x)')
          /\ Cardinality(Below(q, x)) \in Nat /\ Cardinality(Below(q, x)') \in Nat
      <4>1. IsFiniteSet(Below(q, x)') /\ IsFiniteSet(Below(q, x))
        BY <3>7, <3>8, MirrorAssumption, FS_Subset
      <4> QED
        BY <3>7, <4>1, FS_Subset, FS_CardinalityType
    <3>10. PagesRead(q)' = PagesRead(q) /\ PagesRead(q) * PageSize \in Int
      BY <1>1, <1>2, MirrorAssumption DEF PagesRead, PullShape, Pull
    <3> QED
      BY <2>7, <1>2, <3>6, <3>9, <3>10 DEF OnALaterPage
  <2>8. ASSUME NEW x \in Records, Wanted(q, x)' PROVE HasRow(q, x)' \/ OnALaterPage(q, x)'
    <3>1. HasRow(q, x) \/ OnALaterPage(q, x)
      BY <1>1, <1>4, <2>6, <2>8 DEF PullCovers
    <3> QED
      BY <3>1, <2>7, <2>8, <1>2 DEF HasRow, InHand
  <2> QED
    BY <1>2, <2>4, <2>5, <2>8 DEF PullSound, PullCovers
<1> QED
  BY <1>3, <1>4

LEMMA RemoteChangeKeepsInv == ASSUME MirrorInv, NEW r \in Records, RemoteChange(r) PROVE MirrorInv'
<1>1. /\ remote' \in [Records -> [at : 0..MaxTime, change : 0..MaxChanges]]
      /\ remote'[r].at = now /\ now > 0 /\ remote'[r].change > 0
      /\ \A x \in Records : remote'[x].change >= remote[x].change
      /\ \A x \in Records \ {r} : remote'[x] = remote[x]
  BY ChangeIsLatest
<1>2. /\ completed \subseteq completed' /\ completed' \subseteq Jobs /\ completed' \subseteq completed \cup {r}
      /\ disturbed \subseteq disturbed' /\ disturbed' \subseteq disturbed \cup {"jobs"}
  BY ChangeCompletes
<1>3. /\ now' = now /\ mirror' = mirror /\ skipped' = skipped /\ cursor' = cursor /\ noted' = noted
      /\ pull' = pull /\ acts' = acts /\ TypeOK /\ TablesSound
  BY DEF RemoteChange, MirrorInv
<1>4. TypeOK'
  BY <1>1, <1>2, <1>3, Entities DEF TypeOK
<1>5. TablesSound'
  <2>1. ASSUME NEW x \in Records
        PROVE  /\ mirror[x] <= remote'[x].change /\ skipped[x] <= remote'[x].change
               /\ remote'[x].change > 0 <=> remote'[x].at > 0
    <3>1. /\ mirror[x] \in Nat /\ skipped[x] \in Nat /\ remote[x].change \in Nat /\ remote'[x].change \in Nat
      BY <1>1, <1>3, MirrorAssumption DEF TypeOK
    <3> QED
      BY <1>1, <1>3, <3>1 DEF TablesSound
  <2> QED
    BY <2>1, <1>3 DEF TablesSound
<1>6. CursorCovers'
  <2> SUFFICES ASSUME NEW e \in Entity \ {"deficiencies"}, e \notin disturbed',
                      NEW x \in Settled(e)', remote'[x].at \in 1..(cursor[e] - 1)
               PROVE  remote'[x].change \in {mirror[x], skipped[x]}
    BY <1>3 DEF CursorCovers
  <2>1. cursor[e] <= now /\ cursor[e] \in Nat /\ now \in Nat
    BY <1>3, MirrorAssumption DEF TypeOK, TablesSound
  <2>2. x # r
    BY <1>1, <2>1
  <2>3. e \notin disturbed /\ x \in Settled(e)
    BY <1>2, <2>2, Entities DEF Settled, Members
  <2>4. x \in Records
    BY <2>3, NotExempt DEF MirrorInv
  <2> QED
    BY <1>1, <2>2, <2>3, <2>4 DEF MirrorInv, CursorCovers
<1>7. DisturbedSound'
  BY <1>2, <1>3 DEF MirrorInv, DisturbedSound, Crossed
<1> QED
  BY <1>4, <1>5, <1>6, <1>7, ChangeKeepsPull DEF MirrorInv

LEMMA InitIsSound == ASSUME Init PROVE MirrorInv
<1>1. PICK pulled \in {0, 1} : /\ mirror = [r \in Records |-> pulled * remote[r].change]
                               /\ cursor = [e \in Entity |-> IF e = "deficiencies" THEN 0 ELSE pulled]
  BY DEF Init
<1>2. /\ now = 1 /\ completed = {} /\ noted = {} /\ disturbed = {} /\ acts = 0
      /\ remote = [r \in Records |-> IF r \in Old THEN [at |-> 1, change |-> 1] ELSE [at |-> 0, change |-> 0]]
      /\ skipped = [r \in Records |-> 0] /\ pull = [p \in Pullers |-> Idle]
  BY DEF Init
<1>3. MaxTime \in Nat \ {0} /\ MaxChanges \in Nat \ {0} /\ MaxActs \in Nat
  BY MirrorAssumption
<1>4. /\ remote \in [Records -> [at : 0..MaxTime, change : 0..MaxChanges]]
      /\ \A r \in Records : remote[r].change \in {0, 1} /\ remote[r].change = remote[r].at
  <2>1. [at |-> 1, change |-> 1] \in [at : 0..MaxTime, change : 0..MaxChanges]
    BY <1>3
  <2>2. [at |-> 0, change |-> 0] \in [at : 0..MaxTime, change : 0..MaxChanges]
    BY <1>3
  <2> QED
    BY <1>2, <2>1, <2>2
<1>5. mirror \in [Records -> 0..MaxChanges] /\ \A r \in Records : mirror[r] <= remote[r].change
  BY <1>1, <1>3, <1>4
<1>6. TypeOK
  BY <1>1, <1>2, <1>3, <1>4, <1>5, PullTypes DEF TypeOK
<1>7. TablesSound
  BY <1>1, <1>2, <1>4, <1>5 DEF TablesSound
<1>8. DisturbedSound
  BY <1>2 DEF DisturbedSound, Crossed, Pullers, Idle
<1>9. CursorCovers
  BY <1>1 DEF CursorCovers
<1>10. ASSUME NEW p \in Pullers PROVE PullSound(p)
  BY <1>2, PullTypes DEF PullSound, PullShape, PullRows, PullCovers, InHand, Idle
<1> QED
  BY <1>6, <1>7, <1>8, <1>9, <1>10 DEF MirrorInv

-----------------------------------------------------------------------------
(* MirrorInv is an invariant of the pulls and of ServiceTrade under them.     *)
THEOREM PullsAreSound == Spec => []MirrorInv
<1>1. Init => MirrorInv
  BY InitIsSound
<1>2. MirrorInv /\ [Next]_vars => MirrorInv'
  <2> SUFFICES ASSUME MirrorInv, [Next]_vars PROVE MirrorInv'
    OBVIOUS
  <2>1. CASE \/ ScheduledSync \/ ReviewsPull \/ DeskRefresh
             \/ \E e \in Entity \ {"deficiencies", "completed_jobs"} : StartPull(e)
             \/ \E p \in Pullers : FetchFails(p)
    BY <2>1, BeginningsKeepInv
  <2>2. ASSUME NEW p \in Pullers, Fetch(p) \/ NextPage(p) \/ Finish(p) \/ RebuildInterrupted(p)
        PROVE  MirrorInv'
    BY <2>2, FetchKeepsInv, NextPageKeepsInv, FinishKeepsInv, RebuildInterruptedKeepsInv
  <2>3. CASE Tick \/ Kill
    BY <2>3, TickKeepsInv, KillKeepsInv
  <2>4. ASSUME NEW r \in Records, RemoteChange(r) PROVE MirrorInv'
    BY <2>4, RemoteChangeKeepsInv
  <2>5. ASSUME NEW d \in Deficiencies, Dispose(d) PROVE MirrorInv'
    BY <2>5, DisposeKeepsInv
  <2>6. CASE UNCHANGED vars
    <3>1. /\ now' = now /\ remote' = remote /\ completed' = completed /\ mirror' = mirror
          /\ skipped' = skipped /\ cursor' = cursor /\ noted' = noted /\ pull' = pull
          /\ disturbed' = disturbed /\ acts' = acts
      BY <2>6 DEF vars
    <3>2. TypeOK' /\ now <= now'
      BY <3>1, MirrorAssumption DEF MirrorInv, TypeOK
    <3> QED
      BY <3>1, <3>2, QuietStepKeepsInv DEF MirrorInv, TablesSound
  <2> QED
    BY <2>1, <2>2, <2>3, <2>4, <2>5, <2>6 DEF Next
<1> QED
  BY <1>1, <1>2, PTL DEF Spec

(* No listing's cursor passes a change the mirror does not show: syncAccounts, *)
(* pullSites and the rest set st_cursor_<entity> to the time the pull began,   *)
(* and what is older was on a page of it, of whatever length and however many. *)
THEOREM CursorNeverPassesAChange == Spec => []CursorCovers
<1>1. MirrorInv => CursorCovers
  BY DEF MirrorInv
<1> QED
  BY <1>1, PullsAreSound, PTL

(* A step that writes the mirror is a page's, or the rebuild's.               *)
LEMMA StepsForward ==
  ASSUME MirrorInv, [Next]_vars
  PROVE  /\ \A r \in Records : ~Exempt(r) => mirror'[r] >= mirror[r]
         /\ pull' = pull \/ noted \subseteq noted' \/ "deficiencies" \in disturbed'
<1>0. \A r \in Records : mirror[r] \in Nat
  <2>1. mirror \in [Records -> 0..MaxChanges] /\ MaxChanges \in Nat
    BY MirrorAssumption DEF MirrorInv, TypeOK
  <2> QED
    BY <2>1
<1>1. ASSUME mirror' = mirror, noted' = noted \/ pull' = pull
      PROVE  /\ \A r \in Records : ~Exempt(r) => mirror'[r] >= mirror[r]
             /\ pull' = pull \/ noted \subseteq noted' \/ "deficiencies" \in disturbed'
  BY <1>0, <1>1
<1>2. ASSUME NEW p \in Pullers, pull[p].pc = "answered", Stores(pull[p]), UNCHANGED remote,
             pull[p].entity = "deficiencies" => pull[p].page >= pull[p].pages \/ ~Ready(pull[p])
      PROVE  \A r \in Records : ~Exempt(r) => mirror'[r] >= mirror[r]
  <2> SUFFICES ASSUME NEW r \in Records, ~Exempt(r) PROVE mirror'[r] >= mirror[r]
    OBVIOUS
  <2>1. CASE r \notin Deficiencies
    BY <2>1, <1>2, StoresTypes
  <2>2. CASE r \notin Kind(pull[p].entity)
    BY <2>2, <1>0, <1>2, StoresTypes
  <2>3. CASE ~Ready(pull[p])
    BY <2>3, <1>0, <1>2 DEF Stores
  <2>4. CASE r \in Deficiencies /\ r \in Kind(pull[p].entity) /\ Ready(pull[p])
    <3>1. pull[p].entity \in Entity
      BY DEF MirrorInv, PullSound, PullShape, Pull
    <3>2. pull[p].entity = "deficiencies"
      BY <2>4, <3>1, JobsAreAKind, KindsApart DEF JobListings
    <3> QED
      BY <2>4, <3>2, <1>2, RebuildForward DEF Stores
  <2> QED
    BY <2>1, <2>2, <2>3, <2>4
<1>3. ASSUME NEW p \in Pullers, NextPage(p) \/ Finish(p)
      PROVE  /\ \A r \in Records : ~Exempt(r) => mirror'[r] >= mirror[r]
             /\ noted \subseteq noted' \/ "deficiencies" \in disturbed'
  <2>1. /\ pull[p].pc = "answered" /\ UNCHANGED remote /\ disturbed \subseteq disturbed' /\ WritePage(p)
        /\ pull[p].page < pull[p].pages \/ pull[p].page >= pull[p].pages
    BY <1>3 DEF NextPage, Finish, Pulls
  <2>2. Stores(pull[p]) /\ \A d \in noted : d \in noted' \/ ~(mirror'[d] > 0)
    BY <2>1, PageStores
  <2>3. pull[p].page \in Nat /\ pull[p].pages \in Nat
    BY DEF MirrorInv, TypeOK, Pull
  <2>4. pull[p].entity = "deficiencies" => pull[p].page >= pull[p].pages \/ ~Ready(pull[p])
    BY <2>3 DEF Ready, Aggregated
  <2>5. \A r \in Records : ~Exempt(r) => mirror'[r] >= mirror[r]
    BY <1>2, <2>1, <2>2, <2>4
  <2>6. ASSUME "deficiencies" \notin disturbed', NEW d \in noted PROVE d \in noted'
    <3>1. d \in Deficiencies /\ d \in Records /\ mirror[d] > 0
      BY DEF MirrorInv, TypeOK, TablesSound, Records
    <3>2. ~Exempt(d)
      <4>1. d \notin Jobs
        BY <3>1, JobsAreAKind, KindsApart DEF JobListings
      <4> QED
        BY <4>1, <2>1, <2>6 DEF Exempt
    <3>3. mirror'[d] >= mirror[d] /\ mirror'[d] \in Nat
      BY <2>1, <2>2, <2>5, <3>1, <3>2, StoresTypes, MirrorAssumption
    <3> QED
      BY <1>0, <2>2, <3>1, <3>3
  <2> QED
    BY <2>5, <2>6
<1>4. ASSUME NEW p \in Pullers, RebuildInterrupted(p)
      PROVE  /\ \A r \in Records : ~Exempt(r) => mirror'[r] >= mirror[r]
             /\ "deficiencies" \in disturbed'
  <2>1. UNCHANGED remote /\ "deficiencies" \in disturbed' /\ pull[p].page >= pull[p].pages
    BY <1>4 DEF RebuildInterrupted
  <2> QED
    BY <1>2, <1>4, <2>1, InterruptedWrites
<1>5. CASE \/ ScheduledSync \/ ReviewsPull \/ DeskRefresh
           \/ \E e \in Entity \ {"deficiencies", "completed_jobs"} : StartPull(e)
           \/ \E p \in Pullers : Fetch(p) \/ FetchFails(p)
           \/ Tick \/ Kill
           \/ \E r \in Records : RemoteChange(r)
           \/ \E d \in Deficiencies : Dispose(d)
           \/ UNCHANGED vars
  <2>1. mirror' = mirror /\ (noted' = noted \/ pull' = pull)
    BY <1>5 DEF ScheduledSync, ReviewsPull, DeskRefresh, StartPull, Fetch, FetchFails, Tick, Kill,
                RemoteChange, Dispose, TablesStand, vars
  <2> QED
    BY <1>1, <2>1
<1> QED
  BY <1>3, <1>4, <1>5 DEF Next

(* The mirror does not go back: a page that was answered late is no older than *)
(* what is there, unless two pulls ran over one table at once (pull/:entity    *)
(* against a pull of routes/reviews.ts or routes/deficiencies.ts).             *)
THEOREM MirrorNeverGoesBack == Spec => NeverOlder
<1>1. MirrorInv /\ [Next]_vars =>
        [\A r \in Records : mirror'[r] >= mirror[r]
           \/ (r \in Jobs /\ JobListings \subseteq disturbed)
           \/ (r \in Deficiencies /\ "deficiencies" \in disturbed)]_vars
  <2> SUFFICES ASSUME MirrorInv, [Next]_vars, NEW r \in Records, ~(mirror'[r] >= mirror[r])
               PROVE  \/ r \in Jobs /\ JobListings \subseteq disturbed
                      \/ r \in Deficiencies /\ "deficiencies" \in disturbed
    OBVIOUS
  <2>1. Exempt(r)
    BY StepsForward
  <2> QED
    BY <2>1 DEF Exempt, MirrorInv, DisturbedSound, JobListings
<1> QED
  BY <1>1, PullsAreSound, PTL DEF Spec, NeverOlder

(* "Preserve human dispositions across the clean rebuild" (syncDeficiencies): *)
(* no pull loses one, as long as two refreshes do not run at once and no kill *)
(* parts the rebuild from the dispositions it puts back.                      *)
THEOREM RebuildKeepsDispositions == Spec => DispositionsKept
<1>1. MirrorInv /\ [Next]_vars =>
        [pull' # pull => noted \subseteq noted' \/ "deficiencies" \in disturbed']_vars
  BY StepsForward
<1> QED
  BY <1>1, PullsAreSound, PTL DEF Spec, DispositionsKept

-----------------------------------------------------------------------------
(* The exceptions queue.                                                      *)

(* The inductive invariant: the text of a resolution tells who closed a row.  *)
(* What nobody decided was closed by a detection, and a decision with a       *)
(* reason carries it.                                                         *)
MarkerTrue ==
  \A k \in Subjects :
    /\ exception[k].status = "closed" /\ decision[k] = "none" => exception[k].resolution = "auto"
    /\ decision[k] = "reasoned" => exception[k].resolution = "reason"

QueueInv == ExceptionsTypeOK /\ QueueIsPresent /\ MarkerTrue

LEMMA QueueInit == ExceptionsInit => QueueInv
<1> SUFFICES ASSUME ExceptionsInit PROVE QueueInv
  OBVIOUS
<1>1. \A k \in Subjects : exception[k] = NoRow /\ decision[k] = "none" /\ told[k] = "nothing"
  BY DEF ExceptionsInit
<1>2. NoRow \in Rows /\ NoRow.status = "none"
  BY DEF NoRow, Rows
<1>3. ExceptionsTypeOK
  BY <1>2, ExceptionsAssumption DEF ExceptionsInit, ExceptionsTypeOK, ExceptionsAssumption
<1> QED
  BY <1>1, <1>2, <1>3 DEF QueueInv, QueueIsPresent, MarkerTrue

(* A detection, whole or cut short, whatever it found and reached.            *)
LEMMA ReconcileKeeps ==
  ASSUME QueueInv, NEW found, NEW reached, Reconcile(found, reached)
  PROVE  QueueInv'
<1> USE DEF QueueInv, Reconcile
<1>1. ASSUME NEW k \in Subjects
      PROVE  /\ exception'[k] \in Rows
             /\ k \in found => /\ exception'[k] = Upserted(exception[k])
                               /\ told'[k] = "here"
             /\ k \notin found /\ k \in reached => /\ exception'[k] = AutoResolved(exception[k])
                                                  /\ told'[k] = "gone"
             /\ k \notin found /\ k \notin reached => /\ exception'[k] = exception[k]
                                                     /\ told'[k] = told[k]
  BY DEF ExceptionsTypeOK, Rows, Upserted, AutoResolved
<1>2. ExceptionsTypeOK'
  BY <1>1 DEF ExceptionsTypeOK
<1>3. ASSUME NEW k \in Subjects
      PROVE  /\ told'[k] = "here" /\ decision[k] = "none" => exception'[k].status \in {"open", "claimed"}
             /\ told'[k] = "gone" => exception'[k].status \in {"none", "closed"}
             /\ decision[k] = "reasoned" => exception'[k].status = "closed"
             /\ exception'[k].status = "closed" /\ decision[k] = "none" => exception'[k].resolution = "auto"
             /\ decision[k] = "reasoned" => exception'[k].resolution = "reason"
  BY <1>1 DEF ExceptionsTypeOK, Rows, QueueIsPresent, MarkerTrue, Upserted, AutoResolved
<1> QED
  BY <1>2, <1>3 DEF QueueIsPresent, MarkerTrue

LEMMA DecisionKeeps ==
  ASSUME QueueInv, NEW k \in Subjects, NEW status \in {"open", "claimed", "closed"}, NEW reasoned \in BOOLEAN,
         SetExceptionStatus(k, status, reasoned)
  PROVE  QueueInv'
<1> USE DEF QueueInv, SetExceptionStatus, ExceptionsTypeOK
<1>1. /\ exception'[k].status = status /\ told'[k] = "nothing"
      /\ exception'[k].resolution = IF reasoned THEN "reason" ELSE exception[k].resolution
      /\ decision'[k] = IF status # "closed" THEN "none" ELSE IF reasoned THEN "reasoned" ELSE "bare"
  BY DEF Rows
<1>2. \A j \in Subjects \ {k} : exception'[j] = exception[j] /\ told'[j] = told[j] /\ decision'[j] = decision[j]
  OBVIOUS
<1>3. ExceptionsTypeOK'
  <2>1. exception[k] \in Rows
    OBVIOUS
  <2>2. [exception[k] EXCEPT !.status = status,
                             !.resolution = IF reasoned THEN "reason" ELSE @] \in Rows
    BY <2>1 DEF Rows
  <2>3. exception' \in [Subjects -> Rows]
    BY <2>2
  <2>4. /\ decision' \in [Subjects -> {"none", "bare", "reasoned"}]
        /\ told' \in [Subjects -> {"nothing", "here", "gone"}]
    OBVIOUS
  <2>5. wrong' \subseteq Subjects /\ decided' \in 0 .. MaxDecided
    BY ExceptionsAssumption DEF ExceptionsAssumption
  <2> QED
    BY <2>3, <2>4, <2>5
<1> QED
  BY <1>1, <1>2, <1>3 DEF QueueIsPresent, MarkerTrue

LEMMA QueueStep == QueueInv /\ [ExceptionsNext]_exceptionVars => QueueInv'
<1> SUFFICES ASSUME QueueInv, [ExceptionsNext]_exceptionVars PROVE QueueInv'
  OBVIOUS
<1>1. ASSUME NEW k \in Subjects, MirrorChanges(k) PROVE QueueInv'
  BY <1>1 DEF MirrorChanges, QueueInv, ExceptionsTypeOK, QueueIsPresent, MarkerTrue
<1>2. ASSUME NEW thrown, DetectExceptions(thrown) PROVE QueueInv'
  BY <1>2, ReconcileKeeps DEF DetectExceptions
<1>3. ASSUME NEW thrown, NEW d, NEW closed, DetectionKilled(thrown, d, closed) PROVE QueueInv'
  BY <1>3, ReconcileKeeps DEF DetectionKilled
<1>4. CASE UNCHANGED exceptionVars
  BY <1>4 DEF exceptionVars, QueueInv, ExceptionsTypeOK, QueueIsPresent, MarkerTrue
<1> QED
  BY <1>1, <1>2, <1>3, <1>4, DecisionKeeps DEF ExceptionsNext

(* "The queue reflects the present, not a pile of stale alerts"               *)
(* (exceptions.ts:7), kills and throwing detectors included, and no detection *)
(* brings back what a person closed with a reason.                            *)
THEOREM QueueReflectsThePresent == ExceptionsSpec => []QueueIsPresent
<1>1. QueueInv => QueueIsPresent
  BY DEF QueueInv
<1> QED
  BY QueueInit, QueueStep, <1>1, PTL DEF ExceptionsSpec

-----------------------------------------------------------------------------
(* The scan: what a walk has before it, and what that owes to the tree.       *)

PlaceType == [folder : Folders, depth : 0..MaxDepth, page : Nat \ {0}]
Walk == [at : {"page", "items"}, queue : Seq(PlaceType), current : PlaceType \cup {NoFolder},
         rest : Seq(Items)]

(* The walk as it stands in the row.                                          *)
RowWalk == [at |-> "page", queue |-> scan.queue, current |-> scan.current, rest |-> <<>>]

WalkOK(w) ==
  /\ w \in Walk
  /\ \A n \in DOMAIN w.queue : w.queue[n].page = 1
  /\ w.current # NoFolder => w.current.page \in DOMAIN PagesOf[w.current.folder]
  /\ w.at = "page" => w.rest = <<>>
  /\ w.at = "items" => w.current # NoFolder

InPage(f, p, j) == \E k \in DOMAIN PagesOf[f][p] : PagesOf[f][p][k] = j
InRest(w, j) == \E k \in DOMAIN w.rest : w.rest[k] = j

(* Items on the pages of the current folder that are still to be asked for.   *)
From(w) == IF w.at = "items" THEN w.current.page + 1 ELSE w.current.page
ToCome(w, j) ==
  /\ w.current # NoFolder
  /\ \E p \in DOMAIN PagesOf[w.current.folder] : p >= From(w) /\ InPage(w.current.folder, p, j)

(* The walk comes to every share, or has: with some set of places it has      *)
(* listed, the roots and all folders below a listed one are listed, in the    *)
(* queue or in progress.                                                      *)
IsOpen(w, f, d) ==
  \/ \E n \in DOMAIN w.queue : w.queue[n].folder = f /\ w.queue[n].depth = d
  \/ w.current # NoFolder /\ w.current.folder = f /\ w.current.depth = d

Known(w, D, f, d) == <<f, d>> \in D \/ IsOpen(w, f, d)
DealtWith(w, D, T, j, d) ==
  /\ j \in Shared => j \in T
  /\ j \in Folders /\ d < MaxDepth => Known(w, D, j, d + 1)

CoversBy(w, D, T) ==
  /\ \A n \in DOMAIN Drives : Known(w, D, Drives[n], 0)
  /\ \A f \in Folders, d \in 0..MaxDepth : <<f, d>> \in D =>
       \A p \in DOMAIN PagesOf[f], j \in Items : InPage(f, p, j) => DealtWith(w, D, T, j, d)
  /\ w.current # NoFolder =>
       \A p \in DOMAIN PagesOf[w.current.folder], j \in Items :
         InPage(w.current.folder, p, j) =>
           DealtWith(w, D, T, j, w.current.depth) \/ InRest(w, j) \/ ToCome(w, j)

Covers(w, T) == \E D \in SUBSET (Folders \X (0..MaxDepth)) : CoversBy(w, D, T)

(* The way to an item, and whether a walk is still to come to the item.       *)
Way(i) == CHOOSE way \in SUBSET Items : IsWay(way, i)
Above(i) == Way(i) \ {i}

QueueHit(w, i) == \E n \in DOMAIN w.queue : w.queue[n].folder \in Above(i)
RestHit(w, i) == \E k \in DOMAIN w.rest : w.rest[k] \in Way(i)
PagesHit(w, i) == \E j \in Way(i) : ToCome(w, j)
Pending(w, i) == QueueHit(w, i) \/ RestHit(w, i) \/ PagesHit(w, i)

OneWay(w, i) ==
  /\ \A m, n \in DOMAIN w.queue :
       w.queue[m].folder \in Above(i) /\ w.queue[n].folder \in Above(i) => m = n
  /\ \A k, l \in DOMAIN w.rest : w.rest[k] \in Way(i) /\ w.rest[l] \in Way(i) => k = l
  /\ ~(QueueHit(w, i) /\ RestHit(w, i))
  /\ ~(QueueHit(w, i) /\ PagesHit(w, i))
  /\ ~(RestHit(w, i) /\ PagesHit(w, i))

WalkSound(w) == WalkOK(w) /\ \A i \in Items : OneWay(w, i)

-----------------------------------------------------------------------------
(* The tree.                                                                  *)
LEMMA TreeFacts ==
  /\ \A f \in Folders : f \in Items /\ PagesOf[f] \in Seq(Seq(Items)) /\ 1 \in DOMAIN PagesOf[f]
                        /\ \A p \in DOMAIN PagesOf[f] : PagesOf[f][p] \in Seq(Items)
  /\ MaxDepth \in Nat /\ "none" \notin Folders
  /\ \A c \in PlaceType : c # NoFolder
<1>1. ASSUME NEW f \in Folders
      PROVE  f \in Items /\ PagesOf[f] \in Seq(Seq(Items)) /\ 1 \in DOMAIN PagesOf[f]
             /\ \A p \in DOMAIN PagesOf[f] : PagesOf[f][p] \in Seq(Items)
  BY SpScanAssumption DEF Items
<1>2. \A c \in PlaceType : c # NoFolder
  BY SpScanAssumption DEF PlaceType, NoFolder
<1> QED BY <1>1, <1>2, SpScanAssumption

LEMMA WayIs == \A i \in Items : Way(i) \in SUBSET Items /\ IsWay(Way(i), i)
BY SpScanAssumption DEF Way

LEMMA RootsApart ==
  \A i \in Items : \A m, n \in DOMAIN Drives : Drives[m] \in Way(i) /\ Drives[n] \in Way(i) => m = n
BY WayIs DEF IsWay

LEMMA ListingApart ==
  ASSUME NEW i \in Items, NEW f \in Folders, NEW p \in DOMAIN PagesOf[f], NEW q \in DOMAIN PagesOf[f],
         NEW k \in DOMAIN PagesOf[f][p], NEW l \in DOMAIN PagesOf[f][q],
         PagesOf[f][p][k] \in Way(i), PagesOf[f][q][l] \in Way(i)
  PROVE  f \in Above(i) /\ p = q /\ k = l
BY WayIs DEF IsWay, Above

LEMMA ListedIs ==
  \A f \in Folders : \A j : j \in Listed(f) <=> \E p \in DOMAIN PagesOf[f] : InPage(f, p, j)
BY DEF Listed, ToSet, InPage

-----------------------------------------------------------------------------
(* The next folder of the queue.                                              *)
LEMMA OpenedOK ==
  ASSUME NEW w, WalkSound(w), w.at = "page", ~Drained(w)
  PROVE  /\ WalkSound(Opened(w)) /\ Opened(w).current # NoFolder /\ Opened(w).at = "page"
         /\ \A i \in Items : Pending(Opened(w), i) => Pending(w, i)
         /\ \A T : Covers(w, T) => Covers(Opened(w), T)
<1> DEFINE v == Opened(w)
<1>1. CASE w.current # NoFolder
  BY <1>1 DEF Opened
<1>2. CASE w.current = NoFolder
  <2>w. w \in Walk /\ w.queue \in Seq(PlaceType) /\ w.queue # <<>> /\ w.rest = <<>>
    BY <1>2 DEF WalkSound, WalkOK, Drained, Walk
  <2> DEFINE c == Head(w.queue)
             f == c.folder
  <2>1. v = [w EXCEPT !.current = c, !.queue = Tail(w.queue)]
    BY <1>2 DEF Opened
  <2>2. v.at = "page" /\ v.rest = <<>> /\ v.current = c /\ v.queue = Tail(w.queue)
    BY <2>1, <2>w DEF Walk
  <2>3. /\ c \in PlaceType /\ c = w.queue[1] /\ 1 \in DOMAIN w.queue /\ c.page = 1
        /\ Tail(w.queue) \in Seq(PlaceType)
        /\ \A n \in DOMAIN v.queue : n + 1 \in DOMAIN w.queue /\ v.queue[n] = w.queue[n + 1] /\ n \in Nat /\ n > 0
        /\ \A n \in DOMAIN w.queue : n # 1 => n - 1 \in DOMAIN v.queue /\ v.queue[n - 1] = w.queue[n]
    BY <2>w, <2>2 DEF WalkSound, WalkOK
  <2>4. c # NoFolder /\ f \in Folders /\ c.depth \in 0..MaxDepth /\ 1 \in DOMAIN PagesOf[f]
    BY <2>3, TreeFacts DEF PlaceType
  <2>5. v \in Walk
    BY <2>1, <2>3, <2>w DEF Walk
  <2>6. WalkOK(v)
    BY <2>2, <2>3, <2>4, <2>5 DEF WalkOK, WalkSound
  <2>7. \A j : ToCome(v, j) <=> \E p \in DOMAIN PagesOf[f] : InPage(f, p, j)
    <3>1. \A p \in DOMAIN PagesOf[f] : p >= 1
      BY <2>4, TreeFacts
    <3> QED BY <2>2, <2>3, <2>4, <3>1 DEF ToCome, From
  <2>8. ASSUME NEW i \in Items
        PROVE  OneWay(v, i) /\ (Pending(v, i) => Pending(w, i))
    <3>1. OneWay(w, i)
      BY DEF WalkSound
    <3>2. PagesHit(v, i) => f \in Above(i)
      BY <2>4, <2>7, ListingApart DEF PagesHit, InPage
    <3>3. ~RestHit(v, i)
      BY <2>2 DEF RestHit
    <3>4. QueueHit(v, i) => QueueHit(w, i) /\ f \notin Above(i)
      <4> SUFFICES ASSUME NEW n \in DOMAIN v.queue, v.queue[n].folder \in Above(i)
                   PROVE  QueueHit(w, i) /\ f \notin Above(i)
        BY DEF QueueHit
      <4>1. n + 1 \in DOMAIN w.queue /\ w.queue[n + 1].folder \in Above(i) /\ n + 1 # 1
        BY <2>3
      <4> QED BY <2>3, <3>1, <4>1 DEF OneWay, QueueHit
    <3>5. f \in Above(i) => QueueHit(w, i)
      BY <2>3 DEF QueueHit
    <3>6. \A m, n \in DOMAIN v.queue :
            v.queue[m].folder \in Above(i) /\ v.queue[n].folder \in Above(i) => m = n
      <4> SUFFICES ASSUME NEW m \in DOMAIN v.queue, NEW n \in DOMAIN v.queue,
                          v.queue[m].folder \in Above(i), v.queue[n].folder \in Above(i)
                   PROVE  m = n
        OBVIOUS
      <4>1. /\ m + 1 \in DOMAIN w.queue /\ w.queue[m + 1].folder \in Above(i)
            /\ n + 1 \in DOMAIN w.queue /\ w.queue[n + 1].folder \in Above(i)
        BY <2>3
      <4>2. m + 1 = n + 1
        BY <3>1, <4>1 DEF OneWay
      <4> QED BY <2>3, <4>2
    <3>7. \A k, l \in DOMAIN v.rest : k = l
      BY <2>2
    <3> QED BY <3>2, <3>3, <3>4, <3>5, <3>6, <3>7 DEF OneWay, Pending
  <2>9. ASSUME NEW T, Covers(w, T) PROVE Covers(v, T)
    <3>1. PICK D \in SUBSET (Folders \X (0..MaxDepth)) : CoversBy(w, D, T)
      BY <2>9 DEF Covers
    <3>2. \A g, d : IsOpen(w, g, d) => IsOpen(v, g, d)
      <4> SUFFICES ASSUME NEW g, NEW d, NEW n \in DOMAIN w.queue,
                          w.queue[n].folder = g /\ w.queue[n].depth = d
                   PROVE  IsOpen(v, g, d)
        BY <1>2 DEF IsOpen
      <4>1. CASE n = 1
        BY <2>2, <2>3, <2>4, <4>1 DEF IsOpen
      <4>2. CASE n # 1
        BY <2>3, <4>2 DEF IsOpen
      <4> QED BY <4>1, <4>2
    <3>3. \A j, d : DealtWith(w, D, T, j, d) => DealtWith(v, D, T, j, d)
      BY <3>2 DEF DealtWith, Known
    <3>4. CoversBy(v, D, T)
      BY <2>2, <2>7, <3>1, <3>2, <3>3 DEF CoversBy, Known
    <3> QED BY <3>1, <3>4 DEF Covers
  <2> QED BY <2>2, <2>4, <2>6, <2>8, <2>9 DEF WalkSound
<1> QED BY <1>1, <1>2

(* A page comes: its items are the next.                                      *)
LEMMA ArrivesOK ==
  ASSUME NEW w, WalkSound(w), w.at = "page", w.current # NoFolder, NEW v,
         v = Arrived(w)
  PROVE  /\ WalkSound(v) /\ v.current = w.current /\ v.at = "items"
         /\ \A i \in Items : Pending(v, i) => Pending(w, i)
         /\ \A T : Covers(w, T) => Covers(v, T)
<1> DEFINE f == w.current.folder
           n == w.current.page
<1>1. /\ w \in Walk /\ w.current \in PlaceType /\ f \in Folders /\ n \in DOMAIN PagesOf[f]
      /\ PagesOf[f][n] \in Seq(Items) /\ DOMAIN PagesOf[f] \subseteq Nat
  <2>1. w \in Walk /\ w.current \in PlaceType /\ n \in DOMAIN PagesOf[f]
    BY DEF WalkSound, WalkOK, Walk
  <2>2. f \in Folders
    BY <2>1 DEF PlaceType
  <2>3. PagesOf[f] \in Seq(Seq(Items)) /\ PagesOf[f][n] \in Seq(Items)
    BY <2>1, <2>2, TreeFacts
  <2>4. DOMAIN PagesOf[f] \subseteq Nat
    BY <2>3
  <2> QED BY <2>1, <2>2, <2>3, <2>4
<1>2. /\ v \in Walk /\ v.at = "items" /\ v.rest = PagesOf[f][n]
      /\ v.current = w.current /\ v.queue = w.queue
  <2> DEFINE L == PagesOf[f][n]
  <2>1. L \in Seq(Items) /\ v = [w EXCEPT !.at = "items", !.rest = L]
    BY <1>1 DEF Arrived
  <2> HIDE DEF L
  <2>2. v \in Walk /\ v.at = "items" /\ v.rest = L
    BY <1>1, <2>1 DEF Walk
  <2>3. v.current = w.current /\ v.queue = w.queue
    BY <1>1, <2>1 DEF Walk
  <2> QED BY <2>2, <2>3 DEF L
<1>3. WalkOK(v)
  BY <1>1, <1>2 DEF WalkOK, WalkSound
<1>4. /\ \A j : ToCome(v, j) <=> \E p \in DOMAIN PagesOf[f] : p >= n + 1 /\ InPage(f, p, j)
      /\ \A j : ToCome(w, j) <=> \E p \in DOMAIN PagesOf[f] : p >= n /\ InPage(f, p, j)
      /\ \A j : InRest(v, j) <=> InPage(f, n, j)
  BY <1>2 DEF ToCome, From, InRest, InPage
<1>5. /\ \A j : ToCome(v, j) \/ InRest(v, j) <=> ToCome(w, j)
  <2>1. \A p \in DOMAIN PagesOf[f] : p >= n <=> p = n \/ p >= n + 1
    BY <1>1
  <2> QED BY <1>1, <1>4, <2>1
<1>6. ASSUME NEW i \in Items
      PROVE  OneWay(v, i) /\ (Pending(v, i) => Pending(w, i))
  <2>1. OneWay(w, i)
    BY DEF WalkSound
  <2>2. RestHit(v, i) => PagesHit(w, i)
    BY <1>5 DEF RestHit, InRest, PagesHit
  <2>3. PagesHit(v, i) => PagesHit(w, i)
    BY <1>5 DEF PagesHit
  <2>4. QueueHit(v, i) <=> QueueHit(w, i)
    BY <1>2 DEF QueueHit
  <2>5. ~(RestHit(v, i) /\ PagesHit(v, i))
    <3> SUFFICES ASSUME RestHit(v, i), PagesHit(v, i) PROVE FALSE
      OBVIOUS
    <3>1. PICK k \in DOMAIN PagesOf[f][n] : PagesOf[f][n][k] \in Way(i)
      BY <1>2 DEF RestHit
    <3>2. PICK j \in Way(i) : ToCome(v, j)
      BY DEF PagesHit
    <3>3. PICK p \in DOMAIN PagesOf[f] : p >= n + 1 /\ InPage(f, p, j)
      BY <1>4, <3>2
    <3>4. PICK l \in DOMAIN PagesOf[f][p] : PagesOf[f][p][l] = j
      BY <3>3 DEF InPage
    <3>5. n = p
      BY <1>1, <3>1, <3>2, <3>4, ListingApart
    <3> QED BY <1>1, <3>3, <3>5
  <2>6. \A k, l \in DOMAIN v.rest : v.rest[k] \in Way(i) /\ v.rest[l] \in Way(i) => k = l
    BY <1>1, <1>2, ListingApart
  <2> QED BY <1>2, <2>1, <2>2, <2>3, <2>4, <2>5, <2>6 DEF OneWay, Pending
<1>7. ASSUME NEW T, Covers(w, T) PROVE Covers(v, T)
  <2>1. PICK D \in SUBSET (Folders \X (0..MaxDepth)) : CoversBy(w, D, T)
    BY <1>7 DEF Covers
  <2>2. \A g, d : IsOpen(w, g, d) <=> IsOpen(v, g, d)
    BY <1>2 DEF IsOpen
  <2>3. \A j, d : DealtWith(w, D, T, j, d) <=> DealtWith(v, D, T, j, d)
    BY <2>2 DEF DealtWith, Known
  <2>4. \A j : ~InRest(w, j)
    <3>1. w.rest = <<>>
      BY DEF WalkSound, WalkOK
    <3> QED BY <3>1 DEF InRest
  <2>5. CoversBy(v, D, T)
    BY <1>2, <1>5, <2>1, <2>2, <2>3, <2>4 DEF CoversBy, Known
  <2> QED BY <2>1, <2>5 DEF Covers
<1> QED BY <1>2, <1>3, <1>6, <1>7 DEF WalkSound

(* An item of the page is dealt with.                                         *)
LEMMA ItemOK ==
  ASSUME NEW w, WalkSound(w), w.at = "items", w.rest # <<>>, NEW j, j = Head(w.rest), NEW v,
         v = Entered(w, j)
  PROVE  /\ WalkSound(v) /\ v.current = w.current /\ v.at = "items" /\ j \in Items
         /\ \A i \in Items : Pending(v, i) => Pending(w, i)
         /\ Pending(w, j) /\ ~Pending(v, j)
         /\ \A T, U : Covers(w, T) /\ T \subseteq U /\ (j \in Shared => j \in U) => Covers(v, U)
<1> DEFINE c == w.current
           enters == j \in Folders /\ c.depth < MaxDepth
           place == Place(j, c.depth + 1)
<1>1. /\ w \in Walk /\ c \in PlaceType /\ c # NoFolder /\ c.depth \in 0..MaxDepth /\ c.folder \in Folders
      /\ w.rest \in Seq(Items) /\ w.queue \in Seq(PlaceType)
  BY DEF WalkSound, WalkOK, Walk, PlaceType
<1>2. /\ j \in Items /\ j = w.rest[1] /\ 1 \in DOMAIN w.rest /\ Tail(w.rest) \in Seq(Items)
      /\ \A k \in DOMAIN Tail(w.rest) : k + 1 \in DOMAIN w.rest /\ Tail(w.rest)[k] = w.rest[k + 1] /\ k \in Nat /\ k > 0
      /\ \A k \in DOMAIN w.rest : k # 1 => k - 1 \in DOMAIN Tail(w.rest) /\ Tail(w.rest)[k - 1] = w.rest[k]
  BY <1>1
<1>3. enters => place \in PlaceType
  BY <1>1, TreeFacts DEF Place, PlaceType
<1>4. /\ v.at = "items" /\ v.current = c /\ v.rest = Tail(w.rest)
      /\ v.queue = IF enters THEN Append(w.queue, place) ELSE w.queue
  BY <1>1 DEF Entered, Walk
<1>q. ASSUME NEW q \in Seq(PlaceType), NEW e \in PlaceType
      PROVE  /\ Append(q, e) \in Seq(PlaceType)
             /\ \A n \in DOMAIN q : n \in DOMAIN Append(q, e) /\ Append(q, e)[n] = q[n]
             /\ Len(q) + 1 \in DOMAIN Append(q, e) /\ Append(q, e)[Len(q) + 1] = e
             /\ \A n \in DOMAIN Append(q, e) :
                  n \in DOMAIN q \/ (n = Len(q) + 1 /\ Append(q, e)[n] = e)
  OBVIOUS
<1>5. v \in Walk
  <2>1. v.queue \in Seq(PlaceType)
    <3> HIDE DEF place, c
    <3>1. CASE enters
      <4>1. v.queue = Append(w.queue, place) /\ place \in PlaceType /\ w.queue \in Seq(PlaceType)
        BY <1>1, <1>3, <1>4, <3>1
      <4>2. Append(w.queue, place) \in Seq(PlaceType)
        BY <1>q, <4>1
      <4> QED BY <4>1, <4>2
    <3>2. CASE ~enters
      BY <1>1, <1>4, <3>2
    <3> QED BY <3>1, <3>2
  <2>2. v = [w EXCEPT !.rest = Tail(w.rest), !.queue = v.queue]
    BY <1>1, <1>4 DEF Entered, Walk
  <2> QED BY <1>1, <1>2, <2>1, <2>2 DEF Walk
<1>6. /\ \A n \in DOMAIN w.queue : n \in DOMAIN v.queue /\ v.queue[n] = w.queue[n]
      /\ enters => \E n \in DOMAIN v.queue : v.queue[n] = place
      /\ \A n \in DOMAIN v.queue :
           n \in DOMAIN w.queue \/ (enters /\ n = Len(w.queue) + 1 /\ v.queue[n] = place)
  <2> HIDE DEF place, c
  <2>1. CASE enters
    <3>1. v.queue = Append(w.queue, place) /\ place \in PlaceType /\ w.queue \in Seq(PlaceType)
      BY <1>1, <1>3, <1>4, <2>1
    <3> QED BY <1>q, <2>1, <3>1
  <2>2. CASE ~enters
    BY <1>4, <2>2
  <2> QED BY <2>1, <2>2
<1>7. WalkOK(v)
  <2>1. place.page = 1
    BY DEF Place
  <2> QED BY <1>1, <1>4, <1>5, <1>6, <2>1 DEF WalkOK, WalkSound
<1>8. \A o : ToCome(v, o) <=> ToCome(w, o)
  BY <1>4 DEF ToCome, From, WalkSound
<1>9. ASSUME NEW i \in Items
      PROVE  /\ OneWay(v, i) /\ (Pending(v, i) => Pending(w, i))
             /\ i = j => Pending(w, i) /\ ~Pending(v, i)
  <2>1. OneWay(w, i)
    BY DEF WalkSound
  <2>2. RestHit(v, i) => RestHit(w, i) /\ j \notin Way(i)
    <3> SUFFICES ASSUME NEW k \in DOMAIN v.rest, v.rest[k] \in Way(i)
                 PROVE  RestHit(w, i) /\ j \notin Way(i)
      BY DEF RestHit
    <3>t. k \in DOMAIN Tail(w.rest) /\ v.rest[k] = Tail(w.rest)[k]
      BY <1>4
    <3>1. k + 1 \in DOMAIN w.rest /\ w.rest[k + 1] \in Way(i) /\ k + 1 # 1
      BY <1>2, <3>t
    <3> QED BY <1>2, <2>1, <3>1 DEF RestHit, OneWay
  <2>3. j \in Way(i) => RestHit(w, i)
    BY <1>2 DEF RestHit
  <2>4. PagesHit(v, i) <=> PagesHit(w, i)
    BY <1>8 DEF PagesHit
  <2>5. QueueHit(v, i) => QueueHit(w, i) \/ (enters /\ j \in Above(i))
    BY <1>6 DEF QueueHit, Place
  <2>6. Above(i) = Way(i) \ {i}
    BY DEF Above
  <2>7. \A k, l \in DOMAIN v.rest : v.rest[k] \in Way(i) /\ v.rest[l] \in Way(i) => k = l
    <3> SUFFICES ASSUME NEW k \in DOMAIN v.rest, NEW l \in DOMAIN v.rest,
                        v.rest[k] \in Way(i), v.rest[l] \in Way(i)
                 PROVE  k = l
      OBVIOUS
    <3>1. /\ k + 1 \in DOMAIN w.rest /\ w.rest[k + 1] \in Way(i) /\ k \in Nat
          /\ l + 1 \in DOMAIN w.rest /\ w.rest[l + 1] \in Way(i) /\ l \in Nat
      BY <1>2, <1>4
    <3>2. k + 1 = l + 1
      BY <2>1, <3>1 DEF OneWay
    <3> QED BY <3>1, <3>2
  <2>8. \A m, n \in DOMAIN v.queue :
          v.queue[m].folder \in Above(i) /\ v.queue[n].folder \in Above(i) => m = n
    <3> SUFFICES ASSUME NEW m \in DOMAIN v.queue, NEW n \in DOMAIN v.queue,
                        v.queue[m].folder \in Above(i), v.queue[n].folder \in Above(i)
                 PROVE  m = n
      OBVIOUS
    <3>1. CASE m \in DOMAIN w.queue /\ n \in DOMAIN w.queue
      BY <1>6, <2>1, <3>1 DEF OneWay
    <3>2. CASE m \notin DOMAIN w.queue \/ n \notin DOMAIN w.queue
      <4>1. j \in Above(i)
        BY <1>6, <3>2 DEF Place
      <4>2. ~QueueHit(w, i)
        BY <2>1, <2>3, <2>6, <4>1 DEF OneWay
      <4>3. m \notin DOMAIN w.queue /\ n \notin DOMAIN w.queue
        BY <1>6, <4>2 DEF QueueHit
      <4> QED BY <1>6, <4>3
    <3> QED BY <3>1, <3>2
  <2>9. OneWay(v, i) /\ (Pending(v, i) => Pending(w, i))
    BY <2>1, <2>2, <2>3, <2>4, <2>5, <2>6, <2>7, <2>8 DEF OneWay, Pending
  <2>10. ASSUME i = j PROVE Pending(w, i) /\ ~Pending(v, i)
    <3>1. i \in Way(i) /\ i \notin Above(i)
      BY WayIs, <2>6 DEF IsWay
    <3> QED BY <2>1, <2>2, <2>3, <2>4, <2>5, <2>10, <3>1 DEF OneWay, Pending
  <2> QED BY <2>9, <2>10
<1>10. ASSUME NEW T, NEW U, Covers(w, T), T \subseteq U, j \in Shared => j \in U
       PROVE  Covers(v, U)
  <2>1. PICK D \in SUBSET (Folders \X (0..MaxDepth)) : CoversBy(w, D, T)
    BY <1>10 DEF Covers
  <2>2. \A g, d : IsOpen(w, g, d) => IsOpen(v, g, d)
    BY <1>4, <1>6 DEF IsOpen
  <2>3. \A g, d : Known(w, D, g, d) => Known(v, D, g, d)
    BY <2>2 DEF Known
  <2>4. \A o, d : DealtWith(w, D, T, o, d) => DealtWith(v, D, U, o, d)
    BY <1>10, <2>3 DEF DealtWith
  <2>5. DealtWith(v, D, U, j, c.depth)
    <3>1. enters => IsOpen(v, j, c.depth + 1)
      BY <1>6 DEF IsOpen, Place
    <3> QED BY <1>10, <3>1 DEF DealtWith, Known
  <2>6. \A o : InRest(w, o) => o = j \/ InRest(v, o)
    <3> SUFFICES ASSUME NEW k \in DOMAIN w.rest, w.rest[k] # j PROVE InRest(v, w.rest[k])
      BY DEF InRest
    <3>1. k # 1
      BY <1>2
    <3>2. k - 1 \in DOMAIN v.rest /\ v.rest[k - 1] = w.rest[k]
      BY <1>2, <1>4, <3>1
    <3> QED BY <3>2 DEF InRest
  <2>7. CoversBy(v, D, U)
    BY <1>4, <1>8, <2>1, <2>3, <2>4, <2>5, <2>6 DEF CoversBy
  <2> QED BY <2>1, <2>7 DEF Covers
<1> QED BY <1>2, <1>4, <1>7, <1>9, <1>10 DEF WalkSound

(* The page is done: the next one, or the folder is listed.                   *)
LEMMA TurnedOK ==
  ASSUME NEW w, WalkSound(w), w.at = "items", w.rest = <<>>, NEW v,
         v = [Turned(w) EXCEPT !.at = "page"]
  PROVE  /\ WalkSound(v) /\ v.at = "page"
         /\ \A i \in Items : Pending(v, i) => Pending(w, i)
         /\ \A T : Covers(w, T) => Covers(v, T)
<1> DEFINE c == w.current
           f == c.folder
           n == c.page
<1>1. /\ w \in Walk /\ c \in PlaceType /\ c # NoFolder /\ c.depth \in 0..MaxDepth /\ f \in Folders
      /\ n \in DOMAIN PagesOf[f] /\ DOMAIN PagesOf[f] = 1..Len(PagesOf[f]) /\ Len(PagesOf[f]) \in Nat
  BY TreeFacts DEF WalkSound, WalkOK, Walk, PlaceType
<1>2. v.queue = w.queue /\ v.rest = <<>> /\ v.at = "page"
  BY <1>1 DEF Turned, Walk
<1>3. \A j : ~InRest(w, j) /\ ~InRest(v, j)
  BY <1>2 DEF InRest
<1>4. \A i : ~RestHit(w, i) /\ ~RestHit(v, i)
  BY <1>2 DEF RestHit
<1>5. \A i : QueueHit(w, i) <=> QueueHit(v, i)
  BY <1>2 DEF QueueHit
<1>6. CASE n < Len(PagesOf[f])
  <2>1. v = [w EXCEPT !.at = "page", !.current = [c EXCEPT !.page = n + 1]]
    BY <1>1, <1>6 DEF Turned, Walk
  <2>2. /\ v.current = [c EXCEPT !.page = n + 1] /\ v.current \in PlaceType
        /\ v.current.folder = f /\ v.current.depth = c.depth /\ v.current.page = n + 1
    <3>1. v.current = [c EXCEPT !.page = n + 1]
      BY <1>1, <2>1 DEF Walk
    <3>2. [c EXCEPT !.page = n + 1] \in PlaceType
      BY <1>1 DEF PlaceType
    <3>3. /\ [c EXCEPT !.page = n + 1].folder = f /\ [c EXCEPT !.page = n + 1].depth = c.depth
          /\ [c EXCEPT !.page = n + 1].page = n + 1
      BY <1>1 DEF PlaceType
    <3> QED BY <3>1, <3>2, <3>3
  <2>3. v.current # NoFolder /\ n + 1 \in DOMAIN PagesOf[f]
    BY <1>1, <1>6, <2>2, TreeFacts
  <2>4. v \in Walk
    BY <1>1, <2>1, <2>2 DEF Walk
  <2>5. WalkOK(v)
    BY <1>2, <2>2, <2>3, <2>4 DEF WalkOK, WalkSound
  <2>6. \A j : ToCome(v, j) <=> ToCome(w, j)
    BY <1>1, <1>2, <2>2, <2>3 DEF ToCome, From
  <2>7. \A i : PagesHit(v, i) <=> PagesHit(w, i)
    BY <2>6 DEF PagesHit
  <2>8. \A i \in Items : OneWay(v, i)
    BY <1>2, <1>4, <1>5, <2>7 DEF OneWay, WalkSound
  <2>9. ASSUME NEW T, Covers(w, T) PROVE Covers(v, T)
    <3>1. PICK D \in SUBSET (Folders \X (0..MaxDepth)) : CoversBy(w, D, T)
      BY <2>9 DEF Covers
    <3>2. \A g, d : IsOpen(w, g, d) <=> IsOpen(v, g, d)
      BY <1>1, <1>2, <2>2, <2>3 DEF IsOpen
    <3>3. \A j, d : DealtWith(w, D, T, j, d) <=> DealtWith(v, D, T, j, d)
      BY <3>2 DEF DealtWith, Known
    <3>4. CoversBy(v, D, T)
      BY <1>1, <1>3, <2>2, <2>6, <3>1, <3>2, <3>3 DEF CoversBy, Known
    <3> QED BY <3>1, <3>4 DEF Covers
  <2> QED BY <1>2, <1>4, <1>5, <2>5, <2>7, <2>8, <2>9 DEF WalkSound, Pending
<1>7. CASE ~(n < Len(PagesOf[f]))
  <2>1. v = [w EXCEPT !.at = "page", !.current = NoFolder]
    BY <1>1, <1>7 DEF Turned, Walk
  <2>2. v.current = NoFolder
    BY <1>1, <2>1 DEF Walk
  <2>3. v \in Walk
    BY <1>1, <2>1 DEF Walk
  <2>4. WalkOK(v)
    BY <1>2, <2>2, <2>3 DEF WalkOK, WalkSound
  <2>5. \A j : ~ToCome(v, j)
    BY <2>2 DEF ToCome
  <2>6. \A j : ~ToCome(w, j)
    BY <1>1, <1>7 DEF ToCome, From
  <2>7. \A i : ~PagesHit(v, i) /\ ~PagesHit(w, i)
    BY <2>5, <2>6 DEF PagesHit
  <2>8. \A i \in Items : OneWay(v, i)
    BY <1>2, <1>4, <1>5, <2>7 DEF OneWay, WalkSound
  <2>9. ASSUME NEW T, Covers(w, T) PROVE Covers(v, T)
    <3>1. PICK D \in SUBSET (Folders \X (0..MaxDepth)) : CoversBy(w, D, T)
      BY <2>9 DEF Covers
    <3> DEFINE E == D \cup {<<f, c.depth>>}
    <3>2. E \in SUBSET (Folders \X (0..MaxDepth))
      BY <1>1
    <3>3. \A g, d : Known(w, D, g, d) => Known(v, E, g, d)
      BY <1>2 DEF Known, IsOpen
    <3>4. \A j, d : DealtWith(w, D, T, j, d) => DealtWith(v, E, T, j, d)
      BY <3>3 DEF DealtWith
    <3>5. \A p \in DOMAIN PagesOf[f], j \in Items : InPage(f, p, j) => DealtWith(v, E, T, j, c.depth)
      BY <1>1, <1>3, <2>6, <3>1, <3>4 DEF CoversBy
    <3>6. \A m \in DOMAIN Drives : Known(v, E, Drives[m], 0)
      BY <3>1, <3>3 DEF CoversBy
    <3>7. ASSUME NEW g \in Folders, NEW d \in 0..MaxDepth, <<g, d>> \in E,
                 NEW p \in DOMAIN PagesOf[g], NEW j \in Items, InPage(g, p, j)
          PROVE  DealtWith(v, E, T, j, d)
      <4>1. CASE <<g, d>> \in D
        BY <3>1, <3>4, <3>7, <4>1 DEF CoversBy
      <4>2. CASE g = f /\ d = c.depth
        BY <3>5, <3>7, <4>2
      <4> QED BY <3>7, <4>1, <4>2
    <3>8. CoversBy(v, E, T)
      BY <2>2, <3>6, <3>7 DEF CoversBy
    <3> QED BY <3>2, <3>8 DEF Covers
  <2> QED BY <1>2, <1>4, <1>5, <2>4, <2>7, <2>8, <2>9 DEF WalkSound, Pending
<1> QED BY <1>6, <1>7

(* A level is listed from the one above it.                                   *)
LEMMA LevelIs ==
  Level = [n \in 0..MaxDepth |->
             IF n = 0 THEN ToSet(Drives) ELSE Folders \cap UNION {Listed(f) : f \in Level[n - 1]}]
<1> DEFINE Subfolders(S) == Folders \cap UNION {Listed(f) : f \in S}
           IsLevel(g, m) == g = [n \in 0..m |-> IF n = 0 THEN ToSet(Drives) ELSE Subfolders(g[n - 1])]
           Bad == {m \in Nat : \A g : ~IsLevel(g, m)}
<1>1. Bad = {}
  <2> SUFFICES ASSUME Bad # {} PROVE FALSE
    OBVIOUS
  <2>b. Bad \in SUBSET Nat
    OBVIOUS
  <2>1. PICK m \in Bad : \A k \in Bad : m <= k
    <3> HIDE DEF Bad
    <3> QED BY <2>b, LeastOf
  <2>2. m # 0
    <3>1. IsLevel([n \in 0..0 |-> ToSet(Drives)], 0)
      OBVIOUS
    <3> QED BY <3>1
  <2>n. m \in Nat
    BY <2>1
  <2>3. m - 1 \in Nat /\ m - 1 \notin Bad
    <3> HIDE DEF Bad
    <3> QED BY <2>1, <2>2, <2>n
  <2>4. PICK g : IsLevel(g, m - 1)
    <3> HIDE DEF IsLevel
    <3> QED BY <2>3
  <2> DEFINE h == [n \in 0..m |-> IF n = m THEN Subfolders(g[m - 1]) ELSE g[n]]
  <2>5. \A n \in 0..m : h[n] = IF n = 0 THEN ToSet(Drives) ELSE Subfolders(h[n - 1])
    <3> SUFFICES ASSUME NEW n \in 0..m PROVE h[n] = IF n = 0 THEN ToSet(Drives) ELSE Subfolders(h[n - 1])
      OBVIOUS
    <3> HIDE DEF Subfolders
    <3>1. CASE n = m
      BY <2>2, <2>3, <3>1
    <3>2. CASE n # m
      BY <2>3, <2>4, <3>2
    <3> QED BY <3>1, <3>2
  <2>6. IsLevel(h, m)
    <3> HIDE DEF Subfolders
    <3> QED BY <2>5
  <2> QED BY <2>1, <2>6
<1>2. PICK g : IsLevel(g, MaxDepth)
  <2> HIDE DEF IsLevel
  <2> QED BY <1>1, TreeFacts
<1> QED BY <1>2 DEF Level

(* A walk with nothing before it has told of every share within its reach.    *)
LEMMA DrainedTold ==
  ASSUME NEW w, NEW T, Covers(w, T), Drained(w)
  PROVE  Shared \cap InReach \subseteq T
<1>1. PICK D \in SUBSET (Folders \X (0..MaxDepth)) : CoversBy(w, D, T)
  BY DEF Covers
<1>2. \A f, d : Known(w, D, f, d) => <<f, d>> \in D
  BY DEF Known, IsOpen, Drained
<1> DEFINE Bad == {d \in 0..MaxDepth : \E f \in Level[d] : f \notin Folders \/ <<f, d>> \notin D}
<1>3. Bad = {}
  <2> SUFFICES ASSUME Bad # {} PROVE FALSE
    OBVIOUS
  <2>b. Bad \in SUBSET Nat
    BY TreeFacts
  <2>1. PICK d \in Bad : \A k \in Bad : d <= k
    <3> HIDE DEF Bad
    <3> QED BY <2>b, LeastOf
  <2>2. PICK f \in Level[d] : f \notin Folders \/ <<f, d>> \notin D
    BY <2>1
  <2>3. CASE d = 0
    <3>1. f \in ToSet(Drives)
      BY <2>1, <2>2, <2>3, LevelIs
    <3>2. PICK n \in DOMAIN Drives : Drives[n] = f
      BY <3>1 DEF ToSet
    <3> QED BY <1>1, <1>2, <2>2, <2>3, <3>2, SpScanAssumption DEF CoversBy
  <2>4. CASE d # 0
    <3>1. d \in 0..MaxDepth /\ d - 1 \in 0..MaxDepth /\ d - 1 < MaxDepth /\ d - 1 + 1 = d
      BY <2>1, <2>4, TreeFacts
    <3>2. d - 1 \notin Bad
      <4> HIDE DEF Bad
      <4> QED BY <2>1, <3>1
    <3>3. Level[d] = Folders \cap UNION {Listed(g) : g \in Level[d - 1]}
      BY <2>4, <3>1, LevelIs
    <3>4. PICK g \in Level[d - 1] : f \in Listed(g)
      BY <2>2, <3>3
    <3>5. f \in Folders /\ f \in Items
      BY <2>2, <3>3 DEF Items
    <3>6. g \in Folders /\ <<g, d - 1>> \in D
      BY <3>1, <3>2
    <3>7. PICK p \in DOMAIN PagesOf[g] : InPage(g, p, f)
      BY <3>4, <3>6, ListedIs
    <3>8. DealtWith(w, D, T, f, d - 1)
      BY <1>1, <3>1, <3>5, <3>6, <3>7 DEF CoversBy
    <3>9. Known(w, D, f, d)
      BY <3>1, <3>5, <3>8 DEF DealtWith
    <3> QED BY <1>2, <2>2, <3>5, <3>9
  <2> QED BY <2>3, <2>4
<1>4. SUFFICES ASSUME NEW i \in Shared, i \in InReach PROVE i \in T
  OBVIOUS
<1>5. PICK d \in 0..MaxDepth : \E f \in Level[d] : i \in Listed(f)
  BY <1>4 DEF InReach
<1>e. PICK f \in Level[d] : i \in Listed(f)
  BY <1>5
<1>6. f \in Folders /\ <<f, d>> \in D
  BY <1>3, <1>5, <1>e
<1>7. PICK p \in DOMAIN PagesOf[f] : InPage(f, p, i)
  BY <1>e, <1>6, ListedIs
<1>8. DealtWith(w, D, T, i, d)
  BY <1>1, <1>4, <1>6, <1>7, SpScanAssumption DEF CoversBy
<1> QED BY <1>4, <1>8 DEF DealtWith

LEMMA CoversMore ==
  ASSUME NEW w, NEW T, NEW U, Covers(w, T), T \subseteq U
  PROVE  Covers(w, U)
<1>1. PICK D \in SUBSET (Folders \X (0..MaxDepth)) : CoversBy(w, D, T)
  BY DEF Covers
<1>2. \A j, d : DealtWith(w, D, T, j, d) => DealtWith(w, D, U, j, d)
  BY DEF DealtWith
<1>3. CoversBy(w, D, U)
  BY <1>1, <1>2 DEF CoversBy
<1> QED BY <1>1, <1>3 DEF Covers

-----------------------------------------------------------------------------
(* The states of a scan.                                                      *)
Told == {i \in Items : reported[i] > 0 \/ i \in passed}
Active == {s \in Steps : steps[s] # NoCall}
Tokens(i) == {s \in Active : Pending(steps[s], i)}
RowToken(i) == IF waiting = {} /\ Pending(RowWalk, i) THEN 1 ELSE 0

ScanTyped ==
  /\ scan.status \in {"none", "running", "done"}
  /\ reported \in [Items -> Nat] /\ passed \subseteq Items
  /\ DOMAIN steps = Steps /\ strays \in Nat

(* Every walk is sound; the page waits for one call at most.                  *)
WalksSound ==
  /\ WalkSound(RowWalk)
  /\ \A s \in Active : WalkSound(steps[s]) /\ steps[s].current # NoFolder
  /\ waiting \subseteq Active /\ \A s, t \in waiting : s = t

(* The row and every step alone would tell of what is still untold.           *)
StatusSound ==
  /\ scan.status = "none" => Active = {} /\ Drained(RowWalk) /\ \A i \in Items : reported[i] = 0
  /\ scan.status = "running" =>
       ~Drained(RowWalk) /\ Covers(RowWalk, Told) /\ \A s \in Active : Covers(steps[s], Told)
  /\ scan.status = "done" => Shared \cap InReach \subseteq Told

(* What was reported of an item, and what may still be, by the steps and by   *)
(* the one the page would call for.                                           *)
Budget == \A i \in Items : reported[i] + Cardinality(Tokens(i)) + RowToken(i) <= 1 + strays

ScanInv == ScanTyped /\ WalksSound /\ StatusSound /\ Budget

LEMMA TokensFinite ==
  ASSUME NEW S, S \subseteq Steps
  PROVE  IsFiniteSet(S) /\ Cardinality(S) \in Nat
BY FS_Subset, FS_CardinalityType, SpScanAssumption

LEMMA FewerTokens ==
  ASSUME NEW S, NEW T, S \subseteq T, T \subseteq Steps
  PROVE  /\ Cardinality(S) <= Cardinality(T)
         /\ \A s \in T : s \notin S => Cardinality(S) + 1 <= Cardinality(T)
<1>1. IsFiniteSet(T) /\ IsFiniteSet(S) /\ Cardinality(T) \in Nat /\ Cardinality(S) \in Nat
  BY TokensFinite
<1>2. Cardinality(S) <= Cardinality(T)
  BY <1>1, FS_Subset
<1>3. ASSUME NEW s \in T, s \notin S PROVE Cardinality(S) + 1 <= Cardinality(T)
  <2>1. Cardinality(S) # Cardinality(T)
    BY <1>1, <1>3, FS_Subset
  <2> QED BY <1>1, <1>2, <2>1
<1> QED BY <1>2, <1>3

LEMMA AddedToken ==
  ASSUME NEW S, S \subseteq Steps, NEW s \in Steps
  PROVE  Cardinality(S \cup {s}) <= Cardinality(S) + 1
<1>1. IsFiniteSet(S)
  BY TokensFinite
<1> QED BY <1>1, FS_AddElement, FS_CardinalityType

LEMMA CallIs == \A w : WalkSound(w) => w # NoCall /\ w \in Walk
BY DEF WalkSound, WalkOK, Walk, NoCall

LEMMA AtPage == \A s \in Steps : steps[s].at \in {"page", "items"} => s \in Active
BY DEF Active, NoCall

(* A step goes on with another walk, and may have told of an item.            *)
LEMMA StepOK ==
  ASSUME ScanInv, ScanTyped', NEW s \in Active, NEW w, WalkSound(w), w.current # NoFolder,
         \A i \in Items : Pending(w, i) => Pending(steps[s], i),
         Covers(steps[s], Told) => Covers(w, Told'),
         steps' = [steps EXCEPT ![s] = w], Told \subseteq Told',
         \A i \in Items : \/ reported'[i] = reported[i]
                          \/ reported'[i] = reported[i] + 1 /\ Pending(steps[s], i) /\ ~Pending(w, i),
         UNCHANGED <<scan, waiting, strays>>
  PROVE  ScanInv'
<1>1. s \in Steps /\ w # NoCall /\ DOMAIN steps = Steps
  BY CallIs DEF Active, ScanInv, ScanTyped
<1>2. /\ Active' = Active /\ steps'[s] = w
      /\ \A t \in Steps : t # s => steps'[t] = steps[t]
  BY <1>1 DEF Active
<1>3. RowWalk' = RowWalk
  BY DEF RowWalk
<1>4. WalksSound'
  BY <1>2, <1>3 DEF WalksSound, ScanInv, Active
<1>5. \A v : Covers(v, Told) => Covers(v, Told')
  BY CoversMore
<1>6. StatusSound'
  <2>1. scan.status # "none"
    BY DEF ScanInv, StatusSound
  <2>2. scan.status = "running" => (Covers(RowWalk, Told) /\ \A t \in Active : Covers(steps[t], Told))'
    BY <1>2, <1>3, <1>5 DEF ScanInv, StatusSound, Active
  <2> QED BY <1>3, <2>1, <2>2 DEF ScanInv, StatusSound
<1>7. Budget'
  <2> SUFFICES ASSUME NEW i \in Items
               PROVE  reported'[i] + Cardinality(Tokens(i)') + RowToken(i)' <= 1 + strays'
    BY DEF Budget
  <2>1. RowToken(i)' = RowToken(i) /\ RowToken(i) \in {0, 1}
    BY <1>3 DEF RowToken
  <2>2. Tokens(i)' \subseteq Tokens(i) /\ Tokens(i) \subseteq Steps
    BY <1>2 DEF Tokens, Active
  <2>3. reported'[i] = reported[i] + 1 => s \in Tokens(i) /\ s \notin Tokens(i)'
    <3>1. reported[i] \in Nat
      BY DEF ScanInv, ScanTyped
    <3> QED BY <1>2, <3>1 DEF Tokens
  <2>4. /\ reported[i] \in Nat /\ strays \in Nat
        /\ reported[i] + Cardinality(Tokens(i)) + RowToken(i) <= 1 + strays
    BY DEF ScanInv, ScanTyped, Budget
  <2>5. Cardinality(Tokens(i)) \in Nat /\ Cardinality(Tokens(i)') \in Nat
    BY <2>2, TokensFinite
  <2> HIDE DEF RowToken, Tokens
  <2>6. CASE reported'[i] = reported[i]
    BY <2>1, <2>2, <2>4, <2>5, <2>6, FewerTokens
  <2>7. CASE reported'[i] = reported[i] + 1
    <3>1. Cardinality(Tokens(i)') + 1 <= Cardinality(Tokens(i))
      BY <2>2, <2>3, <2>7, FewerTokens
    <3> QED BY <2>1, <2>4, <2>5, <2>7, <3>1
  <2> QED BY <2>6, <2>7
<1> QED BY <1>4, <1>6, <1>7 DEF ScanInv

(* A step saves its walk and answers.                                         *)
LEMMA SaveOK ==
  ASSUME ScanInv, NEW s \in Active, NEW x, NEW w, WalkSound(w), w.at = "page",
         x.queue = w.queue, x.current = w.current,
         \A i \in Items : Pending(w, i) => Pending(steps[s], i),
         Covers(steps[s], Told) => Covers(w, Told),
         Save(s, x), UNCHANGED <<reported, passed, strays>>
  PROVE  ScanInv'
<1>1. s \in Steps /\ DOMAIN steps = Steps
  BY DEF Active, ScanInv, ScanTyped
<1>2. /\ Active' = Active \ {s}
      /\ \A t \in Active' : steps'[t] = steps[t]
  BY <1>1 DEF Active, Save
<1>3. RowWalk' = w /\ (Drained(x) <=> Drained(w)) /\ w \in Walk
  <2>1. w \in Walk /\ w.rest = <<>>
    BY DEF WalkSound, WalkOK
  <2>2. w = [at |-> w.at, queue |-> w.queue, current |-> w.current, rest |-> w.rest]
    BY <2>1 DEF Walk
  <2>3. RowWalk' = [at |-> "page", queue |-> w.queue, current |-> w.current, rest |-> <<>>]
    BY DEF RowWalk, Save
  <2> QED BY <2>1, <2>2, <2>3 DEF Drained
<1>4. Told' = Told
  BY DEF Told
<1>5. scan'.status = IF Drained(w) THEN "done" ELSE scan.status
  BY <1>3 DEF Save
<1>6. ScanTyped'
  BY <1>1, <1>5 DEF ScanTyped, ScanInv, Save
<1>7. WalksSound'
  <2>1. waiting' \subseteq Active'
    BY <1>2 DEF WalksSound, ScanInv, Save
  <2>2. \A t, u \in waiting' : t = u
    BY DEF WalksSound, ScanInv, Save
  <2>3. \A t \in Active' : WalkSound(steps'[t]) /\ steps'[t].current # NoFolder
    BY <1>2 DEF WalksSound, ScanInv
  <2> QED BY <1>3, <2>1, <2>2, <2>3 DEF WalksSound
<1>8. StatusSound'
  <2>1. scan.status \in {"running", "done"}
    BY DEF ScanInv, StatusSound, ScanTyped
  <2>2. CASE scan.status = "done"
    BY <1>4, <1>5, <2>2 DEF ScanInv, StatusSound
  <2>3. CASE scan.status = "running" /\ Drained(w)
    <3>1. Covers(w, Told)
      BY <2>3 DEF ScanInv, StatusSound
    <3>2. Shared \cap InReach \subseteq Told
      BY <2>3, <3>1, DrainedTold
    <3> QED BY <1>4, <1>5, <2>3, <3>2 DEF StatusSound
  <2>4. CASE scan.status = "running" /\ ~Drained(w)
    <3>1. Covers(w, Told) /\ \A t \in Active : Covers(steps[t], Told)
      BY <2>4 DEF ScanInv, StatusSound
    <3>2. \A t \in Active' : Covers(steps'[t], Told')
      BY <1>2, <1>4, <3>1
    <3> QED BY <1>3, <1>4, <1>5, <2>4, <3>1, <3>2 DEF StatusSound
  <2> QED BY <2>1, <2>2, <2>3, <2>4
<1>9. Budget'
  <2> SUFFICES ASSUME NEW i \in Items
               PROVE  reported'[i] + Cardinality(Tokens(i)') + RowToken(i)' <= 1 + strays'
    BY DEF Budget
  <2>1. /\ RowToken(i)' \in {0, 1} /\ RowToken(i) \in {0, 1}
        /\ RowToken(i)' = 1 => Pending(w, i)
    BY <1>3 DEF RowToken
  <2>2. /\ Tokens(i)' \subseteq Tokens(i) /\ Tokens(i) \subseteq Steps /\ s \notin Tokens(i)'
        /\ Pending(w, i) => s \in Tokens(i)
    BY <1>2 DEF Tokens, Active
  <2>4. /\ reported[i] \in Nat /\ strays \in Nat
        /\ reported[i] + Cardinality(Tokens(i)) + RowToken(i) <= 1 + strays
    BY DEF ScanInv, ScanTyped, Budget
  <2>5. Cardinality(Tokens(i)) \in Nat /\ Cardinality(Tokens(i)') \in Nat
    BY <2>2, TokensFinite
  <2>6. Cardinality(Tokens(i)') + RowToken(i)' <= Cardinality(Tokens(i))
    BY <2>1, <2>2, <2>5, FewerTokens
  <2> QED BY <2>1, <2>4, <2>5, <2>6
<1> QED BY <1>6, <1>7, <1>8, <1>9 DEF ScanInv

-----------------------------------------------------------------------------
LEMMA ScanInitOK == ScanInit => ScanInv
<1> SUFFICES ASSUME ScanInit PROVE ScanInv
  OBVIOUS
<1>1. Active = {}
  BY DEF ScanInit, Active
<1>2. RowWalk = [at |-> "page", queue |-> <<>>, current |-> NoFolder, rest |-> <<>>]
  BY DEF ScanInit, RowWalk
<1>3. WalkSound(RowWalk) /\ Drained(RowWalk) /\ \A i : ~Pending(RowWalk, i)
  BY <1>2 DEF WalkSound, WalkOK, Walk, Drained, OneWay, Pending, QueueHit, RestHit, PagesHit, ToCome
<1>4. ScanTyped
  BY DEF ScanInit, ScanTyped
<1>5. WalksSound /\ StatusSound
  BY <1>1, <1>3 DEF ScanInit, WalksSound, StatusSound
<1>6. Budget
  <2>1. \A i \in Items : Tokens(i) = {} /\ RowToken(i) = 0 /\ reported[i] = 0 /\ strays = 0
    BY <1>1, <1>3 DEF Tokens, RowToken, ScanInit
  <2> QED BY <2>1, FS_EmptySet DEF Budget
<1> QED BY <1>4, <1>5, <1>6 DEF ScanInv

LEMMA StartScanOK == ScanInv /\ StartScan => ScanInv'
<1> SUFFICES ASSUME ScanInv, StartScan PROVE ScanInv'
  OBVIOUS
<1> DEFINE w == RowWalk'
<1>1. /\ w.queue = [n \in DOMAIN Drives |-> Place(Drives[n], 0)] /\ w.current = NoFolder
      /\ w.at = "page" /\ w.rest = <<>> /\ w = [at |-> "page", queue |-> w.queue, current |-> NoFolder, rest |-> <<>>]
  BY DEF RowWalk, StartScan
<1>2. /\ DOMAIN Drives = 1..Len(Drives) /\ Len(Drives) \in Nat /\ \A n \in DOMAIN Drives : Drives[n] \in Folders
      /\ Drives # <<>>
  BY SpScanAssumption
<1>3. \A n \in DOMAIN Drives : /\ Place(Drives[n], 0) \in PlaceType /\ Place(Drives[n], 0).page = 1
                               /\ Place(Drives[n], 0).folder = Drives[n] /\ Place(Drives[n], 0).depth = 0
  BY <1>2, TreeFacts DEF Place, PlaceType
<1>4. /\ w.queue \in Seq(PlaceType) /\ w.queue # <<>> /\ DOMAIN w.queue = DOMAIN Drives
      /\ \A n \in DOMAIN Drives : w.queue[n] = Place(Drives[n], 0)
  <2> DEFINE q == [n \in 1..Len(Drives) |-> Place(Drives[n], 0)]
  <2>1. q \in [1..Len(Drives) -> PlaceType]
    BY <1>2, <1>3
  <2>2. q \in Seq(PlaceType)
    BY <1>2, <2>1
  <2>3. Len(Drives) # 0 /\ 1 \in DOMAIN q
    BY <1>2
  <2>4. w.queue = q
    BY <1>1, <1>2
  <2>5. q # <<>>
    BY <2>3
  <2> QED BY <1>2, <2>2, <2>4, <2>5
<1>5. WalkOK(w)
  <2>1. w \in Walk
    <3>1. \A q \in Seq(PlaceType) : [at |-> "page", queue |-> q, current |-> NoFolder, rest |-> <<>>] \in Walk
      BY DEF Walk
    <3> QED BY <1>1, <1>4, <3>1
  <2>2. \A n \in DOMAIN w.queue : w.queue[n].page = 1
    BY <1>3, <1>4
  <2> QED BY <1>1, <2>1, <2>2 DEF WalkOK
<1>6. \A i \in Items : OneWay(w, i)
  <2> SUFFICES ASSUME NEW i \in Items PROVE OneWay(w, i)
    OBVIOUS
  <2>1. ~RestHit(w, i) /\ ~PagesHit(w, i)
    BY <1>1 DEF RestHit, PagesHit, ToCome
  <2>2. \A m, n \in DOMAIN w.queue : w.queue[m].folder \in Above(i) /\ w.queue[n].folder \in Above(i) => m = n
    BY <1>3, <1>4, RootsApart DEF Above
  <2> QED BY <1>1, <2>1, <2>2 DEF OneWay
<1>7. Active' = {} /\ waiting' = {} /\ Told' = Told /\ ~Drained(w) /\ scan'.status = "running"
  BY <1>4 DEF StartScan, Active, ScanInv, WalksSound, StatusSound, Told, Drained
<1>8. Covers(w, Told)
  <2>1. \A n \in DOMAIN Drives : IsOpen(w, Drives[n], 0)
    BY <1>3, <1>4 DEF IsOpen
  <2>2. CoversBy(w, {}, Told)
    BY <1>1, <2>1 DEF CoversBy, Known
  <2> QED BY <2>2 DEF Covers
<1>9. ScanTyped'
  BY DEF ScanTyped, ScanInv, StartScan
<1>10. WalksSound' /\ StatusSound'
  BY <1>5, <1>6, <1>7, <1>8 DEF WalksSound, WalkSound, StatusSound
<1>11. Budget'
  <2> SUFFICES ASSUME NEW i \in Items
               PROVE  reported'[i] + Cardinality(Tokens(i)') + RowToken(i)' <= 1 + strays'
    BY DEF Budget
  <2>1. Tokens(i)' = {}
    BY <1>7 DEF Tokens
  <2>2. RowToken(i)' \in {0, 1}
    BY DEF RowToken
  <2>3. reported'[i] = 0 /\ strays' \in Nat
    BY DEF ScanInv, StatusSound, StartScan, ScanTyped
  <2> QED BY <2>1, <2>2, <2>3, FS_EmptySet
<1> QED BY <1>9, <1>10, <1>11 DEF ScanInv

LEMMA BeginStepOK == ASSUME ScanInv, NEW s \in Steps, BeginStep(s) PROVE ScanInv'
<1> DEFINE w == Opened(RowWalk)
<1>1. /\ WalkSound(RowWalk) /\ RowWalk.at = "page" /\ ~Drained(RowWalk) /\ Covers(RowWalk, Told)
      /\ \A t \in Active : Covers(steps[t], Told)
  BY DEF ScanInv, WalksSound, StatusSound, BeginStep, RowWalk
<1>2. /\ WalkSound(w) /\ w.current # NoFolder /\ Covers(w, Told)
      /\ \A i \in Items : Pending(w, i) => Pending(RowWalk, i)
  BY <1>1, OpenedOK
<1>3. steps' = [steps EXCEPT ![s] = w] /\ DOMAIN steps = Steps /\ w # NoCall
  BY <1>2, CallIs DEF BeginStep, RowWalk, ScanInv, ScanTyped
<1>4. /\ Active' = Active \cup {s} /\ steps'[s] = w /\ s \notin Active
      /\ \A t \in Active : steps'[t] = steps[t]
  BY <1>3 DEF Active, BeginStep
<1>5. RowWalk' = RowWalk /\ Told' = Told
  BY DEF RowWalk, Told, BeginStep
<1>6. ScanTyped'
  BY <1>3 DEF ScanTyped, ScanInv, BeginStep
<1>7. WalksSound'
  BY <1>1, <1>2, <1>4, <1>5 DEF WalksSound, ScanInv, BeginStep
<1>8. StatusSound'
  BY <1>1, <1>2, <1>4, <1>5 DEF StatusSound, ScanInv, BeginStep
<1>9. Budget'
  <2> SUFFICES ASSUME NEW i \in Items
               PROVE  reported'[i] + Cardinality(Tokens(i)') + RowToken(i)' <= 1 + strays'
    BY DEF Budget
  <2>1. RowToken(i)' = 0 /\ RowToken(i) \in {0, 1} /\ (Pending(w, i) => RowToken(i) = 1)
    BY <1>2 DEF RowToken, BeginStep
  <2>2. /\ Tokens(i)' = Tokens(i) \cup (IF Pending(w, i) THEN {s} ELSE {}) /\ Tokens(i) \subseteq Steps
    BY <1>4 DEF Tokens, Active
  <2>3. /\ reported[i] \in Nat /\ strays \in Nat /\ reported' = reported /\ strays' = strays
        /\ reported[i] + Cardinality(Tokens(i)) + RowToken(i) <= 1 + strays
    BY DEF ScanInv, ScanTyped, Budget, BeginStep
  <2>4. Cardinality(Tokens(i)) \in Nat
    BY <2>2, TokensFinite
  <2>5. CASE Pending(w, i)
    <3>1. Cardinality(Tokens(i)') <= Cardinality(Tokens(i)) + 1 /\ Cardinality(Tokens(i)') \in Nat
      BY <2>2, <2>5, AddedToken, TokensFinite
    <3> QED BY <2>1, <2>3, <2>4, <2>5, <3>1
  <2>6. CASE ~Pending(w, i)
    BY <2>1, <2>2, <2>3, <2>4, <2>6
  <2> QED BY <2>5, <2>6
<1> QED BY <1>6, <1>7, <1>8, <1>9 DEF ScanInv

LEMMA PageArrivesOK == ASSUME ScanInv, NEW s \in Steps, PageArrives(s) PROVE ScanInv'
<1> DEFINE w == Arrived(steps[s])
<1>1. s \in Active /\ steps[s].at = "page"
  BY AtPage DEF PageArrives
<1>2. WalkSound(steps[s]) /\ steps[s].current # NoFolder /\ DOMAIN steps = Steps
  BY <1>1 DEF ScanInv, WalksSound, ScanTyped
<1>3. /\ WalkSound(w) /\ w.current # NoFolder /\ \A i \in Items : Pending(w, i) => Pending(steps[s], i)
      /\ Covers(steps[s], Told) => Covers(w, Told)
  BY <1>1, <1>2, ArrivesOK
<1>4. Told' = Told /\ reported' = reported /\ UNCHANGED <<scan, waiting, strays>>
  BY DEF Told, PageArrives
<1>5. ScanTyped'
  BY <1>2 DEF ScanTyped, ScanInv, PageArrives
<1> QED BY <1>1, <1>3, <1>4, <1>5, StepOK DEF PageArrives

LEMMA PageFailsOK == ASSUME ScanInv, NEW s \in Steps, PageFails(s) PROVE ScanInv'
<1>1. s \in Active /\ steps[s].at = "page"
  BY AtPage DEF PageFails
<1>2. WalkSound(steps[s])
  BY <1>1 DEF ScanInv, WalksSound
<1>3. Save(s, steps[s]) /\ UNCHANGED <<reported, passed, strays>>
  BY DEF PageFails
<1> QED BY <1>1, <1>2, <1>3, SaveOK

LEMMA ItemStepOK == ASSUME ScanInv, NEW s \in Steps, Item(s) PROVE ScanInv'
<1> DEFINE j == Head(steps[s].rest)
           w == Entered(steps[s], j)
<1>1. s \in Active /\ steps[s].at = "items" /\ steps[s].rest # <<>>
  BY AtPage DEF Item
<1>2. WalkSound(steps[s]) /\ steps[s].current # NoFolder /\ DOMAIN steps = Steps
  BY <1>1 DEF ScanInv, WalksSound, ScanTyped
<1>3. /\ WalkSound(w) /\ w.current # NoFolder /\ j \in Items
      /\ \A i \in Items : Pending(w, i) => Pending(steps[s], i)
      /\ Pending(steps[s], j) /\ ~Pending(w, j)
      /\ \A T, U : Covers(steps[s], T) /\ T \subseteq U /\ (j \in Shared => j \in U) => Covers(w, U)
  BY <1>1, <1>2, ItemOK
<1>4. steps' = [steps EXCEPT ![s] = w]
  BY DEF Item
<1>5. /\ j \in Shared => \/ reported' = [reported EXCEPT ![j] = @ + 1] /\ passed' = passed
                         \/ passed' = passed \cup {j} /\ reported' = reported
      /\ j \notin Shared => reported' = reported /\ passed' = passed
      /\ UNCHANGED <<scan, waiting, strays>>
  <2> HIDE DEF w
  <2> QED BY DEF Item
<1> HIDE DEF w, j
<1>6. ScanTyped'
  BY <1>2, <1>3, <1>4, <1>5 DEF ScanTyped, ScanInv
<1>7. \A i \in Items : \/ reported'[i] = reported[i]
                       \/ reported'[i] = reported[i] + 1 /\ i = j
  BY <1>3, <1>5 DEF ScanInv, ScanTyped
<1>8. Told \subseteq Told' /\ (j \in Shared => j \in Told')
  <2>1. reported \in [Items -> Nat]
    BY DEF ScanInv, ScanTyped
  <2> QED BY <1>3, <1>5, <1>7, <2>1 DEF Told
<1> QED BY <1>1, <1>3, <1>4, <1>5, <1>6, <1>7, <1>8, StepOK

LEMMA PageEndOK == ASSUME ScanInv, NEW s \in Steps, PageEnd(s) PROVE ScanInv'
<1> DEFINE x == Turned(steps[s])
           w == [x EXCEPT !.at = "page"]
<1>1. s \in Active /\ steps[s].at = "items" /\ steps[s].rest = <<>>
  BY AtPage DEF PageEnd
<1>2. WalkSound(steps[s]) /\ DOMAIN steps = Steps /\ steps[s] \in Walk
  BY <1>1, CallIs DEF ScanInv, WalksSound, ScanTyped
<1>3. /\ WalkSound(w) /\ w.at = "page" /\ \A i \in Items : Pending(w, i) => Pending(steps[s], i)
      /\ \A T : Covers(steps[s], T) => Covers(w, T)
  <2>1. w = [Turned(steps[s]) EXCEPT !.at = "page"]
    OBVIOUS
  <2> HIDE DEF w
  <2> QED BY <1>1, <1>2, <2>1, TurnedOK
<1>4. w.queue = x.queue /\ w.current = x.current /\ (Drained(w) <=> Drained(x))
  BY <1>2 DEF Turned, Walk, Drained
<1>5. CASE Save(s, x) /\ UNCHANGED <<reported, passed, strays>>
  <2> HIDE DEF w, x
  <2> QED BY <1>1, <1>3, <1>4, <1>5, SaveOK
<1>6. CASE /\ ~Drained(x) /\ steps' = [steps EXCEPT ![s] = [Opened(x) EXCEPT !.at = "page"]]
           /\ UNCHANGED <<scan, waiting, reported, passed, strays>>
  <2>1. [Opened(x) EXCEPT !.at = "page"] = Opened(w)
    BY <1>2, <1>4 DEF Opened, Turned, Walk
  <2> HIDE DEF w, x
  <2>2. /\ WalkSound(Opened(w)) /\ Opened(w).current # NoFolder
        /\ \A i \in Items : Pending(Opened(w), i) => Pending(w, i)
        /\ \A T : Covers(w, T) => Covers(Opened(w), T)
    BY <1>3, <1>4, <1>6, OpenedOK
  <2>3. Told' = Told
    BY <1>6 DEF Told
  <2>4. ScanTyped'
    BY <1>2, <1>6 DEF ScanTyped, ScanInv
  <2> QED BY <1>1, <1>3, <1>6, <2>1, <2>2, <2>3, <2>4, StepOK
<1> QED BY <1>5, <1>6 DEF PageEnd

LEMMA CallLostOK == ScanInv /\ CallLost => ScanInv'
<1> SUFFICES ASSUME ScanInv, CallLost PROVE ScanInv'
  OBVIOUS
<1>1. Active' = Active /\ RowWalk' = RowWalk /\ Told' = Told
  BY DEF CallLost, Active, RowWalk, Told
<1>2. ScanTyped' /\ WalksSound' /\ StatusSound'
  BY <1>1 DEF CallLost, ScanInv, ScanTyped, WalksSound, StatusSound
<1>3. Budget'
  <2> SUFFICES ASSUME NEW i \in Items
               PROVE  reported'[i] + Cardinality(Tokens(i)') + RowToken(i)' <= 1 + strays'
    BY DEF Budget
  <2>1. RowToken(i)' \in {0, 1} /\ RowToken(i) \in {0, 1}
    BY DEF RowToken
  <2>2. Tokens(i)' = Tokens(i) /\ Tokens(i) \subseteq Steps
    BY <1>1 DEF Tokens, Active, CallLost
  <2>3. /\ reported[i] \in Nat /\ strays \in Nat /\ reported' = reported /\ strays' = strays + 1
        /\ reported[i] + Cardinality(Tokens(i)) + RowToken(i) <= 1 + strays
    BY DEF ScanInv, ScanTyped, Budget, CallLost
  <2>4. Cardinality(Tokens(i)) \in Nat
    BY <2>2, TokensFinite
  <2> QED BY <2>1, <2>2, <2>3, <2>4
<1> QED BY <1>2, <1>3 DEF ScanInv

LEMMA KilledOK == ScanInv /\ Killed => ScanInv'
<1> SUFFICES ASSUME ScanInv, Killed PROVE ScanInv'
  OBVIOUS
<1>1. Active' = {} /\ RowWalk' = RowWalk /\ Told' = Told /\ waiting' = {}
  BY DEF Killed, Active, RowWalk, Told
<1>2. /\ strays' = strays + Cardinality(Active) /\ Active # {} /\ Active \subseteq Steps
      /\ reported' = reported /\ passed' = passed /\ scan' = scan
  BY DEF Killed, Active
<1>3. Cardinality(Active) \in Nat \ {0}
  BY <1>2, TokensFinite, FS_EmptySet
<1>4. ScanTyped'
  BY <1>2, <1>3 DEF ScanTyped, ScanInv, Killed
<1>5. WalksSound' /\ StatusSound'
  BY <1>1, <1>2 DEF ScanInv, WalksSound, StatusSound
<1>6. Budget'
  <2> SUFFICES ASSUME NEW i \in Items
               PROVE  reported'[i] + Cardinality(Tokens(i)') + RowToken(i)' <= 1 + strays'
    BY DEF Budget
  <2>1. RowToken(i)' \in {0, 1} /\ RowToken(i) \in {0, 1} /\ Tokens(i)' = {}
    BY <1>1 DEF RowToken, Tokens
  <2>2. /\ reported[i] \in Nat /\ strays \in Nat
        /\ reported[i] + Cardinality(Tokens(i)) + RowToken(i) <= 1 + strays
    BY DEF ScanInv, ScanTyped, Budget
  <2>3. Cardinality(Tokens(i)) \in Nat
    BY TokensFinite DEF Tokens, Active
  <2>4. Cardinality(Tokens(i)') = 0
    BY <2>1, FS_EmptySet
  <2> QED BY <1>2, <1>3, <2>1, <2>2, <2>3, <2>4
<1> QED BY <1>4, <1>5, <1>6 DEF ScanInv

(* Whatever tree, pages and depth a site has: a scan that says it is done has *)
(* told of every share within its depth, and told of none more than once but  *)
(* for the calls the page lost and the steps a restart cut short              *)
(* (services/spScanEngine.ts).                                                *)
THEOREM TheScanReports == ScanSpec => []ScanReports
<1>1. ScanInv /\ [ScanNext]_scanVars => ScanInv'
  <2> SUFFICES ASSUME ScanInv, [ScanNext]_scanVars PROVE ScanInv'
    OBVIOUS
  <2>1. CASE ScanNext
    BY <2>1, StartScanOK, BeginStepOK, PageArrivesOK, PageFailsOK, ItemStepOK, PageEndOK, CallLostOK,
       KilledOK DEF ScanNext
  <2>2. CASE UNCHANGED scanVars
    <3>1. /\ Active' = Active /\ RowWalk' = RowWalk /\ Told' = Told
          /\ \A i : Tokens(i)' = Tokens(i) /\ RowToken(i)' = RowToken(i)
      BY <2>2 DEF scanVars, Active, RowWalk, Told, Tokens, RowToken
    <3> QED BY <2>2, <3>1 DEF scanVars, ScanInv, ScanTyped, WalksSound, StatusSound, Budget
  <2> QED BY <2>1, <2>2
<1>2. ScanInv => ScanReports
  <2> SUFFICES ASSUME ScanInv PROVE ScanReports
    OBVIOUS
  <2>1. scan.status = "done" => \A i \in Shared \cap InReach : reported[i] > 0 \/ i \in passed
    BY DEF ScanInv, StatusSound, Told
  <2>2. ASSUME NEW i \in Items PROVE reported[i] <= 1 + strays
    <3>1. RowToken(i) \in {0, 1} /\ Cardinality(Tokens(i)) \in Nat
      BY TokensFinite DEF RowToken, Tokens, Active
    <3> QED BY <3>1 DEF ScanInv, ScanTyped, Budget
  <2> QED BY <2>1, <2>2 DEF ScanReports
<1> QED BY <1>1, <1>2, ScanInitOK, PTL DEF ScanSpec
=============================================================================
