--------------------------- MODULE ReviewsProofs ---------------------------
(* Theorems about review requests, for any jobs and customers, any number of  *)
(* people at their desks, any cap and any periods.                            *)
EXTENDS Reviews, FiniteSetTheorems, WellFoundedInduction, TLAPS

-----------------------------------------------------------------------------
(* Sets of ids in their order.                                                *)

LEMMA LeastId == ASSUME NEW S \in SUBSET Nat, S # {} PROVE \E x \in S : \A y \in S : x <= y
<1> DEFINE R == {p \in Nat \X Nat : p[1] < p[2]}
<1>1. IsWellFoundedOn(R, Nat)
  BY NatLessThanWellFounded, Zenon DEF OpToRel
<1> HIDE DEF R
<1>2. \E x \in S : \A y \in S : <<y, x>> \notin R
  BY <1>1, WFMin
<1>3. \A x, y \in Nat : <<y, x>> \notin R => x <= y
  BY DEF R
<1> QED BY <1>2, <1>3

Orderly(s, S) ==
  s \in [1..Cardinality(S) -> S] /\ \A i, k \in DOMAIN s : i < k => s[i] < s[k]

(* Every finite set of ids can be listed in order: take its least element     *)
(* off; a smallest set that could not would leave one that can.               *)
LEMMA OrderExists ==
  ASSUME NEW S \in SUBSET Nat, IsFiniteSet(S)
  PROVE  \E s : Orderly(s, S)
<1> DEFINE Bad == {T \in SUBSET Nat : IsFiniteSet(T) /\ ~\E s : Orderly(s, T)}
           Sizes == {n \in Nat : \E T \in Bad : Cardinality(T) = n}
<1> SUFFICES ASSUME S \in Bad PROVE FALSE
  OBVIOUS
<1>1. Cardinality(S) \in Sizes
  BY FS_CardinalityType
<1>2. PICK n \in Sizes : \A m \in Sizes : n <= m
  BY <1>1, LeastId
<1>3. PICK T \in Bad : Cardinality(T) = n
  BY <1>2
<1>4. T # {}
  <2>1. Cardinality({}) = 0
    BY FS_EmptySet
  <2>2. Orderly(<<>>, {})
    BY <2>1 DEF Orderly
  <2> QED BY <1>3, <2>2
<1>5. PICK x \in T : \A y \in T : x <= y
  BY <1>3, <1>4, LeastId
<1> DEFINE U == T \ {x}
<1>6. IsFiniteSet(U) /\ Cardinality(U) = n - 1 /\ U \in SUBSET Nat
  BY <1>3, <1>5, FS_RemoveElement
<1>7. n - 1 \in Nat /\ n \in Nat
  BY <1>6, FS_CardinalityType
<1>8. U \notin Bad
  <2> SUFFICES ASSUME U \in Bad PROVE FALSE
    OBVIOUS
  <2>1. n - 1 \in Sizes
    BY <1>6, <1>7
  <2> QED BY <1>2, <1>7, <2>1
<1>9. PICK u : Orderly(u, U)
  BY <1>6, <1>8
<1> DEFINE s == [i \in 1..n |-> IF i = 1 THEN x ELSE u[i - 1]]
<1>10. u \in [1..(n - 1) -> U] /\ \A i, k \in 1..(n - 1) : i < k => u[i] < u[k]
  BY <1>6, <1>9 DEF Orderly
<1>11. \A i \in 2..n : i - 1 \in 1..(n - 1) /\ u[i - 1] \in U
  BY <1>7, <1>10
<1>12. s \in [1..n -> T]
  BY <1>5, <1>11
<1>13. \A i, k \in 1..n : i < k => s[i] < s[k]
  <2> SUFFICES ASSUME NEW i \in 1..n, NEW k \in 1..n, i < k PROVE s[i] < s[k]
    OBVIOUS
  <2>1. k \in 2..n /\ s[k] = u[k - 1] /\ u[k - 1] \in T /\ u[k - 1] # x
    BY <1>7, <1>11
  <2>2. CASE i = 1
    <3>1. x \in Nat /\ u[k - 1] \in Nat /\ x <= u[k - 1]
      BY <1>3, <1>5, <2>1
    <3> QED BY <2>1, <2>2, <3>1
  <2>3. CASE i # 1
    <3>1. s[i] = u[i - 1] /\ i - 1 \in 1..(n - 1) /\ k - 1 \in 1..(n - 1) /\ i - 1 < k - 1
      BY <1>7, <2>3
    <3> QED BY <1>10, <2>1, <3>1
  <2> QED BY <2>2, <2>3
<1>14. Orderly(s, T)
  BY <1>3, <1>12, <1>13 DEF Orderly
<1> QED BY <1>3, <1>14

LEMMA AscendingIs ==
  ASSUME NEW S \in SUBSET Nat, IsFiniteSet(S)
  PROVE  /\ Ascending(S) \in [1..Cardinality(S) -> S]
         /\ \A i, k \in 1..Cardinality(S) : Ascending(S)[i] = Ascending(S)[k] => i = k
         /\ Cardinality(S) \in Nat
<1>1. Orderly(Ascending(S), S)
  <2> DEFINE P(s) == \A i, k \in DOMAIN s : i < k => s[i] < s[k]
             F == [1..Cardinality(S) -> S]
  <2>1. \E s \in F : P(s)
    BY OrderExists DEF Orderly
  <2>2. Ascending(S) = CHOOSE s \in F : P(s)
    BY DEF Ascending
  <2> HIDE DEF P, F
  <2>3. Ascending(S) \in F /\ P(Ascending(S))
    BY <2>1, <2>2
  <2> QED BY <2>3 DEF P, F, Orderly
<1>2. Cardinality(S) \in Nat
  BY FS_CardinalityType
<1> DEFINE a == Ascending(S)
<1>3. a \in [1..Cardinality(S) -> S] /\ \A i, k \in 1..Cardinality(S) : i < k => a[i] < a[k]
  BY <1>1 DEF Orderly
<1> HIDE DEF a
<1>4. ASSUME NEW i \in 1..Cardinality(S), NEW k \in 1..Cardinality(S), a[i] = a[k]
      PROVE  i = k
  <2>1. ~(a[i] < a[i])
    <3>1. a[i] \in S
      BY <1>3
    <3>2. a[i] \in Nat
      BY <3>1
    <3> QED BY <3>2
  <2>2. (i < k => a[i] < a[k]) /\ (k < i => a[k] < a[i])
    BY <1>3
  <2>3. ~(i < k) /\ ~(k < i)
    BY <1>4, <2>1, <2>2
  <2> QED BY <1>2, <2>3
<1> QED BY <1>2, <1>3, <1>4 DEF a

(* ORDER BY id LIMIT n takes n different rows at most.                        *)
LEMMA FirstIs ==
  ASSUME NEW n \in Nat, NEW S \in SUBSET Nat, IsFiniteSet(S)
  PROVE  /\ First(n, S) \in Seq(S)
         /\ Len(First(n, S)) <= n
         /\ IsInjective(First(n, S))
         /\ Range(First(n, S)) \subseteq S
<1> DEFINE c == Cardinality(S)
           m == Min({n, c})
           a == Ascending(S)
           f == [i \in 1..m |-> a[i]]
<1>1. c \in Nat /\ a \in [1..c -> S] /\ \A i, k \in 1..c : a[i] = a[k] => i = k
  BY AscendingIs
<1> HIDE DEF a, c
<1>2. m \in Nat /\ m <= n /\ m <= c
  <2>1. \E x \in {n, c} : \A y \in {n, c} : x <= y
    BY <1>1
  <2> QED BY <1>1, <2>1 DEF Min
<1> HIDE DEF m
<1>3. f \in [1..m -> S]
  BY <1>1, <1>2
<1>4. f \in Seq(S) /\ Len(f) = m
  BY <1>2, <1>3
<1>5. \A i, k \in 1..m : f[i] = f[k] => i = k
  BY <1>1, <1>2
<1>6. First(n, S) = f
  BY DEF First, f, m, c, a
<1> QED BY <1>2, <1>3, <1>4, <1>5, <1>6 DEF IsInjective, Range

-----------------------------------------------------------------------------
(* Tables of requests.                                                        *)

LEMMA Parameters ==
  /\ Cap \in Nat /\ DedupeDays \in Nat /\ ReminderAfter \in Nat /\ ReminderMax \in Nat
  /\ MaxDay \in Nat /\ MaxDay >= 1 /\ MaxRows \in Nat /\ MaxTroubles \in Nat
BY ReviewsAssumption

LEMMA RowIds ==
  ASSUME NEW t \in Seq(Request), NEW S \in SUBSET DOMAIN t
  PROVE  S \in SUBSET Nat /\ IsFiniteSet(S) /\ Cardinality(S) \in Nat
<1>1. DOMAIN t = 1..Len(t) /\ Len(t) \in Nat
  OBVIOUS
<1>2. IsFiniteSet(1..Len(t))
  BY <1>1, FS_Interval
<1>3. IsFiniteSet(S)
  BY <1>1, <1>2, FS_Subset
<1> QED BY <1>1, <1>3, FS_CardinalityType

LEMMA ListIs ==
  ASSUME NEW n \in Nat, NEW X, NEW f \in [1..n -> X]
  PROVE  f \in Seq(X) /\ Len(f) = n
OBVIOUS

(* A table whose rows were rewritten in place.                                *)
LEMMA Rewritten ==
  ASSUME NEW t \in Seq(Request), NEW u, DOMAIN u = DOMAIN t, u = [i \in DOMAIN u |-> u[i]],
         \A i \in DOMAIN t : u[i] \in Request
  PROVE  u \in Seq(Request) /\ Len(u) = Len(t)
<1>1. DOMAIN t = 1..Len(t) /\ Len(t) \in Nat
  OBVIOUS
<1>2. u \in [1..Len(t) -> Request]
  BY <1>1
<1> QED BY <1>1, <1>2

SentToday(t) == {i \in Ids(t) : t[i].status = "sent" /\ t[i].sentAt = day}
RemindedToday(t) == {i \in Ids(t) : t[i].remindedAt = day}

LEMMA DailySentIs ==
  ASSUME NEW t \in Seq(Request)
  PROVE  /\ DailySent(t) = Cardinality(SentToday(t)) + Cardinality(RemindedToday(t))
         /\ IsFiniteSet(SentToday(t)) /\ Cardinality(SentToday(t)) \in Nat
         /\ IsFiniteSet(RemindedToday(t)) /\ Cardinality(RemindedToday(t)) \in Nat
         /\ DailySent(t) \in Nat
<1>1. SentToday(t) \in SUBSET DOMAIN t /\ RemindedToday(t) \in SUBSET DOMAIN t
  BY DEF SentToday, RemindedToday, Ids
<1>2. DailySent(t) = Cardinality(SentToday(t)) + Cardinality(RemindedToday(t))
  BY DEF DailySent, SentToday, RemindedToday
<1> QED BY <1>1, <1>2, RowIds

(* A table that counts no more of today's mails than another.                 *)
LEMMA NoMoreSent ==
  ASSUME NEW t \in Seq(Request), NEW u \in Seq(Request),
         SentToday(u) \subseteq SentToday(t), RemindedToday(u) \subseteq RemindedToday(t)
  PROVE  DailySent(u) <= DailySent(t)
<1>1. Cardinality(SentToday(u)) <= Cardinality(SentToday(t))
  BY DailySentIs, FS_Subset
<1>2. Cardinality(RemindedToday(u)) <= Cardinality(RemindedToday(t))
  BY DailySentIs, FS_Subset
<1> QED BY <1>1, <1>2, DailySentIs

(* One row changed: at most one mail more.                                    *)
LEMMA OneMoreSent ==
  ASSUME NEW t \in Seq(Request), NEW u \in Seq(Request), NEW i,
         \/ SentToday(u) \subseteq SentToday(t) \cup {i} /\ RemindedToday(u) \subseteq RemindedToday(t)
         \/ SentToday(u) \subseteq SentToday(t) /\ RemindedToday(u) \subseteq RemindedToday(t) \cup {i}
  PROVE  DailySent(u) <= DailySent(t) + 1
<1>1. ASSUME NEW A, NEW B, IsFiniteSet(A), IsFiniteSet(B), B \subseteq A \cup {i}
      PROVE  Cardinality(B) <= Cardinality(A) + 1
  <2>1. /\ IsFiniteSet(A \cup {i})
        /\ Cardinality(A \cup {i}) \in {Cardinality(A), Cardinality(A) + 1}
    BY <1>1, FS_AddElement
  <2>2. Cardinality(B) <= Cardinality(A \cup {i})
    BY <1>1, <2>1, FS_Subset
  <2>3. Cardinality(A) \in Nat /\ Cardinality(B) \in Nat
    BY <1>1, FS_CardinalityType
  <2> QED BY <2>1, <2>2, <2>3
<1>2. CASE SentToday(u) \subseteq SentToday(t) \cup {i} /\ RemindedToday(u) \subseteq RemindedToday(t)
  <2>1. Cardinality(SentToday(u)) <= Cardinality(SentToday(t)) + 1
    BY <1>1, <1>2, DailySentIs
  <2>2. Cardinality(RemindedToday(u)) <= Cardinality(RemindedToday(t))
    BY <1>2, DailySentIs, FS_Subset
  <2> QED BY <2>1, <2>2, DailySentIs
<1>3. CASE SentToday(u) \subseteq SentToday(t) /\ RemindedToday(u) \subseteq RemindedToday(t) \cup {i}
  <2>1. Cardinality(RemindedToday(u)) <= Cardinality(RemindedToday(t)) + 1
    BY <1>1, <1>3, DailySentIs
  <2>2. Cardinality(SentToday(u)) <= Cardinality(SentToday(t))
    BY <1>3, DailySentIs, FS_Subset
  <2> QED BY <2>1, <2>2, DailySentIs
<1> QED BY <1>2, <1>3

LEMMA RoomIs ==
  ASSUME NEW t \in Seq(Request)
  PROVE  /\ Room(t) \in Nat /\ Room(t) <= Cap
         /\ Room(t) > 0 => DailySent(t) + Room(t) <= Cap
<1> DEFINE c == Cap - DailySent(t)
<1>1. c \in Int /\ DailySent(t) \in Nat /\ Cap \in Nat /\ c <= Cap
  BY DailySentIs, Parameters
<1>2. \E x \in {0, c} : \A y \in {0, c} : x >= y
  BY <1>1
<1>3. Room(t) \in {0, c} /\ Room(t) >= 0 /\ Room(t) >= c
  BY <1>2 DEF Room, Max
<1> QED BY <1>1, <1>3

-----------------------------------------------------------------------------
(* What a sweep adds.                                                         *)

Fresh(r) ==
  /\ r.status \in {"held", "approved"} /\ r.created = day
  /\ r.sentAt = 0 /\ r.remindedAt = 0
  /\ r.mails = 0 /\ r.nudges = 0 /\ r.excuses = 0

Extends(t, u) ==
  /\ u \in Seq(Request) /\ Len(u) >= Len(t) /\ DOMAIN t \subseteq DOMAIN u
  /\ \A i \in DOMAIN t : u[i] = t[i]
  /\ \A i \in DOMAIN u \ DOMAIN t : i > Len(t) /\ Fresh(u[i])

ApartIn(t) ==
  \A i, k \in Ids(t) :
    i < k /\ EmailOf[t[i].job] = EmailOf[t[k].job] => t[k].created - t[i].created > DedupeDays

LEMMA NewRequestIs ==
  ASSUME TypeOK, NEW j \in Jobs
  PROVE  NewRequest(j) \in Request /\ Fresh(NewRequest(j)) /\ NewRequest(j).job = j
<1>1. CASE mode = "auto"
  BY <1>1, Parameters DEF NewRequest, Request, Fresh, TypeOK
<1>2. CASE mode # "auto"
  BY <1>2, Parameters DEF NewRequest, Request, Fresh, TypeOK
<1> QED BY <1>1, <1>2

LEMMA SweptIs ==
  ASSUME TypeOK, NEW t \in Seq(Request), NEW js \in SUBSET Jobs
  PROVE  /\ Extends(t, Swept(t, js))
         /\ ApartIn(t) => ApartIn(Swept(t, js))
<1> DEFINE newest == {j \in js : /\ ~RecentlyAsked(t, EmailOf[j])
                                 /\ \A k \in js : EmailOf[k] = EmailOf[j] => k <= j}
           order == Ascending(newest)
           n == Cardinality(newest)
           new == [i \in 1..n |-> NewRequest(order[n + 1 - i])]
           u == t \o new
<1>1. Swept(t, js) = u
  BY DEF Swept
<1>2. newest \in SUBSET Jobs /\ newest \in SUBSET Nat /\ IsFiniteSet(newest)
  BY ReviewsAssumption, FS_Subset
<1>3. /\ n \in Nat /\ order \in [1..n -> newest]
      /\ \A i, k \in 1..n : order[i] = order[k] => i = k
  BY <1>2, AscendingIs
<1>4. \A j \in newest : ~RecentlyAsked(t, EmailOf[j])
  OBVIOUS
<1>5. \A j, k \in newest : EmailOf[j] = EmailOf[k] => j = k
  BY <1>2
<1> HIDE DEF newest, order, n
<1>6. \A i \in 1..n : n + 1 - i \in 1..n /\ order[n + 1 - i] \in newest
  BY <1>3
<1>7. ASSUME NEW i \in 1..n
      PROVE  new[i] \in Request /\ Fresh(new[i]) /\ new[i].job = order[n + 1 - i]
  <2>1. new[i] = NewRequest(order[n + 1 - i]) /\ order[n + 1 - i] \in Jobs
    BY <1>2, <1>6
  <2> QED BY <2>1, NewRequestIs
<1>8. new \in Seq(Request) /\ Len(new) = n /\ DOMAIN new = 1..n
  <2>1. new \in [1..n -> Request]
    BY <1>7
  <2> QED BY <1>3, <2>1
<1> HIDE DEF new
<1>9. /\ u \in Seq(Request) /\ Len(u) = Len(t) + n /\ Len(t) \in Nat
      /\ DOMAIN t = 1..Len(t) /\ DOMAIN u = 1..(Len(t) + n)
      /\ \A i \in 1..Len(t) : u[i] = t[i]
      /\ \A i \in 1..(Len(t) + n) : i > Len(t) => i - Len(t) \in 1..n /\ u[i] = new[i - Len(t)]
  BY <1>3, <1>8
<1> HIDE DEF u
<1>10. Extends(t, u)
  <2>1. ASSUME NEW i \in DOMAIN u \ DOMAIN t
        PROVE  i > Len(t) /\ Fresh(u[i])
    <3>1. i \in 1..(Len(t) + n) /\ i > Len(t)
      BY <1>3, <1>9
    <3>2. i - Len(t) \in 1..n /\ u[i] = new[i - Len(t)]
      BY <1>9, <3>1
    <3>3. Fresh(new[i - Len(t)])
      BY <1>7, <3>2
    <3> QED BY <3>1, <3>2, <3>3
  <2>2. DOMAIN t \subseteq DOMAIN u /\ Len(u) >= Len(t)
    BY <1>3, <1>9
  <2> QED BY <1>9, <2>1, <2>2 DEF Extends
<1>11. ASSUME ApartIn(t) PROVE ApartIn(u)
  <2> SUFFICES ASSUME NEW i \in Ids(u), NEW k \in Ids(u), i < k,
                      EmailOf[u[i].job] = EmailOf[u[k].job]
               PROVE  u[k].created - u[i].created > DedupeDays
    BY DEF ApartIn
  <2>0. i \in 1..(Len(t) + n) /\ k \in 1..(Len(t) + n)
    BY <1>9 DEF Ids
  <2>1. CASE k <= Len(t)
    <3>1. i \in 1..Len(t) /\ k \in 1..Len(t)
      BY <2>0, <2>1, <1>3, <1>9
    <3>2. i \in Ids(t) /\ k \in Ids(t) /\ u[i] = t[i] /\ u[k] = t[k]
      BY <1>9, <3>1 DEF Ids
    <3> QED BY <1>11, <3>2 DEF ApartIn
  <2>2. CASE k > Len(t)
    <3>1. k - Len(t) \in 1..n /\ u[k] = new[k - Len(t)]
      BY <1>9, <2>0, <2>2
    <3>2. u[k].created = day /\ u[k].job = order[n + 1 - (k - Len(t))]
      BY <1>7, <3>1 DEF Fresh
    <3>3. n + 1 - (k - Len(t)) \in 1..n /\ u[k].job \in newest
      BY <1>6, <3>1, <3>2
    <3>4. CASE i > Len(t)
      <4>1. i - Len(t) \in 1..n /\ u[i] = new[i - Len(t)]
        BY <1>9, <2>0, <3>4
      <4>2. u[i].job = order[n + 1 - (i - Len(t))]
        BY <1>7, <4>1
      <4>3. n + 1 - (i - Len(t)) \in 1..n /\ u[i].job \in newest
        BY <1>6, <4>1, <4>2
      <4>4. u[i].job = u[k].job
        BY <1>5, <3>3, <4>3
      <4>5. n + 1 - (i - Len(t)) = n + 1 - (k - Len(t))
        BY <1>3, <3>2, <3>3, <4>2, <4>3, <4>4
      <4> QED BY <4>5, <2>0, <1>3, <1>9
    <3>5. CASE i <= Len(t)
      <4>1. i \in Ids(t) /\ u[i] = t[i]
        BY <1>3, <1>9, <2>0, <3>5 DEF Ids
      <4>2. ~RecentlyAsked(t, EmailOf[u[k].job])
        BY <1>4, <3>3
      <4>3. ~(day - t[i].created <= DedupeDays)
        BY <4>1, <4>2 DEF RecentlyAsked
      <4>4. day \in Nat /\ t[i].created \in Nat
        <5>1. t[i] \in Request
          BY <4>1 DEF Ids
        <5> QED BY <5>1, Parameters DEF Request, TypeOK
      <4> QED BY <3>2, <4>1, <4>3, <4>4, Parameters
    <3> QED BY <3>4, <3>5, <2>0, <1>9, <1>3
  <2> QED BY <2>1, <2>2, <2>0, <1>9, <1>3
<1> QED BY <1>1, <1>10, <1>11

LEMMA ExtendsSendsNothing ==
  ASSUME TypeOK, NEW t \in Seq(Request), NEW u, Extends(t, u)
  PROVE  /\ SentToday(u) \subseteq SentToday(t)
         /\ RemindedToday(u) \subseteq RemindedToday(t)
         /\ DailySent(u) <= DailySent(t)
<1>1. day # 0
  BY Parameters DEF TypeOK
<1>2. SentToday(u) \subseteq SentToday(t)
  BY <1>1 DEF SentToday, Ids, Extends, Fresh
<1>3. RemindedToday(u) \subseteq RemindedToday(t)
  BY <1>1 DEF RemindedToday, Ids, Extends, Fresh
<1>4. u \in Seq(Request)
  BY DEF Extends
<1> QED BY <1>2, <1>3, <1>4, NoMoreSent

(* Rows that keep job and day, and are at most deleted, stay apart.           *)
LEMMA ApartKept ==
  ASSUME NEW t, NEW u, ApartIn(t), Ids(u) \subseteq Ids(t),
         \A i \in Ids(u) : u[i].job = t[i].job /\ u[i].created = t[i].created
  PROVE  ApartIn(u)
BY DEF ApartIn

-----------------------------------------------------------------------------
(* The inductive invariant.                                                   *)

(* Sender s has a mail of request i ahead, or behind it with its row not yet  *)
(* updated ("Done").                                                          *)
Mailing(s, i) == Holds(s, i) /\ sender[s].part # "reminders"
Nudging(i) == Holds("drain", i) /\ sender["drain"].part = "reminders"
Done(s, i) == sender[s].pc = "taken" /\ Current(s) = i
Owes(s, i) == Mailing(s, i) /\ ~Done(s, i)
Owing(i) == {s \in Senders : Owes(s, i)}

LoopOK(s) ==
  sender[s].pc # "idle" =>
    /\ sender[s].rows # <<>> /\ IsInjective(sender[s].rows)
    /\ Range(sender[s].rows) \subseteq DOMAIN reqs
    /\ sender[s].part = "reminders" => s = "drain"
    /\ sender[s].part # "single" => Len(sender[s].rows) <= Cap

(* A mail made or owed is the one that a request in hand, or sent, allows, or *)
(* is excused; the same of its reminder.                                      *)
MailAllowed(t, i) ==
  IF t[i].status = "sent" \/ (t[i].status # "deleted" /\ \E s \in Senders : Mailing(s, i))
  THEN 1 ELSE 0
MailBudget(t, i) == t[i].mails + Cardinality(Owing(i)) <= t[i].excuses + MailAllowed(t, i)

NudgeOwed(i) == IF Nudging(i) /\ ~Done("drain", i) THEN 1 ELSE 0
NudgeAllowed(t, i) ==
  IF Nudging(i) \/ t[i].remindedAt > 0 \/ t[i].status = "deleted" THEN 1 ELSE 0
NudgeBudget(t, i) == t[i].nudges + NudgeOwed(i) <= t[i].excuses + NudgeAllowed(t, i)

RowOK(t, i) ==
  /\ t[i].sentAt <= day /\ t[i].remindedAt <= day
  /\ MailBudget(t, i) /\ NudgeBudget(t, i)

(* On a day on which no two senders met, what the one at work has in hand     *)
(* still fits the cap.                                                        *)
CapBudget ==
  ~crossed =>
    /\ DailySent(reqs) <= Cap
    /\ \A s \in Busy : /\ Busy = {s} /\ sender[s].part # "single"
                       /\ DailySent(reqs) + Len(sender[s].rows) <= Cap

ReviewsInv ==
  /\ TypeOK
  /\ \A s \in Senders : LoopOK(s)
  /\ \A i \in DOMAIN reqs : RowOK(reqs, i)
  /\ CapBudget
  /\ RequestsApart

-----------------------------------------------------------------------------
(* The loops that are started.                                                *)

GoodLoop(s, loop, t) ==
  /\ loop \in Loop
  /\ loop.pc = "idle" => loop = Idle
  /\ loop.pc # "idle" =>
       /\ loop.pc = "calling" /\ loop.rows # <<>> /\ IsInjective(loop.rows)
       /\ Range(loop.rows) \subseteq Ids(t)
       /\ IF loop.part = "reminders"
          THEN s = "drain" /\ \A i \in Range(loop.rows) : t[i].remindedAt = 0
          ELSE \A i \in Range(loop.rows) : t[i].status \in {"held", "approved"}
       /\ loop.part # "single" => DailySent(t) + Len(loop.rows) <= Cap

LEMMA IdleGood == ASSUME NEW s, NEW t PROVE GoodLoop(s, Idle, t) /\ Idle \in Loop /\ Idle.pc = "idle"
BY DEF Idle, GoodLoop, Loop

(* A loop over the first rows of a set that fit the day's room.               *)
LEMMA CallingGood ==
  ASSUME NEW t \in Seq(Request), Len(t) <= MaxRows, NEW S \in SUBSET Ids(t), NEW s,
         NEW part \in {"requests", "reminders"},
         IF part = "reminders" THEN s = "drain" /\ \A i \in S : t[i].remindedAt = 0
                               ELSE \A i \in S : t[i].status \in {"held", "approved"},
         First(Room(t), S) # <<>>
  PROVE  GoodLoop(s, Calling(part, First(Room(t), S)), t)
<1> DEFINE f == First(Room(t), S)
<1>1. S \in SUBSET DOMAIN t /\ S \in SUBSET Nat /\ IsFiniteSet(S)
  BY RowIds DEF Ids
<1>2. /\ Room(t) \in Nat /\ Room(t) <= Cap
      /\ Room(t) > 0 => DailySent(t) + Room(t) <= Cap
  BY RoomIs
<1>3. f \in Seq(S) /\ Len(f) <= Room(t) /\ IsInjective(f) /\ Range(f) \subseteq S
  BY <1>1, <1>2, FirstIs
<1>4. f # <<>>
  OBVIOUS
<1> HIDE DEF f
<1>5. Len(f) \in Nat /\ Len(f) > 0
  BY <1>3, <1>4
<1>6. DailySent(t) + Len(f) <= Cap
  BY <1>2, <1>3, <1>5, DailySentIs, Parameters
<1>7. S \subseteq 1..MaxRows
  BY <1>1, Parameters
<1>8. f \in Seq(1..MaxRows)
  <2>1. f \in [1..Len(f) -> S]
    BY <1>3
  <2>2. f \in [1..Len(f) -> 1..MaxRows]
    BY <1>7, <2>1
  <2> QED BY <1>5, <2>2, ListIs
<1>9. Calling(part, f) \in Loop
  BY <1>8 DEF Calling, Loop
<1>10. /\ Calling(part, f).pc = "calling" /\ Calling(part, f).part = part
       /\ Calling(part, f).rows = f
  BY DEF Calling
<1>11. GoodLoop(s, Calling(part, f), t)
  BY <1>3, <1>4, <1>6, <1>9, <1>10 DEF GoodLoop
<1> QED BY <1>11 DEF f

LEMMA RemindersGood ==
  ASSUME NEW t \in Seq(Request), Len(t) <= MaxRows, NEW clicked
  PROVE  GoodLoop("drain", Reminders(t, clicked), t)
<1> DEFINE S == RemindersDue(t, clicked)
<1>1. S \in SUBSET Ids(t) /\ \A i \in S : t[i].remindedAt = 0
  BY DEF RemindersDue
<1>2. Reminders(t, clicked) = IF First(Room(t), S) = <<>> THEN Idle
                              ELSE Calling("reminders", First(Room(t), S))
  BY DEF Reminders
<1> HIDE DEF S
<1>3. CASE First(Room(t), S) = <<>>
  BY <1>2, <1>3, IdleGood
<1>4. CASE First(Room(t), S) # <<>>
  <2>1. GoodLoop("drain", Calling("reminders", First(Room(t), S)), t)
    BY <1>1, <1>4, CallingGood
  <2> QED BY <1>2, <1>4, <2>1
<1> QED BY <1>3, <1>4

LEMMA QueuedGood ==
  ASSUME NEW t \in Seq(Request), Len(t) <= MaxRows, NEW s,
         NEW statuses \in SUBSET {"held", "approved"}, Queued(t, statuses) # <<>>
  PROVE  GoodLoop(s, Calling("requests", Queued(t, statuses)), t)
<1> DEFINE S == {i \in Ids(t) : t[i].status \in statuses}
<1>1. S \in SUBSET Ids(t) /\ \A i \in S : t[i].status \in {"held", "approved"}
  OBVIOUS
<1>2. Queued(t, statuses) = First(Room(t), S)
  BY DEF Queued
<1> HIDE DEF S
<1>3. GoodLoop(s, Calling("requests", First(Room(t), S)), t)
  BY <1>1, <1>2, CallingGood
<1> QED BY <1>2, <1>3

LEMMA DrainGood ==
  ASSUME NEW t \in Seq(Request), Len(t) <= MaxRows, NEW inWindow, NEW clicked
  PROVE  GoodLoop("drain", Drain(t, inWindow, clicked), t)
<1>1. \/ Drain(t, inWindow, clicked) = Reminders(t, clicked)
      \/ /\ Queued(t, {"approved"}) # <<>>
         /\ Drain(t, inWindow, clicked) = Calling("requests", Queued(t, {"approved"}))
  BY DEF Drain
<1> QED BY <1>1, RemindersGood, QueuedGood

LEMMA SingleGood ==
  ASSUME TypeOK, NEW s, NEW i \in Ids(reqs), reqs[i].status # "sent"
  PROVE  GoodLoop(s, Calling("single", <<i>>), reqs)
<1>1. i \in DOMAIN reqs /\ reqs[i] \in Request /\ reqs[i].status # "deleted"
  BY DEF TypeOK, Ids
<1>2. i \in 1..MaxRows
  BY <1>1, Parameters DEF TypeOK
<1>3. reqs[i].status \in {"held", "approved"}
  BY <1>1 DEF Request
<1>4. /\ <<i>> \in Seq(1..MaxRows) /\ <<i>> # <<>>
      /\ Range(<<i>>) = {i} /\ IsInjective(<<i>>)
  BY <1>2 DEF Range, IsInjective
<1> QED BY <1>3, <1>4 DEF GoodLoop, Calling, Loop

-----------------------------------------------------------------------------
(* Counting the senders that owe a mail.                                      *)

LEMMA SomeSenders == ASSUME NEW S \in SUBSET Senders PROVE IsFiniteSet(S) /\ Cardinality(S) \in Nat
<1>1. IsFiniteSet(Desks \cup {"drain"}) /\ Senders = Desks \cup {"drain"}
  BY ReviewsAssumption, FS_AddElement DEF Senders
<1> QED BY <1>1, FS_Subset, FS_CardinalityType

LEMMA OwingFinite ==
  ASSUME NEW i
  PROVE  /\ IsFiniteSet(Owing(i)) /\ Cardinality(Owing(i)) \in Nat
         /\ IsFiniteSet(Owing(i)') /\ Cardinality(Owing(i)') \in Nat
<1>1. Owing(i) \in SUBSET Senders /\ Owing(i)' \in SUBSET Senders
  BY DEF Owing
<1> QED BY <1>1, SomeSenders

(* What one sender's step means for the count.                                *)
LEMMA OwingStep ==
  ASSUME NEW s \in Senders, NEW i, \A o \in Senders : o # s => sender'[o] = sender[o]
  PROVE  /\ ~Owes(s, i) /\ Owes(s, i)' => Cardinality(Owing(i)') = Cardinality(Owing(i)) + 1
         /\ Owes(s, i) /\ ~Owes(s, i)' => Cardinality(Owing(i)') = Cardinality(Owing(i)) - 1
         /\ (Owes(s, i) <=> Owes(s, i)') => Owing(i)' = Owing(i)
<1>0. \A o \in Senders : o # s => (Owes(o, i)' <=> Owes(o, i))
  BY DEF Owes, Mailing, Holds, Done, Current
<1>1. ASSUME ~Owes(s, i), Owes(s, i)'
      PROVE  Cardinality(Owing(i)') = Cardinality(Owing(i)) + 1
  <2>1. Owing(i)' = Owing(i) \cup {s} /\ s \notin Owing(i)
    BY <1>0, <1>1 DEF Owing
  <2> QED BY <2>1, OwingFinite, FS_AddElement
<1>2. ASSUME Owes(s, i), ~Owes(s, i)'
      PROVE  Cardinality(Owing(i)') = Cardinality(Owing(i)) - 1
  <2>1. Owing(i)' = Owing(i) \ {s} /\ s \in Owing(i)
    BY <1>0, <1>2 DEF Owing
  <2> QED BY <2>1, OwingFinite, FS_RemoveElement
<1>3. ASSUME Owes(s, i) <=> Owes(s, i)' PROVE Owing(i)' = Owing(i)
  BY <1>0, <1>3 DEF Owing
<1> QED BY <1>1, <1>2, <1>3

(* The counters of a row and what it may spend.                               *)
LEMMA RowNumbers ==
  ASSUME NEW r \in Request
  PROVE  /\ r.mails \in Nat /\ r.nudges \in Nat /\ r.excuses \in Nat
         /\ r.sentAt \in Nat /\ r.remindedAt \in Nat
         /\ r.status \in {"held", "approved", "sent", "deleted"}
BY Parameters DEF Request

LEMMA AllowedNumbers ==
  ASSUME NEW t, NEW i
  PROVE  /\ MailAllowed(t, i) \in {0, 1} /\ NudgeOwed(i) \in {0, 1} /\ NudgeAllowed(t, i) \in {0, 1}
         /\ MailAllowed(t, i)' \in {0, 1} /\ NudgeOwed(i)' \in {0, 1} /\ NudgeAllowed(t, i)' \in {0, 1}
BY DEF MailAllowed, NudgeOwed, NudgeAllowed

(* A row that is charged nothing and allowed no less.                         *)
LEMMA RowFrame ==
  ASSUME TypeOK, TypeOK', NEW t, NEW i, RowOK(t, i), day' >= day,
         t[i] \in Request, reqs'[i] \in Request,
         reqs'[i].sentAt = t[i].sentAt, reqs'[i].remindedAt = t[i].remindedAt,
         reqs'[i].mails = t[i].mails, reqs'[i].nudges = t[i].nudges,
         reqs'[i].excuses >= t[i].excuses,
         Cardinality(Owing(i)') <= Cardinality(Owing(i)),
         MailAllowed(reqs, i)' >= MailAllowed(t, i),
         NudgeOwed(i)' <= NudgeOwed(i), NudgeAllowed(reqs, i)' >= NudgeAllowed(t, i)
  PROVE  RowOK(reqs, i)'
<1>1. /\ t[i].mails + Cardinality(Owing(i)) <= t[i].excuses + MailAllowed(t, i)
      /\ t[i].nudges + NudgeOwed(i) <= t[i].excuses + NudgeAllowed(t, i)
      /\ t[i].sentAt <= day /\ t[i].remindedAt <= day
  BY DEF RowOK, MailBudget, NudgeBudget
<1>2. day \in Nat /\ day' \in Nat
  BY Parameters DEF TypeOK
<1>3. /\ t[i].mails \in Nat /\ t[i].nudges \in Nat /\ t[i].excuses \in Nat
      /\ t[i].sentAt \in Nat /\ t[i].remindedAt \in Nat /\ reqs'[i].excuses \in Nat
  BY RowNumbers
<1>4. /\ MailAllowed(t, i) \in {0, 1} /\ NudgeOwed(i) \in {0, 1} /\ NudgeAllowed(t, i) \in {0, 1}
      /\ MailAllowed(reqs, i)' \in {0, 1} /\ NudgeOwed(i)' \in {0, 1}
      /\ NudgeAllowed(reqs, i)' \in {0, 1}
  BY AllowedNumbers
<1>5. MailBudget(reqs, i)'
  BY <1>1, <1>3, <1>4, OwingFinite DEF MailBudget
<1>6. NudgeBudget(reqs, i)'
  BY <1>1, <1>3, <1>4 DEF NudgeBudget
<1>7. reqs'[i].sentAt <= day' /\ reqs'[i].remindedAt <= day'
  BY <1>1, <1>2, <1>3
<1> QED BY <1>5, <1>6, <1>7 DEF RowOK

(* Senders stay; an open row stays open.                                      *)
LEMMA RowStays ==
  ASSUME TypeOK, TypeOK', NEW t, NEW i, RowOK(t, i), day' >= day, sender' = sender,
         t[i] \in Request,
         reqs'[i] = t[i] \/ (t[i].status = "held" /\ reqs'[i] = [t[i] EXCEPT !.status = "approved"])
  PROVE  RowOK(reqs, i)'
<1>1. /\ reqs'[i].sentAt = t[i].sentAt /\ reqs'[i].remindedAt = t[i].remindedAt
      /\ reqs'[i].mails = t[i].mails /\ reqs'[i].nudges = t[i].nudges
      /\ reqs'[i].excuses = t[i].excuses /\ reqs'[i] \in Request
      /\ \/ reqs'[i].status = t[i].status
         \/ t[i].status = "held" /\ reqs'[i].status = "approved"
  <2>1. CASE reqs'[i] = t[i]
    BY <2>1
  <2>2. CASE t[i].status = "held" /\ reqs'[i] = [t[i] EXCEPT !.status = "approved"]
    BY <2>2 DEF Request
  <2> QED BY <2>1, <2>2
<1>2. /\ Owing(i)' = Owing(i)
      /\ (\E s \in Senders : Mailing(s, i))' <=> (\E s \in Senders : Mailing(s, i))
      /\ Nudging(i)' <=> Nudging(i)
      /\ Done("drain", i)' <=> Done("drain", i)
  BY DEF Owing, Owes, Mailing, Nudging, Holds, Done, Current
<1>3. MailAllowed(reqs, i)' = MailAllowed(t, i)
  BY <1>1, <1>2 DEF MailAllowed
<1>4. NudgeOwed(i)' = NudgeOwed(i) /\ NudgeAllowed(reqs, i)' = NudgeAllowed(t, i)
  BY <1>1, <1>2 DEF NudgeOwed, NudgeAllowed
<1>5. /\ MailAllowed(t, i) \in {0, 1} /\ NudgeOwed(i) \in {0, 1} /\ NudgeAllowed(t, i) \in {0, 1}
      /\ Cardinality(Owing(i)) \in Nat /\ t[i].excuses \in Nat
  BY AllowedNumbers, OwingFinite, RowNumbers
<1> QED BY <1>1, <1>2, <1>3, <1>4, <1>5, RowFrame

(* A row that nobody held has spent nothing.                                  *)
LEMMA RowNew ==
  ASSUME TypeOK, NEW u, NEW i, Fresh(u[i]), \A s \in Senders : ~Holds(s, i)
  PROVE  RowOK(u, i)
<1>1. Owing(i) = {} /\ ~Nudging(i)
  BY DEF Owing, Owes, Mailing, Nudging, Senders
<1>2. Cardinality(Owing(i)) = 0
  BY <1>1, FS_EmptySet
<1>3. NudgeOwed(i) = 0
  BY <1>1 DEF NudgeOwed
<1>4. day \in Nat /\ MailAllowed(u, i) \in {0, 1} /\ NudgeAllowed(u, i) \in {0, 1}
  BY AllowedNumbers, Parameters DEF TypeOK
<1> QED BY <1>2, <1>3, <1>4 DEF RowOK, MailBudget, NudgeBudget, Fresh

(* The rows of a swept table.                                                 *)
LEMMA RowsSwept ==
  ASSUME TypeOK, NEW t \in Seq(Request), NEW u, Extends(t, u),
         \A i \in DOMAIN t : RowOK(t, i),
         \A s \in Senders : sender[s].pc # "idle" => Range(sender[s].rows) \subseteq DOMAIN t
  PROVE  \A i \in DOMAIN u : RowOK(u, i)
<1>1. ASSUME NEW i \in DOMAIN t PROVE RowOK(u, i)
  <2>1. u[i] = t[i] /\ RowOK(t, i)
    BY DEF Extends
  <2> QED BY <2>1 DEF RowOK, MailBudget, MailAllowed, NudgeBudget, NudgeAllowed
<1>2. ASSUME NEW i \in DOMAIN u \ DOMAIN t PROVE RowOK(u, i)
  <2>1. Fresh(u[i])
    BY DEF Extends
  <2>2. \A s \in Senders : ~Holds(s, i)
    BY DEF Holds
  <2> QED BY <2>1, <2>2, RowNew
<1> QED BY <1>1, <1>2

-----------------------------------------------------------------------------
(* A sender takes up rows of the table t it has just read or swept.           *)

Holders(i) == {o \in Senders : Holds(o, i)}

LEMMA HoldersFinite ==
  ASSUME NEW i
  PROVE  /\ IsFiniteSet(Holders(i)) /\ Cardinality(Holders(i)) \in Nat
         /\ (\E o \in Senders : Holds(o, i)) => Cardinality(Holders(i)) >= 1
<1>1. Holders(i) \in SUBSET Senders
  BY DEF Holders
<1>2. Holders(i) # {} => Cardinality(Holders(i)) # 0
  BY <1>1, SomeSenders, FS_EmptySet
<1> QED BY <1>1, <1>2, SomeSenders DEF Holders

(* The table after Starts: some rows have more excuses, nothing else changed. *)
LEMMA StartsTable ==
  ASSUME NEW s, NEW loop, NEW t \in Seq(Request), Starts(s, loop, t)
  PROVE  /\ reqs' \in Seq(Request) /\ Len(reqs') = Len(t) /\ DOMAIN reqs' = DOMAIN t
         /\ \A i \in DOMAIN t :
              /\ reqs'[i] \in Request /\ t[i] \in Request
              /\ reqs'[i].job = t[i].job /\ reqs'[i].created = t[i].created
              /\ reqs'[i].status = t[i].status /\ reqs'[i].sentAt = t[i].sentAt
              /\ reqs'[i].remindedAt = t[i].remindedAt
              /\ reqs'[i].mails = t[i].mails /\ reqs'[i].nudges = t[i].nudges
              /\ reqs'[i].excuses = IF i \in Range(loop.rows)
                                    THEN t[i].excuses + Cardinality(Holders(i)) ELSE t[i].excuses
<1>1. reqs' = [i \in DOMAIN t |->
                 IF i \in Range(loop.rows)
                 THEN [t[i] EXCEPT !.excuses = @ + Cardinality(Holders(i))]
                 ELSE t[i]]
  BY DEF Starts, Holders
<1>2. ASSUME NEW i \in DOMAIN t
      PROVE  /\ reqs'[i] \in Request /\ t[i] \in Request
             /\ reqs'[i].job = t[i].job /\ reqs'[i].created = t[i].created
             /\ reqs'[i].status = t[i].status /\ reqs'[i].sentAt = t[i].sentAt
             /\ reqs'[i].remindedAt = t[i].remindedAt
             /\ reqs'[i].mails = t[i].mails /\ reqs'[i].nudges = t[i].nudges
             /\ reqs'[i].excuses = IF i \in Range(loop.rows)
                                   THEN t[i].excuses + Cardinality(Holders(i)) ELSE t[i].excuses
  <2>1. t[i] \in Request
    OBVIOUS
  <2>2. CASE i \notin Range(loop.rows)
    BY <1>1, <2>1, <2>2
  <2>3. CASE i \in Range(loop.rows)
    <3>1. reqs'[i] = [t[i] EXCEPT !.excuses = @ + Cardinality(Holders(i))]
      BY <1>1, <2>3
    <3>2. t[i].excuses \in Nat /\ t[i].excuses + Cardinality(Holders(i)) \in Nat
      <4>1. t[i].excuses \in Nat
        BY <2>1, RowNumbers
      <4>2. Cardinality(Holders(i)) \in Nat
        BY HoldersFinite
      <4> QED BY <4>1, <4>2
    <3>3. reqs'[i].excuses = t[i].excuses + Cardinality(Holders(i))
      BY <2>1, <3>1 DEF Request
    <3>4. reqs'[i] \in Request
      BY <2>1, <3>1, <3>2 DEF Request
    <3>5. /\ reqs'[i].job = t[i].job /\ reqs'[i].created = t[i].created
          /\ reqs'[i].status = t[i].status /\ reqs'[i].sentAt = t[i].sentAt
          /\ reqs'[i].remindedAt = t[i].remindedAt
          /\ reqs'[i].mails = t[i].mails /\ reqs'[i].nudges = t[i].nudges
      BY <2>1, <3>1 DEF Request
    <3> QED BY <2>1, <2>3, <3>3, <3>4, <3>5
  <2> QED BY <2>2, <2>3
<1>3. DOMAIN reqs' = DOMAIN t /\ reqs' = [i \in DOMAIN reqs' |-> reqs'[i]]
  BY <1>1
<1>4. reqs' \in Seq(Request) /\ Len(reqs') = Len(t)
  BY <1>2, <1>3, Rewritten
<1> QED BY <1>2, <1>3, <1>4

(* Nobody's budget is exceeded: the row was open, and every other sender with *)
(* the row in hand is an excuse.                                              *)
LEMMA StartsRow ==
  ASSUME TypeOK, TypeOK', day' = day, NEW s \in Senders, NEW loop, NEW t \in Seq(Request),
         GoodLoop(s, loop, t), Starts(s, loop, t),
         NEW i \in DOMAIN t, RowOK(t, i),
         \A o \in Senders : sender[o].pc # "idle" /\ sender[o].part = "reminders" => o = "drain"
  PROVE  RowOK(reqs, i)'
<1>1. /\ sender[s].pc = "idle" /\ sender'[s] = loop
      /\ \A o \in Senders : o # s => sender'[o] = sender[o]
  BY DEF Starts, TypeOK
<1>2. /\ reqs'[i] \in Request /\ t[i] \in Request
      /\ reqs'[i].status = t[i].status /\ reqs'[i].sentAt = t[i].sentAt
      /\ reqs'[i].remindedAt = t[i].remindedAt
      /\ reqs'[i].mails = t[i].mails /\ reqs'[i].nudges = t[i].nudges
      /\ reqs'[i].excuses = IF i \in Range(loop.rows)
                            THEN t[i].excuses + Cardinality(Holders(i)) ELSE t[i].excuses
  BY StartsTable
<1>3. /\ t[i].mails \in Nat /\ t[i].nudges \in Nat /\ t[i].excuses \in Nat
      /\ reqs'[i].excuses \in Nat /\ day \in Nat
      /\ Cardinality(Holders(i)) \in Nat /\ reqs'[i].excuses >= t[i].excuses
      /\ Cardinality(Owing(i)) \in Nat /\ Cardinality(Owing(i)') \in Nat
  <2>1. /\ t[i].mails \in Nat /\ t[i].nudges \in Nat /\ t[i].excuses \in Nat
        /\ reqs'[i].excuses \in Nat /\ day \in Nat
    BY <1>2, RowNumbers, Parameters DEF TypeOK
  <2>2. Cardinality(Holders(i)) \in Nat
    BY HoldersFinite
  <2> QED BY <1>2, <2>1, <2>2, OwingFinite
<1>4. ~Mailing(s, i) /\ ~Owes(s, i)
  BY <1>1 DEF Owes, Mailing, Holds
<1>5. \A o \in Senders : o # s => (Holds(o, i)' <=> Holds(o, i)) /\ (Mailing(o, i)' <=> Mailing(o, i))
  BY <1>1 DEF Holds, Mailing
<1>6. Holds(s, i)' <=> loop.pc # "idle" /\ i \in Range(loop.rows)
  BY <1>1 DEF Holds
<1>7. /\ t[i].mails + Cardinality(Owing(i)) <= t[i].excuses + MailAllowed(t, i)
      /\ t[i].nudges + NudgeOwed(i) <= t[i].excuses + NudgeAllowed(t, i)
      /\ t[i].sentAt <= day /\ t[i].remindedAt <= day
  BY DEF RowOK, MailBudget, NudgeBudget
<1>8. /\ MailAllowed(t, i) \in {0, 1} /\ NudgeOwed(i) \in {0, 1} /\ NudgeAllowed(t, i) \in {0, 1}
      /\ MailAllowed(reqs, i)' \in {0, 1} /\ NudgeOwed(i)' \in {0, 1}
      /\ NudgeAllowed(reqs, i)' \in {0, 1}
  BY AllowedNumbers
<1>12. /\ t[i].mails + Cardinality(Owing(i)) <= t[i].excuses + MailAllowed(t, i)
       /\ reqs'[i].mails = t[i].mails /\ reqs'[i].excuses >= t[i].excuses
       /\ t[i].mails \in Nat /\ t[i].excuses \in Nat /\ reqs'[i].excuses \in Nat
       /\ Cardinality(Owing(i)) \in Nat /\ MailAllowed(t, i) \in {0, 1}
  BY <1>2, <1>3, <1>7, <1>8
<1>13. /\ t[i].nudges + NudgeOwed(i) <= t[i].excuses + NudgeAllowed(t, i)
       /\ reqs'[i].nudges = t[i].nudges /\ reqs'[i].excuses >= t[i].excuses
       /\ t[i].nudges \in Nat /\ t[i].excuses \in Nat /\ reqs'[i].excuses \in Nat
       /\ NudgeOwed(i) \in {0, 1} /\ NudgeAllowed(t, i) \in {0, 1}
  BY <1>2, <1>3, <1>7, <1>8
<1>9. CASE loop.pc = "idle" \/ i \notin Range(loop.rows)
  <2>1. ~Holds(s, i)' /\ ~Holds(s, i)
    BY <1>1, <1>6, <1>9 DEF Holds
  <2>2. Owing(i)' = Owing(i)
    BY <1>1, <1>4, <2>1, OwingStep DEF Owes, Mailing
  <2>3. MailAllowed(reqs, i)' = MailAllowed(t, i)
    BY <1>2, <1>5, <2>1 DEF MailAllowed, Mailing
  <2>4. (Nudging(i)' <=> Nudging(i)) /\ (Nudging(i) => (Done("drain", i)' <=> Done("drain", i)))
    BY <1>1, <2>1 DEF Nudging, Holds, Done, Current, Senders
  <2>5. NudgeOwed(i)' = NudgeOwed(i) /\ NudgeAllowed(reqs, i)' = NudgeAllowed(t, i)
    BY <1>2, <2>4 DEF NudgeOwed, NudgeAllowed
  <2> QED BY <1>2, <1>3, <1>8, <2>2, <2>3, <2>5, RowFrame
<1>10. CASE loop.pc # "idle" /\ i \in Range(loop.rows) /\ loop.part # "reminders"
  <2>1. loop.pc = "calling" /\ t[i].status \in {"held", "approved"}
    BY <1>10 DEF GoodLoop
  <2>2. Mailing(s, i)' /\ Owes(s, i)'
    BY <1>1, <1>6, <1>10, <2>1 DEF Mailing, Owes, Done
  <2>3. Cardinality(Owing(i)') = Cardinality(Owing(i)) + 1
    BY <1>1, <1>4, <2>2, OwingStep
  <2>4. MailAllowed(reqs, i)' = 1
    BY <1>2, <2>1, <2>2 DEF MailAllowed
  <2>5. reqs'[i].excuses = t[i].excuses + Cardinality(Holders(i))
    BY <1>2, <1>10
  <2>6. MailAllowed(t, i) <= Cardinality(Holders(i))
    <3>1. CASE \E o \in Senders : Mailing(o, i)
      <4>1. Cardinality(Holders(i)) >= 1
        BY <3>1, HoldersFinite DEF Mailing
      <4> QED BY <1>3, <1>8, <4>1
    <3>2. CASE ~\E o \in Senders : Mailing(o, i)
      BY <1>3, <2>1, <3>2 DEF MailAllowed
    <3> QED BY <3>1, <3>2
  <2>7. MailBudget(reqs, i)'
    <3>1. reqs'[i].mails + Cardinality(Owing(i)') <= reqs'[i].excuses + MailAllowed(reqs, i)'
      <4>1. Cardinality(Holders(i)) \in Nat
        BY <1>3
      <4>2. \A m, c, x, h \in Nat, a \in {0, 1} : m + c <= x + a /\ a <= h => m + (c + 1) <= (x + h) + 1
        OBVIOUS
      <4>3. t[i].mails + (Cardinality(Owing(i)) + 1) <= (t[i].excuses + Cardinality(Holders(i))) + 1
        BY <1>12, <2>6, <4>1, <4>2
      <4> QED BY <1>12, <2>3, <2>4, <2>5, <4>3
    <3> QED BY <3>1 DEF MailBudget
  <2>8. (Nudging(i)' <=> Nudging(i)) /\ (Nudging(i) => (Done("drain", i)' <=> Done("drain", i)))
    BY <1>1, <1>10 DEF Nudging, Holds, Done, Current, Senders
  <2>9. NudgeOwed(i)' = NudgeOwed(i) /\ NudgeAllowed(reqs, i)' = NudgeAllowed(t, i)
    BY <1>2, <2>8 DEF NudgeOwed, NudgeAllowed
  <2>10. NudgeBudget(reqs, i)'
    <3>1. reqs'[i].nudges + NudgeOwed(i)' <= reqs'[i].excuses + NudgeAllowed(reqs, i)'
      BY <1>13, <2>9
    <3> QED BY <3>1 DEF NudgeBudget
  <2> QED BY <1>2, <1>7, <2>7, <2>10 DEF RowOK
<1>11. CASE loop.pc # "idle" /\ i \in Range(loop.rows) /\ loop.part = "reminders"
  <2>1. loop.pc = "calling" /\ s = "drain" /\ t[i].remindedAt = 0 /\ t[i].status # "deleted"
    BY <1>11 DEF GoodLoop, Ids
  <2>2. ~Mailing(s, i)' /\ ~Owes(s, i)'
    BY <1>1, <1>11 DEF Mailing, Owes
  <2>3. Owing(i)' = Owing(i)
    BY <1>1, <1>4, <2>2, OwingStep
  <2>4. MailAllowed(reqs, i)' = MailAllowed(t, i)
    BY <1>2, <1>4, <1>5, <2>2 DEF MailAllowed
  <2>5. MailBudget(reqs, i)'
    <3>1. reqs'[i].mails + Cardinality(Owing(i)') <= reqs'[i].excuses + MailAllowed(reqs, i)'
      BY <1>12, <2>3, <2>4
    <3> QED BY <3>1 DEF MailBudget
  <2>6. Nudging(i)' /\ ~Nudging(i)
    BY <1>1, <1>6, <1>11, <2>1 DEF Nudging, Holds
  <2>7. NudgeAllowed(t, i) = 0 /\ NudgeAllowed(reqs, i)' = 1
    BY <2>1, <2>6 DEF NudgeAllowed
  <2>8. NudgeBudget(reqs, i)'
    <3>1. reqs'[i].nudges + NudgeOwed(i)' <= reqs'[i].excuses + NudgeAllowed(reqs, i)'
      <4>1. NudgeOwed(i)' \in {0, 1}
        BY <1>8
      <4> QED BY <1>13, <2>7, <4>1
    <3> QED BY <3>1 DEF NudgeBudget
  <2> QED BY <1>2, <1>7, <2>5, <2>8 DEF RowOK
<1> QED BY <1>9, <1>10, <1>11

LEMMA DailySentSame == ASSUME day' = day PROVE DailySent(reqs)' = DailySent(reqs')
BY DEF DailySent, Ids

(* A sweep alone: the table grows, the senders go on.                         *)
LEMMA GrowsNext ==
  ASSUME ReviewsInv, TypeOK', NEW t \in Seq(Request), Extends(t, reqs'), ApartIn(reqs'),
         DOMAIN t = DOMAIN reqs, \A i \in DOMAIN t : RowOK(t, i), DailySent(t) <= DailySent(reqs),
         UNCHANGED <<day, sender, crossed>>
  PROVE  ReviewsInv'
<1>1. /\ TypeOK /\ CapBudget
      /\ \A s \in Senders : LoopOK(s)
  BY DEF ReviewsInv
<1>2. reqs' \in Seq(Request) /\ DOMAIN t \subseteq DOMAIN reqs'
  BY DEF Extends
<1>3. \A s \in Senders : LoopOK(s)'
  BY <1>1, <1>2 DEF LoopOK
<1>4. \A s \in Senders : sender[s].pc # "idle" => Range(sender[s].rows) \subseteq DOMAIN t
  BY <1>1 DEF LoopOK
<1>5. ASSUME NEW i \in DOMAIN reqs' PROVE RowOK(reqs, i)'
  <2>1. RowOK(reqs', i)
    BY <1>1, <1>4, RowsSwept
  <2>2. reqs'[i] \in Request
    BY <1>2
  <2>3. day' >= day
    BY <1>1, Parameters DEF TypeOK
  <2> QED BY <1>1, <2>1, <2>2, <2>3, RowStays
<1>6. CapBudget'
  <2>1. /\ DailySent(reqs)' <= DailySent(t) /\ DailySent(reqs)' \in Nat /\ DailySent(t) \in Nat
        /\ DailySent(reqs) \in Nat
    BY <1>1, <1>2, ExtendsSendsNothing, DailySentSame, DailySentIs DEF TypeOK
  <2>2. SUFFICES ASSUME ~crossed
                 PROVE  /\ DailySent(reqs)' <= Cap
                        /\ \A s \in Busy' : /\ Busy' = {s} /\ sender'[s].part # "single"
                                            /\ DailySent(reqs)' + Len(sender'[s].rows) <= Cap
    BY DEF CapBudget
  <2>3. /\ DailySent(reqs) <= Cap
        /\ \A s \in Busy : /\ Busy = {s} /\ sender[s].part # "single"
                           /\ DailySent(reqs) + Len(sender[s].rows) <= Cap
    BY <1>1, <2>2 DEF CapBudget
  <2>4. Busy' = Busy /\ sender' = sender /\ \A s \in Busy : Len(sender[s].rows) \in Nat
    BY <1>1 DEF Busy, TypeOK, Loop
  <2> QED BY <2>1, <2>3, <2>4, Parameters
<1>7. RequestsApart'
  BY DEF RequestsApart, ApartIn, Ids
<1> QED BY <1>3, <1>5, <1>6, <1>7 DEF ReviewsInv

LEMMA StartsNext ==
  ASSUME ReviewsInv, TypeOK', NEW s \in Senders, NEW loop, NEW t, Extends(reqs, t), ApartIn(t),
         GoodLoop(s, loop, t), Starts(s, loop, t), day' = day
  PROVE  ReviewsInv'
<1>0. /\ TypeOK /\ CapBudget /\ t \in Seq(Request)
      /\ \A o \in Senders : LoopOK(o)
      /\ \A i \in DOMAIN reqs : RowOK(reqs, i)
      /\ reqs \in Seq(Request)
  BY DEF ReviewsInv, Extends, TypeOK
<1>1. /\ sender[s].pc = "idle" /\ sender'[s] = loop
      /\ \A o \in Senders : o # s => sender'[o] = sender[o]
      /\ crossed' = (crossed \/ (loop # Idle /\ (Busy # {} \/ loop.part = "single")))
  BY <1>0 DEF Starts, TypeOK
<1>2. /\ reqs' \in Seq(Request) /\ DOMAIN reqs' = DOMAIN t
      /\ \A i \in DOMAIN t :
           /\ reqs'[i].job = t[i].job /\ reqs'[i].created = t[i].created
           /\ reqs'[i].status = t[i].status /\ reqs'[i].sentAt = t[i].sentAt
           /\ reqs'[i].remindedAt = t[i].remindedAt
  BY <1>0, StartsTable
<1>3. \A i \in DOMAIN t : RowOK(t, i)
  <2>1. \A o \in Senders : sender[o].pc # "idle" => Range(sender[o].rows) \subseteq DOMAIN reqs
    BY <1>0 DEF LoopOK
  <2> QED BY <1>0, <2>1, RowsSwept
<1>4. \A i \in DOMAIN reqs' : RowOK(reqs, i)'
  <2>1. \A o \in Senders : sender[o].pc # "idle" /\ sender[o].part = "reminders" => o = "drain"
    BY <1>0 DEF LoopOK
  <2> QED BY <1>0, <1>2, <1>3, <2>1, StartsRow
<1>5. /\ DailySent(reqs') <= DailySent(t) /\ DailySent(t) <= DailySent(reqs)
      /\ DailySent(reqs') \in Nat /\ DailySent(t) \in Nat /\ DailySent(reqs) \in Nat
      /\ DailySent(reqs)' = DailySent(reqs')
  <2>1. SentToday(reqs') \subseteq SentToday(t) /\ RemindedToday(reqs') \subseteq RemindedToday(t)
    BY <1>2 DEF SentToday, RemindedToday, Ids
  <2>2. DailySent(reqs') <= DailySent(t)
    BY <1>0, <1>2, <2>1, NoMoreSent
  <2>3. DailySent(t) <= DailySent(reqs)
    BY <1>0, ExtendsSendsNothing
  <2> QED BY <1>0, <1>2, <2>2, <2>3, DailySentIs, DailySentSame
<1>6. loop.pc # "idle" => /\ loop.rows # <<>> /\ IsInjective(loop.rows)
                          /\ Range(loop.rows) \subseteq DOMAIN reqs'
                          /\ loop.part = "reminders" => s = "drain"
                          /\ loop.part # "single" => DailySent(t) + Len(loop.rows) <= Cap
                          /\ loop.part # "single" => Len(loop.rows) <= Cap
                          /\ Len(loop.rows) \in Nat
  BY <1>2, <1>5, Parameters DEF GoodLoop, Ids, Loop
<1>7. \A o \in Senders : LoopOK(o)'
  <2>1. DOMAIN reqs \subseteq DOMAIN reqs'
    BY <1>2 DEF Extends
  <2>2. ASSUME NEW o \in Senders, o # s PROVE LoopOK(o)'
    BY <1>0, <1>1, <2>1, <2>2 DEF LoopOK
  <2>3. LoopOK(s)'
    BY <1>1, <1>6 DEF LoopOK
  <2> QED BY <2>2, <2>3
<1>8. CapBudget'
  <2>1. SUFFICES ASSUME ~crossed'
                 PROVE  /\ DailySent(reqs)' <= Cap
                        /\ \A o \in Busy' : /\ Busy' = {o} /\ sender'[o].part # "single"
                                            /\ DailySent(reqs)' + Len(sender'[o].rows) <= Cap
    BY DEF CapBudget
  <2>2. /\ DailySent(reqs) <= Cap
        /\ \A o \in Busy : /\ Busy = {o} /\ sender[o].part # "single"
                           /\ DailySent(reqs) + Len(sender[o].rows) <= Cap
    BY <1>0, <1>1, <2>1 DEF CapBudget
  <2>3. DailySent(reqs)' <= Cap
    BY <1>5, <2>2, Parameters
  <2>4. CASE loop.pc = "idle"
    <3>0. \A o \in Busy : Len(sender[o].rows) \in Nat
      BY <1>0 DEF Busy, TypeOK, Loop
    <3>1. Busy' = Busy /\ \A o \in Busy : sender'[o] = sender[o] /\ Len(sender[o].rows) \in Nat
      BY <1>1, <2>4, <3>0 DEF Busy
    <3>2. ASSUME NEW o \in Busy PROVE DailySent(reqs)' + Len(sender[o].rows) <= Cap
      <4>0. DailySent(reqs) + Len(sender[o].rows) <= Cap
        BY <2>2
      <4>1. DailySent(reqs) + Len(sender[o].rows) <= Cap /\ Len(sender[o].rows) \in Nat
        BY <3>1, <4>0
      <4>2. DailySent(reqs)' <= DailySent(reqs) /\ DailySent(reqs)' \in Nat /\ DailySent(reqs) \in Nat
        BY <1>5, Parameters
      <4> QED BY <4>1, <4>2, Parameters
    <3> QED BY <2>2, <2>3, <3>1, <3>2
  <2>5. CASE loop.pc # "idle"
    <3>1. Busy = {} /\ loop.part # "single"
      BY <1>1, <2>1, <2>5, IdleGood
    <3>2. Busy' = {s}
      BY <1>1, <2>5, <3>1 DEF Busy
    <3>3. DailySent(reqs)' + Len(loop.rows) <= Cap
      BY <1>5, <1>6, <2>5, <3>1, Parameters
    <3> QED BY <1>1, <2>3, <3>1, <3>2, <3>3
  <2> QED BY <2>4, <2>5
<1>9. RequestsApart'
  <2>1. Ids(reqs') \subseteq Ids(t)
    BY <1>2 DEF Ids
  <2>2. \A i \in Ids(reqs') : reqs'[i].job = t[i].job /\ reqs'[i].created = t[i].created
    BY <1>2 DEF Ids
  <2>3. ApartIn(reqs')
    BY <2>1, <2>2, ApartKept
  <2> QED BY <2>3 DEF RequestsApart, ApartIn, Ids
<1> QED BY <1>4, <1>7, <1>8, <1>9 DEF ReviewsInv

-----------------------------------------------------------------------------
(* Action by action: the sweeps, and the senders that start.                  *)

LEMMA TypeStarts ==
  ASSUME TypeOK, NEW s \in Senders, NEW loop, NEW t, Extends(reqs, t), Len(t) <= MaxRows,
         GoodLoop(s, loop, t), Starts(s, loop, t), asked' \subseteq Jobs,
         UNCHANGED <<day, mode, active, complete, troubles>>
  PROVE  TypeOK'
<1>1. t \in Seq(Request)
  BY DEF Extends
<1>2. reqs' \in Seq(Request) /\ Len(reqs') <= MaxRows
  BY <1>1, StartsTable
<1>3. sender' \in [Senders -> Loop]
  BY DEF Starts, TypeOK, GoodLoop
<1>4. crossed' \in BOOLEAN
  BY DEF Starts
<1> QED BY <1>2, <1>3, <1>4 DEF TypeOK

LEMMA PendingIs == ASSUME TypeOK, NEW flags PROVE PendingJobs(flags) \in SUBSET Jobs
BY DEF PendingJobs, TypeOK

LEMMA ApartNow == RequestsApart <=> ApartIn(reqs)
BY DEF RequestsApart, ApartIn

LEMMA ExtendsItself == ASSUME TypeOK PROVE Extends(reqs, reqs) /\ reqs \in Seq(Request)
BY DEF TypeOK, Extends

LEMMA ScheduledRunNext == ReviewsInv /\ ScheduledRun => ReviewsInv'
<1> SUFFICES ASSUME ReviewsInv, ScheduledRun PROVE ReviewsInv'
  OBVIOUS
<1> DEFINE t == Swept(reqs, PendingJobs(asked))
<1>1. TypeOK /\ RequestsApart
  BY DEF ReviewsInv
<1>2. PICK inWindow, clicked :
        /\ Len(t) <= MaxRows
        /\ Starts("drain", IF mode = "auto" THEN Drain(t, inWindow, clicked) ELSE Idle, t)
        /\ asked' = asked \cup PendingJobs(asked)
        /\ UNCHANGED <<day, mode, active, complete, troubles>>
  BY DEF ScheduledRun
<1>3. Extends(reqs, t) /\ ApartIn(t)
  BY <1>1, PendingIs, SweptIs, ApartNow DEF TypeOK
<1>4. t \in Seq(Request)
  BY <1>3 DEF Extends
<1> HIDE DEF t
<1>5. PICK loop : loop = IF mode = "auto" THEN Drain(t, inWindow, clicked) ELSE Idle
  OBVIOUS
<1>6. GoodLoop("drain", loop, t)
  BY <1>2, <1>4, <1>5, DrainGood, IdleGood
<1>7. Starts("drain", loop, t) /\ "drain" \in Senders
  BY <1>2, <1>5 DEF Senders
<1>8. asked' \subseteq Jobs
  BY <1>1, <1>2, PendingIs DEF TypeOK
<1>9. TypeOK'
  BY <1>1, <1>2, <1>3, <1>6, <1>7, <1>8, TypeStarts
<1> QED BY <1>2, <1>3, <1>6, <1>7, <1>9, StartsNext

LEMMA SweepNext == ReviewsInv /\ Sweep => ReviewsInv'
<1> SUFFICES ASSUME ReviewsInv, Sweep PROVE ReviewsInv'
  OBVIOUS
<1>1. /\ TypeOK /\ RequestsApart /\ reqs \in Seq(Request)
      /\ \A i \in DOMAIN reqs : RowOK(reqs, i)
  BY DEF ReviewsInv, TypeOK
<1>2. /\ Len(reqs') <= MaxRows
      /\ reqs' = Swept(reqs, PendingJobs(asked))
      /\ asked' = asked \cup PendingJobs(asked)
      /\ UNCHANGED <<day, mode, active, complete, sender, crossed, troubles>>
  BY DEF Sweep
<1>3. Extends(reqs, reqs') /\ ApartIn(reqs')
  BY <1>1, <1>2, PendingIs, SweptIs, ApartNow
<1>4. TypeOK'
  BY <1>1, <1>2, <1>3, PendingIs DEF TypeOK, Extends
<1>5. DailySent(reqs) <= DailySent(reqs)
  BY <1>1, DailySentIs
<1> QED BY <1>1, <1>2, <1>3, <1>4, <1>5, GrowsNext

LEMMA SendBatchNext == ASSUME ReviewsInv, NEW d \in Desks, SendBatch(d) PROVE ReviewsInv'
<1> DEFINE rows == Queued(reqs, {"held", "approved"})
<1>1. /\ TypeOK /\ RequestsApart /\ d \in Senders
      /\ Extends(reqs, reqs) /\ reqs \in Seq(Request) /\ Len(reqs) <= MaxRows
  BY ExtendsItself DEF ReviewsInv, TypeOK, Senders
<1>2. /\ rows # <<>>
      /\ Starts(d, Calling("requests", rows), reqs)
      /\ UNCHANGED <<day, mode, active, complete, asked, troubles>>
  BY DEF SendBatch
<1>3. GoodLoop(d, Calling("requests", rows), reqs)
  BY <1>1, <1>2, QueuedGood
<1> HIDE DEF rows
<1>4. asked' \subseteq Jobs
  BY <1>1, <1>2 DEF TypeOK
<1>5. TypeOK'
  BY <1>1, <1>2, <1>3, <1>4, TypeStarts
<1>6. ApartIn(reqs) /\ day' = day
  BY <1>1, <1>2, ApartNow
<1> QED BY <1>1, <1>2, <1>3, <1>5, <1>6, StartsNext

LEMMA SendOneNext ==
  ASSUME ReviewsInv, NEW d \in Desks, NEW i \in DOMAIN reqs, SendOne(d, i) PROVE ReviewsInv'
<1>1. /\ TypeOK /\ RequestsApart /\ d \in Senders
      /\ Extends(reqs, reqs) /\ reqs \in Seq(Request) /\ Len(reqs) <= MaxRows
  BY ExtendsItself DEF ReviewsInv, TypeOK, Senders
<1>2. /\ i \in Ids(reqs) /\ reqs[i].status # "sent"
      /\ Starts(d, Calling("single", <<i>>), reqs)
      /\ UNCHANGED <<day, mode, active, complete, asked, troubles>>
  BY DEF SendOne
<1>3. GoodLoop(d, Calling("single", <<i>>), reqs)
  BY <1>1, <1>2, SingleGood
<1>4. asked' \subseteq Jobs
  BY <1>1, <1>2 DEF TypeOK
<1>5. TypeOK'
  BY <1>1, <1>2, <1>3, <1>4, TypeStarts
<1>6. ApartIn(reqs) /\ day' = day
  BY <1>1, <1>2, ApartNow
<1> QED BY <1>1, <1>2, <1>3, <1>5, <1>6, StartsNext

(* A regeneration excuses the mails that are on their way for deleted rows.   *)
LEMMA RegenerateNext == ReviewsInv /\ Regenerate => ReviewsInv'
<1> SUFFICES ASSUME ReviewsInv, Regenerate PROVE ReviewsInv'
  OBVIOUS
<1> DEFINE kept == [i \in DOMAIN reqs |->
                      IF reqs[i].status \in {"sent", "deleted"} THEN reqs[i]
                      ELSE [reqs[i] EXCEPT !.status = "deleted",
                              !.excuses = @ + Cardinality(Holders(i))]]
           flags == asked \cap {kept[i].job : i \in {k \in DOMAIN kept : kept[k].status = "sent"}}
           pending == PendingJobs(flags)
<1>1. /\ TypeOK /\ RequestsApart /\ reqs \in Seq(Request)
      /\ \A i \in DOMAIN reqs : RowOK(reqs, i)
  BY DEF ReviewsInv, TypeOK
<1>2. /\ Len(reqs') <= MaxRows
      /\ reqs' = Swept(kept, pending)
      /\ asked' = flags \cup pending
      /\ UNCHANGED <<day, mode, active, complete, sender, crossed, troubles>>
  BY DEF Regenerate, Holders
<1>3. pending \in SUBSET Jobs /\ flags \subseteq Jobs
  BY <1>1, PendingIs DEF TypeOK
<1>4. DOMAIN kept = DOMAIN reqs /\ kept = [i \in DOMAIN kept |-> kept[i]]
  OBVIOUS
<1>5. ASSUME NEW i \in DOMAIN reqs
      PROVE  /\ kept[i] \in Request
             /\ kept[i].job = reqs[i].job /\ kept[i].created = reqs[i].created
             /\ kept[i].sentAt = reqs[i].sentAt /\ kept[i].remindedAt = reqs[i].remindedAt
             /\ kept[i].mails = reqs[i].mails /\ kept[i].nudges = reqs[i].nudges
             /\ \/ kept[i] = reqs[i]
                \/ /\ reqs[i].status \in {"held", "approved"} /\ kept[i].status = "deleted"
                   /\ kept[i].excuses = reqs[i].excuses + Cardinality(Holders(i))
  <2>1. reqs[i] \in Request
    BY <1>1
  <2>2. CASE reqs[i].status \in {"sent", "deleted"}
    BY <2>1, <2>2
  <2>3. CASE reqs[i].status \notin {"sent", "deleted"}
    <3>1. kept[i] = [reqs[i] EXCEPT !.status = "deleted", !.excuses = @ + Cardinality(Holders(i))]
      BY <2>3
    <3> HIDE DEF kept
    <3>2. reqs[i].excuses \in Nat /\ reqs[i].status \in {"held", "approved"}
      BY <2>1, <2>3, RowNumbers
    <3>3. reqs[i].excuses + Cardinality(Holders(i)) \in Nat
      BY <3>2, HoldersFinite
    <3>4. kept[i].excuses = reqs[i].excuses + Cardinality(Holders(i))
      BY <2>1, <3>1 DEF Request
    <3>5. kept[i] \in Request
      BY <2>1, <3>1, <3>3 DEF Request
    <3>6. /\ kept[i].job = reqs[i].job /\ kept[i].created = reqs[i].created
          /\ kept[i].sentAt = reqs[i].sentAt /\ kept[i].remindedAt = reqs[i].remindedAt
          /\ kept[i].mails = reqs[i].mails /\ kept[i].nudges = reqs[i].nudges
          /\ kept[i].status = "deleted"
      BY <2>1, <3>1 DEF Request
    <3> QED BY <3>2, <3>4, <3>5, <3>6
  <2> QED BY <2>2, <2>3
<1> HIDE DEF kept, flags, pending
<1>6. kept \in Seq(Request)
  BY <1>1, <1>4, <1>5, Rewritten
<1>7. ApartIn(kept)
  <2>1. Ids(kept) \subseteq Ids(reqs)
    BY <1>4, <1>5 DEF Ids
  <2>2. \A i \in Ids(kept) : kept[i].job = reqs[i].job /\ kept[i].created = reqs[i].created
    BY <1>4, <1>5 DEF Ids
  <2> QED BY <1>1, <2>1, <2>2, ApartKept, ApartNow
<1>8. DailySent(kept) <= DailySent(reqs)
  <2>1. SentToday(kept) \subseteq SentToday(reqs) /\ RemindedToday(kept) \subseteq RemindedToday(reqs)
    BY <1>4, <1>5 DEF SentToday, RemindedToday, Ids
  <2> QED BY <1>1, <1>6, <2>1, NoMoreSent
<1>9. ASSUME NEW i \in DOMAIN kept PROVE RowOK(kept, i)
  <2>1. RowOK(reqs, i) /\ reqs[i] \in Request
    BY <1>1, <1>4
  <2>2. CASE kept[i] = reqs[i]
    BY <2>1, <2>2 DEF RowOK, MailBudget, MailAllowed, NudgeBudget, NudgeAllowed
  <2>3. CASE /\ reqs[i].status \in {"held", "approved"} /\ kept[i].status = "deleted"
             /\ kept[i].excuses = reqs[i].excuses + Cardinality(Holders(i))
    <3>1. /\ kept[i].sentAt = reqs[i].sentAt /\ kept[i].remindedAt = reqs[i].remindedAt
          /\ kept[i].mails = reqs[i].mails /\ kept[i].nudges = reqs[i].nudges
      BY <1>4, <1>5
    <3>2. /\ reqs[i].mails + Cardinality(Owing(i)) <= reqs[i].excuses + MailAllowed(reqs, i)
          /\ reqs[i].nudges + NudgeOwed(i) <= reqs[i].excuses + NudgeAllowed(reqs, i)
          /\ reqs[i].sentAt <= day /\ reqs[i].remindedAt <= day
      BY <2>1 DEF RowOK, MailBudget, NudgeBudget
    <3>3. /\ reqs[i].mails \in Nat /\ reqs[i].nudges \in Nat /\ reqs[i].excuses \in Nat
          /\ Cardinality(Owing(i)) \in Nat
      BY <2>1, RowNumbers, OwingFinite
    <3>4. Cardinality(Holders(i)) \in Nat
      BY HoldersFinite
    <3>5. MailAllowed(reqs, i) <= Cardinality(Holders(i))
      <4>1. CASE \E o \in Senders : Mailing(o, i)
        <5>1. Cardinality(Holders(i)) >= 1
          BY <4>1, HoldersFinite DEF Mailing
        <5>2. MailAllowed(reqs, i) \in {0, 1}
          BY AllowedNumbers
        <5> QED BY <3>4, <5>1, <5>2
      <4>2. CASE ~\E o \in Senders : Mailing(o, i)
        BY <2>3, <3>4, <4>2 DEF MailAllowed
      <4> QED BY <4>1, <4>2
    <3>6. /\ MailAllowed(reqs, i) \in {0, 1} /\ NudgeOwed(i) \in {0, 1}
          /\ NudgeAllowed(reqs, i) \in {0, 1}
      BY AllowedNumbers
    <3>7. MailAllowed(kept, i) = 0 /\ NudgeAllowed(kept, i) = 1
      BY <2>3 DEF MailAllowed, NudgeAllowed
    <3>8. kept[i].mails + Cardinality(Owing(i)) <= kept[i].excuses + MailAllowed(kept, i)
      BY <2>3, <3>1, <3>2, <3>3, <3>4, <3>5, <3>6, <3>7
    <3>9. kept[i].nudges + NudgeOwed(i) <= kept[i].excuses + NudgeAllowed(kept, i)
      BY <2>3, <3>1, <3>2, <3>3, <3>4, <3>6, <3>7
    <3> QED BY <3>1, <3>2, <3>8, <3>9 DEF RowOK, MailBudget, NudgeBudget
  <2> QED BY <1>4, <1>5, <2>2, <2>3
<1>10. Extends(kept, reqs') /\ ApartIn(reqs')
  BY <1>1, <1>2, <1>3, <1>6, <1>7, SweptIs
<1>11. TypeOK'
  BY <1>1, <1>2, <1>3, <1>10 DEF TypeOK, Extends
<1> QED BY <1>2, <1>4, <1>6, <1>8, <1>9, <1>10, <1>11, GrowsNext

-----------------------------------------------------------------------------
(* Action by action: approvals, settings, jobs and days.                      *)

(* No mail more counts today, and nobody takes up anything.                   *)
LEMMA CapStays ==
  ASSUME TypeOK, CapBudget, crossed' = crossed, Busy' = Busy,
         \A s \in Busy : sender'[s].rows = sender[s].rows /\ sender'[s].part = sender[s].part,
         DailySent(reqs)' <= DailySent(reqs), DailySent(reqs)' \in Nat, DailySent(reqs) \in Nat
  PROVE  CapBudget'
<1>1. SUFFICES ASSUME ~crossed
               PROVE  /\ DailySent(reqs)' <= Cap
                      /\ \A s \in Busy : /\ Busy = {s} /\ sender'[s].part # "single"
                                         /\ DailySent(reqs)' + Len(sender'[s].rows) <= Cap
  BY DEF CapBudget
<1>2. /\ DailySent(reqs) <= Cap
      /\ \A s \in Busy : /\ Busy = {s} /\ sender[s].part # "single"
                         /\ DailySent(reqs) + Len(sender[s].rows) <= Cap
  BY <1>1 DEF CapBudget
<1>3. \A s \in Busy : Len(sender[s].rows) \in Nat
  BY DEF Busy, TypeOK, Loop
<1>4. DailySent(reqs)' <= Cap
  BY <1>2, Parameters
<1>5. ASSUME NEW s \in Busy PROVE DailySent(reqs)' + Len(sender'[s].rows) <= Cap
  <2>1. DailySent(reqs) + Len(sender[s].rows) <= Cap /\ sender'[s].rows = sender[s].rows
    BY <1>2
  <2> QED BY <1>3, <2>1, Parameters
<1> QED BY <1>2, <1>4, <1>5

LEMMA ApproveHeldNext == ReviewsInv /\ ApproveHeld => ReviewsInv'
<1> SUFFICES ASSUME ReviewsInv, ApproveHeld PROVE ReviewsInv'
  OBVIOUS
<1>1. /\ TypeOK /\ CapBudget /\ RequestsApart /\ reqs \in Seq(Request)
      /\ \A i \in DOMAIN reqs : RowOK(reqs, i)
      /\ \A s \in Senders : LoopOK(s)
  BY DEF ReviewsInv, TypeOK
<1>2. /\ reqs' = [i \in DOMAIN reqs |-> IF reqs[i].status = "held"
                                        THEN [reqs[i] EXCEPT !.status = "approved"] ELSE reqs[i]]
      /\ UNCHANGED <<day, mode, active, complete, asked, sender, crossed, troubles>>
  BY DEF ApproveHeld
<1>3. ASSUME NEW i \in DOMAIN reqs
      PROVE  /\ reqs'[i] = reqs[i] \/ (/\ reqs[i].status = "held"
                                       /\ reqs'[i] = [reqs[i] EXCEPT !.status = "approved"])
             /\ reqs'[i] \in Request
             /\ reqs'[i].job = reqs[i].job /\ reqs'[i].created = reqs[i].created
             /\ reqs'[i].sentAt = reqs[i].sentAt /\ reqs'[i].remindedAt = reqs[i].remindedAt
             /\ reqs'[i].status = reqs[i].status
                \/ (reqs[i].status = "held" /\ reqs'[i].status = "approved")
  <2>1. reqs[i] \in Request
    BY <1>1
  <2>2. CASE reqs[i].status = "held"
    <3>1. reqs'[i] = [reqs[i] EXCEPT !.status = "approved"]
      BY <1>2, <2>2
    <3> QED BY <2>1, <2>2, <3>1 DEF Request
  <2>3. CASE reqs[i].status # "held"
    BY <1>2, <2>1, <2>3
  <2> QED BY <2>2, <2>3
<1>4. DOMAIN reqs' = DOMAIN reqs /\ reqs' = [i \in DOMAIN reqs' |-> reqs'[i]]
  BY <1>2
<1>5. reqs' \in Seq(Request) /\ Len(reqs') = Len(reqs)
  BY <1>1, <1>3, <1>4, Rewritten
<1>6. TypeOK'
  BY <1>1, <1>2, <1>5 DEF TypeOK
<1>7. ASSUME NEW i \in DOMAIN reqs' PROVE RowOK(reqs, i)'
  <2>1. day' >= day /\ sender' = sender
    BY <1>1, <1>2, Parameters DEF TypeOK
  <2>2. RowOK(reqs, i) /\ reqs[i] \in Request
    BY <1>1, <1>4
  <2>3. \/ reqs'[i] = reqs[i]
        \/ reqs[i].status = "held" /\ reqs'[i] = [reqs[i] EXCEPT !.status = "approved"]
    BY <1>3, <1>4
  <2> QED BY <1>1, <1>6, <2>1, <2>2, <2>3, RowStays
<1>8. \A s \in Senders : LoopOK(s)'
  BY <1>1, <1>2, <1>4 DEF LoopOK
<1>9. CapBudget'
  <2>1. SentToday(reqs') \subseteq SentToday(reqs) /\ RemindedToday(reqs') \subseteq RemindedToday(reqs)
    BY <1>3, <1>4 DEF SentToday, RemindedToday, Ids
  <2>2. /\ DailySent(reqs)' <= DailySent(reqs) /\ DailySent(reqs)' \in Nat /\ DailySent(reqs) \in Nat
    BY <1>1, <1>2, <1>5, <2>1, NoMoreSent, DailySentSame, DailySentIs
  <2>3. Busy' = Busy /\ crossed' = crossed
    BY <1>2 DEF Busy
  <2> QED BY <1>1, <1>2, <2>2, <2>3, CapStays
<1>10. RequestsApart'
  <2>1. Ids(reqs') \subseteq Ids(reqs)
    BY <1>3, <1>4 DEF Ids
  <2>2. \A i \in Ids(reqs') : reqs'[i].job = reqs[i].job /\ reqs'[i].created = reqs[i].created
    BY <1>3, <1>4 DEF Ids
  <2>3. ApartIn(reqs')
    BY <1>1, <2>1, <2>2, ApartKept, ApartNow
  <2> QED BY <2>3 DEF RequestsApart, ApartIn, Ids
<1> QED BY <1>6, <1>7, <1>8, <1>9, <1>10 DEF ReviewsInv

(* Requests, senders and the date stay as they are.                           *)
LEMMA SettingsNext ==
  ASSUME ReviewsInv, TypeOK', UNCHANGED <<day, reqs, sender, crossed>> PROVE ReviewsInv'
<1>1. TypeOK /\ \A i \in DOMAIN reqs : RowOK(reqs, i) /\ reqs[i] \in Request
  BY DEF ReviewsInv, TypeOK
<1>2. \A i \in DOMAIN reqs' : RowOK(reqs, i)'
  <2>1. day' >= day
    BY <1>1, Parameters DEF TypeOK
  <2> QED BY <1>1, <2>1, RowStays
<1>3. \A s \in Senders : LoopOK(s)'
  BY DEF ReviewsInv, LoopOK
<1>4. CapBudget'
  BY DEF ReviewsInv, CapBudget, Busy, DailySent, Ids
<1>5. RequestsApart'
  BY DEF ReviewsInv, RequestsApart, Ids
<1> QED BY <1>2, <1>3, <1>4, <1>5 DEF ReviewsInv

LEMMA TroubleType == ASSUME TypeOK, Trouble PROVE troubles' \in 0..MaxTroubles
BY Parameters DEF TypeOK, Trouble

LEMMA SetNext ==
  ASSUME ReviewsInv,
         \/ \E m \in {"hold", "auto"} : SetMode(m)
         \/ \E on \in BOOLEAN : SetTargetActive(on)
         \/ \E j \in Jobs : JobCompletes(j)
  PROVE  ReviewsInv'
<1>0. TypeOK
  BY DEF ReviewsInv
<1>1. ASSUME NEW m \in {"hold", "auto"}, SetMode(m) PROVE ReviewsInv'
  <2>1. TypeOK'
    BY <1>0, <1>1, TroubleType DEF SetMode, TypeOK
  <2> QED BY <1>1, <2>1, SettingsNext DEF SetMode
<1>2. ASSUME NEW on \in BOOLEAN, SetTargetActive(on) PROVE ReviewsInv'
  <2>1. active' \in BOOLEAN
    BY <1>2, Zenon DEF SetTargetActive
  <2>2. TypeOK'
    BY <1>0, <1>2, <2>1, TroubleType DEF SetTargetActive, TypeOK
  <2> QED BY <1>2, <2>2, SettingsNext DEF SetTargetActive
<1>3. ASSUME NEW j \in Jobs, JobCompletes(j) PROVE ReviewsInv'
  <2>1. TypeOK'
    BY <1>0, <1>3 DEF JobCompletes, TypeOK
  <2> QED BY <1>3, <2>1, SettingsNext DEF JobCompletes
<1> QED BY <1>1, <1>2, <1>3

LEMMA OnlyOne ==
  ASSUME NEW S \in SUBSET Senders, ~(Cardinality(S) > 1), NEW s \in S
  PROVE  S = {s}
<1>1. /\ IsFiniteSet(S \ {s}) /\ Cardinality(S \ {s}) = Cardinality(S) - 1
      /\ Cardinality(S) \in Nat
  BY SomeSenders, FS_RemoveElement
<1>2. Cardinality(S \ {s}) = 0
  BY <1>1, FS_CardinalityType
<1>3. S \ {s} = {}
  BY <1>1, <1>2, FS_EmptySet
<1> QED BY <1>3

(* On a new day nothing was sent yet, and what is in hand fits the cap.       *)
LEMMA TickNext == ReviewsInv /\ Tick => ReviewsInv'
<1> SUFFICES ASSUME ReviewsInv, Tick PROVE ReviewsInv'
  OBVIOUS
<1>1. /\ TypeOK /\ RequestsApart /\ reqs \in Seq(Request)
      /\ \A i \in DOMAIN reqs : RowOK(reqs, i) /\ reqs[i] \in Request
      /\ \A s \in Senders : LoopOK(s)
  BY DEF ReviewsInv, TypeOK
<1>2. /\ day < MaxDay /\ day' = day + 1
      /\ crossed' = (Cardinality(Busy) > 1 \/ \E s \in Busy : sender[s].part = "single")
      /\ UNCHANGED <<mode, active, complete, asked, reqs, sender, troubles>>
  BY DEF Tick
<1>3. crossed' \in BOOLEAN
  BY <1>2
<1>4. day \in Nat /\ day' \in 1..MaxDay /\ day' >= day /\ day' > day
  BY <1>1, <1>2, Parameters DEF TypeOK
<1>5. TypeOK'
  BY <1>1, <1>2, <1>3, <1>4 DEF TypeOK
<1>6. \A i \in DOMAIN reqs' : RowOK(reqs, i)'
  BY <1>1, <1>2, <1>4, <1>5, RowStays
<1>7. \A s \in Senders : LoopOK(s)'
  BY <1>1, <1>2 DEF LoopOK
<1>8. DailySent(reqs)' = 0
  <2> DEFINE A == {i \in Ids(reqs) : reqs[i].status = "sent" /\ reqs[i].sentAt = day'}
             B == {i \in Ids(reqs) : reqs[i].remindedAt = day'}
  <2>1. ASSUME NEW i \in Ids(reqs) PROVE reqs[i].sentAt # day' /\ reqs[i].remindedAt # day'
    <3>1. reqs[i].sentAt <= day /\ reqs[i].remindedAt <= day /\ reqs[i] \in Request
      BY <1>1 DEF Ids, RowOK
    <3>2. reqs[i].sentAt \in Nat /\ reqs[i].remindedAt \in Nat
      BY <3>1, RowNumbers
    <3> QED BY <1>2, <1>4, <3>1, <3>2
  <2>2. A = {} /\ B = {}
    BY <2>1
  <2>3. DailySent(reqs)' = Cardinality(A) + Cardinality(B)
    BY <1>2 DEF DailySent, Ids
  <2> HIDE DEF A, B
  <2>4. Cardinality(A) = 0 /\ Cardinality(B) = 0
    BY <2>2, FS_EmptySet
  <2> QED BY <2>3, <2>4
<1>9. CapBudget'
  <2>1. SUFFICES ASSUME ~crossed'
                 PROVE  /\ DailySent(reqs)' <= Cap
                        /\ \A s \in Busy' : /\ Busy' = {s} /\ sender'[s].part # "single"
                                            /\ DailySent(reqs)' + Len(sender'[s].rows) <= Cap
    BY DEF CapBudget
  <2>2. Busy' = Busy /\ Busy \in SUBSET Senders
    BY <1>2 DEF Busy
  <2>3. ~(Cardinality(Busy) > 1) /\ \A s \in Busy : sender[s].part # "single"
    BY <1>2, <2>1
  <2>4. \A s \in Busy : Busy = {s}
    BY <2>2, <2>3, OnlyOne
  <2>5. \A s \in Busy : Len(sender[s].rows) <= Cap /\ Len(sender[s].rows) \in Nat
    BY <1>1, <2>3 DEF Busy, LoopOK, TypeOK, Loop
  <2>6. DailySent(reqs)' <= Cap
    BY <1>8, Parameters
  <2>7. ASSUME NEW s \in Busy
        PROVE  /\ Busy = {s} /\ sender'[s].part # "single"
               /\ DailySent(reqs)' + Len(sender'[s].rows) <= Cap
    <3>1. sender'[s] = sender[s]
      BY <1>2
    <3>2. DailySent(reqs)' + Len(sender[s].rows) <= Cap
      BY <1>8, <2>5, Parameters
    <3> QED BY <2>3, <2>4, <3>1, <3>2
  <2> QED BY <2>2, <2>6, <2>7
<1>10. RequestsApart'
  BY <1>1, <1>2 DEF RequestsApart, Ids
<1> QED BY <1>5, <1>6, <1>7, <1>9, <1>10 DEF ReviewsInv

-----------------------------------------------------------------------------
(* Action by action: the mail, taken, refused or without an answer.           *)

LEMMA CurrentIs ==
  ASSUME TypeOK, NEW s \in Senders, LoopOK(s), sender[s].pc # "idle"
  PROVE  /\ sender[s] \in Loop /\ sender[s].rows \in Seq(1..MaxRows)
         /\ Len(sender[s].rows) \in Nat /\ Len(sender[s].rows) >= 1
         /\ Current(s) = sender[s].rows[1]
         /\ Current(s) \in Range(sender[s].rows) /\ Current(s) \in DOMAIN reqs
         /\ reqs[Current(s)] \in Request
         /\ Holds(s, Current(s))
<1>1. sender[s] \in Loop /\ sender[s].rows \in Seq(1..MaxRows)
  BY DEF TypeOK, Loop
<1>2. sender[s].rows # <<>> /\ Range(sender[s].rows) \subseteq DOMAIN reqs
  BY DEF LoopOK
<1>3. /\ Len(sender[s].rows) \in Nat /\ Len(sender[s].rows) >= 1
      /\ 1 \in DOMAIN sender[s].rows /\ Current(s) = sender[s].rows[1]
  BY <1>1, <1>2 DEF Current
<1>4. Current(s) \in Range(sender[s].rows)
  BY <1>3 DEF Range
<1>5. Current(s) \in DOMAIN reqs
  BY <1>2, <1>4
<1>6. reqs[Current(s)] \in Request
  BY <1>5 DEF TypeOK
<1> QED BY <1>1, <1>3, <1>4, <1>5, <1>6 DEF Holds

(* The row of a mail: one mail or one reminder more, and perhaps an excuse.   *)
LEMMA MailedRow ==
  ASSUME NEW s, NEW r \in Request, NEW e \in {0, 1}, NEW m, m = Mailed(s, r, e)
  PROVE  /\ m \in Request
         /\ m.job = r.job /\ m.created = r.created /\ m.status = r.status
         /\ m.sentAt = r.sentAt /\ m.remindedAt = r.remindedAt
         /\ m.excuses = r.excuses + e
         /\ sender[s].part # "reminders" => m.mails = r.mails + 1 /\ m.nudges = r.nudges
         /\ sender[s].part = "reminders" => m.mails = r.mails /\ m.nudges = r.nudges + 1
<1>1. r.mails \in Nat /\ r.nudges \in Nat /\ r.excuses \in Nat
  BY RowNumbers
<1>2. r.mails + 1 \in Nat /\ r.nudges + 1 \in Nat /\ r.excuses + e \in Nat
  BY <1>1
<1>3. CASE sender[s].part = "reminders"
  <2>1. m = [r EXCEPT !.mails = r.mails, !.nudges = r.nudges + 1, !.excuses = r.excuses + e]
    BY <1>3 DEF Mailed
  <2>2. m \in Request
    BY <1>1, <1>2, <2>1 DEF Request
  <2>3. /\ m.job = r.job /\ m.created = r.created /\ m.status = r.status
        /\ m.sentAt = r.sentAt /\ m.remindedAt = r.remindedAt
    BY <2>1 DEF Request
  <2>4. m.excuses = r.excuses + e /\ m.mails = r.mails /\ m.nudges = r.nudges + 1
    BY <2>1 DEF Request
  <2> QED BY <1>3, <2>2, <2>3, <2>4
<1>4. CASE sender[s].part # "reminders"
  <2>1. m = [r EXCEPT !.mails = r.mails + 1, !.nudges = r.nudges, !.excuses = r.excuses + e]
    BY <1>4 DEF Mailed
  <2>2. m \in Request
    BY <1>1, <1>2, <2>1 DEF Request
  <2>3. /\ m.job = r.job /\ m.created = r.created /\ m.status = r.status
        /\ m.sentAt = r.sentAt /\ m.remindedAt = r.remindedAt
    BY <2>1 DEF Request
  <2>4. m.excuses = r.excuses + e /\ m.mails = r.mails + 1 /\ m.nudges = r.nudges
    BY <2>1 DEF Request
  <2> QED BY <1>4, <2>2, <2>3, <2>4
<1> QED BY <1>3, <1>4

(* A taken mail is the one its sender owed; a refused one is still owed, and  *)
(* if it went out all the same it is excused.                                 *)
LEMMA MailNext ==
  ASSUME ReviewsInv, NEW s \in Senders, sender[s].pc = "calling", NEW pc, Answered(s, pc),
         \/ pc = "taken" /\ reqs' = Delivered(s, 0)
         \/ pc = "refused" /\ (reqs' = reqs \/ reqs' = Delivered(s, 1)),
         UNCHANGED <<day, mode, active, complete, asked, crossed>>, troubles' \in 0..MaxTroubles
  PROVE  ReviewsInv'
<1> DEFINE i0 == Current(s)
<1>1. /\ TypeOK /\ CapBudget /\ RequestsApart /\ reqs \in Seq(Request)
      /\ \A i \in DOMAIN reqs : RowOK(reqs, i) /\ reqs[i] \in Request
      /\ \A o \in Senders : LoopOK(o)
  BY DEF ReviewsInv, TypeOK
<1>2. /\ sender[s] \in Loop /\ i0 \in DOMAIN reqs /\ reqs[i0] \in Request /\ Holds(s, i0)
  BY <1>1, CurrentIs
<1>3. pc \in {"taken", "refused"}
  OBVIOUS
<1>4. /\ sender' \in [Senders -> Loop] /\ \A o \in Senders : o # s => sender'[o] = sender[o]
      /\ sender'[s].pc = pc /\ sender'[s].rows = sender[s].rows
      /\ sender'[s].part = sender[s].part
  <2>1. sender' = [sender EXCEPT ![s].pc = pc]
    BY DEF Answered
  <2>2. sender'[s] = [sender[s] EXCEPT !.pc = pc]
    BY <1>1, <2>1 DEF TypeOK
  <2>3. sender'[s] \in Loop
    BY <1>2, <1>3, <2>2 DEF Loop
  <2>4. /\ sender'[s].pc = pc /\ sender'[s].rows = sender[s].rows
        /\ sender'[s].part = sender[s].part
    BY <1>2, <2>2 DEF Loop
  <2>5. sender' \in [Senders -> Loop] /\ \A o \in Senders : o # s => sender'[o] = sender[o]
    BY <1>1, <2>1, <2>3 DEF TypeOK
  <2> QED BY <2>4, <2>5
<1>5. ASSUME NEW e \in Nat, reqs' = Delivered(s, e)
      PROVE  /\ DOMAIN reqs' = DOMAIN reqs /\ reqs' = [i \in DOMAIN reqs' |-> reqs'[i]]
             /\ reqs'[i0] = Mailed(s, reqs[i0], e)
             /\ \A i \in DOMAIN reqs : i # i0 => reqs'[i] = reqs[i]
  BY <1>1, <1>2, <1>5 DEF Delivered
<1>6. /\ DOMAIN reqs' = DOMAIN reqs /\ reqs' = [i \in DOMAIN reqs' |-> reqs'[i]]
      /\ \A i \in DOMAIN reqs : i # i0 => reqs'[i] = reqs[i]
      /\ \/ pc = "taken" /\ reqs'[i0] = Mailed(s, reqs[i0], 0)
         \/ pc = "refused" /\ (reqs'[i0] = reqs[i0] \/ reqs'[i0] = Mailed(s, reqs[i0], 1))
  <2>1. CASE pc = "taken" /\ reqs' = Delivered(s, 0)
    BY <1>5, <2>1
  <2>2. CASE pc = "refused" /\ reqs' = Delivered(s, 1)
    BY <1>5, <2>2
  <2>3. CASE pc = "refused" /\ reqs' = reqs
    BY <1>1, <2>3
  <2> QED BY <2>1, <2>2, <2>3
<1> HIDE DEF i0
<1>7. \A i \in DOMAIN reqs :
        /\ reqs'[i] \in Request
        /\ reqs'[i].job = reqs[i].job /\ reqs'[i].created = reqs[i].created
        /\ reqs'[i].status = reqs[i].status
        /\ reqs'[i].sentAt = reqs[i].sentAt /\ reqs'[i].remindedAt = reqs[i].remindedAt
  <2>1. \A i \in DOMAIN reqs : reqs'[i] = reqs[i] \/ \E e \in {0, 1} : reqs'[i] = Mailed(s, reqs[i], e)
    BY <1>6
  <2> QED BY <1>1, <2>1, MailedRow
<1>8. reqs' \in Seq(Request) /\ Len(reqs') = Len(reqs)
  BY <1>1, <1>6, <1>7, Rewritten
<1>9. TypeOK'
  BY <1>1, <1>4, <1>8 DEF TypeOK
<1>10. \A o \in Senders : LoopOK(o)'
  <2>1. \A o \in Senders :
          /\ sender'[o].rows = sender[o].rows /\ sender'[o].part = sender[o].part
          /\ sender'[o].pc # "idle" => sender[o].pc # "idle"
    BY <1>4
  <2> QED BY <1>1, <1>6, <2>1 DEF LoopOK
<1>11. CapBudget'
  <2>1. SentToday(reqs') \subseteq SentToday(reqs) /\ RemindedToday(reqs') \subseteq RemindedToday(reqs)
    BY <1>6, <1>7 DEF SentToday, RemindedToday, Ids
  <2>2. /\ DailySent(reqs)' <= DailySent(reqs) /\ DailySent(reqs)' \in Nat /\ DailySent(reqs) \in Nat
    BY <1>1, <1>8, <2>1, NoMoreSent, DailySentSame, DailySentIs
  <2>3. Busy' = Busy
    BY <1>3, <1>4 DEF Busy
  <2>4. \A o \in Busy : sender'[o].rows = sender[o].rows /\ sender'[o].part = sender[o].part
    BY <1>4 DEF Busy
  <2> QED BY <1>1, <2>2, <2>3, <2>4, CapStays
<1>12. RequestsApart'
  <2>1. Ids(reqs') \subseteq Ids(reqs)
    BY <1>6, <1>7 DEF Ids
  <2>2. \A i \in Ids(reqs') : reqs'[i].job = reqs[i].job /\ reqs'[i].created = reqs[i].created
    BY <1>6, <1>7 DEF Ids
  <2>3. ApartIn(reqs')
    BY <1>1, <2>1, <2>2, ApartKept, ApartNow
  <2> QED BY <2>3 DEF RequestsApart, ApartIn, Ids
<1>13. ASSUME NEW i \in DOMAIN reqs' PROVE RowOK(reqs, i)'
  <2>1. RowOK(reqs, i) /\ reqs[i] \in Request /\ reqs'[i] \in Request /\ i \in DOMAIN reqs
    BY <1>1, <1>6, <1>7
  <2>2. /\ reqs[i].mails \in Nat /\ reqs[i].nudges \in Nat /\ reqs[i].excuses \in Nat
        /\ reqs'[i].mails \in Nat /\ reqs'[i].nudges \in Nat /\ reqs'[i].excuses \in Nat
    BY <2>1, RowNumbers
  <2>3. /\ MailAllowed(reqs, i) \in {0, 1} /\ NudgeOwed(i) \in {0, 1} /\ NudgeAllowed(reqs, i) \in {0, 1}
        /\ MailAllowed(reqs, i)' \in {0, 1} /\ NudgeOwed(i)' \in {0, 1}
        /\ NudgeAllowed(reqs, i)' \in {0, 1}
        /\ Cardinality(Owing(i)) \in Nat /\ Cardinality(Owing(i)') \in Nat
    BY AllowedNumbers, OwingFinite
  <2>4. /\ reqs[i].mails + Cardinality(Owing(i)) <= reqs[i].excuses + MailAllowed(reqs, i)
        /\ reqs[i].nudges + NudgeOwed(i) <= reqs[i].excuses + NudgeAllowed(reqs, i)
        /\ reqs[i].sentAt <= day /\ reqs[i].remindedAt <= day
    BY <2>1 DEF RowOK, MailBudget, NudgeBudget
  <2>5. \A o \in Senders : /\ Holds(o, i)' <=> Holds(o, i)
                           /\ Mailing(o, i)' <=> Mailing(o, i)
    BY <1>3, <1>4 DEF Holds, Mailing
  <2>6. Nudging(i)' <=> Nudging(i)
    BY <1>3, <1>4 DEF Nudging, Holds, Senders
  <2>7. /\ MailAllowed(reqs, i)' = MailAllowed(reqs, i)
        /\ NudgeAllowed(reqs, i)' = NudgeAllowed(reqs, i)
    BY <1>7, <2>1, <2>5, <2>6 DEF MailAllowed, NudgeAllowed
  <2>8. /\ ~Done(s, i) /\ (Done(s, i)' <=> pc = "taken" /\ i = i0)
        /\ \A o \in Senders : o # s => (Done(o, i)' <=> Done(o, i))
    BY <1>4 DEF Done, Current, i0
  <2>9. CASE pc = "refused" \/ i # i0
    <3>1. ~Done(s, i)' /\ (Owes(s, i)' <=> Owes(s, i))
      BY <1>3, <2>5, <2>8, <2>9 DEF Owes
    <3>2. Owing(i)' = Owing(i)
      BY <1>4, <3>1, OwingStep
    <3>3. NudgeOwed(i)' = NudgeOwed(i)
      BY <2>6, <2>8, <3>1 DEF NudgeOwed, Senders
    <3>4. \/ /\ reqs'[i].mails = reqs[i].mails /\ reqs'[i].nudges = reqs[i].nudges
             /\ reqs'[i].excuses = reqs[i].excuses
          \/ /\ reqs'[i].mails <= reqs[i].mails + 1 /\ reqs'[i].nudges <= reqs[i].nudges + 1
             /\ reqs'[i].excuses = reqs[i].excuses + 1
      <4>1. CASE reqs'[i] = reqs[i]
        BY <4>1
      <4>2. CASE reqs'[i] = Mailed(s, reqs[i], 1)
        BY <2>1, <2>2, <4>2, MailedRow
      <4> QED BY <1>3, <1>6, <2>1, <2>9, <4>1, <4>2
    <3>5. reqs'[i].mails + Cardinality(Owing(i)') <= reqs'[i].excuses + MailAllowed(reqs, i)'
      BY <2>2, <2>3, <2>4, <2>7, <3>2, <3>4
    <3>6. reqs'[i].nudges + NudgeOwed(i)' <= reqs'[i].excuses + NudgeAllowed(reqs, i)'
      BY <2>2, <2>3, <2>4, <2>7, <3>3, <3>4
    <3> QED BY <1>7, <2>1, <2>4, <3>5, <3>6 DEF RowOK, MailBudget, NudgeBudget
  <2>10. CASE pc = "taken" /\ i = i0 /\ sender[s].part # "reminders"
    <3>1. Owes(s, i) /\ ~Owes(s, i)'
      BY <1>2, <2>8, <2>10 DEF Owes, Mailing
    <3>2. Cardinality(Owing(i)') = Cardinality(Owing(i)) - 1
      BY <1>4, <3>1, OwingStep
    <3>3. Nudging(i) => s # "drain"
      BY <2>10 DEF Nudging
    <3>4. NudgeOwed(i)' = NudgeOwed(i)
      BY <2>6, <2>8, <3>3 DEF NudgeOwed, Senders
    <3>5. /\ reqs'[i].mails = reqs[i].mails + 1 /\ reqs'[i].nudges = reqs[i].nudges
          /\ reqs'[i].excuses = reqs[i].excuses
      <4>1. reqs'[i] = Mailed(s, reqs[i], 0)
        BY <1>6, <2>10
      <4> QED BY <2>1, <2>2, <2>10, <4>1, MailedRow
    <3>6. reqs'[i].mails + Cardinality(Owing(i)') <= reqs'[i].excuses + MailAllowed(reqs, i)'
      BY <2>2, <2>3, <2>4, <2>7, <3>2, <3>5
    <3>7. reqs'[i].nudges + NudgeOwed(i)' <= reqs'[i].excuses + NudgeAllowed(reqs, i)'
      BY <2>2, <2>3, <2>4, <2>7, <3>4, <3>5
    <3> QED BY <1>7, <2>1, <2>4, <3>6, <3>7 DEF RowOK, MailBudget, NudgeBudget
  <2>11. CASE pc = "taken" /\ i = i0 /\ sender[s].part = "reminders"
    <3>1. ~Owes(s, i) /\ ~Owes(s, i)'
      BY <1>4, <2>11 DEF Owes, Mailing
    <3>2. Owing(i)' = Owing(i)
      BY <1>4, <3>1, OwingStep
    <3>3. s = "drain"
      BY <1>1, <2>11 DEF LoopOK
    <3>4. NudgeOwed(i) = 1 /\ NudgeOwed(i)' = 0
      BY <1>2, <2>8, <2>11, <3>3 DEF NudgeOwed, Nudging
    <3>5. /\ reqs'[i].mails = reqs[i].mails /\ reqs'[i].nudges = reqs[i].nudges + 1
          /\ reqs'[i].excuses = reqs[i].excuses
      <4>1. reqs'[i] = Mailed(s, reqs[i], 0)
        BY <1>6, <2>11
      <4> QED BY <2>1, <2>2, <2>11, <4>1, MailedRow
    <3>6. reqs'[i].mails + Cardinality(Owing(i)') <= reqs'[i].excuses + MailAllowed(reqs, i)'
      BY <2>2, <2>3, <2>4, <2>7, <3>2, <3>5
    <3>7. reqs'[i].nudges + NudgeOwed(i)' <= reqs'[i].excuses + NudgeAllowed(reqs, i)'
      BY <2>2, <2>3, <2>4, <2>7, <3>4, <3>5
    <3> QED BY <1>7, <2>1, <2>4, <3>6, <3>7 DEF RowOK, MailBudget, NudgeBudget
  <2> QED BY <1>3, <2>9, <2>10, <2>11
<1> QED BY <1>9, <1>10, <1>11, <1>12, <1>13 DEF ReviewsInv

LEMMA MailsNext ==
  ASSUME ReviewsInv, NEW s \in Senders, MailTaken(s) \/ MailRefused(s) \/ AnswerLost(s)
  PROVE  ReviewsInv'
<1>1. CASE MailTaken(s)
  <2>1. troubles' \in 0..MaxTroubles
    BY <1>1 DEF MailTaken, ReviewsInv, TypeOK
  <2> QED BY <1>1, <2>1, MailNext DEF MailTaken
<1>2. CASE MailRefused(s)
  <2>1. troubles' \in 0..MaxTroubles
    BY <1>2, TroubleType DEF MailRefused, ReviewsInv
  <2> QED BY <1>2, <2>1, MailNext DEF MailRefused
<1>3. CASE AnswerLost(s)
  <2>1. troubles' \in 0..MaxTroubles
    BY <1>3, TroubleType DEF AnswerLost, ReviewsInv
  <2> QED BY <1>3, <2>1, MailNext DEF AnswerLost
<1> QED BY <1>1, <1>2, <1>3

-----------------------------------------------------------------------------
(* Action by action: the update of the row, and the loop's next row.          *)

LEMMA TailIs ==
  ASSUME NEW q \in Seq(1..MaxRows), Len(q) > 1, IsInjective(q)
  PROVE  /\ Tail(q) \in Seq(1..MaxRows) /\ Len(Tail(q)) = Len(q) - 1 /\ Tail(q) # <<>>
         /\ IsInjective(Tail(q)) /\ Range(Tail(q)) = Range(q) \ {q[1]}
<1>1. /\ Tail(q) \in Seq(1..MaxRows) /\ Len(Tail(q)) = Len(q) - 1 /\ Len(q) \in Nat
      /\ DOMAIN q = 1..Len(q) /\ DOMAIN Tail(q) = 1..(Len(q) - 1)
      /\ \A k \in 1..(Len(q) - 1) : Tail(q)[k] = q[k + 1]
  OBVIOUS
<1> DEFINE u == Tail(q)
<1>2. \A k \in DOMAIN u : k + 1 \in DOMAIN q /\ u[k] = q[k + 1]
  BY <1>1
<1>3. \A m \in DOMAIN q : m # 1 => m - 1 \in DOMAIN u /\ u[m - 1] = q[m]
  BY <1>1
<1>4. u # <<>>
  BY <1>1
<1> HIDE DEF u
<1>5. \A a, b \in DOMAIN q : q[a] = q[b] => a = b
  BY DEF IsInjective
<1>6. ASSUME NEW a \in DOMAIN u, NEW b \in DOMAIN u, u[a] = u[b] PROVE a = b
  <2>1. a + 1 = b + 1
    BY <1>2, <1>5, <1>6
  <2>2. a \in Int /\ b \in Int
    BY <1>1 DEF u
  <2> QED BY <2>1, <2>2
<1>7. ASSUME NEW a \in DOMAIN u PROVE u[a] \in Range(q) /\ u[a] # q[1]
  <2>1. a \in 1..(Len(q) - 1)
    BY <1>1 DEF u
  <2>2. a + 1 \in DOMAIN q /\ a + 1 # 1 /\ 1 \in DOMAIN q /\ u[a] = q[a + 1]
    BY <1>1, <1>2, <2>1
  <2> QED BY <1>5, <2>2 DEF Range
<1>8. \A x \in Range(q) : x # q[1] => x \in Range(u)
  BY <1>3 DEF Range
<1>9. Range(u) = Range(q) \ {q[1]}
  BY <1>7, <1>8 DEF Range
<1>10. IsInjective(u)
  BY <1>6 DEF IsInjective
<1> QED BY <1>1, <1>4, <1>9, <1>10 DEF u

LEMMA LastIs ==
  ASSUME NEW q \in Seq(1..MaxRows), Len(q) = 1
  PROVE  Range(q) = {q[1]}
<1>1. DOMAIN q = {1}
  OBVIOUS
<1> QED BY <1>1 DEF Range

(* The row after its mail.                                                    *)
LEMMA RecordedRow ==
  ASSUME TypeOK, NEW s \in Senders, sender[s].pc \in {"taken", "refused"},
         NEW r \in Request, NEW m, m = Recorded(s, r)
  PROVE  /\ m \in Request
         /\ m.job = r.job /\ m.created = r.created
         /\ m.mails = r.mails /\ m.nudges = r.nudges /\ m.excuses = r.excuses
         /\ m.status = "deleted" <=> r.status = "deleted"
         /\ r.status = "deleted" => m = r
         /\ r.status # "deleted" /\ sender[s].pc = "taken" /\ sender[s].part # "reminders" =>
              m.status = "sent" /\ m.sentAt = day /\ m.remindedAt = r.remindedAt
         /\ r.status # "deleted" /\ sender[s].pc = "taken" /\ sender[s].part = "reminders" =>
              m.status = r.status /\ m.sentAt = r.sentAt /\ m.remindedAt = day
         /\ sender[s].pc = "refused" =>
              /\ m.sentAt = r.sentAt /\ m.remindedAt = r.remindedAt
              /\ m.status = r.status \/ (m.status = "approved" /\ sender[s].part = "single")
<1>1. day \in 0..MaxDay
  BY Parameters DEF TypeOK
<1>2. CASE r.status = "deleted"
  <2>1. m = r
    BY <1>2 DEF Recorded
  <2> QED BY <1>2, <2>1
<1>3. CASE r.status # "deleted" /\ sender[s].pc = "taken" /\ sender[s].part # "reminders"
  <2>1. m = [r EXCEPT !.status = "sent", !.sentAt = day]
    BY <1>3 DEF Recorded
  <2> QED BY <1>1, <1>3, <2>1 DEF Request
<1>4. CASE r.status # "deleted" /\ sender[s].pc = "taken" /\ sender[s].part = "reminders"
  <2>1. m = [r EXCEPT !.remindedAt = day]
    BY <1>4 DEF Recorded
  <2> QED BY <1>1, <1>4, <2>1 DEF Request
<1>5. CASE r.status # "deleted" /\ sender[s].pc = "refused" /\ sender[s].part = "single"
  <2>1. m = [r EXCEPT !.status = "approved"]
    BY <1>5 DEF Recorded
  <2> QED BY <1>5, <2>1 DEF Request
<1>6. CASE r.status # "deleted" /\ sender[s].pc = "refused" /\ sender[s].part # "single"
  <2>1. m = r
    BY <1>6 DEF Recorded
  <2> QED BY <1>6, <2>1
<1> QED BY <1>2, <1>3, <1>4, <1>5, <1>6

(* What the sender has in hand next: the rest of its rows, or the reminders   *)
(* that are due, or nothing.                                                  *)
OnTo(s, loop) ==
  \/ /\ Len(sender[s].rows) > 1 /\ loop.pc = "calling" /\ loop.part = sender[s].part
     /\ loop.rows = Tail(sender[s].rows)
  \/ /\ Len(sender[s].rows) = 1 /\ s = "drain" /\ sender[s].part = "requests"
     /\ loop.pc = "calling" /\ loop.part = "reminders" /\ loop.rows # <<>>
     /\ GoodLoop(s, loop, reqs')
  \/ Len(sender[s].rows) = 1 /\ loop.pc = "idle"

LEMMA ResumeLoop ==
  ASSUME TypeOK, NEW s \in Senders, LoopOK(s), Resume(s), reqs' \in Seq(Request),
         Len(reqs') <= MaxRows
  PROVE  /\ sender' \in [Senders -> Loop] /\ \A o \in Senders : o # s => sender'[o] = sender[o]
         /\ OnTo(s, sender'[s])
<1>1. sender[s].pc # "idle"
  BY DEF Resume
<1>2. /\ sender[s] \in Loop /\ sender[s].rows \in Seq(1..MaxRows)
      /\ Len(sender[s].rows) \in Nat /\ Len(sender[s].rows) >= 1
  BY <1>1, CurrentIs
<1>3. PICK clicked :
        sender' = [sender EXCEPT ![s] =
          IF Len(@.rows) > 1 THEN Calling(@.part, Tail(@.rows))
          ELSE IF s = "drain" /\ @.part = "requests" THEN Reminders(reqs', clicked)
          ELSE Idle]
  BY DEF Resume
<1> DEFINE q == sender[s].rows
           loop == IF Len(q) > 1 THEN Calling(sender[s].part, Tail(q))
                   ELSE IF s = "drain" /\ sender[s].part = "requests" THEN Reminders(reqs', clicked)
                   ELSE Idle
<1>7. \/ Len(q) > 1 /\ loop = Calling(sender[s].part, Tail(q))
      \/ /\ Len(q) = 1 /\ s = "drain" /\ sender[s].part = "requests"
         /\ loop = Reminders(reqs', clicked)
      \/ Len(q) = 1 /\ loop = Idle
  <2>0. Len(q) > 1 \/ Len(q) = 1
    <3>1. \A n \in Nat : n >= 1 => n > 1 \/ n = 1
      OBVIOUS
    <3> QED BY <1>2, <3>1
  <2>1. CASE Len(q) > 1
    BY <2>1
  <2>2. CASE Len(q) = 1
    <3>1. ~(Len(q) > 1)
      BY <2>2
    <3>2. loop = IF s = "drain" /\ sender[s].part = "requests" THEN Reminders(reqs', clicked)
                 ELSE Idle
      BY <3>1
    <3> HIDE DEF loop, q
    <3> QED BY <2>2, <3>2
  <2> QED BY <2>0, <2>1, <2>2
<1>8. sender' = [sender EXCEPT ![s] = loop]
  BY <1>3
<1> HIDE DEF loop
<1>4. /\ \A o \in Senders : o # s => sender'[o] = sender[o]
      /\ DOMAIN sender' = Senders /\ sender' = [o \in Senders |-> sender'[o]]
      /\ sender'[s] = loop
  BY <1>8 DEF TypeOK
<1>5. sender'[s] \in Loop /\ OnTo(s, sender'[s])
  <2> HIDE DEF q
  <2>1. CASE Len(sender[s].rows) > 1 /\ sender'[s] = Calling(sender[s].part, Tail(sender[s].rows))
    <3>1. Tail(sender[s].rows) \in Seq(1..MaxRows)
      <4>1. q \in Seq(1..MaxRows) /\ Len(q) > 1
        BY <1>2, <2>1 DEF q
      <4>2. Tail(q) \in Seq(1..MaxRows)
        BY <4>1
      <4> QED BY <4>2 DEF q
    <3>2. sender[s].part \in {"requests", "single", "reminders"}
      BY <1>2 DEF Loop
    <3>3. sender'[s] \in Loop
      BY <2>1, <3>1, <3>2 DEF Calling, Loop
    <3>4. /\ sender'[s].pc = "calling" /\ sender'[s].part = sender[s].part
          /\ sender'[s].rows = Tail(sender[s].rows)
      BY <2>1 DEF Calling
    <3> QED BY <2>1, <3>3, <3>4 DEF OnTo
  <2>2. CASE /\ Len(sender[s].rows) = 1 /\ s = "drain" /\ sender[s].part = "requests"
             /\ sender'[s] = Reminders(reqs', clicked)
    <3>1. GoodLoop(s, sender'[s], reqs')
      BY <2>2, RemindersGood
    <3>2. sender'[s] = Idle \/ sender'[s].part = "reminders"
      BY <2>2 DEF Reminders, Calling
    <3> QED BY <2>2, <3>1, <3>2, IdleGood DEF GoodLoop, OnTo
  <2>3. CASE Len(sender[s].rows) = 1 /\ sender'[s] = Idle
    BY <2>3, IdleGood DEF OnTo
  <2> QED BY <1>4, <1>7, <2>1, <2>2, <2>3 DEF q
<1>6. sender' \in [Senders -> Loop]
  BY <1>4, <1>5 DEF TypeOK
<1> QED BY <1>4, <1>5, <1>6

(* What a step to the next loop means for each request.                       *)
LEMMA ResumeHolds ==
  ASSUME TypeOK, NEW s \in Senders, LoopOK(s), sender[s].pc \in {"taken", "refused"},
         sender' \in [Senders -> Loop], \A o \in Senders : o # s => sender'[o] = sender[o],
         OnTo(s, sender'[s]), NEW i
  PROVE  /\ \A o \in Senders : Mailing(o, i)' <=> Mailing(o, i) /\ ~(o = s /\ i = Current(s))
         /\ Owes(s, i)' <=> Owes(s, i) /\ i # Current(s)
         /\ Done(s, i) <=> sender[s].pc = "taken" /\ i = Current(s)
         /\ ~Done(s, i)'
         /\ sender[s].part = "reminders" =>
              (Holds(s, i)' /\ sender'[s].part = "reminders" <=> Holds(s, i) /\ i # Current(s))
         /\ sender[s].part # "reminders" /\ Holds(s, i)' /\ sender'[s].part = "reminders" =>
              s = "drain" /\ i \in Ids(reqs') /\ reqs'[i].remindedAt = 0
<1> DEFINE q == sender[s].rows
           i0 == Current(s)
<1>0. sender[s].pc # "idle"
  OBVIOUS
<1>1. /\ q \in Seq(1..MaxRows) /\ IsInjective(q) /\ i0 = q[1] /\ i0 \in Range(q)
  BY <1>0, CurrentIs DEF LoopOK
<1>2. Done(s, i) <=> sender[s].pc = "taken" /\ i = i0
  BY DEF Done
<1>3. sender'[s].pc \in {"calling", "idle"}
  BY DEF OnTo
<1>4. ~Done(s, i)'
  BY <1>3 DEF Done
<1>5. \A o \in Senders : o # s => (Mailing(o, i)' <=> Mailing(o, i))
  BY DEF Mailing, Holds
<1>6. CASE /\ Len(q) > 1 /\ sender'[s].pc = "calling" /\ sender'[s].part = sender[s].part
           /\ sender'[s].rows = Tail(q)
  <2>1. Range(Tail(q)) = Range(q) \ {i0}
    BY <1>1, <1>6, TailIs
  <2>2. Holds(s, i)' <=> Holds(s, i) /\ i # i0
    BY <1>0, <1>6, <2>1 DEF Holds
  <2> QED BY <1>2, <1>4, <1>5, <1>6, <2>2 DEF Mailing, Owes
<1>7. CASE /\ Len(q) = 1 /\ s = "drain" /\ sender[s].part = "requests"
           /\ sender'[s].pc = "calling" /\ sender'[s].part = "reminders"
           /\ GoodLoop(s, sender'[s], reqs')
  <2>1. Range(q) = {i0}
    BY <1>1, <1>7, LastIs
  <2>2. Holds(s, i) => i = i0
    BY <2>1 DEF Holds
  <2>3. ~Mailing(s, i)'
    BY <1>7 DEF Mailing
  <2>4. Holds(s, i)' => i \in Ids(reqs') /\ reqs'[i].remindedAt = 0
    BY <1>7 DEF Holds, GoodLoop
  <2> QED BY <1>2, <1>4, <1>5, <1>7, <2>2, <2>3, <2>4 DEF Mailing, Owes
<1>8. CASE Len(q) = 1 /\ sender'[s].pc = "idle"
  <2>1. Range(q) = {i0}
    BY <1>1, <1>8, LastIs
  <2>2. (Holds(s, i) => i = i0) /\ ~Holds(s, i)'
    BY <1>8, <2>1 DEF Holds
  <2> QED BY <1>2, <1>4, <1>5, <2>2 DEF Mailing, Owes
<1> QED BY <1>6, <1>7, <1>8 DEF OnTo

(* The budgets of a row.                                                      *)
LEMMA ResumeRow ==
  ASSUME TypeOK, NEW s \in Senders, LoopOK(s), sender[s].pc \in {"taken", "refused"},
         sender' \in [Senders -> Loop], \A o \in Senders : o # s => sender'[o] = sender[o],
         OnTo(s, sender'[s]), day' = day,
         NEW i \in DOMAIN reqs, RowOK(reqs, i), reqs[i] \in Request,
         reqs'[i] = IF i = Current(s) THEN Recorded(s, reqs[i]) ELSE reqs[i]
  PROVE  RowOK(reqs, i)'
<1> DEFINE i0 == Current(s)
<1>1. /\ reqs'[i] \in Request
      /\ reqs'[i].mails = reqs[i].mails /\ reqs'[i].nudges = reqs[i].nudges
      /\ reqs'[i].excuses = reqs[i].excuses
      /\ reqs'[i].status = "deleted" <=> reqs[i].status = "deleted"
      /\ reqs'[i].sentAt \in {day, reqs[i].sentAt} /\ reqs'[i].remindedAt \in {day, reqs[i].remindedAt}
      /\ sender[s].part # "reminders" => reqs'[i].remindedAt = reqs[i].remindedAt
      /\ i # i0 \/ sender[s].part = "reminders" => reqs'[i].status = reqs[i].status
      /\ i # i0 => reqs'[i].remindedAt = reqs[i].remindedAt
  <2>1. CASE i # i0
    <3>1. reqs'[i] = reqs[i]
      BY <2>1
    <3> QED BY <2>1, <3>1
  <2>2. CASE i = i0
    <3>1. reqs'[i] = Recorded(s, reqs[i])
      BY <2>2
    <3> HIDE DEF i0
    <3>2. /\ reqs'[i] \in Request
          /\ reqs'[i].mails = reqs[i].mails /\ reqs'[i].nudges = reqs[i].nudges
          /\ reqs'[i].excuses = reqs[i].excuses
          /\ reqs'[i].status = "deleted" <=> reqs[i].status = "deleted"
      BY <3>1, RecordedRow
    <3>3. /\ reqs'[i].sentAt \in {day, reqs[i].sentAt}
          /\ reqs'[i].remindedAt \in {day, reqs[i].remindedAt}
          /\ sender[s].part # "reminders" => reqs'[i].remindedAt = reqs[i].remindedAt
          /\ sender[s].part = "reminders" => reqs'[i].status = reqs[i].status
      BY <3>1, RecordedRow
    <3> QED BY <2>2, <3>2, <3>3
  <2> QED BY <2>1, <2>2
<1>2. /\ reqs[i].mails \in Nat /\ reqs[i].nudges \in Nat /\ reqs[i].excuses \in Nat
      /\ day \in Nat /\ day > 0
      /\ Cardinality(Owing(i)) \in Nat /\ Cardinality(Owing(i)') \in Nat
  BY RowNumbers, OwingFinite, Parameters DEF TypeOK
<1>3. /\ MailAllowed(reqs, i) \in {0, 1} /\ NudgeOwed(i) \in {0, 1} /\ NudgeAllowed(reqs, i) \in {0, 1}
      /\ MailAllowed(reqs, i)' \in {0, 1} /\ NudgeOwed(i)' \in {0, 1}
      /\ NudgeAllowed(reqs, i)' \in {0, 1}
  BY AllowedNumbers
<1>4. /\ reqs[i].mails + Cardinality(Owing(i)) <= reqs[i].excuses + MailAllowed(reqs, i)
      /\ reqs[i].nudges + NudgeOwed(i) <= reqs[i].excuses + NudgeAllowed(reqs, i)
      /\ reqs[i].sentAt <= day /\ reqs[i].remindedAt <= day
  BY DEF RowOK, MailBudget, NudgeBudget
<1>5. /\ \A o \in Senders : Mailing(o, i)' <=> Mailing(o, i) /\ ~(o = s /\ i = i0)
      /\ Owes(s, i)' <=> Owes(s, i) /\ i # i0
      /\ Done(s, i) <=> sender[s].pc = "taken" /\ i = i0
      /\ ~Done(s, i)'
      /\ sender[s].part = "reminders" =>
           (Holds(s, i)' /\ sender'[s].part = "reminders" <=> Holds(s, i) /\ i # i0)
      /\ sender[s].part # "reminders" /\ Holds(s, i)' /\ sender'[s].part = "reminders" =>
           s = "drain" /\ i \in Ids(reqs') /\ reqs'[i].remindedAt = 0
  BY ResumeHolds
<1>6. i = i0 => Holds(s, i)
  BY CurrentIs
<1>7. i = i0 /\ reqs[i].status # "deleted" /\ sender[s].pc = "taken" =>
        /\ sender[s].part # "reminders" => reqs'[i].status = "sent"
        /\ sender[s].part = "reminders" => reqs'[i].remindedAt = day
  BY RecordedRow
<1> HIDE DEF i0
<1>8. MailBudget(reqs, i)'
  <2>1. CASE i # i0 \/ sender[s].part = "reminders"
    <3>1. \A o \in Senders : Mailing(o, i)' <=> Mailing(o, i)
      BY <1>5, <2>1 DEF Mailing
    <3>2. MailAllowed(reqs, i)' = MailAllowed(reqs, i)
      BY <1>1, <2>1, <3>1 DEF MailAllowed
    <3>3. Owes(s, i)' <=> Owes(s, i)
      BY <1>5, <2>1 DEF Owes, Mailing
    <3>4. Owing(i)' = Owing(i)
      BY <3>3, OwingStep
    <3>5. reqs'[i].mails + Cardinality(Owing(i)') <= reqs'[i].excuses + MailAllowed(reqs, i)'
      BY <1>1, <1>2, <1>3, <1>4, <3>2, <3>4
    <3> QED BY <3>5 DEF MailBudget
  <2>2. CASE i = i0 /\ sender[s].part # "reminders" /\ sender[s].pc = "taken"
    <3>1. ~Owes(s, i) /\ ~Owes(s, i)'
      BY <1>5, <2>2 DEF Owes
    <3>2. Owing(i)' = Owing(i)
      BY <3>1, OwingStep
    <3>3. MailAllowed(reqs, i)' = 1 \/ MailAllowed(reqs, i) = 0
      BY <1>7, <2>2 DEF MailAllowed
    <3>4. reqs'[i].mails + Cardinality(Owing(i)') <= reqs'[i].excuses + MailAllowed(reqs, i)'
      BY <1>1, <1>2, <1>3, <1>4, <3>2, <3>3
    <3> QED BY <3>4 DEF MailBudget
  <2>3. CASE i = i0 /\ sender[s].part # "reminders" /\ sender[s].pc = "refused"
    <3>1. Owes(s, i) /\ ~Owes(s, i)'
      BY <1>5, <1>6, <2>3 DEF Owes, Mailing
    <3>2. Cardinality(Owing(i)') = Cardinality(Owing(i)) - 1
      BY <3>1, OwingStep
    <3>3. reqs'[i].mails + Cardinality(Owing(i)') <= reqs'[i].excuses + MailAllowed(reqs, i)'
      BY <1>1, <1>2, <1>3, <1>4, <3>2
    <3> QED BY <3>3 DEF MailBudget
  <2> QED BY <2>1, <2>2, <2>3
<1>9. NudgeBudget(reqs, i)'
  <2>1. CASE s # "drain" \/ (i # i0 /\ sender[s].part = "reminders")
    <3>1. Nudging(i)' <=> Nudging(i)
      BY <1>5, <2>1 DEF Nudging, Holds, Senders
    <3>2. Done("drain", i)' <=> Done("drain", i)
      BY <1>5, <2>1 DEF Done, Current, Senders
    <3>3. s # "drain" => sender[s].part # "reminders"
      BY DEF LoopOK
    <3>4. reqs'[i].remindedAt = reqs[i].remindedAt
      BY <1>1, <2>1, <3>3
    <3>5. NudgeOwed(i)' = NudgeOwed(i) /\ NudgeAllowed(reqs, i)' = NudgeAllowed(reqs, i)
      BY <1>1, <3>1, <3>2, <3>4 DEF NudgeOwed, NudgeAllowed
    <3>6. reqs'[i].nudges + NudgeOwed(i)' <= reqs'[i].excuses + NudgeAllowed(reqs, i)'
      BY <1>1, <1>2, <1>3, <1>4, <3>5
    <3> QED BY <3>6 DEF NudgeBudget
  <2>2. CASE s = "drain" /\ i = i0 /\ sender[s].part = "reminders"
    <3>1. ~Nudging(i)' /\ Nudging(i)
      BY <1>5, <1>6, <2>2 DEF Nudging
    <3>2. NudgeOwed(i)' = 0 /\ NudgeAllowed(reqs, i) = 1
      BY <3>1 DEF NudgeOwed, NudgeAllowed
    <3>3. NudgeAllowed(reqs, i)' = 1 \/ NudgeOwed(i) = 1
      <4>1. CASE sender[s].pc = "refused"
        <5>1. ~Done("drain", i)
          BY <1>5, <2>2, <4>1
        <5> QED BY <3>1, <5>1 DEF NudgeOwed
      <4>2. CASE sender[s].pc = "taken"
        <5>1. reqs'[i].status = "deleted" \/ reqs'[i].remindedAt > 0
          BY <1>1, <1>2, <1>7, <2>2, <4>2
        <5> QED BY <5>1 DEF NudgeAllowed
      <4> QED BY <4>1, <4>2
    <3>4. reqs'[i].nudges + NudgeOwed(i)' <= reqs'[i].excuses + NudgeAllowed(reqs, i)'
      BY <1>1, <1>2, <1>3, <1>4, <3>2, <3>3
    <3> QED BY <3>4 DEF NudgeBudget
  <2>3. CASE s = "drain" /\ sender[s].part # "reminders"
    <3>1. ~Nudging(i) /\ NudgeOwed(i) = 0
      BY <2>3 DEF Nudging, NudgeOwed
    <3>2. CASE Nudging(i)'
      <4>1. reqs'[i].status # "deleted" /\ reqs'[i].remindedAt = 0
        BY <1>5, <2>3, <3>2 DEF Nudging, Ids
      <4>2. NudgeAllowed(reqs, i) = 0 /\ NudgeAllowed(reqs, i)' = 1
        BY <1>1, <2>3, <3>1, <3>2, <4>1 DEF NudgeAllowed
      <4>3. reqs'[i].nudges + NudgeOwed(i)' <= reqs'[i].excuses + NudgeAllowed(reqs, i)'
        BY <1>1, <1>2, <1>3, <1>4, <3>1, <4>2
      <4> QED BY <4>3 DEF NudgeBudget
    <3>3. CASE ~Nudging(i)'
      <4>1. NudgeOwed(i)' = 0
        BY <3>3 DEF NudgeOwed
      <4>2. NudgeAllowed(reqs, i)' = NudgeAllowed(reqs, i)
        BY <1>1, <2>3, <3>1, <3>3 DEF NudgeAllowed
      <4>3. reqs'[i].nudges + NudgeOwed(i)' <= reqs'[i].excuses + NudgeAllowed(reqs, i)'
        BY <1>1, <1>2, <1>3, <1>4, <3>1, <4>1, <4>2
      <4> QED BY <4>3 DEF NudgeBudget
    <3> QED BY <3>2, <3>3
  <2> QED BY <2>1, <2>2, <2>3
<1>10. reqs'[i].sentAt <= day /\ reqs'[i].remindedAt <= day
  BY <1>1, <1>2, <1>4
<1> QED BY <1>8, <1>9, <1>10 DEF RowOK

(* What is in hand shrinks by the mail that was just recorded.                *)
LEMMA ResumeCap ==
  ASSUME TypeOK, CapBudget, NEW s \in Senders, LoopOK(s), sender[s].pc \in {"taken", "refused"},
         sender' \in [Senders -> Loop], \A o \in Senders : o # s => sender'[o] = sender[o],
         OnTo(s, sender'[s]), day' = day, crossed' = crossed,
         reqs' \in Seq(Request), DailySent(reqs') <= DailySent(reqs) + 1
  PROVE  CapBudget'
<1> DEFINE n == Len(sender[s].rows)
           d == DailySent(reqs)
           e == DailySent(reqs')
<1>1. SUFFICES ASSUME ~crossed
               PROVE  /\ DailySent(reqs)' <= Cap
                      /\ \A o \in Busy' : /\ Busy' = {o} /\ sender'[o].part # "single"
                                          /\ DailySent(reqs)' + Len(sender'[o].rows) <= Cap
  BY DEF CapBudget
<1>2. s \in Busy
  BY DEF Busy
<1>3. Busy = {s} /\ sender[s].part # "single" /\ d + n <= Cap
  BY <1>1, <1>2 DEF CapBudget
<1>4. n \in Nat /\ n >= 1 /\ sender[s].rows \in Seq(1..MaxRows) /\ IsInjective(sender[s].rows)
  BY CurrentIs DEF LoopOK
<1>5. d \in Nat /\ e \in Nat /\ e <= d + 1 /\ DailySent(reqs)' = e
  <2>1. reqs \in Seq(Request)
    BY DEF TypeOK
  <2> QED BY <2>1, DailySentIs, DailySentSame
<1>6. Busy' \subseteq {s}
  BY <1>3 DEF Busy
<1>7. e <= Cap
  <2> HIDE DEF n, d, e
  <2> QED BY <1>3, <1>4, <1>5, Parameters
<1>8. ASSUME s \in Busy'
      PROVE  sender'[s].part # "single" /\ e + Len(sender'[s].rows) <= Cap
  <2>1. sender'[s].pc # "idle"
    BY <1>8 DEF Busy
  <2>2. CASE n > 1 /\ sender'[s].part = sender[s].part /\ sender'[s].rows = Tail(sender[s].rows)
    <3>1. Len(sender'[s].rows) = n - 1
      BY <1>4, <2>2, TailIs
    <3> HIDE DEF n, d, e
    <3>2. e + Len(sender'[s].rows) <= Cap
      BY <1>3, <1>4, <1>5, <3>1, Parameters
    <3> QED BY <1>3, <2>2, <3>2
  <2>3. CASE sender'[s].part = "reminders" /\ GoodLoop(s, sender'[s], reqs')
    BY <2>1, <2>3 DEF GoodLoop
  <2> QED BY <2>1, <2>2, <2>3 DEF OnTo
<1> HIDE DEF e
<1>9. ASSUME NEW o \in Busy' PROVE Busy' = {o} /\ o = s
  BY <1>6
<1> QED BY <1>5, <1>7, <1>8, <1>9

LEMMA ResumeNext == ASSUME ReviewsInv, NEW s \in Senders, Resume(s) PROVE ReviewsInv'
<1> DEFINE i0 == Current(s)
<1>1. /\ TypeOK /\ CapBudget /\ RequestsApart /\ reqs \in Seq(Request)
      /\ \A i \in DOMAIN reqs : RowOK(reqs, i) /\ reqs[i] \in Request
      /\ \A o \in Senders : LoopOK(o)
  BY DEF ReviewsInv, TypeOK
<1>2. /\ sender[s].pc \in {"taken", "refused"}
      /\ reqs' = [reqs EXCEPT ![i0] = Recorded(s, reqs[i0])]
      /\ UNCHANGED <<day, mode, active, complete, asked, crossed, troubles>>
  BY DEF Resume
<1>3. i0 \in DOMAIN reqs /\ reqs[i0] \in Request
  BY <1>1, <1>2, CurrentIs
<1>4. /\ DOMAIN reqs' = DOMAIN reqs /\ reqs' = [i \in DOMAIN reqs' |-> reqs'[i]]
      /\ reqs'[i0] = Recorded(s, reqs[i0])
      /\ \A i \in DOMAIN reqs : i # i0 => reqs'[i] = reqs[i]
  BY <1>1, <1>2, <1>3
<1> HIDE DEF i0
<1>5. /\ reqs'[i0] \in Request
      /\ reqs'[i0].job = reqs[i0].job /\ reqs'[i0].created = reqs[i0].created
      /\ reqs'[i0].status = "deleted" <=> reqs[i0].status = "deleted"
      /\ \/ sender[s].part # "reminders" /\ reqs'[i0].remindedAt = reqs[i0].remindedAt
         \/ /\ sender[s].part = "reminders"
            /\ reqs'[i0].status = reqs[i0].status /\ reqs'[i0].sentAt = reqs[i0].sentAt
  BY <1>1, <1>2, <1>3, <1>4, RecordedRow
<1>6. \A i \in DOMAIN reqs : reqs'[i] \in Request
  BY <1>1, <1>4, <1>5
<1>7. reqs' \in Seq(Request) /\ Len(reqs') = Len(reqs)
  BY <1>1, <1>4, <1>6, Rewritten
<1>8. /\ sender' \in [Senders -> Loop] /\ \A o \in Senders : o # s => sender'[o] = sender[o]
      /\ OnTo(s, sender'[s])
  <2>1. Len(reqs') <= MaxRows
    BY <1>1, <1>7 DEF TypeOK
  <2> QED BY <1>1, <1>7, <2>1, ResumeLoop
<1>9. TypeOK'
  BY <1>1, <1>2, <1>7, <1>8 DEF TypeOK
<1>10. ASSUME NEW o \in Senders PROVE LoopOK(o)'
  <2>1. CASE o # s
    BY <1>1, <1>4, <1>8, <2>1 DEF LoopOK
  <2>2. CASE o = s
    <3>1. /\ sender[s].rows \in Seq(1..MaxRows) /\ Len(sender[s].rows) \in Nat
          /\ IsInjective(sender[s].rows) /\ Range(sender[s].rows) \subseteq DOMAIN reqs
          /\ sender[s].part = "reminders" => s = "drain"
          /\ sender[s].part # "single" => Len(sender[s].rows) <= Cap
      BY <1>1, <1>2, CurrentIs DEF LoopOK
    <3>2. CASE /\ Len(sender[s].rows) > 1 /\ sender'[s].part = sender[s].part
               /\ sender'[s].rows = Tail(sender[s].rows)
      <4>1. /\ sender'[s].rows # <<>> /\ IsInjective(sender'[s].rows)
            /\ Range(sender'[s].rows) \subseteq Range(sender[s].rows)
            /\ Len(sender'[s].rows) = Len(sender[s].rows) - 1
        BY <3>1, <3>2, TailIs
      <4>2. sender[s].part # "single" => Len(sender'[s].rows) <= Cap
        BY <3>1, <4>1, Parameters
      <4> QED BY <1>4, <2>2, <3>1, <3>2, <4>1, <4>2 DEF LoopOK
    <3>3. CASE s = "drain" /\ sender'[s].part = "reminders" /\ GoodLoop(s, sender'[s], reqs')
      <4>1. sender'[s].pc # "idle" =>
              DailySent(reqs') + Len(sender'[s].rows) <= Cap
        BY <3>3 DEF GoodLoop
      <4>2. DailySent(reqs') \in Nat /\ Len(sender'[s].rows) \in Nat
        BY <1>7, <1>8, DailySentIs DEF Loop
      <4>3. sender'[s].pc # "idle" => Len(sender'[s].rows) <= Cap
        BY <4>1, <4>2, Parameters
      <4> QED BY <2>2, <3>3, <4>3 DEF GoodLoop, LoopOK, Ids
    <3>4. CASE sender'[s].pc = "idle"
      BY <2>2, <3>4 DEF LoopOK
    <3> QED BY <1>8, <3>2, <3>3, <3>4 DEF OnTo
  <2> QED BY <2>1, <2>2
<1>11. ASSUME NEW i \in DOMAIN reqs' PROVE RowOK(reqs, i)'
  <2>1. /\ RowOK(reqs, i) /\ reqs[i] \in Request /\ i \in DOMAIN reqs /\ LoopOK(s)
        /\ reqs'[i] = IF i = Current(s) THEN Recorded(s, reqs[i]) ELSE reqs[i]
    BY <1>1, <1>4 DEF i0
  <2> QED BY <1>1, <1>2, <1>8, <2>1, ResumeRow
<1>12. DailySent(reqs') <= DailySent(reqs) + 1
  <2>1. SentToday(reqs') \subseteq SentToday(reqs) \cup {i0}
    BY <1>4 DEF SentToday, Ids
  <2>2. RemindedToday(reqs') \subseteq RemindedToday(reqs) \cup {i0}
    BY <1>4 DEF RemindedToday, Ids
  <2>3. sender[s].part = "reminders" => SentToday(reqs') \subseteq SentToday(reqs)
    BY <1>4, <1>5 DEF SentToday, Ids
  <2>4. sender[s].part # "reminders" => RemindedToday(reqs') \subseteq RemindedToday(reqs)
    BY <1>4, <1>5 DEF RemindedToday, Ids
  <2> QED BY <1>1, <1>7, <2>1, <2>2, <2>3, <2>4, OneMoreSent
<1>13. CapBudget'
  BY <1>1, <1>2, <1>7, <1>8, <1>12, ResumeCap
<1>14. RequestsApart'
  <2>1. Ids(reqs') \subseteq Ids(reqs)
    BY <1>4, <1>5 DEF Ids
  <2>2. \A i \in Ids(reqs') : reqs'[i].job = reqs[i].job /\ reqs'[i].created = reqs[i].created
    BY <1>4, <1>5 DEF Ids
  <2>3. ApartIn(reqs')
    BY <1>1, <2>1, <2>2, ApartKept, ApartNow
  <2> QED BY <2>3 DEF RequestsApart, ApartIn, Ids
<1> QED BY <1>9, <1>10, <1>11, <1>13, <1>14 DEF ReviewsInv

-----------------------------------------------------------------------------
(* Action by action: the end of the process.                                  *)

LEMMA AllIdle ==
  ASSUME sender' = [s \in Senders |-> Idle], NEW i
  PROVE  /\ Owing(i)' = {} /\ Cardinality(Owing(i)') = 0 /\ NudgeOwed(i)' = 0
         /\ ~Nudging(i)' /\ ~\E s \in Senders : Mailing(s, i)'
<1>1. \A s \in Senders : sender'[s].pc = "idle"
  BY IdleGood
<1>2. \A s \in Senders : ~Holds(s, i)'
  BY <1>1 DEF Holds
<1>3. Owing(i)' = {} /\ ~Nudging(i)' /\ ~\E s \in Senders : Mailing(s, i)'
  BY <1>2 DEF Owing, Owes, Mailing, Nudging, Senders
<1> QED BY <1>3, FS_EmptySet DEF NudgeOwed

(* Who owed a mail owes it no more; a mail that went out without its row      *)
(* being updated is excused.                                                  *)
LEMMA KilledRow ==
  ASSUME TypeOK, sender' = [s \in Senders |-> Idle], day' = day,
         NEW i, RowOK(reqs, i), reqs[i] \in Request, reqs'[i] \in Request,
         reqs'[i].status = reqs[i].status, reqs'[i].sentAt = reqs[i].sentAt,
         reqs'[i].remindedAt = reqs[i].remindedAt,
         reqs'[i].mails = reqs[i].mails, reqs'[i].nudges = reqs[i].nudges,
         reqs'[i].excuses = reqs[i].excuses + Cardinality({s \in Senders : Done(s, i)})
  PROVE  RowOK(reqs, i)'
<1> DEFINE Gone == {s \in Senders : Done(s, i)}
           g == Cardinality(Gone)
<1>1. /\ reqs[i].mails \in Nat /\ reqs[i].nudges \in Nat /\ reqs[i].excuses \in Nat
      /\ Cardinality(Owing(i)) \in Nat
  BY RowNumbers, OwingFinite
<1>2. /\ MailAllowed(reqs, i) \in {0, 1} /\ NudgeOwed(i) \in {0, 1} /\ NudgeAllowed(reqs, i) \in {0, 1}
      /\ MailAllowed(reqs, i)' \in {0, 1} /\ NudgeAllowed(reqs, i)' \in {0, 1}
  BY AllowedNumbers
<1>3. /\ reqs[i].mails + Cardinality(Owing(i)) <= reqs[i].excuses + MailAllowed(reqs, i)
      /\ reqs[i].nudges + NudgeOwed(i) <= reqs[i].excuses + NudgeAllowed(reqs, i)
      /\ reqs[i].sentAt <= day /\ reqs[i].remindedAt <= day
  BY DEF RowOK, MailBudget, NudgeBudget
<1>4. /\ Cardinality(Owing(i)') = 0 /\ NudgeOwed(i)' = 0
      /\ ~Nudging(i)' /\ ~\E s \in Senders : Mailing(s, i)'
  BY AllIdle
<1>5. /\ Gone \in SUBSET Senders /\ g \in Nat
      /\ Gone # {} => g >= 1
  <2>1. Gone \in SUBSET Senders
    OBVIOUS
  <2>2. IsFiniteSet(Gone) /\ g \in Nat
    BY <2>1, SomeSenders
  <2>3. Gone # {} => g # 0
    BY <2>2, FS_EmptySet
  <2> HIDE DEF g
  <2> QED BY <2>1, <2>2, <2>3
<1>6. reqs'[i].excuses = reqs[i].excuses + g
  OBVIOUS
<1> HIDE DEF g
<1>7. MailBudget(reqs, i)'
  <2>1. \/ MailAllowed(reqs, i) = 0
        \/ MailAllowed(reqs, i)' = 1
        \/ Cardinality(Owing(i)) >= 1
        \/ g >= 1
    <3>1. CASE reqs[i].status = "sent"
      BY <3>1 DEF MailAllowed
    <3>2. CASE reqs[i].status # "sent" /\ ~\E s \in Senders : Mailing(s, i)
      BY <3>2 DEF MailAllowed
    <3>3. CASE \E s \in Senders : Mailing(s, i)
      <4>1. PICK s \in Senders : Mailing(s, i)
        BY <3>3
      <4>2. CASE Done(s, i)
        BY <1>5, <4>2
      <4>3. CASE ~Done(s, i)
        <5>1. s \in Owing(i)
          BY <4>1, <4>3 DEF Owing, Owes
        <5>2. Cardinality(Owing(i)) # 0
          BY <5>1, OwingFinite, FS_EmptySet
        <5> QED BY <1>1, <5>2
      <4> QED BY <4>2, <4>3
    <3> QED BY <3>1, <3>2, <3>3
  <2>2. reqs'[i].mails + Cardinality(Owing(i)') <= reqs'[i].excuses + MailAllowed(reqs, i)'
    BY <1>1, <1>2, <1>3, <1>4, <1>5, <1>6, <2>1
  <2> QED BY <2>2 DEF MailBudget
<1>8. NudgeBudget(reqs, i)'
  <2>1. \/ NudgeAllowed(reqs, i) = 0
        \/ NudgeAllowed(reqs, i)' = 1
        \/ NudgeOwed(i) = 1
        \/ g >= 1
    <3>1. CASE Nudging(i) /\ Done("drain", i)
      <4>1. "drain" \in Gone
        BY <3>1 DEF Senders
      <4> QED BY <1>5, <4>1
    <3>2. CASE Nudging(i) /\ ~Done("drain", i)
      BY <3>2 DEF NudgeOwed
    <3>3. CASE ~Nudging(i)
      BY <3>3 DEF NudgeAllowed
    <3> QED BY <3>1, <3>2, <3>3
  <2>2. reqs'[i].nudges + NudgeOwed(i)' <= reqs'[i].excuses + NudgeAllowed(reqs, i)'
    BY <1>1, <1>2, <1>3, <1>4, <1>5, <1>6, <2>1
  <2> QED BY <2>2 DEF NudgeBudget
<1> QED BY <1>3, <1>7, <1>8 DEF RowOK

LEMMA NewAfterKill ==
  ASSUME TypeOK', sender' = [s \in Senders |-> Idle], NEW i, Fresh(reqs[i])'
  PROVE  RowOK(reqs, i)'
<1>1. Cardinality(Owing(i)') = 0 /\ NudgeOwed(i)' = 0
  BY AllIdle
<1>2. /\ day' \in Nat
      /\ MailAllowed(reqs, i)' \in {0, 1} /\ NudgeAllowed(reqs, i)' \in {0, 1}
  BY AllowedNumbers, Parameters DEF TypeOK
<1> QED BY <1>1, <1>2 DEF RowOK, MailBudget, NudgeBudget, Fresh

LEMMA KillNext == ReviewsInv /\ Kill => ReviewsInv'
<1> SUFFICES ASSUME ReviewsInv, Kill PROVE ReviewsInv'
  OBVIOUS
<1> DEFINE Gone(i) == {s \in Senders : Done(s, i)}
           cut == [i \in DOMAIN reqs |-> [reqs[i] EXCEPT !.excuses = @ + Cardinality(Gone(i))]]
           pending == PendingJobs(asked)
           done(j) == {k \in pending : k >= j}
<1>1. /\ TypeOK /\ CapBudget /\ RequestsApart /\ reqs \in Seq(Request)
      /\ \A i \in DOMAIN reqs : RowOK(reqs, i) /\ reqs[i] \in Request
  BY DEF ReviewsInv, TypeOK
<1>2. /\ Trouble
      /\ sender' = [s \in Senders |-> Idle]
      /\ UNCHANGED <<day, mode, active, complete, crossed>>
      /\ \/ reqs' = cut /\ asked' = asked
         \/ \E j \in pending : /\ Len(Swept(cut, done(j))) <= MaxRows
                               /\ reqs' = Swept(cut, done(j))
                               /\ asked' = asked \cup (done(j) \ {j})
  BY DEF Kill, Done
<1>3. pending \in SUBSET Jobs
  BY <1>1, PendingIs
<1>4. ASSUME NEW i \in DOMAIN reqs
      PROVE  /\ cut[i] \in Request
             /\ cut[i].job = reqs[i].job /\ cut[i].created = reqs[i].created
             /\ cut[i].status = reqs[i].status
             /\ cut[i].sentAt = reqs[i].sentAt /\ cut[i].remindedAt = reqs[i].remindedAt
             /\ cut[i].mails = reqs[i].mails /\ cut[i].nudges = reqs[i].nudges
             /\ cut[i].excuses = reqs[i].excuses + Cardinality(Gone(i))
  <2>1. reqs[i] \in Request /\ reqs[i].excuses \in Nat
    BY <1>1, RowNumbers
  <2>2. Cardinality(Gone(i)) \in Nat
    <3>1. Gone(i) \in SUBSET Senders
      OBVIOUS
    <3> QED BY <3>1, SomeSenders
  <2>3. cut[i] = [reqs[i] EXCEPT !.excuses = @ + Cardinality(Gone(i))]
    OBVIOUS
  <2> HIDE DEF cut, Gone
  <2>4. reqs[i].excuses + Cardinality(Gone(i)) \in Nat
    BY <2>1, <2>2
  <2>5. cut[i].excuses = reqs[i].excuses + Cardinality(Gone(i))
    BY <2>1, <2>3 DEF Request
  <2>6. cut[i] \in Request
    BY <2>1, <2>3, <2>4 DEF Request
  <2>7. /\ cut[i].job = reqs[i].job /\ cut[i].created = reqs[i].created
        /\ cut[i].status = reqs[i].status
        /\ cut[i].sentAt = reqs[i].sentAt /\ cut[i].remindedAt = reqs[i].remindedAt
        /\ cut[i].mails = reqs[i].mails /\ cut[i].nudges = reqs[i].nudges
    BY <2>1, <2>3 DEF Request
  <2> QED BY <2>5, <2>6, <2>7
<1>5. DOMAIN cut = DOMAIN reqs /\ cut = [i \in DOMAIN cut |-> cut[i]]
  OBVIOUS
<1> HIDE DEF cut, Gone, pending
<1>6. cut \in Seq(Request) /\ Len(cut) = Len(reqs)
  BY <1>1, <1>4, <1>5, Rewritten
<1>7. ApartIn(cut)
  <2>1. Ids(cut) \subseteq Ids(reqs)
    BY <1>4, <1>5 DEF Ids
  <2>2. \A i \in Ids(cut) : cut[i].job = reqs[i].job /\ cut[i].created = reqs[i].created
    BY <1>4, <1>5 DEF Ids
  <2> QED BY <1>1, <2>1, <2>2, ApartKept, ApartNow
<1>8. /\ Extends(cut, reqs') /\ ApartIn(reqs') /\ Len(reqs') <= MaxRows
      /\ asked' \subseteq Jobs
  <2>1. CASE reqs' = cut /\ asked' = asked
    BY <1>1, <1>6, <1>7, <2>1 DEF Extends, TypeOK
  <2>2. CASE \E j \in pending : /\ Len(Swept(cut, done(j))) <= MaxRows
                                /\ reqs' = Swept(cut, done(j))
                                /\ asked' = asked \cup (done(j) \ {j})
    <3>1. PICK j \in pending : /\ Len(Swept(cut, done(j))) <= MaxRows
                               /\ reqs' = Swept(cut, done(j))
                               /\ asked' = asked \cup (done(j) \ {j})
      BY <2>2
    <3>2. done(j) \in SUBSET Jobs
      BY <1>3
    <3> HIDE DEF done
    <3>3. Extends(cut, reqs') /\ ApartIn(reqs')
      BY <1>1, <1>6, <1>7, <3>1, <3>2, SweptIs
    <3> QED BY <1>1, <3>1, <3>2, <3>3 DEF TypeOK
  <2> QED BY <1>2, <2>1, <2>2
<1>9. reqs' \in Seq(Request) /\ DOMAIN cut \subseteq DOMAIN reqs'
  BY <1>8 DEF Extends
<1>10. TypeOK'
  <2>1. troubles' \in 0..MaxTroubles
    BY <1>1, <1>2, TroubleType
  <2>2. sender' \in [Senders -> Loop]
    BY <1>2, IdleGood
  <2> QED BY <1>1, <1>2, <1>8, <1>9, <2>1, <2>2 DEF TypeOK
<1>11. \A s \in Senders : sender'[s].pc = "idle"
  BY <1>2, IdleGood
<1>12. \A s \in Senders : LoopOK(s)'
  BY <1>11 DEF LoopOK
<1>13. ASSUME NEW i \in DOMAIN reqs' PROVE RowOK(reqs, i)'
  <2>1. CASE i \in DOMAIN cut
    <3>1. reqs'[i] = cut[i] /\ i \in DOMAIN reqs /\ RowOK(reqs, i) /\ reqs[i] \in Request
      BY <1>1, <1>5, <1>8, <2>1 DEF Extends
    <3>2. /\ reqs'[i] \in Request
          /\ reqs'[i].status = reqs[i].status
          /\ reqs'[i].sentAt = reqs[i].sentAt /\ reqs'[i].remindedAt = reqs[i].remindedAt
          /\ reqs'[i].mails = reqs[i].mails /\ reqs'[i].nudges = reqs[i].nudges
          /\ reqs'[i].excuses = reqs[i].excuses + Cardinality({s \in Senders : Done(s, i)})
      BY <1>4, <3>1 DEF Gone
    <3> QED BY <1>1, <1>2, <3>1, <3>2, KilledRow
  <2>2. CASE i \notin DOMAIN cut
    <3>1. Fresh(reqs'[i])
      BY <1>8, <2>2 DEF Extends
    <3>2. Fresh(reqs[i])'
      BY <1>2, <3>1 DEF Fresh
    <3> QED BY <1>2, <1>10, <3>2, NewAfterKill
  <2> QED BY <2>1, <2>2
<1>14. CapBudget'
  <2>1. DailySent(reqs') <= DailySent(cut)
    BY <1>1, <1>6, <1>8, ExtendsSendsNothing
  <2>2. SentToday(cut) \subseteq SentToday(reqs) /\ RemindedToday(cut) \subseteq RemindedToday(reqs)
    BY <1>4, <1>5 DEF SentToday, RemindedToday, Ids
  <2>3. DailySent(cut) <= DailySent(reqs)
    BY <1>1, <1>6, <2>2, NoMoreSent
  <2>4. /\ DailySent(reqs)' = DailySent(reqs') /\ DailySent(reqs) \in Nat /\ DailySent(cut) \in Nat
        /\ DailySent(reqs') \in Nat
    BY <1>1, <1>2, <1>6, <1>9, DailySentSame, DailySentIs
  <2>5. crossed' \/ DailySent(reqs) <= Cap
    BY <1>1, <1>2 DEF CapBudget
  <2>6. crossed' \/ DailySent(reqs)' <= Cap
    BY <2>1, <2>3, <2>4, <2>5, Parameters
  <2>7. Busy' = {}
    BY <1>11 DEF Busy
  <2> QED BY <2>6, <2>7 DEF CapBudget
<1>15. RequestsApart'
  BY <1>8 DEF RequestsApart, ApartIn, Ids
<1> QED BY <1>10, <1>12, <1>13, <1>14, <1>15 DEF ReviewsInv

-----------------------------------------------------------------------------
(* The theorems.                                                              *)

LEMMA ReviewsInit == Init => ReviewsInv
<1> SUFFICES ASSUME Init PROVE ReviewsInv
  OBVIOUS
<1>1. \A s \in Senders : sender[s] = Idle /\ sender[s].pc = "idle"
  BY IdleGood DEF Init
<1>2. reqs \in Seq(Request) /\ Len(reqs) = 0 /\ DOMAIN reqs = {}
  BY DEF Init
<1>3. sender \in [Senders -> Loop]
  BY IdleGood DEF Init
<1>4. TypeOK
  <2>1. active \in BOOLEAN /\ crossed \in BOOLEAN
    BY DEF Init
  <2>2. day \in 1..MaxDay /\ troubles \in 0..MaxTroubles /\ Len(reqs) <= MaxRows
    BY <1>2, Parameters DEF Init
  <2>3. mode \in {"hold", "auto"} /\ complete \subseteq Jobs /\ asked \subseteq Jobs
    BY DEF Init
  <2> QED BY <1>2, <1>3, <2>1, <2>2, <2>3 DEF TypeOK
<1>5. \A s \in Senders : LoopOK(s)
  BY <1>1 DEF LoopOK
<1>6. CapBudget
  <2>1. SentToday(reqs) = {} /\ RemindedToday(reqs) = {}
    BY <1>2 DEF SentToday, RemindedToday, Ids
  <2>2. DailySent(reqs) = 0 + 0
    BY <1>2, <2>1, DailySentIs, FS_EmptySet
  <2>3. Busy = {}
    BY <1>1 DEF Busy
  <2> QED BY <2>2, <2>3, Parameters DEF CapBudget
<1>7. RequestsApart
  BY <1>2 DEF RequestsApart, Ids
<1> QED BY <1>2, <1>4, <1>5, <1>6, <1>7 DEF ReviewsInv

LEMMA ReviewsNext == ReviewsInv /\ [Next]_vars => ReviewsInv'
<1> SUFFICES ASSUME ReviewsInv, [Next]_vars PROVE ReviewsInv'
  OBVIOUS
<1>1. CASE ScheduledRun
  BY <1>1, ScheduledRunNext
<1>2. CASE Sweep
  BY <1>2, SweepNext
<1>3. CASE Regenerate
  BY <1>3, RegenerateNext
<1>4. CASE ApproveHeld
  BY <1>4, ApproveHeldNext
<1>5. CASE Tick
  BY <1>5, TickNext
<1>6. CASE Kill
  BY <1>6, KillNext
<1>7. ASSUME NEW d \in Desks, SendBatch(d) PROVE ReviewsInv'
  BY <1>7, SendBatchNext
<1>8. ASSUME NEW d \in Desks, NEW i \in DOMAIN reqs, SendOne(d, i) PROVE ReviewsInv'
  BY <1>8, SendOneNext
<1>9. ASSUME NEW s \in Senders, MailTaken(s) \/ MailRefused(s) \/ AnswerLost(s) PROVE ReviewsInv'
  BY <1>9, MailsNext
<1>10. ASSUME NEW s \in Senders, Resume(s) PROVE ReviewsInv'
  BY <1>10, ResumeNext
<1>11. CASE \/ \E m \in {"hold", "auto"} : SetMode(m)
            \/ \E on \in BOOLEAN : SetTargetActive(on)
            \/ \E j \in Jobs : JobCompletes(j)
  BY <1>11, SetNext
<1>12. CASE UNCHANGED vars
  <2>1. TypeOK'
    BY <1>12 DEF vars, ReviewsInv, TypeOK
  <2> QED BY <1>12, <2>1, SettingsNext DEF vars
<1> QED
  BY <1>1, <1>2, <1>3, <1>4, <1>5, <1>6, <1>7, <1>8, <1>9, <1>10, <1>11, <1>12 DEF Next

(* The inductive invariant: the types, sound loops, the mail and reminder     *)
(* budget of each request, the day's budget, and requests apart.              *)
THEOREM ReviewsSound == Spec => []ReviewsInv
<1>1. Init => ReviewsInv
  BY ReviewsInit
<1>2. ReviewsInv /\ [Next]_vars => ReviewsInv'
  BY ReviewsNext
<1> QED BY <1>1, <1>2, PTL DEF Spec

(* The state has its types.                                                   *)
THEOREM ReviewTypes == Spec => []TypeOK
<1>1. ReviewsInv => TypeOK
  BY DEF ReviewsInv
<1> QED BY <1>1, ReviewsSound, PTL

(* A contact is asked once in a period, whatever sweeps, regenerations, kills *)
(* inside a sweep and senders come after each other.                          *)
THEOREM OnePerPeriod == Spec => []RequestsApart
<1>1. ReviewsInv => RequestsApart
  BY DEF ReviewsInv
<1> QED BY <1>1, ReviewsSound, PTL

(* No request is mailed, and nobody reminded, a second time without a lost    *)
(* answer, a kill after the mail, a regeneration under a sender, or a second  *)
(* sender with the same row.                                                  *)
THEOREM OncePaidFor == Spec => []OnceUnlessExcused
<1>1. ReviewsInv => OnceUnlessExcused
  <2> SUFFICES ASSUME ReviewsInv, NEW i \in DOMAIN reqs
               PROVE  /\ reqs[i].mails <= (IF reqs[i].status = "deleted" THEN 0 ELSE 1)
                                          + reqs[i].excuses
                      /\ reqs[i].nudges <= 1 + reqs[i].excuses
    BY DEF OnceUnlessExcused
  <2>1. RowOK(reqs, i) /\ reqs[i] \in Request
    BY DEF ReviewsInv, TypeOK
  <2>2. /\ reqs[i].mails + Cardinality(Owing(i)) <= reqs[i].excuses + MailAllowed(reqs, i)
        /\ reqs[i].nudges + NudgeOwed(i) <= reqs[i].excuses + NudgeAllowed(reqs, i)
    BY <2>1 DEF RowOK, MailBudget, NudgeBudget
  <2>3. /\ reqs[i].mails \in Nat /\ reqs[i].nudges \in Nat /\ reqs[i].excuses \in Nat
        /\ Cardinality(Owing(i)) \in Nat
        /\ MailAllowed(reqs, i) \in {0, 1} /\ NudgeOwed(i) \in {0, 1}
        /\ NudgeAllowed(reqs, i) \in {0, 1}
    BY <2>1, RowNumbers, OwingFinite, AllowedNumbers
  <2>4. reqs[i].nudges <= 1 + reqs[i].excuses
    BY <2>2, <2>3
  <2>5. CASE reqs[i].status = "deleted"
    <3>1. MailAllowed(reqs, i) = 0
      BY <2>5 DEF MailAllowed
    <3>2. reqs[i].mails <= 0 + reqs[i].excuses
      BY <2>2, <2>3, <3>1
    <3> QED BY <2>4, <2>5, <3>2
  <2>6. CASE reqs[i].status # "deleted"
    <3>1. reqs[i].mails <= 1 + reqs[i].excuses
      BY <2>2, <2>3
    <3> QED BY <2>4, <2>6, <3>1
  <2> QED BY <2>5, <2>6
<1> QED BY <1>1, ReviewsSound, PTL

(* The daily cap holds on every day on which no two senders met and nobody    *)
(* sent a single request.                                                     *)
THEOREM TheCapHolds == Spec => []CapHolds
<1>1. ReviewsInv => CapHolds
  <2>1. ASSUME ReviewsInv, ~crossed PROVE DailySent(reqs) <= Cap
    BY <2>1 DEF ReviewsInv, CapBudget
  <2> QED BY <2>1 DEF CapHolds
<1> QED BY <1>1, ReviewsSound, PTL
=============================================================================
