----------------------------- MODULE Exceptions -----------------------------
(***************************************************************************)
(* The exceptions queue (os/exceptions.ts): detectors read the mirror and   *)
(* say what is wrong now; each one's findings are reconciled with the rows  *)
(* of its category, which people resolve and dismiss                        *)
(* (routes/exceptions.ts).  A detection runs after each ServiceTrade sync,  *)
(* eight seconds after the boot, and when somebody presses Refresh.         *)
(*                                                                         *)
(* A detection never awaits, so nothing comes between its steps but a kill. *)
(***************************************************************************)
EXTENDS Integers

CONSTANTS
  Subjects,    \* dedupe keys: what can be wrong
  Detectors,   \* the detectors, numbered in the order they run
  DetectorOf,  \* [Subjects -> Detectors]: the category of a row
  MaxDecided   \* bound: decisions of people

ASSUME ExceptionsAssumption ==
  /\ Detectors \subseteq Nat
  /\ DetectorOf \in [Subjects -> Detectors]
  /\ MaxDecided \in Nat

VARIABLES
  wrong,      \* what is wrong in the mirror just now
  exception,  \* the table: [status, resolution] of each key
  decision,   \* history: how a person last closed the row
  told,       \* history: what the last detection to deal with the row made of it
  decided     \* bound: decisions so far

exceptionVars == <<wrong, exception, decision, told, decided>>

Rows == [status: {"none", "open", "claimed", "closed"},     \* claimed: assigned, in progress, blocked
         resolution: {"none", "auto", "reason"}]
NoRow == [status |-> "none", resolution |-> "none"]

ExceptionsTypeOK ==
  /\ wrong \subseteq Subjects
  /\ exception \in [Subjects -> Rows]
  /\ decision \in [Subjects -> {"none", "bare", "reasoned"}]
  /\ told \in [Subjects -> {"nothing", "here", "gone"}]
  /\ decided \in 0 .. MaxDecided

ExceptionsInit ==
  /\ wrong = {}
  /\ exception = [k \in Subjects |-> NoRow]
  /\ decision = [k \in Subjects |-> "none"]
  /\ told = [k \in Subjects |-> "nothing"]
  /\ decided = 0

-----------------------------------------------------------------------------
\* What the other syncs and the desk do to the mirror.
MirrorChanges(k) ==
  /\ wrong' = IF k \in wrong THEN wrong \ {k} ELSE wrong \cup {k}
  /\ UNCHANGED <<exception, decision, told, decided>>

OfDetector(d) == {k \in Subjects : DetectorOf[k] = d}

\* A detector that throws has found nothing.
Found(thrown) == {k \in wrong : DetectorOf[k] \notin thrown}

\* Mutant: the row is put back on the queue whoever closed it.
UpsertedAnyway(row) == [row EXCEPT !.status = IF @ \in {"none", "closed"} THEN "open" ELSE @]

\* The marker of an earlier automatic resolution is not cleared.
Upserted(row) ==
  [row EXCEPT !.status = IF @ = "none" \/ (@ = "closed" /\ row.resolution = "auto")
                         THEN "open" ELSE @]

AutoResolved(row) ==
  IF row.status \in {"open", "claimed"} THEN [status |-> "closed", resolution |-> "auto"] ELSE row

\* The rows upserted for what was found, and the rows of reached of which nothing was.
Reconcile(found, reached) ==
  /\ exception' = [k \in Subjects |->
                     IF k \in found THEN Upserted(exception[k])
                     ELSE IF k \in reached THEN AutoResolved(exception[k])
                     ELSE exception[k]]
  /\ told' = [k \in Subjects |->
                IF k \in found THEN "here" ELSE IF k \in reached THEN "gone" ELSE told[k]]
  /\ UNCHANGED <<wrong, decision, decided>>

DetectExceptions(thrown) == Reconcile(Found(thrown), Subjects)

\* Killed at detector d: its findings are saved in one transaction, the rows that are
\* gone are closed one by one.
DetectionKilled(thrown, d, closed) ==
  LET before == {k \in Subjects : DetectorOf[k] < d}
  IN Reconcile(Found(thrown) \cap (before \cup OfDetector(d)), before \cup closed)

\* COALESCE: without a reason the old resolution stays.
SetExceptionStatus(k, status, reasoned) ==
  /\ exception[k].status # "none"
  /\ decided < MaxDecided
  /\ decided' = decided + 1
  /\ exception' = [exception EXCEPT ![k].status = status,
                                    ![k].resolution = IF reasoned THEN "reason" ELSE @]
  /\ decision' = [decision EXCEPT ![k] = IF status # "closed" THEN "none"
                                         ELSE IF reasoned THEN "reasoned" ELSE "bare"]
  /\ told' = [told EXCEPT ![k] = "nothing"]
  /\ UNCHANGED wrong

ExceptionsNext ==
  \/ \E k \in Subjects : MirrorChanges(k)
  \/ \E thrown \in SUBSET Detectors :
       \/ DetectExceptions(thrown)
       \/ \E d \in Detectors : \E closed \in SUBSET OfDetector(d) : DetectionKilled(thrown, d, closed)
  \/ \E k \in Subjects, status \in {"open", "claimed", "closed"}, reasoned \in BOOLEAN :
       SetExceptionStatus(k, status, reasoned)

ExceptionsSpec == ExceptionsInit /\ [][ExceptionsNext]_exceptionVars

-----------------------------------------------------------------------------
\* The queue is what the last detection said, kills and throwing detectors included,
\* but for what people closed: what was found is on it unless a person closed it, what was
\* not found is off it, and what a person closed with a reason comes back by no detection.
QueueIsPresent ==
  \A k \in Subjects :
    /\ told[k] = "here" /\ decision[k] = "none" => exception[k].status \in {"open", "claimed"}
    /\ told[k] = "gone" => exception[k].status \in {"none", "closed"}
    /\ decision[k] = "reasoned" => exception[k].status = "closed"

\* exceptions.ts: "A person's own resolve/dismiss decisions are never overwritten."
DecisionsStand ==
  \A k \in Subjects : decision[k] # "none" => exception[k].status = "closed"
=============================================================================
