----------------------------- MODULE IntakeLinks -----------------------------
(* The invites by which a hiring manager without an account starts an         *)
(* onboarding (services/intakeLinks.ts): single-use links that expire, are    *)
(* nudged, voided and sent again.  Whoever holds a link may open and submit   *)
(* it at any time, also one that was replaced long ago.                       *)
EXTENDS Integers

CONSTANTS
  MaxLinks,   \* bound: rows of intake_links
  TTL,        \* LINK_TTL_DAYS
  MaxToday,   \* bound: days
  MaxCut      \* bound: submissions of a link cut short

ASSUME IntakeAssumption == MaxLinks \in Nat /\ TTL \in Nat /\ MaxToday \in Nat /\ MaxCut \in Nat

VARIABLES
  today,
  link,      \* intake_links: status, expires_at, is_test, and the invite it stems from
  made,      \* onboarding_requests, by the link they came through
  renewed    \* history: invites with a link sent again after its end, or a submission
             \* cut short by a kill

intakeVars == <<today, link, made, renewed>>

LinkIds == 1..MaxLinks
NoLink == [status |-> "none", expires |-> 0, test |-> FALSE, invite |-> 0]

IntakeTypeOK ==
  /\ today \in Nat
  /\ link \in [LinkIds -> [status : {"none", "sent", "opened", "submitted", "voided"},
                           expires : Nat, test : BOOLEAN, invite : 0..MaxLinks]]
  /\ made \in [LinkIds -> Nat]
  /\ renewed \subseteq LinkIds

(* liveStatus is 'sent' or 'opened'.                                          *)
Live(l) == link[l].status \in {"sent", "opened"} /\ link[l].expires >= today

(* The row createIntakeLink inserts, with the next id.                        *)
IsNext(l) == link[l] = NoLink /\ \A k \in LinkIds : k < l => link[k] # NoLink
Fresh(v, test) == [status |-> "sent", expires |-> today + TTL, test |-> test, invite |-> v]

CreateIntakeLink ==
  /\ \E l \in LinkIds, test \in BOOLEAN : IsNext(l) /\ link' = [link EXCEPT ![l] = Fresh(l, test)]
  /\ UNCHANGED <<today, made, renewed>>

(* GET /api/intake/:token: resolveToken and markOpened.                       *)
MarkOpened(l) ==
  /\ Live(l)
  /\ link' = [link EXCEPT ![l].status = "opened"]
  /\ UNCHANGED <<today, made, renewed>>

Gained(l) == IF link[l].test THEN 0 ELSE 1

(* submitIntake: createRequest, and then the link is closed.  What a test     *)
(* link makes is rolled back.                                                 *)
SubmitIntake(l) ==
  /\ Live(l)
  /\ made' = [made EXCEPT ![l] = @ + Gained(l)]
  /\ link' = [link EXCEPT ![l].status = "submitted"]
  /\ UNCHANGED <<today, renewed>>

(* The process is killed between the two, or createRequest throws after its   *)
(* first insert: the request is there, and the link is open.                  *)
SubmitCut(l) ==
  /\ Live(l) /\ ~link[l].test /\ made[l] < MaxCut
  /\ made' = [made EXCEPT ![l] = @ + 1]
  /\ renewed' = renewed \cup {link[l].invite}
  /\ UNCHANGED <<today, link>>

Voided(l) == [link EXCEPT ![l].status = IF @ = "submitted" THEN @ ELSE "voided"]

\* Mutant: only a link that was never opened is voided.
ResendKeepingOpened(l) ==
  /\ link[l] # NoLink
  /\ \E n \in LinkIds :
       /\ IsNext(n)
       /\ link' = [(IF link[l].status = "opened" THEN link ELSE Voided(l)) EXCEPT ![n] = Fresh(link[l].invite, FALSE)]
  /\ renewed' = IF link[l].status \in {"submitted", "voided"} THEN renewed \cup {link[l].invite} ELSE renewed
  /\ UNCHANGED <<today, made>>

(* resendIntakeLink: the old one is voided unless it was submitted, and a     *)
(* fresh one, never a test, is inserted.                                      *)
ResendIntakeLink(l) ==
  /\ link[l] # NoLink
  /\ \E n \in LinkIds :
       /\ IsNext(n)
       /\ link' = [Voided(l) EXCEPT ![n] = Fresh(link[l].invite, FALSE)]
  /\ renewed' = IF link[l].status \in {"submitted", "voided"} THEN renewed \cup {link[l].invite} ELSE renewed
  /\ UNCHANGED <<today, made>>

(* voidIntakeLink.                                                            *)
VoidIntakeLink(l) ==
  /\ link[l].status \in {"sent", "opened"}
  /\ link' = Voided(l)
  /\ UNCHANGED <<today, made, renewed>>

(* nudgeIntakeLink: a live link is given its days anew.                       *)
NudgeIntakeLink(l) ==
  /\ Live(l)
  /\ link' = [link EXCEPT ![l].expires = today + TTL]
  /\ UNCHANGED <<today, made, renewed>>

NextDay ==
  /\ today < MaxToday
  /\ today' = today + 1
  /\ UNCHANGED <<link, made, renewed>>

IntakeInit ==
  /\ today = 0
  /\ link = [l \in LinkIds |-> NoLink]
  /\ made = [l \in LinkIds |-> 0]
  /\ renewed = {}

OfLink(l) ==
  \/ MarkOpened(l) \/ SubmitIntake(l) \/ SubmitCut(l)
  \/ ResendIntakeLink(l) \/ VoidIntakeLink(l) \/ NudgeIntakeLink(l)

IntakeNext == CreateIntakeLink \/ NextDay \/ \E l \in LinkIds : OfLink(l)

IntakeSpec == IntakeInit /\ [][IntakeNext]_intakeVars

-----------------------------------------------------------------------------
Invited(v) == {l \in LinkIds : link[l].invite = v}

(* One invite makes one onboarding request, through whichever of its links:   *)
(* "Resend: void the old token and issue a fresh one" (intakeLinks.ts:284).   *)
(* More come of it only when a link that had ended was sent again, or when a  *)
(* submission was cut short.                                                  *)
OneRequestPerInvite ==
  \A v \in LinkIds \ renewed, k, l \in LinkIds :
    /\ k \in Invited(v) => made[k] <= 1
    /\ {k, l} \subseteq Invited(v) /\ made[k] > 0 /\ made[l] > 0 => k = l

(* "A token is dead the moment it is submitted (single-use), voided (a resend *)
(* supersedes it), or expired" (intakeLinks.ts:6): no later call revives it.  *)
DeadStaysDead ==
  [][\A l \in LinkIds : link[l] # NoLink /\ ~Live(l) => ~Live(l)' /\ made'[l] = made[l]]_intakeVars
=============================================================================
