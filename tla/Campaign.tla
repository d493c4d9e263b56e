------------------------------ MODULE Campaign ------------------------------
(* A bulk mail (services/emailCampaign.ts): its recipients are sent to in     *)
(* batches that whoever drives it calls for again and again.  A call that     *)
(* times out at the caller goes on here, so calls overlap.                    *)
EXTENDS Integers, FiniteSets

CONSTANTS
  Recipients,   \* email_recipients.id, in the order they are sent to
  Batches,      \* bound: calls of sendBatch under way at once
  BatchMax,     \* the most recipients a call takes
  MaxMails      \* bound: mails to one recipient

ASSUME CampaignAssumption == Recipients \subseteq Nat /\ BatchMax \in Nat /\ MaxMails \in Nat

VARIABLES
  recipient,   \* email_recipients.status
  batch,       \* sendBatch: the rows it has yet to send to, the first of which it awaits
  mailed,      \* Microsoft Graph: the mails each recipient was sent
  reasons      \* history: recipients two calls had at once, or whose answer was lost

campaignVars == <<recipient, batch, mailed, reasons>>

CampaignTypeOK ==
  /\ recipient \in [Recipients -> {"pending", "sent", "failed"}]
  /\ batch \in [Batches -> SUBSET Recipients]
  /\ mailed \in [Recipients -> Nat]
  /\ reasons \subseteq Recipients

Pending == {r \in Recipients : recipient[r] = "pending"}

(* ORDER BY id LIMIT max.                                                     *)
Taken(rows) == {r \in rows : Cardinality({q \in rows : q < r}) < BatchMax}
IsHead(b, r) == r \in batch[b] /\ \A q \in batch[b] : r <= q

\* Mutant: everyone is requeued, also who was sent to.
RequeuedAll(retryFailed) == [r \in Recipients |-> "pending"]

Requeued(retryFailed) ==
  IF retryFailed THEN [r \in Recipients |-> IF recipient[r] = "failed" THEN "pending" ELSE recipient[r]]
  ELSE recipient

(* sendBatch, once it has its token: the failed are requeued if the caller    *)
(* asks, and the first pending rows are read.                                 *)
SendBatch(b) ==
  /\ batch[b] = {}
  /\ \E retryFailed \in BOOLEAN :
       /\ recipient' = Requeued(retryFailed)
       /\ batch' = [batch EXCEPT ![b] = Taken(Pending')]
  /\ reasons' = reasons \cup {r \in batch'[b] : \E c \in Batches \ {b} : r \in batch[c]}
  /\ UNCHANGED mailed

(* Graph accepts the mail or refuses it, and the row is marked.               *)
Sent(b, r) ==
  /\ IsHead(b, r) /\ mailed[r] < MaxMails
  /\ mailed' = [mailed EXCEPT ![r] = @ + 1]
  /\ recipient' = [recipient EXCEPT ![r] = "sent"]
  /\ batch' = [batch EXCEPT ![b] = @ \ {r}]
  /\ UNCHANGED reasons

Refused(b, r) ==
  /\ IsHead(b, r)
  /\ recipient' = [recipient EXCEPT ![r] = "failed"]
  /\ batch' = [batch EXCEPT ![b] = @ \ {r}]
  /\ UNCHANGED <<mailed, reasons>>

(* The answer does not come: sendBatch throws, and the row is left as it was, *)
(* whether Graph had taken the mail or not.                                   *)
AnswerLost(b, r) ==
  /\ IsHead(b, r)
  /\ \/ /\ mailed[r] < MaxMails
        /\ mailed' = [mailed EXCEPT ![r] = @ + 1]
        /\ reasons' = reasons \cup {r}
     \/ UNCHANGED <<mailed, reasons>>
  /\ batch' = [batch EXCEPT ![b] = {}]
  /\ UNCHANGED recipient

(* The process ends and starts again: the calls are gone, after or before     *)
(* Graph took the mail each of them awaited.                                  *)
CampaignRestart ==
  /\ \E taken \in SUBSET {r \in Recipients : mailed[r] < MaxMails /\ \E b \in Batches : IsHead(b, r)} :
       /\ mailed' = [r \in Recipients |-> IF r \in taken THEN mailed[r] + 1 ELSE mailed[r]]
       /\ reasons' = reasons \cup taken
  /\ batch' = [b \in Batches |-> {}]
  /\ UNCHANGED recipient

CampaignInit ==
  /\ recipient = [r \in Recipients |-> "pending"]
  /\ batch = [b \in Batches |-> {}]
  /\ mailed = [r \in Recipients |-> 0]
  /\ reasons = {}

CampaignNext ==
  \/ \E b \in Batches : SendBatch(b) \/ \E r \in Recipients : Sent(b, r) \/ Refused(b, r) \/ AnswerLost(b, r)
  \/ CampaignRestart

CampaignSpec == CampaignInit /\ [][CampaignNext]_campaignVars

-----------------------------------------------------------------------------
(* "only pending recipients are ever sent, so a re-run never double-sends"    *)
(* (emailCampaign.ts:11), with what the comment leaves out: a recipient is    *)
(* mailed twice only if two calls had it at once or an answer was lost; and   *)
(* who is marked sent was mailed.                                             *)
ReRunsSendOnce ==
  \A r \in Recipients :
    /\ mailed[r] > 1 => r \in reasons
    /\ recipient[r] = "sent" => mailed[r] > 0
=============================================================================
