------------------------------ MODULE MCOutbox ------------------------------
(* Instances of Outbox for TLC: a quote that is edited between two contents,  *)
(* with a restart; and two quotes approved one by one and in bulk, without.   *)
EXTENDS Outbox

CONSTANTS edited, other, priced

VARIABLE part

MCVars == <<part, vars>>

(* Bounds: what the one leaves out and the other has.                         *)
Edits ==
  /\ content'[other] = content[other] /\ archived'[other] = archived[other]
  /\ \A k \in Keys : k[1] = other => action'[k] = action[k]
  /\ \A h \in Handlers : handler'[h].phase # "loop"
Bulk == content' = content /\ archived'[other] = archived[other] /\ restarts' = 0

MCInit ==
  /\ part \in {"edits", "bulk"}
  /\ Init
  /\ content[other] = priced /\ (part = "bulk" => content[edited] = priced)

MCNext ==
  /\ Next /\ UNCHANGED part
  /\ (part = "edits" => Edits) /\ (part = "bulk" => Bulk)

MCSpec == MCInit /\ [][MCNext]_MCVars /\ \A h \in Handlers : WF_vars(HandlerStep(h))

(* While the process stays up, an action being sent ends up sent, failed or   *)
(* superseded (outbox.ts:140-154).                                            *)
BulkResolves == part = "bulk" => SendingResolves
=============================================================================
