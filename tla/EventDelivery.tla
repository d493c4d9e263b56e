---------------------------- MODULE EventDelivery ----------------------------
(* What the platform promises of the events other systems post to it          *)
(* (platform/eventDispatcher.ts, routes/introspect.ts): an accepted event is  *)
(* handed over to the executor, and its row is closed only then.              *)
EXTENDS FiniteSets

CONSTANTS
  Events,
  Refused    \* the events the executor never takes

VARIABLES
  accepted,  \* the events that have a row
  handed,    \* the events the executor has
  closed     \* the events that are not tried again

deliveryVars == <<accepted, handed, closed>>

DeliveryInit == accepted = {} /\ handed = {} /\ closed = {}

(* An event is posted, once or again.                                         *)
AcceptEvent(e) ==
  /\ accepted' = accepted \cup {e}
  /\ UNCHANGED <<handed, closed>>

(* The executor takes it; taking it again changes nothing.                    *)
HandOver(e) ==
  /\ e \in accepted
  /\ handed' = handed \cup {e}
  /\ UNCHANGED <<accepted, closed>>

CloseEvent(e) ==
  /\ e \in handed
  /\ closed' = closed \cup {e}
  /\ UNCHANGED <<accepted, handed>>

DeliveryNext == \E e \in Events : AcceptEvent(e) \/ HandOver(e) \/ CloseEvent(e)

DeliverySafety == DeliveryInit /\ [][DeliveryNext]_deliveryVars

(* Every accepted event is handed over and closed, whatever becomes of others.*)
Delivery ==
  /\ DeliverySafety
  /\ \A e \in Events \ Refused : WF_deliveryVars(HandOver(e)) /\ WF_deliveryVars(CloseEvent(e))
=============================================================================
