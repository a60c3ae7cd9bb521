--------------------------- MODULE InboundPromise ---------------------------
(***************************************************************************)
(* What the inbound half of the hub promises about the events that         *)
(* marketplaces post, with no receiver, topic, subscriber, transaction or  *)
(* redelivery in sight.  An event is handled only after it was received,   *)
(* as often as need be and in any order; it is declared dead only if it    *)
(* cannot be understood; and Odoo's note says "delivered" only because of  *)
(* a delivery that was received, and no later than the delivery itself is  *)
(* handled.                                                                *)
(***************************************************************************)
CONSTANTS
  Events,        \* webhook events: (source, event_id) pairs
  InfoOf,        \* InfoOf[e]: what normalize_event makes of the event
  MarketOrders,  \* orders of the marketplaces
  OdooOrders,    \* sale orders that exist in Odoo
  NoRef          \* the reference of an event that names no sale order

VARIABLES
  received,      \* events that some receiver has recorded
  handled,       \* events that have reached silver
  dead,          \* events on the dead-letter topic
  silver,        \* silver[o]: the row of orders
  note,          \* sale orders whose note is the "delivered" marker
  edited         \* somebody has overwritten a note by hand

vars == <<received, handled, dead, silver, note, edited>>

NoOrder == [status |-> "none", ref |-> NoRef]

Init ==
  /\ received = {} /\ handled = {} /\ dead = {} /\ note = {}
  /\ silver = [o \in MarketOrders |-> NoOrder]
  /\ edited = FALSE

Receive(e) ==
  /\ received' = received \cup {e}
  /\ UNCHANGED <<handled, dead, silver, note, edited>>

IsDelivery(e) == InfoOf[e].ok /\ InfoOf[e].status = "delivered" /\ InfoOf[e].ref \in OdooOrders

Handle(e) ==
  /\ e \in received /\ InfoOf[e].ok
  /\ IsDelivery(e) => InfoOf[e].ref \in note \/ edited
  /\ silver' = [silver EXCEPT ![InfoOf[e].order] =
                  [status |-> InfoOf[e].status, ref |-> InfoOf[e].ref]]
  /\ handled' = handled \cup {e}
  /\ UNCHANGED <<received, dead, note, edited>>

Bury(e) ==
  /\ e \in received /\ ~InfoOf[e].ok
  /\ dead' = dead \cup {e}
  /\ UNCHANGED <<received, handled, silver, note, edited>>

(* By the subscriber while it handles the event, or by the reconciler. *)
Mark(id) ==
  /\ \E e \in received : IsDelivery(e) /\ InfoOf[e].ref = id
  /\ note' = note \cup {id}
  /\ UNCHANGED <<received, handled, dead, silver, edited>>

EditNote(id) ==
  /\ note' = note \ {id}
  /\ edited' = TRUE
  /\ UNCHANGED <<received, handled, dead, silver>>

Next ==
  \/ \E e \in Events : Receive(e) \/ Handle(e) \/ Bury(e)
  \/ \E id \in OdooOrders : Mark(id) \/ EditNote(id)

Spec == Init /\ [][Next]_vars
=============================================================================
