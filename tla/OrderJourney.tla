---------------------------- MODULE OrderJourney ----------------------------
(***************************************************************************)
(* The whole journey of a sale order: out to Paris through the outbox,     *)
(* and back through the webhooks that paris-mock emits, down to silver and *)
(* to Odoo's note.  The two halves of the hub appear as what they promise: *)
(* OutboxPromise, which OutboxWorker and McpWriteTools implement, and      *)
(* InboundPromise, which Inbound implements.  They share no state; what    *)
(* joins them is Paris, which is modelled here.  All events of paris-mock  *)
(* can be normalized, so none is ever dead.  Hub implements this module.   *)
(***************************************************************************)
EXTENDS Naturals

CONSTANTS
  Orders,        \* confirmed sale orders of Odoo
  Statuses,      \* statuses that paris-mock's operator may give an order
  Events,        \* what paris-mock may emit, each with an event_id of its own
  InfoOf,        \* InfoOf[e]: what normalize_event makes of the event
  NoRef          \* the reference of an event that names no sale order

(* A Paris event can be normalized.  Its external_ref "odoo-<id>" is the   *)
(* order itself, and Paris has one order per external_ref                  *)
(* (ParisPush!OneOrder).                                                   *)
EventsOfParis ==
  /\ InfoOf \in [Events -> [ok : {TRUE}, order : Orders, status : Statuses, ref : Orders]]
  /\ \A e \in Events : InfoOf[e].ref = InfoOf[e].order
  /\ "none" \notin Statuses

VARIABLES
  stage, accepted, announced, doubtful,              \* the outbox
  received, handled, dead, silver, note, edited,     \* the inbound half
  paris,         \* paris[o]: status of o's row in paris_orders, or "none"
  registered,    \* the receiver's url is in paris_webhooks
  emitted,       \* events emitted so far
  posting        \* events that _deliver is about to post to the receiver

outboxVars  == <<stage, accepted, announced, doubtful>>
inboundVars == <<received, handled, dead, silver, note, edited>>
parisVars   == <<paris, registered, emitted, posting>>
vars == <<outboxVars, inboundVars, parisVars>>

Out == INSTANCE OutboxPromise WITH Key <- Orders
In  == INSTANCE InboundPromise WITH MarketOrders <- Orders, OdooOrders <- Orders

Init ==
  /\ Out!Init /\ In!Init
  /\ paris = [o \in Orders |-> "none"]
  /\ registered = FALSE
  /\ emitted = {} /\ posting = {}
-----------------------------------------------------------------------------
(* enqueue_orders, on the next poll after the order was confirmed. *)
Enqueue(S) ==
  /\ Out!Enqueue(S)
  /\ UNCHANGED <<inboundVars, parisVars>>

(* create_order: a row is inserted unless external_ref has one. *)
Created(A) == [o \in Orders |-> IF o \in A /\ paris[o] = "none" THEN "created" ELSE paris[o]]

(* A push that Paris serves.  What else fails with it (its response is     *)
(* lost, the batch rolled back) leaves the orders in D in doubt, and those *)
(* in M are announced.                                                     *)
Push(A, D, M) ==
  /\ Out!Attempt(A, D, M)
  /\ paris' = Created(A)
  /\ UNCHANGED <<inboundVars, registered, emitted, posting>>

Settle(D, Q) ==
  /\ Out!Settle(D, Q)
  /\ UNCHANGED <<inboundVars, parisVars>>

Replay(S) ==
  /\ Out!Requeue(S)
  /\ UNCHANGED <<inboundVars, parisVars>>
-----------------------------------------------------------------------------
(* register_webhook: a url is inserted once. *)
RegisterWebhook ==
  /\ ~registered
  /\ registered' = TRUE
  /\ UNCHANGED <<outboxVars, inboundVars, paris, emitted, posting>>

(* emit_webhook: 404 for an order that Paris does not have; then the       *)
(* status is committed and the event posted to the urls read with it.      *)
EmitWebhook(e) ==
  /\ paris[InfoOf[e].order] # "none"
  /\ e \notin emitted
  /\ paris' = [paris EXCEPT ![InfoOf[e].order] = InfoOf[e].status]
  /\ emitted' = emitted \cup {e}
  /\ posting' = IF registered THEN posting \cup {e} ELSE posting
  /\ UNCHANGED <<outboxVars, inboundVars, registered>>

(* One post reaches the receiver; the events of two requests that wait in  *)
(* _deliver arrive in either order.                                        *)
Deliver(e) ==
  /\ e \in posting
  /\ In!Receive(e)
  /\ posting' = posting \ {e}
  /\ UNCHANGED <<outboxVars, paris, registered, emitted>>

(* The post raises HTTPError or is answered with an error; it is not       *)
(* repeated, and the receiver may have recorded the event all the same.    *)
DeliverFails(e) ==
  /\ e \in posting
  /\ posting' = posting \ {e}
  /\ In!Receive(e) \/ UNCHANGED inboundVars
  /\ UNCHANGED <<outboxVars, paris, registered, emitted>>

(* The subscribers, the reconciler and people in Odoo. *)
Inward ==
  /\ \/ \E e \in Events : In!Handle(e)
     \/ \E o \in Orders : In!Mark(o) \/ In!EditNote(o)
  /\ UNCHANGED <<outboxVars, parisVars>>

Next ==
  \/ \E S \in SUBSET Orders : Enqueue(S) \/ Replay(S)
  \/ \E A, D, M \in SUBSET Orders : Push(A, D, M)
  \/ \E D, Q \in SUBSET Orders : Settle(D, Q)
  \/ RegisterWebhook
  \/ \E e \in Events : EmitWebhook(e) \/ Deliver(e) \/ DeliverFails(e)
  \/ Inward

Spec == Init /\ [][Next]_vars
-----------------------------------------------------------------------------
(* The read tools.  get_order_status: the silver row, if there is one.     *)
GetOrderStatus(o) == silver[o].status

(* get_dlq_depth counts these. *)
DeadLetters == {o \in Orders : stage[o] = "dlq"}

Said(o, st) == \E e \in emitted : InfoOf[e].order = o /\ InfoOf[e].status = st

(***************************************************************************)
(* What the hub shows of an order was true once, however often the order   *)
(* was pushed and its events were posted, lost, reordered or handled       *)
(* again: get_order_status answers with a status that Paris has given an   *)
(* order it had accepted, and a "delivered" note in Odoo means that Paris  *)
(* did deliver the order.                                                  *)
(***************************************************************************)
HubTellsTheTruth ==
  \A o \in Orders :
    /\ GetOrderStatus(o) # "none" => Said(o, GetOrderStatus(o)) /\ accepted[o] > 0
    /\ o \in note => Said(o, "delivered") /\ accepted[o] > 0

(***************************************************************************)
(* get_dlq_depth counts "orders stuck in DLQ" (server.py:6): an order that *)
(* the hub has heard of from Paris, and that is counted there all the      *)
(* same, is one whose acceptance may have gone unrecorded.                 *)
(***************************************************************************)
StuckMeansUnsent ==
  \A o \in DeadLetters : GetOrderStatus(o) # "none" \/ o \in note => o \in doubtful

(***************************************************************************)
(* The outbox never looks at silver, yet an order that has come back from  *)
(* Paris is sent there again only if its acceptance was in doubt, and a    *)
(* replay of its dead letter does not change that.                         *)
(***************************************************************************)
KnownOrderIsNotSentAgain ==
  [][\A o \in Orders :
       accepted'[o] # accepted[o] /\ GetOrderStatus(o) # "none" => o \in doubtful]_vars
=============================================================================
