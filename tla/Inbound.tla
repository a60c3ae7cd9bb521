------------------------------ MODULE Inbound ------------------------------
(***************************************************************************)
(* The inbound half of the hub: marketplaces deliver webhooks at least     *)
(* once; the receivers deduplicate, log to bronze and publish; Pub/Sub     *)
(* delivers every message at least once and in any order; the subscribers  *)
(* normalize, upsert the silver order, mark delivered orders in Odoo and   *)
(* ack; the reconciler marks what the events did not.                      *)
(***************************************************************************)
EXTENDS Naturals, FiniteSets

CONSTANTS
  Events,        \* webhook events: (source, event_id) pairs
  InfoOf,        \* InfoOf[e]: the normalized content of the event
  MarketOrders,  \* (marketplace, marketplace_order_id) pairs
  Refs,          \* Odoo order ids that events refer to
  OdooOrders,    \* those that exist in Odoo
  NoRef,         \* the odoo_order_id of an event without external reference
  Receivers,     \* webhook_receiver processes
  Subscribers,   \* subscriber processes
  Reconciler,    \* the reconciler process
  PullSize,      \* pull's max_messages
  Supervised,    \* a process that ends is started again
  MaxFaults,     \* bound on raising calls, deaths and ignored acks
  MaxEdits       \* bound on notes overwritten by hand in Odoo

None == "none"   \* no event in hand

(***************************************************************************)
(* normalize_event, applied to the bronze row of an event: "ok" says that  *)
(* it does not raise PoisonError, "ref" is the odoo_order_id.              *)
(***************************************************************************)
Info == [ok : BOOLEAN, order : MarketOrders, status : STRING,
         ref : Refs \cup {NoRef}]

ASSUME InfoAssumption == InfoOf \in [Events -> Info]
ASSUME InboundBounds ==
  /\ MaxFaults \in Nat /\ MaxEdits \in Nat /\ PullSize \in Nat \ {0}
  /\ Supervised \in BOOLEAN /\ None \notin Events
  /\ OdooOrders \subseteq Refs /\ NoRef \notin Refs

VARIABLES
  emitted,       \* events that have happened at the marketplaces
  answered,      \* events some receiver has answered with 200
  dedup,         \* the rows of webhook_dedup
  bronze,        \* bronze[e]: rows of webhook_log
  receiving,     \* receiving[r]: the event recorded and not published yet
  published,     \* published[e]: messages published for the event
  unacked,       \* messages of the subscription that are not acknowledged
  pulled,        \* pulled[s]: messages of the response still to handle
  current,       \* current[s]: the event whose upsert is not committed
  marked,        \* marked[s]: reconcile_to_odoo has returned for it
  acks,          \* acks[s]: the ack_ids collected so far
  silver,        \* silver[o]: the row of orders, NoOrder if none
  handled,       \* events whose handling has been committed
  poison,        \* events on the dead-letter topic, with the reason
  note,          \* sale orders whose note is the "delivered" marker
  scan,          \* sale orders of the reconciler's query still to compare
  down,          \* processes that have ended
  faults, edits  \* counters of the bounded disturbances

receiverVars   == <<emitted, answered, dedup, bronze, receiving, published>>
subscriberVars == <<pulled, current, marked, acks>>
vars == <<receiverVars, unacked, subscriberVars, silver, handled, poison,
          note, scan, down, faults, edits>>

Processes == Subscribers \cup {Reconciler}
NoOrder == [status |-> None, ref |-> NoRef]
RowOf(e) == [status |-> InfoOf[e].status, ref |-> InfoOf[e].ref]
SilverRow == {NoOrder} \cup {RowOf(e) : e \in Events}
OrderOf(e) == InfoOf[e].order

Fault == faults < MaxFaults /\ faults' = faults + 1

Init ==
  /\ emitted = {} /\ answered = {} /\ dedup = {}
  /\ bronze = [e \in Events |-> 0]
  /\ receiving = [r \in Receivers |-> None]
  /\ published = [e \in Events |-> 0]
  /\ unacked = {}
  /\ pulled = [s \in Subscribers |-> {}]
  /\ current = [s \in Subscribers |-> None]
  /\ marked = [s \in Subscribers |-> FALSE]
  /\ acks = [s \in Subscribers |-> {}]
  /\ silver = [o \in MarketOrders |-> NoOrder]
  /\ handled = {} /\ poison = {} /\ note = {} /\ scan = {} /\ down = {}
  /\ faults = 0 /\ edits = 0
-----------------------------------------------------------------------------
(* Something happens to an order; from now on its webhook may be posted,   *)
(* any number of times.                                                    *)
Emit(e) ==
  /\ e \notin emitted
  /\ emitted' = emitted \cup {e}
  /\ UNCHANGED <<answered, dedup, bronze, receiving, published, unacked, subscriberVars,
                 silver, handled, poison, note, scan, down, faults, edits>>

(* Mutant: the event is logged without looking for a duplicate. *)
RecordAlways(r, e) ==
  /\ e \in emitted
  /\ receiving[r] = None
  /\ dedup' = dedup \cup {e}
  /\ bronze' = [bronze EXCEPT ![e] = IF @ = 0 THEN 1 ELSE 2]
  /\ receiving' = [receiving EXCEPT ![r] = e]
  /\ UNCHANGED <<emitted, answered, published, unacked, subscriberVars, silver,
                 handled, poison, note, scan, down, faults, edits>>

(* Mutant: the bronze row is left to a later transaction. *)
RecordKeyOnly(r, e) ==
  /\ e \in emitted \ dedup
  /\ receiving[r] = None
  /\ dedup' = dedup \cup {e}
  /\ receiving' = [receiving EXCEPT ![r] = e]
  /\ UNCHANGED <<emitted, answered, bronze, published, unacked, subscriberVars,
                 silver, handled, poison, note, scan, down, faults, edits>>

(* store.record for an event whose key is new: the dedupe key and the      *)
(* bronze row are committed together; then the handler goes on to publish. *)
RecordNew(r, e) ==
  /\ e \in emitted \ dedup
  /\ receiving[r] = None
  /\ dedup' = dedup \cup {e}
  /\ bronze' = [bronze EXCEPT ![e] = IF @ = 0 THEN 1 ELSE 2]
  /\ receiving' = [receiving EXCEPT ![r] = e]
  /\ UNCHANGED <<emitted, answered, published, unacked, subscriberVars, silver,
                 handled, poison, note, scan, down, faults, edits>>

(* A duplicate is answered with 200 and goes no further. *)
Duplicate(r, e) ==
  /\ e \in emitted \cap dedup
  /\ receiving[r] = None
  /\ answered' = answered \cup {e}
  /\ UNCHANGED <<emitted, dedup, bronze, receiving, published, unacked,
                 subscriberVars, silver, handled, poison, note, scan, down, faults, edits>>

Published(e) ==
  /\ published' = [published EXCEPT ![e] = IF @ = 0 THEN 1 ELSE 2]
  /\ unacked' = unacked \cup {e}

Publish(r) ==
  /\ receiving[r] # None
  /\ Published(receiving[r])
  /\ answered' = answered \cup {receiving[r]}
  /\ receiving' = [receiving EXCEPT ![r] = None]
  /\ UNCHANGED <<emitted, dedup, bronze, subscriberVars, silver, handled,
                 poison, note, scan, down, faults, edits>>

(* The publish raises or times out, or the process dies before it: the     *)
(* sender sees a 500 or nothing.  The message may be out all the same.     *)
PublishFails(r) ==
  /\ Fault
  /\ receiving[r] # None
  /\ Published(receiving[r]) \/ UNCHANGED <<published, unacked>>
  /\ receiving' = [receiving EXCEPT ![r] = None]
  /\ UNCHANGED <<emitted, answered, dedup, bronze, subscriberVars, silver,
                 handled, poison, note, scan, down, edits>>
-----------------------------------------------------------------------------
(* run_forever: pull, handle every message of the response, ack those that *)
(* were handled.  Any unacked message may be (re)delivered at any time.    *)
Idle(s) == s \notin down /\ pulled[s] = {} /\ current[s] = None /\ acks[s] = {}

Pull(s, B) ==
  /\ Idle(s)
  /\ B # {} /\ B \subseteq unacked /\ Cardinality(B) <= PullSize
  /\ pulled' = [pulled EXCEPT ![s] = B]
  /\ UNCHANGED <<receiverVars, unacked, current, marked, acks, silver, handled, poison,
                 note, scan, down, faults, edits>>

Reason(e) == IF bronze[e] = 0 THEN "bronze row not found" ELSE "cannot normalize"
IsPoison(e) == bronze[e] = 0 \/ ~InfoOf[e].ok

(* A poison event goes to the dead-letter topic and is acked. *)
ToDlq(s, e) ==
  /\ e \in pulled[s] /\ current[s] = None
  /\ IsPoison(e)
  /\ poison' = poison \cup {<<e, Reason(e)>>}
  /\ pulled' = [pulled EXCEPT ![s] = @ \ {e}]
  /\ acks' = [acks EXCEPT ![s] = @ \cup {e}]
  /\ UNCHANGED <<receiverVars, unacked, current, marked, silver, handled, note, scan,
                 down, faults, edits>>

(* Mutant: the ack_id is appended in a finally. *)
ToDlqFailsAcked(s, e) ==
  /\ Fault
  /\ e \in pulled[s] /\ current[s] = None
  /\ IsPoison(e)
  /\ pulled' = [pulled EXCEPT ![s] = @ \ {e}]
  /\ acks' = [acks EXCEPT ![s] = @ \cup {e}]
  /\ UNCHANGED <<receiverVars, unacked, current, marked, silver, handled, poison, note,
                 scan, down, edits>>

(* Publishing the poison event raises: it is not acked. *)
ToDlqFails(s, e) ==
  /\ Fault
  /\ e \in pulled[s] /\ current[s] = None
  /\ IsPoison(e)
  /\ poison' \in {poison, poison \cup {<<e, Reason(e)>>}}
  /\ pulled' = [pulled EXCEPT ![s] = @ \ {e}]
  /\ UNCHANGED <<receiverVars, unacked, current, marked, acks, silver, handled, note,
                 scan, down, edits>>

(* upsert_order: the row is locked until the commit. *)
Upsert(s, e) ==
  /\ s \notin down
  /\ e \in pulled[s] /\ current[s] = None
  /\ ~IsPoison(e)
  /\ \A t \in Subscribers : current[t] # None => OrderOf(current[t]) # OrderOf(e)
  /\ current' = [current EXCEPT ![s] = e]
  /\ pulled' = [pulled EXCEPT ![s] = @ \ {e}]
  /\ UNCHANGED <<receiverVars, unacked, marked, acks, silver, handled, poison, note,
                 scan, down, faults, edits>>

NeedsMark(e) == InfoOf[e].status = "delivered" /\ InfoOf[e].ref # NoRef

(* Mutant: the order is written without being looked up. *)
MarkUnseen(id) == note \cup {id}

(* Mutant: a note that somebody has written is left alone. *)
MarkUnlessEdited(id) == IF edits > 0 THEN note ELSE note \cup ({id} \cap OdooOrders)

(* reconcile_to_odoo: a missing order is skipped, a note that already is   *)
(* the marker is not written again.                                        *)
MarkIn(id) == note \cup ({id} \cap OdooOrders)

MarkInOdoo(s) ==
  /\ current[s] # None /\ NeedsMark(current[s]) /\ ~marked[s]
  /\ note' = MarkIn(InfoOf[current[s]].ref)
  /\ marked' = [marked EXCEPT ![s] = TRUE]
  /\ UNCHANGED <<receiverVars, unacked, pulled, current, acks, silver, handled, poison,
                 scan, down, faults, edits>>

EndTransaction(s) ==
  /\ current' = [current EXCEPT ![s] = None]
  /\ marked' = [marked EXCEPT ![s] = FALSE]

(* Odoo or the database raises before the commit is done: the upsert is    *)
(* rolled back and the message not acked; what Odoo got, it keeps.         *)
HandlingFails(s) ==
  /\ Fault
  /\ current[s] # None
  /\ EndTransaction(s)
  /\ IF NeedsMark(current[s]) THEN note' \in {note, MarkIn(InfoOf[current[s]].ref)}
                              ELSE UNCHANGED note
  /\ UNCHANGED <<receiverVars, unacked, pulled, acks, silver, handled, poison, scan,
                 down, edits>>

(* Mutant: reconcile_to_odoo is left to the reconciler. *)
CommitUnmarked(s) ==
  /\ current[s] # None
  /\ silver' = [silver EXCEPT ![OrderOf(current[s])] = RowOf(current[s])]
  /\ handled' = handled \cup {current[s]}
  /\ acks' = [acks EXCEPT ![s] = @ \cup {current[s]}]
  /\ EndTransaction(s)
  /\ UNCHANGED <<receiverVars, unacked, pulled, poison, note, scan, down, faults, edits>>

(* Leaving session_scope commits; then the ack_id is collected. *)
CommitSilver(s) ==
  /\ current[s] # None
  /\ NeedsMark(current[s]) => marked[s]
  /\ silver' = [silver EXCEPT ![OrderOf(current[s])] = RowOf(current[s])]
  /\ handled' = handled \cup {current[s]}
  /\ acks' = [acks EXCEPT ![s] = @ \cup {current[s]}]
  /\ EndTransaction(s)
  /\ UNCHANGED <<receiverVars, unacked, pulled, poison, note, scan, down, faults, edits>>

(* Mutant: the response is acknowledged as soon as it is pulled. *)
AckEarly(s) ==
  /\ acks[s] \cup pulled[s] # {}
  /\ unacked' = unacked \ (acks[s] \cup pulled[s])
  /\ acks' = [acks EXCEPT ![s] = {}]
  /\ UNCHANGED <<receiverVars, pulled, current, marked, silver, handled, poison, note,
                 scan, down, faults, edits>>

Ack(s) ==
  /\ pulled[s] = {} /\ current[s] = None /\ acks[s] # {}
  /\ unacked' = unacked \ acks[s]
  /\ acks' = [acks EXCEPT ![s] = {}]
  /\ UNCHANGED <<receiverVars, pulled, current, marked, silver, handled, poison, note,
                 scan, down, faults, edits>>

(* The acks arrive after the deadline and do not count. *)
AckIgnored(s) ==
  /\ Fault
  /\ pulled[s] = {} /\ current[s] = None /\ acks[s] # {}
  /\ acks' = [acks EXCEPT ![s] = {}]
  /\ UNCHANGED <<receiverVars, unacked, pulled, current, marked, silver, handled, poison,
                 note, scan, down, edits>>

(* Killed, or pull or acknowledge raises: neither is caught. *)
SubscriberEnds(s) ==
  /\ Fault
  /\ s \notin down
  /\ down' = down \cup {s}
  /\ pulled' = [pulled EXCEPT ![s] = {}]
  /\ acks' = [acks EXCEPT ![s] = {}]
  /\ EndTransaction(s)
  /\ UNCHANGED <<receiverVars, unacked, silver, handled, poison, note, scan, edits>>
-----------------------------------------------------------------------------
(* reconcile_once: query the delivered orders, then compare one by one. *)
Delivered == {o \in MarketOrders : silver[o].status = "delivered" /\ silver[o].ref # NoRef}

Scan ==
  /\ Reconciler \notin down
  /\ scan = {} /\ Delivered # {}
  /\ scan' = {silver[o].ref : o \in Delivered}
  /\ UNCHANGED <<receiverVars, unacked, subscriberVars, silver, handled, poison, note,
                 down, faults, edits>>

FixDrift(id) ==
  /\ id \in scan
  /\ note' = MarkIn(id)
  /\ scan' = scan \ {id}
  /\ UNCHANGED <<receiverVars, unacked, subscriberVars, silver, handled, poison, down,
                 faults, edits>>

(* Any exception ends the reconciler: its loop catches none. *)
ReconcilerEnds ==
  /\ Fault
  /\ Reconciler \notin down
  /\ down' = down \cup {Reconciler}
  /\ scan' = {}
  /\ UNCHANGED <<receiverVars, unacked, subscriberVars, silver, handled, poison, note, edits>>

Restart(p) ==
  /\ Supervised
  /\ p \in down
  /\ down' = down \ {p}
  /\ UNCHANGED <<receiverVars, unacked, subscriberVars, silver, handled, poison, note,
                 scan, faults, edits>>

(* Somebody overwrites the note of a sale order. *)
EditNote(id) ==
  /\ edits < MaxEdits
  /\ id \in note
  /\ note' = note \ {id}
  /\ edits' = edits + 1
  /\ UNCHANGED <<receiverVars, unacked, subscriberVars, silver, handled, poison, scan,
                 down, faults>>

Receive(r) ==
  \/ \E e \in Events : RecordNew(r, e) \/ Duplicate(r, e)
  \/ Publish(r) \/ PublishFails(r)

Handle(s) ==
  \/ \E e \in Events : ToDlq(s, e) \/ Upsert(s, e)
  \/ MarkInOdoo(s) \/ CommitSilver(s) \/ Ack(s)

Disturb(s) ==
  \/ \E e \in Events : ToDlqFails(s, e)
  \/ HandlingFails(s) \/ AckIgnored(s) \/ SubscriberEnds(s)

Reconcile == Scan \/ (\E id \in Refs : FixDrift(id)) \/ ReconcilerEnds

Next ==
  \/ \E e \in Events : Emit(e)
  \/ \E r \in Receivers : Receive(r)
  \/ \E s \in Subscribers : Handle(s) \/ Disturb(s) \/ \E B \in SUBSET unacked : Pull(s, B)
  \/ Reconcile
  \/ \E p \in Processes : Restart(p)
  \/ \E id \in OdooOrders : EditNote(id)

Spec == Init /\ [][Next]_vars
-----------------------------------------------------------------------------
(* Every variable has its type. *)
TypeOK ==
  /\ emitted \subseteq Events /\ answered \subseteq emitted /\ dedup \subseteq emitted
  /\ bronze \in [Events -> 0..2] /\ published \in [Events -> 0..2]
  /\ receiving \in [Receivers -> Events \cup {None}]
  /\ unacked \subseteq Events /\ handled \subseteq Events
  /\ pulled \in [Subscribers -> SUBSET Events]
  /\ current \in [Subscribers -> Events \cup {None}]
  /\ marked \in [Subscribers -> BOOLEAN]
  /\ acks \in [Subscribers -> SUBSET Events]
  /\ silver \in [MarketOrders -> SilverRow]
  /\ poison \subseteq Events \X {"bronze row not found", "cannot normalize"}
  /\ note \subseteq OdooOrders /\ scan \subseteq Refs
  /\ down \subseteq Processes
  /\ faults \in 0..MaxFaults /\ edits \in 0..MaxEdits

(***************************************************************************)
(* A webhook delivered any number of times, to any number of receivers,    *)
(* leaves one bronze row and at most one message on marketplace.events     *)
(* (fde-narrative.md:57, "a duplicate webhook is invisible").              *)
(***************************************************************************)
DuplicateIsInvisible ==
  \A e \in Events :
    /\ bronze[e] = IF e \in dedup THEN 1 ELSE 0
    /\ published[e] <= 1

(* No subscriber rejects a good event because its bronze row is missing:   *)
(* the row is committed before the message can exist.                      *)
NoFalsePoison ==
  \A p \in poison : p[2] = "cannot normalize" /\ ~InfoOf[p[1]].ok

(* A message leaves the subscription only when its event is in silver or   *)
(* on the dead-letter topic: nothing is acked before it is safe.           *)
AckedIsSafe ==
  \A e \in Events : published[e] > 0 /\ e \notin unacked =>
    e \in handled \/ \E p \in poison : p[1] = e

(***************************************************************************)
(* Receivers, subscribers and the reconciler together implement            *)
(* InboundPromise: whatever is rolled back, redelivered, reordered or      *)
(* reconciled, Odoo shows "delivered" only for an order that some received *)
(* event says was delivered, the marker does not wait for the reconciler   *)
(* but is there when the event itself is committed, silver changes by      *)
(* whole events, and only events that cannot be normalized are dead.       *)
(***************************************************************************)
Promise == INSTANCE InboundPromise WITH
  received <- dedup, dead <- {p[1] : p \in poison}, edited <- edits > 0

InboundKeepsPromise == Promise!Spec
-----------------------------------------------------------------------------
(***************************************************************************)
(* Fairness.  The senders repeat a webhook until it is answered, the       *)
(* processes run, ended ones are started again if they are supervised, and *)
(* Pub/Sub delivers every unacked message again and again, hence the       *)
(* strong fairness of Pull.  Disturbances are bounded by MaxFaults.        *)
(***************************************************************************)
Fairness ==
  /\ \A r \in Receivers :
       /\ WF_vars(Publish(r))
       /\ \A e \in Events : WF_vars(RecordNew(r, e)) /\ WF_vars(Duplicate(r, e))
  /\ \A e \in Events :
       SF_vars(\E s \in Subscribers, B \in SUBSET unacked : e \in B /\ Pull(s, B))
  /\ \A s \in Subscribers : WF_vars(Handle(s))
  /\ WF_vars(Scan)
  /\ \A id \in Refs : WF_vars(FixDrift(id))
  /\ \A p \in Processes : WF_vars(Restart(p))

FairSpec == Spec /\ Fairness

InSilverOrDead(e) == e \in handled \/ \E p \in poison : p[1] = e

(* A published event reaches silver or the dead-letter topic, through any  *)
(* number of redeliveries.                                                 *)
PublishedIsHandled == \A e \in Events : published[e] > 0 ~> InSilverOrDead(e)

(* "New events are written to bronze and published" (app.py:4): a webhook  *)
(* that was answered with 200 is handled in the end.                       *)
AnsweredIsHandled == \A e \in Events : e \in answered ~> InSilverOrDead(e)

(* The reconciler is the "safety net for drift" (reconcile.py:1): an order *)
(* that stays delivered in silver is marked in Odoo in the end.            *)
DriftIsFixed ==
  \A o \in MarketOrders : \A id \in OdooOrders :
    LET isDelivered == silver[o] = [status |-> "delivered", ref |-> id]
    IN isDelivered ~> (id \in note \/ ~isDelivered)
=============================================================================
