---------------------------- MODULE Inbound_proofs ----------------------------
(***************************************************************************)
(* Theorems about Inbound, for any events, orders, receivers, subscribers  *)
(* and bounds.  The invariant says what each process may hold: a receiver  *)
(* an event that is recorded, not published, and nobody else's; a          *)
(* subscriber only what was published, and acks only for what is safe; the *)
(* reconciler only orders that a received event says were delivered.       *)
(***************************************************************************)
EXTENDS Inbound, TLAPS

(* TypeOK in the three parts that the actions leave alone or change. *)
ReceiverTypes ==
  /\ emitted \subseteq Events /\ answered \subseteq emitted /\ dedup \subseteq emitted
  /\ bronze \in [Events -> 0..2]
  /\ published \in [Events -> 0..2]
  /\ receiving \in [Receivers -> Events \cup {None}]

SubscriberTypes ==
  /\ unacked \subseteq Events
  /\ pulled \in [Subscribers -> SUBSET Events]
  /\ current \in [Subscribers -> Events \cup {None}]
  /\ marked \in [Subscribers -> BOOLEAN]
  /\ acks \in [Subscribers -> SUBSET Events]

StoreTypes ==
  /\ handled \subseteq Events
  /\ silver \in [MarketOrders -> SilverRow]
  /\ poison \subseteq Events \X {"bronze row not found", "cannot normalize"}
  /\ note \subseteq OdooOrders /\ scan \subseteq Refs
  /\ down \subseteq Processes
  /\ faults \in 0..MaxFaults /\ edits \in 0..MaxEdits

(* Receivers: a recorded event is in bronze once, and is published by the  *)
(* one receiver that recorded it, if at all.                               *)
RecordedOnce ==
  /\ \A e \in Events : bronze[e] = IF e \in dedup THEN 1 ELSE 0
  /\ \A e \in Events : published[e] <= 1
  /\ \A e \in Events : published[e] > 0 => e \in dedup
  /\ \A r \in Receivers : receiving[r] # None =>
       receiving[r] \in dedup /\ published[receiving[r]] = 0
  /\ \A q, r \in Receivers : q # r /\ receiving[r] # None => receiving[q] # receiving[r]

(* Whatever the subscription or a subscriber holds was published, and what *)
(* is being upserted can be normalized.                                    *)
HeldWasPublished ==
  /\ \A e \in unacked : published[e] > 0
  /\ \A s \in Subscribers :
       /\ \A e \in pulled[s] : published[e] > 0
       /\ current[s] # None => published[current[s]] > 0 /\ InfoOf[current[s]].ok

IsDead(e) == \E p \in poison : p[1] = e
IsSafe(e) == e \in handled \/ IsDead(e)

(* Acks are collected, and messages gone, only for events that are safe. *)
AcksAreSafe ==
  /\ \A s \in Subscribers : \A e \in acks[s] : IsSafe(e)
  /\ \A e \in Events : published[e] > 0 /\ e \notin unacked => IsSafe(e)

(* A received delivery of the sale order id. *)
DeliveryOf(id) ==
  \E e \in dedup : InfoOf[e].ok /\ InfoOf[e].status = "delivered" /\ InfoOf[e].ref = id

(* Silver and the reconciler's list speak of received deliveries only, and *)
(* what a subscriber has marked is marked until somebody edits a note.     *)
MarksAreFounded ==
  /\ \A o \in MarketOrders : silver[o].status = "delivered" => DeliveryOf(silver[o].ref)
  /\ \A id \in scan : DeliveryOf(id)
  /\ \A s \in Subscribers : marked[s] =>
       LET ref == InfoOf[current[s]].ref
       IN current[s] # None /\ (ref \in note \/ edits > 0 \/ ref \notin OdooOrders)

Inv ==
  /\ ReceiverTypes /\ SubscriberTypes /\ StoreTypes
  /\ RecordedOnce /\ HeldWasPublished /\ AcksAreSafe /\ NoFalsePoison /\ MarksAreFounded
-----------------------------------------------------------------------------
(* What a conjunct does not mention cannot disturb it. *)
LEMMA ReceiverFrame ==
  ASSUME ReceiverTypes, UNCHANGED receiverVars
  PROVE  ReceiverTypes'
BY DEF ReceiverTypes, receiverVars

LEMMA RecordedOnceFrame ==
  ASSUME RecordedOnce, UNCHANGED <<dedup, bronze, receiving, published>>
  PROVE  RecordedOnce'
BY DEF RecordedOnce

LEMMA SubscriberFrame ==
  ASSUME SubscriberTypes, UNCHANGED <<unacked, subscriberVars>>
  PROVE  SubscriberTypes'
BY DEF SubscriberTypes, subscriberVars

LEMMA HeldFrame ==
  ASSUME HeldWasPublished, UNCHANGED <<unacked, pulled, current, published>>
  PROVE  HeldWasPublished'
BY DEF HeldWasPublished

LEMMA AcksFrame ==
  ASSUME AcksAreSafe, UNCHANGED <<unacked, acks, handled, poison, published>>
  PROVE  AcksAreSafe'
BY DEF AcksAreSafe, IsSafe, IsDead

LEMMA StoreFrame ==
  ASSUME StoreTypes, UNCHANGED <<handled, silver, poison, note, scan, down, faults, edits>>
  PROVE  StoreTypes'
BY DEF StoreTypes

LEMMA PoisonFrame ==
  ASSUME NoFalsePoison, UNCHANGED poison
  PROVE  NoFalsePoison'
BY DEF NoFalsePoison

LEMMA MarksFrame ==
  ASSUME MarksAreFounded, UNCHANGED <<dedup, silver, scan, marked, current, note, edits>>
  PROVE  MarksAreFounded'
BY DEF MarksAreFounded, DeliveryOf

(* What is safe or delivered stays so. *)
LEMMA SafeStays ==
  ASSUME NEW e, IsSafe(e), handled \subseteq handled', poison \subseteq poison'
  PROVE  IsSafe(e)'
BY DEF IsSafe, IsDead

LEMMA DeliveryStays ==
  ASSUME NEW id, DeliveryOf(id), dedup \subseteq dedup'
  PROVE  DeliveryOf(id)'
BY DEF DeliveryOf

(* One more fault is within the bound. *)
LEMMA FaultType ==
  ASSUME faults \in 0..MaxFaults, Fault
  PROVE  faults' \in 0..MaxFaults
BY InboundBounds DEF Fault, InboundBounds

(* The constants as the types need them. *)
LEMMA InfoType ==
  ASSUME NEW e \in Events
  PROVE  /\ InfoOf[e].ok \in BOOLEAN
         /\ OrderOf(e) \in MarketOrders
         /\ InfoOf[e].ref \in Refs \cup {NoRef}
         /\ RowOf(e) \in SilverRow
         /\ e # None
BY InfoAssumption, InboundBounds DEF Info, OrderOf, SilverRow, InfoAssumption, InboundBounds

LEMMA InitInv ==
  ASSUME Init
  PROVE  Inv
<1>1. ReceiverTypes /\ SubscriberTypes
  BY DEF Init, ReceiverTypes, SubscriberTypes
<1>2. StoreTypes
  BY InboundBounds DEF Init, StoreTypes, InboundBounds, SilverRow
<1>3. RecordedOnce /\ HeldWasPublished /\ AcksAreSafe /\ NoFalsePoison
  BY DEF Init, RecordedOnce, HeldWasPublished, AcksAreSafe, NoFalsePoison
<1>4. MarksAreFounded
  BY DEF Init, MarksAreFounded, NoOrder, None
<1>5. QED
  BY <1>1, <1>2, <1>3, <1>4 DEF Inv
-----------------------------------------------------------------------------
(* The receivers. *)
LEMMA EmitKeepsInv ==
  ASSUME Inv, NEW e \in Events, Emit(e)
  PROVE  Inv'
<1>1. ReceiverTypes'
  BY DEF Inv, ReceiverTypes, Emit
<1>2. QED
  BY <1>1, SubscriberFrame, StoreFrame, RecordedOnceFrame, HeldFrame, AcksFrame,
     PoisonFrame, MarksFrame
  DEF Inv, Emit, subscriberVars

LEMMA RecordNewKeepsInv ==
  ASSUME Inv, NEW r \in Receivers, NEW e \in Events, RecordNew(r, e)
  PROVE  Inv'
<1>1. e \notin dedup /\ bronze[e] = 0 /\ published[e] = 0 /\ receiving[r] = None
  <2>1. e \notin dedup /\ receiving[r] = None
    BY DEF RecordNew
  <2>2. bronze[e] = 0 /\ ~(published[e] > 0)
    BY <2>1 DEF Inv, RecordedOnce
  <2>3. published[e] \in 0..2
    BY DEF Inv, ReceiverTypes
  <2>4. QED
    BY <2>1, <2>2, <2>3
<1>2. /\ bronze' = [bronze EXCEPT ![e] = 1]
      /\ dedup' = dedup \cup {e}
      /\ receiving' = [receiving EXCEPT ![r] = e]
      /\ published' = published
  BY <1>1 DEF RecordNew
<1>3. ReceiverTypes'
  BY <1>2 DEF Inv, ReceiverTypes, RecordNew
<1>4. RecordedOnce'
  <2>1. bronze \in [Events -> 0..2] /\ receiving \in [Receivers -> Events \cup {None}]
    BY DEF Inv, ReceiverTypes
  <2>2. RecordedOnce
    BY DEF Inv
  <2>3. e # None
    BY InfoType
  <2>4. \A x \in Events : bronze'[x] = IF x \in dedup' THEN 1 ELSE 0
    BY <1>2, <2>1, <2>2 DEF RecordedOnce
  <2>5. \A q \in Receivers : receiving'[q] = IF q = r THEN e ELSE receiving[q]
    BY <1>2, <2>1
  <2>6. QED
    BY <1>1, <1>2, <2>2, <2>3, <2>4, <2>5 DEF RecordedOnce
<1>5. MarksAreFounded'
  <2>1. dedup \subseteq dedup' /\ UNCHANGED <<silver, scan, marked, current, note, edits>>
    BY <1>2 DEF RecordNew, subscriberVars
  <2>2. QED
    BY <2>1, DeliveryStays DEF Inv, MarksAreFounded
<1>6. QED
  BY <1>3, <1>4, <1>5, SubscriberFrame, StoreFrame, HeldFrame, AcksFrame, PoisonFrame
  DEF Inv, RecordNew, subscriberVars

LEMMA DuplicateKeepsInv ==
  ASSUME Inv, NEW r \in Receivers, NEW e \in Events, Duplicate(r, e)
  PROVE  Inv'
<1>1. ReceiverTypes'
  BY DEF Inv, ReceiverTypes, Duplicate
<1>2. QED
  BY <1>1, SubscriberFrame, StoreFrame, RecordedOnceFrame, HeldFrame, AcksFrame,
     PoisonFrame, MarksFrame
  DEF Inv, Duplicate, subscriberVars

(* A publish takes the event out of the receiver's hands. *)
LEMMA PublishedKeepsInv ==
  ASSUME Inv, NEW r \in Receivers, receiving[r] # None, Published(receiving[r]),
         StoreTypes', emitted' = emitted,
         answered' \in {answered, answered \cup {receiving[r]}},
         receiving' = [receiving EXCEPT ![r] = None],
         UNCHANGED <<dedup, bronze, subscriberVars, silver, handled, poison, note, scan, edits>>
  PROVE  Inv'
<1> DEFINE e == receiving[r]
<1>1. /\ e \in Events /\ e \in dedup /\ published[e] = 0
      /\ \A q \in Receivers : q # r => receiving[q] # e
  BY DEF Inv, ReceiverTypes, RecordedOnce
<1>2. published' = [published EXCEPT ![e] = 1] /\ unacked' = unacked \cup {e}
  BY <1>1 DEF Published
<1>3. published \in [Events -> 0..2] /\ receiving \in [Receivers -> Events \cup {None}]
  BY DEF Inv, ReceiverTypes
<1>4. /\ \A x \in Events : published'[x] = IF x = e THEN 1 ELSE published[x]
      /\ \A q \in Receivers : receiving'[q] = IF q = r THEN None ELSE receiving[q]
  BY <1>2, <1>3
<1> HIDE DEF e
<1>5. ReceiverTypes'
  <2>1. published' \in [Events -> 0..2] /\ receiving' \in [Receivers -> Events \cup {None}]
    BY <1>1, <1>2, <1>3
  <2>2. QED
    BY <1>1, <2>1 DEF Inv, ReceiverTypes, e
<1>6. SubscriberTypes'
  BY <1>1, <1>2 DEF Inv, SubscriberTypes, subscriberVars
<1>7. RecordedOnce'
  <2>1. RecordedOnce
    BY DEF Inv
  <2>2. QED
    BY <1>1, <1>3, <1>4, <2>1 DEF RecordedOnce
<1>8. HeldWasPublished'
  <2>1. HeldWasPublished /\ SubscriberTypes
    BY DEF Inv
  <2>2. \A x \in Events : published[x] > 0 => published'[x] > 0
    BY <1>4
  <2>3. QED
    BY <1>1, <1>2, <1>4, <2>1, <2>2 DEF HeldWasPublished, SubscriberTypes, subscriberVars
<1>9. AcksAreSafe'
  <2>1. AcksAreSafe /\ \A x : IsSafe(x) => IsSafe(x)'
    BY SafeStays DEF Inv
  <2>2. QED
    BY <1>2, <1>4, <2>1 DEF AcksAreSafe, subscriberVars
<1>10. QED
  BY <1>5, <1>6, <1>7, <1>8, <1>9, PoisonFrame, MarksFrame DEF Inv, subscriberVars

LEMMA PublishKeepsInv ==
  ASSUME Inv, NEW r \in Receivers, Publish(r)
  PROVE  Inv'
<1>1. StoreTypes'
  BY StoreFrame DEF Inv, Publish
<1>2. QED
  BY <1>1, PublishedKeepsInv DEF Publish, receiverVars

LEMMA PublishFailsKeepsInv ==
  ASSUME Inv, NEW r \in Receivers, PublishFails(r)
  PROVE  Inv'
<1>1. StoreTypes'
  BY FaultType DEF Inv, StoreTypes, PublishFails
<1>2. CASE Published(receiving[r])
  BY <1>1, <1>2, PublishedKeepsInv DEF PublishFails
<1>3. CASE UNCHANGED <<published, unacked>>
  <2>1. receiving' = [receiving EXCEPT ![r] = None]
    BY DEF PublishFails
  <2>2. receiving \in [Receivers -> Events \cup {None}]
    BY DEF Inv, ReceiverTypes
  <2>3. \A q \in Receivers : receiving'[q] = IF q = r THEN None ELSE receiving[q]
    BY <2>1, <2>2
  <2>4. ReceiverTypes'
    BY <1>3, <2>1 DEF Inv, ReceiverTypes, PublishFails
  <2>5. RecordedOnce'
    BY <1>3, <2>3 DEF Inv, RecordedOnce, PublishFails
  <2>6. QED
    BY <1>1, <1>3, <2>4, <2>5, SubscriberFrame, HeldFrame, AcksFrame, PoisonFrame,
       MarksFrame
    DEF Inv, PublishFails, subscriberVars
<1>4. QED
  BY <1>2, <1>3 DEF PublishFails
-----------------------------------------------------------------------------
(* The subscribers.  What one of them lets go of disturbs nobody. *)
LEMMA LessIsHeld ==
  ASSUME HeldWasPublished, unacked' \subseteq unacked, published' = published,
         \A t \in Subscribers : /\ pulled'[t] \subseteq pulled[t]
                                /\ current'[t] \in {current[t], None}
  PROVE  HeldWasPublished'
BY DEF HeldWasPublished

LEMMA MoreIsSafe ==
  ASSUME AcksAreSafe, published' = published,
         handled \subseteq handled', poison \subseteq poison',
         \A t \in Subscribers : \A e \in acks'[t] : e \in acks[t] \/ IsSafe(e)',
         \A e \in unacked : e \in unacked' \/ IsSafe(e)'
  PROVE  AcksAreSafe'
BY SafeStays DEF AcksAreSafe

LEMMA LessIsMarked ==
  ASSUME MarksAreFounded, dedup' = dedup, scan' \subseteq scan, note \subseteq note',
         edits' = edits,
         \A o \in MarketOrders :
           silver'[o] = silver[o] \/ (silver'[o].status = "delivered" => DeliveryOf(silver'[o].ref)),
         \A t \in Subscribers : marked'[t] => marked[t] /\ current'[t] = current[t]
  PROVE  MarksAreFounded'
<1>1. (\A o \in MarketOrders : silver[o].status = "delivered" => DeliveryOf(silver[o].ref))'
  BY DEF MarksAreFounded, DeliveryOf
<1>2. \A id \in scan' : DeliveryOf(id)'
  BY DEF MarksAreFounded, DeliveryOf
<1>3. \A t \in Subscribers : marked'[t] =>
        LET ref == InfoOf[current'[t]].ref
        IN current'[t] # None /\ (ref \in note' \/ edits' > 0 \/ ref \notin OdooOrders)
  BY DEF MarksAreFounded
<1>4. QED
  BY <1>1, <1>2, <1>3 DEF MarksAreFounded

(* A subscriber only has what was published, hence recorded, hence in      *)
(* bronze: what it declares poison cannot be normalized.                   *)
LEMMA PulledIsRecorded ==
  ASSUME Inv, NEW s \in Subscribers, NEW e \in Events, e \in pulled[s]
  PROVE  /\ e \in dedup /\ bronze[e] = 1
         /\ IsPoison(e) => ~InfoOf[e].ok /\ Reason(e) = "cannot normalize"
<1>1. published[e] > 0
  BY DEF Inv, HeldWasPublished
<1>2. e \in dedup /\ bronze[e] = 1
  BY <1>1 DEF Inv, RecordedOnce
<1>3. QED
  BY <1>2 DEF IsPoison, Reason

LEMMA CurrentIsRecorded ==
  ASSUME Inv, NEW s \in Subscribers, current[s] # None
  PROVE  current[s] \in Events /\ current[s] \in dedup /\ InfoOf[current[s]].ok
<1>1. current[s] \in Events
  BY DEF Inv, SubscriberTypes
<1>2. published[current[s]] > 0 /\ InfoOf[current[s]].ok
  BY DEF Inv, HeldWasPublished
<1>3. QED
  BY <1>1, <1>2 DEF Inv, RecordedOnce

LEMMA PullKeepsInv ==
  ASSUME Inv, NEW s \in Subscribers, NEW B \in SUBSET unacked, Pull(s, B)
  PROVE  Inv'
<1>1. pulled' = [pulled EXCEPT ![s] = B]
  BY DEF Pull
<1>2. SubscriberTypes'
  BY <1>1 DEF Inv, SubscriberTypes, Pull
<1>3. HeldWasPublished'
  <2>1. \A t \in Subscribers : pulled'[t] = IF t = s THEN B ELSE pulled[t]
    BY <1>1 DEF Inv, SubscriberTypes
  <2>2. HeldWasPublished /\ published' = published /\ unacked' = unacked /\ current' = current
    BY DEF Inv, Pull, receiverVars
  <2>3. QED
    BY <2>1, <2>2 DEF HeldWasPublished
<1>4. QED
  BY <1>2, <1>3, ReceiverFrame, StoreFrame, RecordedOnceFrame, AcksFrame, PoisonFrame,
     MarksFrame
  DEF Inv, Pull, receiverVars

(* A message leaves the response: pulled[s] loses e, acks[s] gains A. *)
LEMMA TakenTypes ==
  ASSUME SubscriberTypes, NEW s \in Subscribers, NEW e, NEW A \in SUBSET Events,
         pulled' = [pulled EXCEPT ![s] = @ \ {e}],
         acks' = [acks EXCEPT ![s] = @ \cup A],
         UNCHANGED <<unacked, current, marked>>
  PROVE  /\ SubscriberTypes'
         /\ \A t \in Subscribers : pulled'[t] \subseteq pulled[t]
         /\ \A t \in Subscribers : \A x \in acks'[t] : x \in acks[t] \/ x \in A
<1>1. pulled \in [Subscribers -> SUBSET Events] /\ acks \in [Subscribers -> SUBSET Events]
  BY DEF SubscriberTypes
<1>2. pulled' \in [Subscribers -> SUBSET Events] /\ acks' \in [Subscribers -> SUBSET Events]
  BY <1>1
<1>3. \A t \in Subscribers : /\ pulled'[t] = IF t = s THEN pulled[s] \ {e} ELSE pulled[t]
                             /\ acks'[t] = IF t = s THEN acks[s] \cup A ELSE acks[t]
  BY <1>1
<1>4. QED
  BY <1>2, <1>3 DEF SubscriberTypes

(* The dead-letter topic gets e, or does not. *)
LEMMA PoisonedKeepsInv ==
  ASSUME Inv, NEW s \in Subscribers, NEW e \in Events, e \in pulled[s], IsPoison(e),
         poison' \in {poison, poison \cup {<<e, Reason(e)>>}},
         faults' \in 0..MaxFaults, NEW A \in SUBSET {e}, A = {} \/ <<e, Reason(e)>> \in poison',
         pulled' = [pulled EXCEPT ![s] = @ \ {e}],
         acks' = [acks EXCEPT ![s] = @ \cup A],
         UNCHANGED <<receiverVars, unacked, current, marked, handled, silver, note, scan,
                     down, edits>>
  PROVE  Inv'
<1>1. Reason(e) = "cannot normalize" /\ ~InfoOf[e].ok
  BY PulledIsRecorded
<1>2. /\ SubscriberTypes'
      /\ \A t \in Subscribers : pulled'[t] \subseteq pulled[t]
      /\ \A t \in Subscribers : \A x \in acks'[t] : x \in acks[t] \/ x \in A
  BY TakenTypes DEF Inv
<1>3. StoreTypes'
  <2> DEFINE P == Events \X {"bronze row not found", "cannot normalize"}
  <2>1. <<e, "cannot normalize">> \in P /\ poison \subseteq P
    BY DEF Inv, StoreTypes
  <2> HIDE DEF P
  <2>2. poison' \subseteq P
    BY <1>1, <2>1
  <2>3. QED
    BY <2>2 DEF Inv, StoreTypes, P
<1>4. HeldWasPublished'
  BY <1>2, LessIsHeld DEF Inv, receiverVars
<1>5. AcksAreSafe'
  <2>1. \A x \in A : IsSafe(x)'
    BY <1>1 DEF IsSafe, IsDead
  <2>2. QED
    BY <1>2, <2>1, MoreIsSafe DEF Inv, receiverVars
<1>6. NoFalsePoison'
  <2>1. SUFFICES ASSUME NEW p \in poison'
                 PROVE  p[2] = "cannot normalize" /\ ~InfoOf[p[1]].ok
    BY DEF NoFalsePoison
  <2>2. CASE p \in poison
    BY <2>2 DEF Inv, NoFalsePoison
  <2>3. CASE p = <<e, "cannot normalize">>
    BY <1>1, <2>3
  <2>4. QED
    BY <1>1, <2>2, <2>3
<1>7. QED
  BY <1>2, <1>3, <1>4, <1>5, <1>6, ReceiverFrame, RecordedOnceFrame, MarksFrame
  DEF Inv, receiverVars

LEMMA ToDlqKeepsInv ==
  ASSUME Inv, NEW s \in Subscribers, NEW e \in Events, ToDlq(s, e)
  PROVE  Inv'
<1>1. faults' \in 0..MaxFaults
  BY DEF Inv, StoreTypes, ToDlq
<1>2. <<e, Reason(e)>> \in poison'
  BY DEF ToDlq
<1>3. QED
  BY <1>1, <1>2, PoisonedKeepsInv DEF ToDlq

LEMMA ToDlqFailsKeepsInv ==
  ASSUME Inv, NEW s \in Subscribers, NEW e \in Events, ToDlqFails(s, e)
  PROVE  Inv'
<1>1. faults' \in 0..MaxFaults
  BY FaultType DEF Inv, StoreTypes, ToDlqFails
<1>2. acks' = [acks EXCEPT ![s] = @ \cup {}]
  BY DEF Inv, SubscriberTypes, ToDlqFails
<1>3. QED
  BY <1>1, <1>2, PoisonedKeepsInv DEF ToDlqFails

LEMMA UpsertKeepsInv ==
  ASSUME Inv, NEW s \in Subscribers, NEW e \in Events, Upsert(s, e)
  PROVE  Inv'
<1>1. /\ published[e] > 0 /\ InfoOf[e].ok /\ current[s] = None
      /\ \A t \in Subscribers : \A x \in pulled[t] : published[x] > 0
  BY DEF Inv, HeldWasPublished, Upsert, IsPoison
<1>2. /\ current' = [current EXCEPT ![s] = e]
      /\ pulled' = [pulled EXCEPT ![s] = @ \ {e}]
  BY DEF Upsert
<1>3. SubscriberTypes'
  BY <1>2 DEF Inv, SubscriberTypes, Upsert
<1>4. \A t \in Subscribers :
        /\ current'[t] = IF t = s THEN e ELSE current[t]
        /\ pulled'[t] = IF t = s THEN pulled[s] \ {e} ELSE pulled[t]
  BY <1>2 DEF Inv, SubscriberTypes
<1>5. HeldWasPublished'
  <2>1. HeldWasPublished /\ published' = published /\ unacked' = unacked
    BY DEF Inv, Upsert, receiverVars
  <2>2. QED
    BY <1>1, <1>4, <2>1 DEF HeldWasPublished
<1>6. MarksAreFounded'
  <2>1. \A t \in Subscribers : marked[t] => current[t] # None
    BY DEF Inv, MarksAreFounded
  <2>2. QED
    BY <1>1, <1>4, <2>1, LessIsMarked DEF Inv, Upsert, receiverVars
<1>7. QED
  BY <1>3, <1>5, <1>6, ReceiverFrame, StoreFrame, RecordedOnceFrame, AcksFrame, PoisonFrame
  DEF Inv, Upsert, receiverVars

(* Odoo's note after reconcile_to_odoo. *)
LEMMA MarkInType ==
  ASSUME note \subseteq OdooOrders, NEW id
  PROVE  /\ MarkIn(id) \subseteq OdooOrders /\ note \subseteq MarkIn(id)
         /\ id \in MarkIn(id) \/ id \notin OdooOrders
BY DEF MarkIn

LEMMA MarkInOdooKeepsInv ==
  ASSUME Inv, NEW s \in Subscribers, MarkInOdoo(s)
  PROVE  Inv'
<1> DEFINE id == InfoOf[current[s]].ref
<1>1. note \subseteq OdooOrders
  BY DEF Inv, StoreTypes
<1>2. /\ note' \subseteq OdooOrders /\ note \subseteq note'
      /\ id \in note' \/ id \notin OdooOrders
  BY <1>1, MarkInType DEF MarkInOdoo
<1>3. marked' = [marked EXCEPT ![s] = TRUE] /\ current' = current /\ current[s] # None
  BY DEF MarkInOdoo
<1>4. SubscriberTypes'
  BY <1>3 DEF Inv, SubscriberTypes, MarkInOdoo
<1>5. StoreTypes'
  BY <1>2 DEF Inv, StoreTypes, MarkInOdoo
<1>6. MarksAreFounded'
  <2>1. \A t \in Subscribers : t # s => marked'[t] = marked[t]
    BY <1>3 DEF Inv, SubscriberTypes
  <2>2. UNCHANGED <<dedup, silver, scan, edits>>
    BY DEF MarkInOdoo, receiverVars
  <2>3. MarksAreFounded /\ \A x : DeliveryOf(x) => DeliveryOf(x)'
    BY <2>2, DeliveryStays DEF Inv
  <2>4. QED
    BY <1>2, <1>3, <2>1, <2>2, <2>3 DEF MarksAreFounded
<1>7. QED
  BY <1>4, <1>5, <1>6, ReceiverFrame, RecordedOnceFrame, HeldFrame, AcksFrame, PoisonFrame
  DEF Inv, MarkInOdoo, receiverVars

(* A transaction that ends, with or without the commit. *)
LEMMA EndedTypes ==
  ASSUME SubscriberTypes, NEW s \in Subscribers, EndTransaction(s)
  PROVE  /\ current' \in [Subscribers -> Events \cup {None}]
         /\ marked' \in [Subscribers -> BOOLEAN]
         /\ \A t \in Subscribers : current'[t] \in {current[t], None}
         /\ \A t \in Subscribers : marked'[t] => marked[t] /\ current'[t] = current[t]
<1>1. current \in [Subscribers -> Events \cup {None}] /\ marked \in [Subscribers -> BOOLEAN]
  BY DEF SubscriberTypes
<1>2. current' = [current EXCEPT ![s] = None] /\ marked' = [marked EXCEPT ![s] = FALSE]
  BY DEF EndTransaction
<1>3. \A t \in Subscribers : /\ current'[t] = IF t = s THEN None ELSE current[t]
                             /\ t # s => marked'[t] = marked[t]
  BY <1>1, <1>2
<1>4. ~marked'[s]
  BY <1>1, <1>2
<1>5. QED
  BY <1>1, <1>2, <1>3, <1>4

LEMMA HandlingFailsKeepsInv ==
  ASSUME Inv, NEW s \in Subscribers, HandlingFails(s)
  PROVE  Inv'
<1>1. note \subseteq note' /\ note' \subseteq OdooOrders
  <2>1. note \subseteq OdooOrders
    BY DEF Inv, StoreTypes
  <2>2. note' = note \/ note' = MarkIn(InfoOf[current[s]].ref)
    BY DEF HandlingFails
  <2>3. QED
    BY <2>1, <2>2, MarkInType
<1>2. /\ current' \in [Subscribers -> Events \cup {None}]
      /\ marked' \in [Subscribers -> BOOLEAN]
      /\ \A t \in Subscribers : current'[t] \in {current[t], None}
      /\ \A t \in Subscribers : marked'[t] => marked[t] /\ current'[t] = current[t]
  BY EndedTypes DEF Inv, HandlingFails
<1>3. SubscriberTypes'
  BY <1>2 DEF Inv, SubscriberTypes, HandlingFails
<1>4. StoreTypes'
  BY <1>1, FaultType DEF Inv, StoreTypes, HandlingFails
<1>5. HeldWasPublished'
  BY <1>2, LessIsHeld DEF Inv, HandlingFails, receiverVars
<1>6. MarksAreFounded'
  BY <1>1, <1>2, LessIsMarked DEF Inv, HandlingFails, receiverVars
<1>7. QED
  BY <1>3, <1>4, <1>5, <1>6, ReceiverFrame, RecordedOnceFrame, AcksFrame, PoisonFrame
  DEF Inv, HandlingFails, receiverVars

LEMMA CommitSilverKeepsInv ==
  ASSUME Inv, NEW s \in Subscribers, NEW e \in Events, e = current[s], CommitSilver(s)
  PROVE  Inv'
<1>1. e \in dedup /\ InfoOf[e].ok
  BY CurrentIsRecorded DEF CommitSilver
<1>2. /\ silver' = [silver EXCEPT ![OrderOf(e)] = RowOf(e)]
      /\ handled' = handled \cup {e}
      /\ acks' = [acks EXCEPT ![s] = @ \cup {e}]
      /\ UNCHANGED <<receiverVars, unacked, pulled, poison, note, scan, down, faults, edits>>
  BY DEF CommitSilver
<1>3. /\ current' \in [Subscribers -> Events \cup {None}]
      /\ marked' \in [Subscribers -> BOOLEAN]
      /\ \A t \in Subscribers : current'[t] \in {current[t], None}
      /\ \A t \in Subscribers : marked'[t] => marked[t] /\ current'[t] = current[t]
  BY EndedTypes DEF Inv, CommitSilver
<1>4. HeldWasPublished'
  BY <1>2, <1>3, LessIsHeld DEF Inv, receiverVars
<1>5. SubscriberTypes'
  BY <1>2, <1>3 DEF Inv, SubscriberTypes
<1>6. StoreTypes'
  <2>1. silver \in [MarketOrders -> SilverRow] /\ OrderOf(e) \in MarketOrders /\ RowOf(e) \in SilverRow
    BY InfoType DEF Inv, StoreTypes
  <2>2. silver' \in [MarketOrders -> SilverRow]
    BY <1>2, <2>1
  <2>3. QED
    BY <1>2, <2>2 DEF Inv, StoreTypes
<1>7. AcksAreSafe'
  <2>1. \A t \in Subscribers : \A x \in acks'[t] : x \in acks[t] \/ x = e
    BY <1>2 DEF Inv, SubscriberTypes
  <2>2. IsSafe(e)'
    BY <1>2 DEF IsSafe
  <2>3. QED
    BY <1>2, <2>1, <2>2, MoreIsSafe DEF Inv, receiverVars
<1>8. MarksAreFounded'
  <2>1. \A o \in MarketOrders : silver'[o] = silver[o] \/ silver'[o] = RowOf(e)
    BY <1>2 DEF Inv, StoreTypes
  <2>2. RowOf(e).status = "delivered" => DeliveryOf(RowOf(e).ref)
    BY <1>1 DEF RowOf, DeliveryOf
  <2>3. QED
    BY <1>2, <1>3, <2>1, <2>2, LessIsMarked DEF Inv, receiverVars
<1>9. QED
  BY <1>2, <1>4, <1>5, <1>6, <1>7, <1>8, ReceiverFrame, RecordedOnceFrame, PoisonFrame
  DEF Inv, receiverVars

(* Acks that are sent, or given up. *)
LEMMA AckedKeepsInv ==
  ASSUME Inv, NEW s \in Subscribers, unacked' \in {unacked, unacked \ acks[s]},
         StoreTypes', acks' = [acks EXCEPT ![s] = {}],
         UNCHANGED <<receiverVars, pulled, current, marked, handled, silver, poison, note,
                     scan, edits>>
  PROVE  Inv'
<1>1. SubscriberTypes'
  BY DEF Inv, SubscriberTypes
<1>2. \A t \in Subscribers : \A x \in acks'[t] : x \in acks[t]
  BY DEF Inv, SubscriberTypes
<1>3. \A x \in acks[s] : IsSafe(x)'
  BY SafeStays DEF Inv, AcksAreSafe
<1>4. AcksAreSafe'
  BY <1>2, <1>3, MoreIsSafe DEF Inv, receiverVars
<1>5. HeldWasPublished'
  BY LessIsHeld DEF Inv, receiverVars
<1>6. QED
  BY <1>1, <1>4, <1>5, ReceiverFrame, RecordedOnceFrame, PoisonFrame, MarksFrame
  DEF Inv, receiverVars

LEMMA AckKeepsInv ==
  ASSUME Inv, NEW s \in Subscribers, Ack(s)
  PROVE  Inv'
<1>1. StoreTypes'
  BY StoreFrame DEF Inv, Ack
<1>2. QED
  BY <1>1, AckedKeepsInv DEF Ack

LEMMA AckIgnoredKeepsInv ==
  ASSUME Inv, NEW s \in Subscribers, AckIgnored(s)
  PROVE  Inv'
<1>1. StoreTypes'
  BY FaultType DEF Inv, StoreTypes, AckIgnored
<1>2. QED
  BY <1>1, AckedKeepsInv DEF AckIgnored

LEMMA SubscriberEndsKeepsInv ==
  ASSUME Inv, NEW s \in Subscribers, SubscriberEnds(s)
  PROVE  Inv'
<1>1. /\ current' \in [Subscribers -> Events \cup {None}]
      /\ marked' \in [Subscribers -> BOOLEAN]
      /\ \A t \in Subscribers : current'[t] \in {current[t], None}
      /\ \A t \in Subscribers : marked'[t] => marked[t] /\ current'[t] = current[t]
  BY EndedTypes DEF Inv, SubscriberEnds
<1>2. /\ pulled' = [pulled EXCEPT ![s] = {}] /\ acks' = [acks EXCEPT ![s] = {}]
      /\ unacked' = unacked
  BY DEF SubscriberEnds
<1>3. SubscriberTypes'
  BY <1>1, <1>2 DEF Inv, SubscriberTypes
<1>4. \A t \in Subscribers : pulled'[t] \subseteq pulled[t] /\ acks'[t] \subseteq acks[t]
  BY <1>2 DEF Inv, SubscriberTypes
<1>5. StoreTypes'
  BY FaultType DEF Inv, StoreTypes, SubscriberEnds, Processes
<1>6. HeldWasPublished'
  BY <1>1, <1>2, <1>4, LessIsHeld DEF Inv, SubscriberEnds, receiverVars
<1>7. AcksAreSafe'
  BY <1>2, <1>4, MoreIsSafe DEF Inv, SubscriberEnds, receiverVars
<1>8. MarksAreFounded'
  BY <1>1, LessIsMarked DEF Inv, SubscriberEnds, receiverVars
<1>9. QED
  BY <1>3, <1>5, <1>6, <1>7, <1>8, ReceiverFrame, RecordedOnceFrame, PoisonFrame
  DEF Inv, SubscriberEnds, receiverVars
-----------------------------------------------------------------------------
(* The reconciler, its supervisor and people in Odoo. *)
LEMMA ScanKeepsInv ==
  ASSUME Inv, Scan
  PROVE  Inv'
<1>1. \A id \in scan' : DeliveryOf(id) /\ id \in Refs
  <2>1. SUFFICES ASSUME NEW o \in Delivered
                 PROVE  DeliveryOf(silver[o].ref) /\ silver[o].ref \in Refs
    BY DEF Scan
  <2>2. o \in MarketOrders /\ silver[o].status = "delivered" /\ silver[o].ref # NoRef
    BY DEF Delivered
  <2>3. silver[o] \in SilverRow
    BY <2>2 DEF Inv, StoreTypes
  <2>4. silver[o].ref \in Refs \cup {NoRef}
    BY <2>3, InfoType DEF SilverRow, NoOrder, RowOf
  <2>5. QED
    BY <2>2, <2>4 DEF Inv, MarksAreFounded
<1>2. StoreTypes'
  BY <1>1 DEF Inv, StoreTypes, Scan
<1>3. MarksAreFounded'
  BY <1>1 DEF Inv, MarksAreFounded, DeliveryOf, Scan, receiverVars, subscriberVars
<1>4. QED
  BY <1>2, <1>3, ReceiverFrame, SubscriberFrame, RecordedOnceFrame, HeldFrame, AcksFrame,
     PoisonFrame
  DEF Inv, Scan, receiverVars, subscriberVars

LEMMA FixDriftKeepsInv ==
  ASSUME Inv, NEW id \in Refs, FixDrift(id)
  PROVE  Inv'
<1>1. note \subseteq note' /\ note' \subseteq OdooOrders
  BY MarkInType DEF Inv, StoreTypes, FixDrift
<1>2. StoreTypes'
  BY <1>1 DEF Inv, StoreTypes, FixDrift
<1>3. MarksAreFounded'
  BY <1>1, LessIsMarked DEF Inv, FixDrift, receiverVars, subscriberVars
<1>4. QED
  BY <1>2, <1>3, ReceiverFrame, SubscriberFrame, RecordedOnceFrame, HeldFrame, AcksFrame,
     PoisonFrame
  DEF Inv, FixDrift, receiverVars, subscriberVars

LEMMA ReconcilerEndsKeepsInv ==
  ASSUME Inv, ReconcilerEnds
  PROVE  Inv'
<1>1. StoreTypes'
  BY FaultType DEF Inv, StoreTypes, ReconcilerEnds, Processes
<1>2. MarksAreFounded'
  BY LessIsMarked DEF Inv, ReconcilerEnds, receiverVars, subscriberVars
<1>3. QED
  BY <1>1, <1>2, ReceiverFrame, SubscriberFrame, RecordedOnceFrame, HeldFrame, AcksFrame,
     PoisonFrame
  DEF Inv, ReconcilerEnds, receiverVars, subscriberVars

LEMMA RestartKeepsInv ==
  ASSUME Inv, NEW p \in Processes, Restart(p)
  PROVE  Inv'
<1>1. StoreTypes'
  BY DEF Inv, StoreTypes, Restart
<1>2. QED
  BY <1>1, ReceiverFrame, SubscriberFrame, RecordedOnceFrame, HeldFrame, AcksFrame,
     PoisonFrame, MarksFrame
  DEF Inv, Restart, receiverVars, subscriberVars

LEMMA EditNoteKeepsInv ==
  ASSUME Inv, NEW id \in OdooOrders, EditNote(id)
  PROVE  Inv'
<1>1. edits' \in 0..MaxEdits /\ edits' > 0
  <2>1. edits \in 0..MaxEdits
    BY DEF Inv, StoreTypes
  <2>2. edits < MaxEdits /\ edits' = edits + 1 /\ MaxEdits \in Nat
    BY InboundBounds DEF EditNote, InboundBounds
  <2>3. QED
    BY <2>1, <2>2
<1>2. StoreTypes'
  BY <1>1 DEF Inv, StoreTypes, EditNote
<1>3. MarksAreFounded'
  <2>1. UNCHANGED <<dedup, silver, scan, marked, current>>
    BY DEF EditNote, receiverVars, subscriberVars
  <2>2. QED
    BY <1>1, <2>1 DEF Inv, MarksAreFounded, DeliveryOf
<1>4. QED
  BY <1>2, <1>3, ReceiverFrame, SubscriberFrame, RecordedOnceFrame, HeldFrame, AcksFrame,
     PoisonFrame
  DEF Inv, EditNote, receiverVars, subscriberVars

LEMMA StutterKeepsInv ==
  ASSUME Inv, UNCHANGED vars
  PROVE  Inv'
BY ReceiverFrame, SubscriberFrame, StoreFrame, RecordedOnceFrame, HeldFrame, AcksFrame,
   PoisonFrame, MarksFrame
DEF Inv, vars, receiverVars, subscriberVars

LEMMA HandleKeepsInv ==
  ASSUME Inv, NEW s \in Subscribers, Handle(s)
  PROVE  Inv'
<1>1. CASE CommitSilver(s)
  <2>1. current[s] \in Events
    BY <1>1, CurrentIsRecorded DEF CommitSilver
  <2>2. QED
    BY <1>1, <2>1, CommitSilverKeepsInv
<1>2. QED
  BY <1>1, ToDlqKeepsInv, UpsertKeepsInv, MarkInOdooKeepsInv, AckKeepsInv DEF Handle

LEMMA NextKeepsInv ==
  ASSUME Inv, [Next]_vars
  PROVE  Inv'
<1>1. ASSUME NEW r \in Receivers, Receive(r)
      PROVE  Inv'
  BY <1>1, RecordNewKeepsInv, DuplicateKeepsInv, PublishKeepsInv, PublishFailsKeepsInv
  DEF Receive
<1>2. ASSUME NEW s \in Subscribers, Disturb(s)
      PROVE  Inv'
  BY <1>2, ToDlqFailsKeepsInv, HandlingFailsKeepsInv, AckIgnoredKeepsInv,
     SubscriberEndsKeepsInv
  DEF Disturb
<1>3. CASE Reconcile
  BY <1>3, ScanKeepsInv, FixDriftKeepsInv, ReconcilerEndsKeepsInv DEF Reconcile
<1>4. QED
  BY <1>1, <1>2, <1>3, EmitKeepsInv, HandleKeepsInv, PullKeepsInv, RestartKeepsInv,
     EditNoteKeepsInv, StutterKeepsInv
  DEF Next
-----------------------------------------------------------------------------
(* The invariant is inductive. *)
THEOREM InvHolds == Spec => []Inv
<1>1. Init => Inv
  BY InitInv
<1>2. Inv /\ [Next]_vars => Inv'
  BY NextKeepsInv
<1>3. QED
  BY <1>1, <1>2, PTL DEF Spec

(* Every variable has its type. *)
THEOREM TypeCorrect == Spec => []TypeOK
<1>1. Inv => TypeOK
  BY DEF Inv, ReceiverTypes, SubscriberTypes, StoreTypes, TypeOK
<1>2. QED
  BY <1>1, InvHolds, PTL

(* However often a webhook is posted, and to however many receivers, it    *)
(* leaves one bronze row and one message at most (store.record).           *)
THEOREM DuplicatesLeaveNoTrace == Spec => []DuplicateIsInvisible
<1>1. Inv => DuplicateIsInvisible
  BY DEF Inv, RecordedOnce, DuplicateIsInvisible
<1>2. QED
  BY <1>1, InvHolds, PTL

(* Only what cannot be normalized is declared poison: the bronze row of a  *)
(* message is never missing (handle_envelope).                             *)
THEOREM PoisonIsFounded == Spec => []NoFalsePoison
<1>1. Inv => NoFalsePoison
  BY DEF Inv
<1>2. QED
  BY <1>1, InvHolds, PTL

(* Nothing is acknowledged before it is in silver or dead (run_forever).   *)
THEOREM AcksAreFounded == Spec => []AckedIsSafe
<1>1. Inv => AckedIsSafe
  BY DEF Inv, AcksAreSafe, IsSafe, IsDead, AckedIsSafe
<1>2. QED
  BY <1>1, InvHolds, PTL
-----------------------------------------------------------------------------
(***************************************************************************)
(* The refinement of InboundPromise.  Recording is Receive, the commit of  *)
(* silver is Handle, a dead letter is Bury, whatever writes Odoo's note is *)
(* Mark; the rest changes nothing that the promise mentions.               *)
(***************************************************************************)
LEMMA PromiseStutters ==
  ASSUME UNCHANGED <<dedup, handled, poison, silver, note, edits>>
  PROVE  UNCHANGED Promise!vars
BY DEF Promise!vars

(* A note that becomes a marker: a received delivery says so. *)
LEMMA MarkIsPromised ==
  ASSUME NEW id, DeliveryOf(id), ReceiverTypes, note \subseteq OdooOrders,
         note' \in {note, MarkIn(id)},
         UNCHANGED <<dedup, handled, poison, silver, edits>>
  PROVE  [Promise!Next]_Promise!vars
<1>1. CASE note' = note
  BY <1>1, PromiseStutters
<1>2. CASE id \in OdooOrders /\ note' = note \cup {id}
  <2>1. PICK e \in dedup : InfoOf[e].ok /\ InfoOf[e].status = "delivered" /\ InfoOf[e].ref = id
    BY DEF DeliveryOf
  <2>2. Promise!IsDelivery(e) /\ InfoOf[e].ref = id
    BY <1>2, <2>1 DEF Promise!IsDelivery
  <2>3. Promise!Mark(id)
    BY <1>2, <2>2 DEF Promise!Mark
  <2>4. QED
    BY <1>2, <2>3 DEF Promise!Next
<1>3. QED
  BY <1>1, <1>2 DEF MarkIn

LEMMA PoisonIsPromised ==
  ASSUME Inv, NEW s \in Subscribers, NEW e \in Events, e \in pulled[s], IsPoison(e),
         poison' \in {poison, poison \cup {<<e, Reason(e)>>}},
         UNCHANGED <<dedup, handled, silver, note, edits>>
  PROVE  [Promise!Next]_Promise!vars
<1>1. CASE poison' = poison
  BY <1>1, PromiseStutters
<1>2. CASE poison' = poison \cup {<<e, Reason(e)>>}
  <2>1. e \in dedup /\ ~InfoOf[e].ok
    BY PulledIsRecorded
  <2>2. {p[1] : p \in poison'} = {p[1] : p \in poison} \cup {e}
    <3> DEFINE q == <<e, Reason(e)>>
    <3>1. q[1] = e /\ poison' = poison \cup {q}
      BY <1>2
    <3> HIDE DEF q
    <3>2. QED
      BY <3>1
  <2>3. Promise!Bury(e)
    BY <2>1, <2>2 DEF Promise!Bury
  <2>4. QED
    BY <2>3 DEF Promise!Next
<1>3. QED
  BY <1>1, <1>2

LEMMA CommitIsPromised ==
  ASSUME Inv, NEW s \in Subscribers, CommitSilver(s)
  PROVE  Promise!Next
<1> DEFINE e == current[s]
<1>1. e \in Events /\ e \in dedup /\ InfoOf[e].ok
  BY CurrentIsRecorded DEF CommitSilver
<1>2. Promise!IsDelivery(e) => InfoOf[e].ref \in note \/ edits > 0
  <2>1. SUFFICES ASSUME Promise!IsDelivery(e)
                 PROVE  InfoOf[e].ref \in note \/ edits > 0
    OBVIOUS
  <2>2. InfoOf[e].ref \in OdooOrders /\ InfoOf[e].ref # NoRef /\ InfoOf[e].status = "delivered"
    <3>1. NoRef \notin OdooOrders
      BY InboundBounds DEF InboundBounds
    <3>2. QED
      BY <2>1, <3>1 DEF Promise!IsDelivery
  <2>3. marked[s]
    BY <2>2 DEF CommitSilver, NeedsMark
  <2>4. QED
    BY <2>2, <2>3 DEF Inv, MarksAreFounded
<1>3. Promise!Handle(e)
  BY <1>1, <1>2 DEF Promise!Handle, CommitSilver, RowOf, OrderOf, receiverVars
<1>4. QED
  BY <1>1, <1>3 DEF Promise!Next

LEMMA ReceiveIsPromised ==
  ASSUME NEW r \in Receivers, Receive(r)
  PROVE  [Promise!Next]_Promise!vars
<1>1. ASSUME NEW e \in Events, RecordNew(r, e)
      PROVE  Promise!Next
  <2>1. Promise!Receive(e)
    BY <1>1 DEF RecordNew, Promise!Receive
  <2>2. QED
    BY <2>1 DEF Promise!Next
<1>2. ASSUME NEW e \in Events, Duplicate(r, e)
      PROVE  UNCHANGED Promise!vars
  BY <1>2, PromiseStutters DEF Duplicate
<1>3. CASE Publish(r) \/ PublishFails(r)
  BY <1>3, PromiseStutters DEF Publish, PublishFails
<1>4. QED
  BY <1>1, <1>2, <1>3 DEF Receive

(* An order that is being marked, or is on the reconciler's list, was      *)
(* delivered.                                                              *)
LEMMA MarkedIsDelivered ==
  ASSUME Inv, NEW s \in Subscribers, current[s] # None, NeedsMark(current[s])
  PROVE  DeliveryOf(InfoOf[current[s]].ref)
BY CurrentIsRecorded DEF NeedsMark, DeliveryOf

LEMMA SubscriberIsPromised ==
  ASSUME Inv, NEW s \in Subscribers, Handle(s) \/ Disturb(s) \/ \E B \in SUBSET unacked : Pull(s, B)
  PROVE  [Promise!Next]_Promise!vars
<1>1. ASSUME NEW e \in Events, ToDlq(s, e) \/ ToDlqFails(s, e)
      PROVE  [Promise!Next]_Promise!vars
  BY <1>1, PoisonIsPromised DEF ToDlq, ToDlqFails, receiverVars
<1>2. CASE MarkInOdoo(s)
  <2>1. DeliveryOf(InfoOf[current[s]].ref)
    BY <1>2, MarkedIsDelivered DEF MarkInOdoo
  <2>2. QED
    BY <1>2, <2>1, MarkIsPromised DEF MarkInOdoo, receiverVars, Inv, StoreTypes
<1>3. CASE HandlingFails(s)
  <2>1. UNCHANGED <<dedup, handled, poison, silver, edits>>
    BY <1>3 DEF HandlingFails, receiverVars
  <2>2. CASE NeedsMark(current[s])
    <3>1. DeliveryOf(InfoOf[current[s]].ref)
      BY <1>3, <2>2, MarkedIsDelivered DEF HandlingFails
    <3>2. note' \in {note, MarkIn(InfoOf[current[s]].ref)}
      BY <1>3, <2>2 DEF HandlingFails
    <3>3. QED
      BY <2>1, <3>1, <3>2, MarkIsPromised DEF Inv, StoreTypes
  <2>3. CASE ~NeedsMark(current[s])
    BY <1>3, <2>1, <2>3, PromiseStutters DEF HandlingFails
  <2>4. QED
    BY <2>2, <2>3
<1>4. CASE CommitSilver(s)
  BY <1>4, CommitIsPromised
<1>5. ASSUME \/ \E e \in Events : Upsert(s, e)
             \/ Ack(s) \/ AckIgnored(s) \/ SubscriberEnds(s)
             \/ \E B \in SUBSET unacked : Pull(s, B)
      PROVE  UNCHANGED Promise!vars
  BY <1>5, PromiseStutters
  DEF Upsert, Ack, AckIgnored, SubscriberEnds, Pull, receiverVars
<1>6. QED
  BY <1>1, <1>2, <1>3, <1>4, <1>5 DEF Handle, Disturb

LEMMA OthersArePromised ==
  ASSUME Inv,
         \/ \E e \in Events : Emit(e)
         \/ Reconcile
         \/ \E p \in Processes : Restart(p)
         \/ \E id \in OdooOrders : EditNote(id)
  PROVE  [Promise!Next]_Promise!vars
<1>1. ASSUME NEW id \in Refs, FixDrift(id)
      PROVE  [Promise!Next]_Promise!vars
  <2>1. DeliveryOf(id)
    BY <1>1 DEF FixDrift, Inv, MarksAreFounded
  <2>2. QED
    BY <1>1, <2>1, MarkIsPromised DEF FixDrift, receiverVars, Inv, StoreTypes
<1>2. ASSUME NEW id \in OdooOrders, EditNote(id)
      PROVE  Promise!Next
  <2>1. edits' = edits + 1 /\ edits \in 0..MaxEdits
    BY <1>2 DEF EditNote, Inv, StoreTypes
  <2>2. edits' > 0
    BY <2>1, InboundBounds DEF InboundBounds
  <2>3. Promise!EditNote(id)
    BY <1>2, <2>2 DEF EditNote, Promise!EditNote, receiverVars
  <2>4. QED
    BY <2>3 DEF Promise!Next
<1>3. ASSUME \/ \E e \in Events : Emit(e)
             \/ Scan \/ ReconcilerEnds
             \/ \E p \in Processes : Restart(p)
      PROVE  UNCHANGED Promise!vars
  BY <1>3, PromiseStutters DEF Emit, Scan, ReconcilerEnds, Restart, receiverVars
<1>4. QED
  BY <1>1, <1>2, <1>3 DEF Reconcile

(* Receivers, subscribers and the reconciler implement InboundPromise.     *)
THEOREM InboundImplementsPromise == Spec => InboundKeepsPromise
<1>1. Init => Promise!Init
  BY DEF Init, Promise!Init, NoOrder, None, Promise!NoOrder
<1>2. Inv /\ [Next]_vars => [Promise!Next]_Promise!vars
  <2>1. ASSUME Inv, UNCHANGED vars
        PROVE  UNCHANGED Promise!vars
    BY <2>1, PromiseStutters DEF vars, receiverVars
  <2>2. QED
    BY <2>1, ReceiveIsPromised, SubscriberIsPromised, OthersArePromised DEF Next
<1>3. QED
  BY <1>1, <1>2, InvHolds, PTL DEF Spec, Promise!Spec, InboundKeepsPromise
-----------------------------------------------------------------------------
(***************************************************************************)
(* The dedupe key is committed before the publish, so an event whose       *)
(* publish fails is recorded, answered as a duplicate and never published. *)
(* That is the only way to lose one: until something has failed, whatever  *)
(* was recorded is published or in the hands of a receiver.                *)
(***************************************************************************)
OnItsWay(e) == published[e] > 0 \/ \E r \in Receivers : receiving[r] = e

RecordedIsOnItsWay ==
  /\ answered \subseteq dedup
  /\ faults > 0 \/ \A e \in dedup : OnItsWay(e)

LEMMA FaultsAreCounted == \A n \in 0..MaxFaults : n \in Nat
BY InboundBounds DEF InboundBounds

(* Without a fault no step takes an event off its way. *)
LEMMA OnItsWayStays ==
  ASSUME Inv, [Next]_vars, faults' = faults, NEW e \in Events, OnItsWay(e)
  PROVE  OnItsWay(e)'
<1>1. CASE UNCHANGED <<published, receiving>>
  BY <1>1 DEF OnItsWay
<1>2. ASSUME NEW r \in Receivers, NEW f \in Events, RecordNew(r, f) PROVE OnItsWay(e)'
  <2>1. /\ receiving[r] = None /\ published' = published
        /\ receiving' = [receiving EXCEPT ![r] = f]
    BY <1>2 DEF RecordNew
  <2>2. e # None
    BY InboundBounds DEF InboundBounds
  <2>3. QED
    BY <2>1, <2>2 DEF OnItsWay, Inv, ReceiverTypes
<1>3. ASSUME NEW r \in Receivers, Publish(r) PROVE OnItsWay(e)'
  <2>1. /\ receiving' = [receiving EXCEPT ![r] = None]
        /\ published' = [published EXCEPT ![receiving[r]] = IF @ = 0 THEN 1 ELSE 2]
    BY <1>3 DEF Publish, Published
  <2>2. CASE receiving[r] = e
    BY <2>1, <2>2 DEF OnItsWay, Inv, ReceiverTypes
  <2>3. CASE receiving[r] # e
    BY <2>1, <2>3 DEF OnItsWay, Inv, ReceiverTypes
  <2>4. QED
    BY <2>2, <2>3
<1>4. ASSUME NEW r \in Receivers, PublishFails(r) PROVE FALSE
  <2>1. faults' = faults + 1 /\ faults \in 0..MaxFaults
    BY <1>4 DEF PublishFails, Fault, Inv, StoreTypes
  <2>2. QED
    BY <2>1, FaultsAreCounted
<1>5. ASSUME NEW r \in Receivers, NEW f \in Events, Duplicate(r, f)
      PROVE  UNCHANGED <<published, receiving>>
  BY <1>5 DEF Duplicate
<1>6. CASE \E f \in Events : Emit(f)
  BY <1>1, <1>6 DEF Emit
<1>7. ASSUME NEW s \in Subscribers,
             Handle(s) \/ Disturb(s) \/ \E B \in SUBSET unacked : Pull(s, B)
      PROVE  UNCHANGED <<published, receiving>>
  BY <1>7 DEF Handle, Disturb, Pull, ToDlq, Upsert, MarkInOdoo, CommitSilver, Ack,
     ToDlqFails, HandlingFails, AckIgnored, SubscriberEnds, receiverVars
<1>8. ASSUME \/ Reconcile
             \/ \E p \in Processes : Restart(p)
             \/ \E id \in OdooOrders : EditNote(id)
             \/ UNCHANGED vars
      PROVE  UNCHANGED <<published, receiving>>
  BY <1>8 DEF Reconcile, Scan, FixDrift, ReconcilerEnds, Restart, EditNote, vars, receiverVars
<1>9. QED
  BY <1>1, <1>2, <1>3, <1>4, <1>5, <1>6, <1>7, <1>8 DEF Next, Receive

LEMMA NextKeepsOnItsWay ==
  ASSUME Inv, Inv', RecordedIsOnItsWay, [Next]_vars
  PROVE  RecordedIsOnItsWay'
<1>1. faults \in Nat /\ faults' \in Nat
  <2>1. faults \in 0..MaxFaults /\ faults' \in 0..MaxFaults
    BY DEF Inv, StoreTypes
  <2>2. QED
    BY <2>1, FaultsAreCounted
<1>2. faults' # faults => faults' > 0
  BY <1>1 DEF Next, Receive, Handle, Disturb, Reconcile, Fault, Emit, RecordNew, Duplicate,
     Publish, PublishFails, ToDlq, Upsert, MarkInOdoo, CommitSilver, Ack, ToDlqFails,
     HandlingFails, AckIgnored, SubscriberEnds, Pull, Scan, FixDrift, ReconcilerEnds,
     Restart, EditNote, vars
<1>3. CASE UNCHANGED <<answered, dedup>>
  BY <1>1, <1>2, <1>3, OnItsWayStays DEF RecordedIsOnItsWay, Inv, ReceiverTypes
<1>4. ASSUME NEW r \in Receivers, NEW e \in Events, RecordNew(r, e)
      PROVE  RecordedIsOnItsWay'
  <2>1. /\ dedup' = dedup \cup {e} /\ answered' = answered /\ faults' = faults
        /\ receiving'[r] = e
    BY <1>4 DEF RecordNew, Inv, ReceiverTypes
  <2>2. OnItsWay(e)'
    BY <2>1 DEF OnItsWay
  <2>3. QED
    BY <2>1, <2>2, OnItsWayStays DEF RecordedIsOnItsWay, Inv, ReceiverTypes
<1>5. ASSUME NEW r \in Receivers,
             (\E e \in Events : Duplicate(r, e)) \/ Publish(r) \/ PublishFails(r)
      PROVE  RecordedIsOnItsWay'
  <2>1. dedup' = dedup /\ answered' \subseteq dedup
    BY <1>5
    DEF Duplicate, Publish, PublishFails, RecordedIsOnItsWay, Inv, RecordedOnce, ReceiverTypes
  <2>2. QED
    BY <1>1, <1>2, <2>1, OnItsWayStays DEF RecordedIsOnItsWay, Inv, ReceiverTypes
<1>6. ASSUME NEW s \in Subscribers,
             Handle(s) \/ Disturb(s) \/ \E B \in SUBSET unacked : Pull(s, B)
      PROVE  UNCHANGED <<answered, dedup>>
  BY <1>6 DEF Handle, Disturb, Pull, ToDlq, Upsert, MarkInOdoo, CommitSilver, Ack,
     ToDlqFails, HandlingFails, AckIgnored, SubscriberEnds, receiverVars
<1>7. ASSUME \/ \E e \in Events : Emit(e)
             \/ Reconcile
             \/ \E p \in Processes : Restart(p)
             \/ \E id \in OdooOrders : EditNote(id)
             \/ UNCHANGED vars
      PROVE  UNCHANGED <<answered, dedup>>
  BY <1>7
  DEF Emit, Reconcile, Scan, FixDrift, ReconcilerEnds, Restart, EditNote, vars, receiverVars
<1>8. QED
  BY <1>3, <1>4, <1>5, <1>6, <1>7 DEF Next, Receive

(* Until something has failed, an event that a receiver has recorded, or   *)
(* answered with 200, is in the hands of a receiver, waits in the          *)
(* subscription, or is in silver or dead-lettered: whatever order the      *)
(* receivers, redeliveries and acks come in, nothing goes missing.         *)
THEOREM OnlyFaultsLoseEvents ==
  Spec => [](faults > 0 \/ \A e \in answered \cup dedup :
               (\E r \in Receivers : receiving[r] = e) \/ e \in unacked \/ IsSafe(e))
<1>1. Init => RecordedIsOnItsWay
  BY DEF Init, RecordedIsOnItsWay
<1>2. Inv /\ Inv' /\ RecordedIsOnItsWay /\ [Next]_vars => RecordedIsOnItsWay'
  BY NextKeepsOnItsWay
<1>3. Inv /\ RecordedIsOnItsWay =>
        (faults > 0 \/ \A e \in answered \cup dedup :
           (\E r \in Receivers : receiving[r] = e) \/ e \in unacked \/ IsSafe(e))
  BY DEF RecordedIsOnItsWay, OnItsWay, Inv, AcksAreSafe, ReceiverTypes
<1>4. QED
  BY <1>1, <1>2, <1>3, InvHolds, PTL DEF Spec
=============================================================================
