------------------------- MODULE OrderJourney_proofs -------------------------
(***************************************************************************)
(* Theorems about OrderJourney, for any orders and statuses and any events *)
(* that Paris may emit (EventsOfParis).  The invariant says where things   *)
(* come from: an order in Paris was accepted, an event was emitted for an  *)
(* order in Paris, whatever is on its way or has arrived was emitted, and  *)
(* a dead letter was not accepted or is in doubt.                          *)
(***************************************************************************)
EXTENDS OrderJourney, TLAPS

JourneyType ==
  /\ stage \in [Orders -> Out!Stage]
  /\ accepted \in [Orders -> 0..2]
  /\ paris \in [Orders -> Statuses \cup {"none", "created"}]
  /\ silver \in [Orders -> [status : Statuses \cup {"none"}, ref : Orders \cup {NoRef}]]
  /\ emitted \subseteq Events

Origins ==
  /\ posting \subseteq emitted /\ received \subseteq emitted
  /\ \A o \in Orders : paris[o] # "none" => accepted[o] > 0
  /\ \A e \in emitted : InfoOf[e].order \in Orders /\ accepted[InfoOf[e].order] > 0

ShownWasSaid ==
  \A o \in Orders :
    /\ silver[o].status # "none" => Said(o, silver[o].status)
    /\ o \in note => Said(o, "delivered")

DeadIsOpen == \A o \in Orders : stage[o] = "dlq" => accepted[o] = 0 \/ o \in doubtful

JInv == JourneyType /\ Origins /\ ShownWasSaid /\ DeadIsOpen
-----------------------------------------------------------------------------
(* What arrived was said, what was said was of an accepted order. *)
LEMMA SaidMeansAccepted ==
  ASSUME JInv, NEW o \in Orders, NEW st, Said(o, st)
  PROVE  accepted[o] > 0
BY DEF JInv, Origins, Said

(* The invariant implies the properties that the run checks. *)
LEMMA JInvIsEnough ==
  ASSUME JInv
  PROVE  HubTellsTheTruth /\ StuckMeansUnsent
<1>1. ASSUME NEW o \in Orders
      PROVE  /\ silver[o].status # "none" => accepted[o] > 0
             /\ o \in note => accepted[o] > 0
  BY SaidMeansAccepted DEF JInv, ShownWasSaid
<1>2. HubTellsTheTruth
  BY <1>1 DEF HubTellsTheTruth, GetOrderStatus, JInv, ShownWasSaid
<1>3. StuckMeansUnsent
  BY <1>1 DEF StuckMeansUnsent, DeadLetters, GetOrderStatus, JInv, DeadIsOpen
<1>4. QED
  BY <1>2, <1>3

LEMMA InitJInv ==
  ASSUME Init
  PROVE  JInv
<1>1. JourneyType
  BY DEF Init, Out!Init, In!Init, In!NoOrder, JourneyType, Out!Stage
<1>2. Origins /\ DeadIsOpen
  BY DEF Init, Out!Init, In!Init, Origins, DeadIsOpen
<1>3. ShownWasSaid
  BY DEF Init, In!Init, In!NoOrder, ShownWasSaid
<1>4. QED
  BY <1>1, <1>2, <1>3 DEF JInv

(***************************************************************************)
(* A step of the outbox that keeps what was accepted, sends only open      *)
(* orders, and declares dead only open orders.                             *)
(***************************************************************************)
LEMMA OutboxStepKeepsJInv ==
  ASSUME JInv, UNCHANGED <<inboundVars, registered, emitted, posting>>,
         stage' \in [Orders -> Out!Stage],
         accepted' \in [Orders -> 0..2],
         paris' \in [Orders -> Statuses \cup {"none", "created"}],
         doubtful \subseteq doubtful',
         \A o \in Orders : accepted[o] > 0 => accepted'[o] > 0,
         \A o \in Orders : paris'[o] # "none" => accepted'[o] > 0,
         \A o \in Orders :
           stage'[o] = "dlq" => accepted'[o] = 0 \/ o \in doubtful'
  PROVE  JInv'
<1>1. JourneyType'
  BY DEF JInv, JourneyType, inboundVars
<1>2. Origins'
  BY DEF JInv, JourneyType, Origins, inboundVars
<1>3. ShownWasSaid'
  BY DEF JInv, ShownWasSaid, Said, inboundVars
<1>4. DeadIsOpen'
  BY DEF DeadIsOpen
<1>5. QED
  BY <1>1, <1>2, <1>3, <1>4 DEF JInv

(* A step that moves stages only: dead is who was dead or is open. *)
LEMMA StagesKeepJInv ==
  ASSUME JInv, UNCHANGED <<accepted, doubtful, inboundVars, parisVars>>,
         stage' \in [Orders -> Out!Stage],
         \A o \in Orders :
           stage'[o] = "dlq" => stage[o] = "dlq" \/ accepted[o] = 0 \/ o \in doubtful
  PROVE  JInv'
BY OutboxStepKeepsJInv DEF JInv, JourneyType, Origins, DeadIsOpen, parisVars

LEMMA EnqueueKeepsJInv ==
  ASSUME JInv, NEW S \in SUBSET Orders, Enqueue(S)
  PROVE  JInv'
<1>1. /\ stage' \in [Orders -> Out!Stage]
      /\ \A o \in Orders : stage'[o] = "dlq" => stage[o] = "dlq"
  BY DEF Enqueue, Out!Enqueue, Out!Stage, JInv, JourneyType
<1>2. QED
  BY <1>1, StagesKeepJInv DEF Enqueue, Out!Enqueue

LEMMA SettleKeepsJInv ==
  ASSUME JInv, NEW D \in SUBSET Orders, NEW Q \in SUBSET Orders, Settle(D, Q)
  PROVE  JInv'
<1>1. /\ stage' \in [Orders -> Out!Stage]
      /\ \A o \in Orders :
           stage'[o] = "dlq" => stage[o] = "dlq" \/ accepted[o] = 0 \/ o \in doubtful
  BY DEF Settle, Out!Settle, Out!Open, Out!Stage, JInv, JourneyType
<1>2. QED
  BY <1>1, StagesKeepJInv DEF Settle, Out!Settle

LEMMA ReplayKeepsJInv ==
  ASSUME JInv, NEW S \in SUBSET Orders, Replay(S)
  PROVE  JInv'
<1>1. /\ stage' \in [Orders -> Out!Stage]
      /\ \A o \in Orders : stage'[o] = "dlq" => stage[o] = "dlq"
  BY DEF Replay, Out!Requeue, Out!Stage, JInv, JourneyType
<1>2. QED
  BY <1>1, StagesKeepJInv DEF Replay, Out!Requeue

(* Only an open order is accepted, and the count never decreases. *)
LEMMA AttemptFacts ==
  ASSUME JInv, NEW A \in SUBSET Orders, NEW D, NEW M, Out!Attempt(A, D, M)
  PROVE  /\ accepted' \in [Orders -> 0..2]
         /\ \A p \in Orders : accepted[p] > 0 => accepted'[p] > 0
         /\ \A p \in A : accepted'[p] > 0 /\ Out!Open(p)
         /\ \A p \in Orders \ A : accepted'[p] = accepted[p]
         /\ stage' = stage /\ doubtful \subseteq doubtful'
BY DEF JInv, JourneyType, Out!Attempt

LEMMA PushKeepsJInv ==
  ASSUME JInv, NEW A \in SUBSET Orders, NEW D, NEW M, Push(A, D, M)
  PROVE  JInv'
<1>1. Out!Attempt(A, D, M) /\ UNCHANGED <<inboundVars, registered, emitted, posting>>
  BY DEF Push
<1>2. /\ accepted' \in [Orders -> 0..2]
      /\ \A o \in Orders : accepted[o] > 0 => accepted'[o] > 0
      /\ \A o \in A : accepted'[o] > 0 /\ Out!Open(o)
      /\ \A o \in Orders \ A : accepted'[o] = accepted[o]
      /\ stage' = stage /\ doubtful \subseteq doubtful'
  BY <1>1, AttemptFacts
<1>3. /\ paris' \in [Orders -> Statuses \cup {"none", "created"}]
      /\ \A o \in Orders \ A : paris'[o] = paris[o]
  BY DEF Push, Created, JInv, JourneyType
<1>4. \A o \in Orders : paris'[o] # "none" => accepted'[o] > 0
  BY <1>2, <1>3 DEF JInv, Origins
<1>5. \A o \in Orders : stage'[o] = "dlq" => accepted'[o] = 0 \/ o \in doubtful'
  BY <1>2 DEF JInv, DeadIsOpen, Out!Open
<1>6. QED
  BY <1>1, <1>2, <1>3, <1>4, <1>5, OutboxStepKeepsJInv DEF JInv, JourneyType
-----------------------------------------------------------------------------
(* An order that Paris has is an accepted one, and so are its events. *)
LEMMA EmitKeepsJInv ==
  ASSUME EventsOfParis, JInv, NEW e \in Events, EmitWebhook(e)
  PROVE  JInv'
<1> DEFINE o == InfoOf[e].order
<1>1. o \in Orders /\ InfoOf[e].status \in Statuses /\ accepted[o] > 0
  BY DEF EmitWebhook, EventsOfParis, JInv, Origins
<1>2. /\ emitted' = emitted \cup {e}
      /\ posting' \subseteq posting \cup {e}
      /\ UNCHANGED <<outboxVars, inboundVars>>
  BY DEF EmitWebhook
<1>3. /\ paris' \in [Orders -> Statuses \cup {"none", "created"}]
      /\ \A p \in Orders \ {o} : paris'[p] = paris[p]
  BY <1>1 DEF EmitWebhook, JInv, JourneyType
<1>4. JourneyType'
  BY <1>2, <1>3 DEF JInv, JourneyType, outboxVars, inboundVars
<1>5. Origins'
  BY <1>1, <1>2, <1>3 DEF JInv, Origins, outboxVars, inboundVars
<1>6. ShownWasSaid' /\ DeadIsOpen'
  BY <1>2 DEF JInv, ShownWasSaid, DeadIsOpen, Said, outboxVars, inboundVars
<1>7. QED
  BY <1>4, <1>5, <1>6 DEF JInv

LEMMA DeliverKeepsJInv ==
  ASSUME JInv, NEW e \in Events, Deliver(e) \/ DeliverFails(e)
  PROVE  JInv'
<1>1. /\ e \in posting /\ posting' = posting \ {e}
      /\ received' \subseteq received \cup {e}
      /\ UNCHANGED <<outboxVars, silver, note, paris, emitted>>
  BY DEF Deliver, DeliverFails, In!Receive, inboundVars
<1>2. JourneyType' /\ DeadIsOpen'
  BY <1>1 DEF JInv, JourneyType, DeadIsOpen, outboxVars
<1>3. Origins' /\ ShownWasSaid'
  BY <1>1 DEF JInv, Origins, ShownWasSaid, Said, outboxVars
<1>4. QED
  BY <1>2, <1>3 DEF JInv

(* What is handled or marked comes from an event that was received. *)
LEMMA InwardKeepsJInv ==
  ASSUME EventsOfParis, JInv, Inward
  PROVE  JInv'
<1>1. UNCHANGED <<outboxVars, parisVars, received>>
  BY DEF Inward, In!Handle, In!Mark, In!EditNote
<1>2. JourneyType' => Origins' /\ DeadIsOpen'
  BY <1>1 DEF JInv, Origins, DeadIsOpen, outboxVars, parisVars
<1>3. ASSUME NEW e \in Events, In!Handle(e)
      PROVE  JourneyType' /\ ShownWasSaid'
  <2> DEFINE o == InfoOf[e].order
  <2>1. e \in emitted /\ o \in Orders /\ InfoOf[e].ref = o /\ InfoOf[e].status \in Statuses
    BY <1>3 DEF In!Handle, JInv, Origins, EventsOfParis
  <2>2. /\ silver' = [silver EXCEPT ![o] = [status |-> InfoOf[e].status, ref |-> o]]
        /\ note' = note
    BY <1>3, <2>1 DEF In!Handle
  <2>3. JourneyType'
    BY <1>1, <2>1, <2>2 DEF JInv, JourneyType, outboxVars, parisVars
  <2>4. Said(o, InfoOf[e].status)
    BY <2>1 DEF Said
  <2>5. ShownWasSaid'
    BY <1>1, <2>1, <2>2, <2>4 DEF JInv, JourneyType, ShownWasSaid, Said, parisVars
  <2>6. QED
    BY <2>3, <2>5
<1>4. ASSUME NEW o \in Orders, In!Mark(o) \/ In!EditNote(o)
      PROVE  JourneyType' /\ ShownWasSaid'
  <2>1. silver' = silver
    BY <1>4 DEF In!Mark, In!EditNote
  <2>2. CASE In!EditNote(o)
    BY <1>1, <2>1, <2>2
       DEF In!EditNote, JInv, JourneyType, ShownWasSaid, Said, outboxVars, parisVars
  <2>3. CASE In!Mark(o)
    <3>1. PICK e \in received : InfoOf[e].status = "delivered" /\ InfoOf[e].ref = o
      BY <2>3 DEF In!Mark, In!IsDelivery
    <3>2. e \in emitted /\ e \in Events
      BY <3>1 DEF JInv, Origins, JourneyType
    <3>3. Said(o, "delivered")
      BY <3>1, <3>2 DEF Said, EventsOfParis
    <3>4. note' = note \cup {o}
      BY <2>3 DEF In!Mark
    <3>5. QED
      BY <1>1, <2>1, <3>3, <3>4
         DEF JInv, JourneyType, ShownWasSaid, Said, outboxVars, parisVars
  <2>4. QED
    BY <1>4, <2>2, <2>3
<1>5. JourneyType' /\ ShownWasSaid'
  BY <1>3, <1>4 DEF Inward
<1>6. QED
  BY <1>2, <1>5 DEF JInv

LEMMA NextKeepsJInv ==
  ASSUME EventsOfParis, JInv, [Next]_vars
  PROVE  JInv'
<1>1. CASE RegisterWebhook
  BY <1>1 DEF RegisterWebhook, JInv, JourneyType, Origins, ShownWasSaid, DeadIsOpen, Said,
              outboxVars, inboundVars
<1>2. CASE UNCHANGED vars
  BY <1>2 DEF vars, JInv, JourneyType, Origins, ShownWasSaid, DeadIsOpen, Said,
              outboxVars, inboundVars, parisVars
<1>3. CASE \/ \E S \in SUBSET Orders : Enqueue(S) \/ Replay(S)
           \/ \E A, D, M \in SUBSET Orders : Push(A, D, M)
           \/ \E D, Q \in SUBSET Orders : Settle(D, Q)
  BY <1>3, EnqueueKeepsJInv, PushKeepsJInv, SettleKeepsJInv, ReplayKeepsJInv
<1>4. CASE \E e \in Events : EmitWebhook(e) \/ Deliver(e) \/ DeliverFails(e)
  BY <1>4, EmitKeepsJInv, DeliverKeepsJInv
<1>5. QED
  BY <1>1, <1>2, <1>3, <1>4, InwardKeepsJInv DEF Next
-----------------------------------------------------------------------------
(* The invariant of the journey. *)
THEOREM JourneyInvHolds ==
  ASSUME EventsOfParis
  PROVE  Spec => []JInv
<1>1. Init => JInv
  BY InitJInv
<1>2. JInv /\ [Next]_vars => JInv'
  BY NextKeepsJInv
<1>3. QED
  BY <1>1, <1>2, PTL DEF Spec

(* What get_order_status and Odoo's note show was true once, for any       *)
(* orders and any number of webhooks.                                      *)
THEOREM ShownIsTrue ==
  ASSUME EventsOfParis
  PROVE  Spec => []HubTellsTheTruth
<1>1. JInv => HubTellsTheTruth
  BY JInvIsEnough
<1>2. QED
  BY <1>1, JourneyInvHolds, PTL

(* An order that has come back from Paris is a dead letter only after      *)
(* doubt.                                                                  *)
THEOREM DeadLettersAreUnsent ==
  ASSUME EventsOfParis
  PROVE  Spec => []StuckMeansUnsent
<1>1. JInv => StuckMeansUnsent
  BY JInvIsEnough
<1>2. QED
  BY <1>1, JourneyInvHolds, PTL

(* An order that has come back from Paris is sent again only after doubt.  *)
THEOREM KnownOrdersStay ==
  ASSUME EventsOfParis
  PROVE  Spec => KnownOrderIsNotSentAgain
<1> DEFINE Step == \A o \in Orders :
      accepted'[o] # accepted[o] /\ GetOrderStatus(o) # "none" => o \in doubtful
<1>1. ASSUME JInv, [Next]_vars
      PROVE  Step
  <2>1. SUFFICES ASSUME NEW o \in Orders, accepted'[o] # accepted[o],
                        silver[o].status # "none"
                 PROVE  o \in doubtful
    BY DEF GetOrderStatus
  <2>2. accepted[o] > 0
    BY <1>1, <2>1, SaidMeansAccepted DEF JInv, ShownWasSaid
  <2>3. PICK A \in SUBSET Orders, D \in SUBSET Orders, M \in SUBSET Orders :
          Out!Attempt(A, D, M)
    BY <1>1, <2>1 DEF Next, Enqueue, Out!Enqueue, Push, Settle, Out!Settle, Replay,
       Out!Requeue, RegisterWebhook, EmitWebhook, Deliver, DeliverFails, Inward, vars,
       outboxVars
  <2>4. o \in A
    BY <1>1, <2>1, <2>3, AttemptFacts
  <2>5. QED
    BY <1>1, <2>2, <2>3, <2>4 DEF Out!Attempt, Out!Open, JInv, JourneyType
<1>2. QED
  BY <1>1, JourneyInvHolds, PTL DEF Spec, KnownOrderIsNotSentAgain
-----------------------------------------------------------------------------
(***************************************************************************)
(* What the two promises are worth by themselves.  The outbox: a pair that *)
(* is done was accepted, one that is dead was announced and not accepted   *)
(* for all that is known, and only doubt sends an order twice.             *)
(***************************************************************************)
OutType ==
  /\ stage \in [Orders -> Out!Stage]
  /\ accepted \in [Orders -> 0..2]

OutMeans ==
  \A o \in Orders :
    /\ accepted[o] = 2 => o \in doubtful
    /\ stage[o] = "done" => accepted[o] > 0
    /\ stage[o] = "dlq" => o \in announced /\ (accepted[o] = 0 \/ o \in doubtful)

LEMMA OutNextMeans ==
  ASSUME OutType, OutMeans, [Out!Next]_(Out!vars)
  PROVE  OutType' /\ OutMeans'
<1>1. ASSUME NEW S \in SUBSET Orders, Out!Enqueue(S) \/ Out!Requeue(S)
      PROVE  OutType' /\ OutMeans'
  BY <1>1 DEF Out!Enqueue, Out!Requeue, Out!Stage, OutType, OutMeans
<1>2. ASSUME NEW A \in SUBSET Orders, NEW D \in SUBSET Orders, NEW M \in SUBSET Orders,
             Out!Attempt(A, D, M)
      PROVE  OutType' /\ OutMeans'
  BY <1>2 DEF Out!Attempt, Out!Open, OutType, OutMeans
<1>3. ASSUME NEW D \in SUBSET Orders, NEW Q \in SUBSET Orders, Out!Settle(D, Q)
      PROVE  OutType' /\ OutMeans'
  BY <1>3 DEF Out!Settle, Out!Open, Out!Stage, OutType, OutMeans
<1>4. CASE UNCHANGED Out!vars
  BY <1>4 DEF Out!vars, OutType, OutMeans
<1>5. QED
  BY <1>1, <1>2, <1>3, <1>4 DEF Out!Next

(* Every program that keeps OutboxPromise settles a row only for a reason  *)
(* and sends an order twice only after doubt.                              *)
THEOREM OutboxPromiseMeans == Out!Spec => []OutMeans
<1>1. Out!Init => OutType /\ OutMeans
  BY DEF Out!Init, Out!Stage, OutType, OutMeans
<1>2. OutType /\ OutMeans /\ [Out!Next]_(Out!vars) => OutType' /\ OutMeans'
  BY OutNextMeans
<1>3. QED
  BY <1>1, <1>2, PTL DEF Out!Spec

(* The inbound half: silver shows an event that was handled, Odoo a        *)
(* delivery that was received, and once a delivery is handled its note is  *)
(* there unless somebody overwrote one.                                    *)
InMeans ==
  /\ handled \subseteq received /\ dead \subseteq received /\ handled \cap dead = {}
  /\ \A e \in handled : In!IsDelivery(e) => InfoOf[e].ref \in note \/ edited
  /\ \A id \in note : \E e \in received : In!IsDelivery(e) /\ InfoOf[e].ref = id
  /\ \A o \in Orders : silver[o] # In!NoOrder =>
       \E e \in handled : /\ InfoOf[e].order = o
                          /\ silver[o] = [status |-> InfoOf[e].status, ref |-> InfoOf[e].ref]

InType ==
  /\ DOMAIN silver = Orders /\ silver = [o \in Orders |-> silver[o]]
  /\ \A e \in handled : InfoOf[e].ok
  /\ \A e \in dead : ~InfoOf[e].ok

LEMMA InNextMeans ==
  ASSUME InType, InMeans, [In!Next]_(In!vars)
  PROVE  InType' /\ InMeans'
<1>1. ASSUME NEW e \in Events, In!Receive(e) PROVE InType' /\ InMeans'
  BY <1>1 DEF In!Receive, In!IsDelivery, InType, InMeans
<1>2. ASSUME NEW e \in Events, In!Handle(e) PROVE InType' /\ InMeans'
  <2>1. /\ e \in received /\ InfoOf[e].ok
        /\ In!IsDelivery(e) => InfoOf[e].ref \in note \/ edited
        /\ silver' = [silver EXCEPT ![InfoOf[e].order] =
                        [status |-> InfoOf[e].status, ref |-> InfoOf[e].ref]]
        /\ handled' = handled \cup {e}
        /\ UNCHANGED <<received, dead, note, edited>>
    BY <1>2 DEF In!Handle
  <2>2. InType'
    BY <2>1 DEF InType
  <2>3. ASSUME NEW o \in Orders, silver'[o] # In!NoOrder
        PROVE  \E f \in handled' :
                 /\ InfoOf[f].order = o
                 /\ silver'[o] = [status |-> InfoOf[f].status, ref |-> InfoOf[f].ref]
    BY <2>1, <2>3 DEF InType, InMeans
  <2>4. QED
    BY <2>1, <2>2, <2>3 DEF InType, InMeans, In!IsDelivery
<1>3. ASSUME NEW e \in Events, In!Bury(e) PROVE InType' /\ InMeans'
  BY <1>3 DEF In!Bury, In!IsDelivery, InType, InMeans
<1>4. ASSUME NEW o \in Orders, In!Mark(o) PROVE InType' /\ InMeans'
  BY <1>4 DEF In!Mark, In!IsDelivery, InType, InMeans
<1>5. ASSUME NEW o \in Orders, In!EditNote(o) PROVE InType' /\ InMeans'
  BY <1>5 DEF In!EditNote, In!IsDelivery, InType, InMeans
<1>6. CASE UNCHANGED In!vars
  BY <1>6 DEF In!vars, In!IsDelivery, InType, InMeans
<1>7. QED
  BY <1>1, <1>2, <1>3, <1>4, <1>5, <1>6 DEF In!Next

(* Every program that keeps InboundPromise shows in silver and in Odoo     *)
(* only what was received, and handles no delivery without its note.       *)
THEOREM InboundPromiseMeans == In!Spec => []InMeans
<1>1. In!Init => InType /\ InMeans
  BY DEF In!Init, InType, InMeans
<1>2. InType /\ InMeans /\ [In!Next]_(In!vars) => InType' /\ InMeans'
  BY InNextMeans
<1>3. QED
  BY <1>1, <1>2, PTL DEF In!Spec
=============================================================================
