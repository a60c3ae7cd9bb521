------------------------------ MODULE Hub_proofs ------------------------------
(***************************************************************************)
(* Theorems about Hub, for any orders, marketplaces, events and processes. *)
(* The two halves have been proved to keep their promises, each by itself; *)
(* a behaviour of the hub is one of each half, so it keeps both promises,  *)
(* and HubInv says what holds between them: Paris has the orders whose     *)
(* push it accepted, and whatever has come back was emitted for one of     *)
(* these.                                                                  *)
(***************************************************************************)
EXTENDS Hub, McpWriteTools_proofs

InbP == INSTANCE Inbound_proofs WITH
  MarketOrders <- Orders, Refs <- Orders, OdooOrders <- Orders,
  MaxFaults <- MaxInFaults, faults <- inFaults

JrnP == INSTANCE OrderJourney_proofs WITH
  stage     <- parisStage,
  accepted  <- parisAccepted,
  announced <- parisAnnounced,
  doubtful  <- parisDoubtful,
  received  <- dedup,
  dead      <- {p[1] : p \in poison},
  edited    <- edits > 0,
  posting   <- posting \ dedup

(* What the promise of the inbound half speaks of. *)
inPromised == <<dedup, handled, {p[1] : p \in poison}, silver, note, edits > 0>>

RecordedWasEmitted == dedup \subseteq emitted /\ emitted \subseteq Events

(* Paris has the orders whose push it accepted. *)
ParisHasAccepted ==
  /\ paris \in [Orders -> Statuses \cup {"none", "created"}]
  /\ \A o \in Orders : paris[o] # "none" <=> accepted[ParisKey(o)] > 0

(* Paris emits an event only for an order that it has, and posts only what *)
(* it has emitted.                                                         *)
EmittedForAccepted ==
  /\ posting \subseteq emitted
  /\ \A e \in emitted : accepted[ParisKey(InfoOf[e].order)] > 0

(* What silver and Odoo show was emitted. *)
ShownWasEmitted ==
  /\ silver \in [Orders -> [status : Statuses \cup {"none"}, ref : Orders \cup {NoRef}]]
  /\ \A o \in Orders :
       /\ silver[o].status # "none" => Jrn!Said(o, silver[o].status)
       /\ o \in note => Jrn!Said(o, "delivered")

HubInv == RecordedWasEmitted /\ ParisHasAccepted /\ EmittedForAccepted /\ ShownWasEmitted
-----------------------------------------------------------------------------
(* The theorems about Inbound and OrderJourney, for the hub's constants. *)
LEMMA HubConstants ==
  /\ Jrn!EventsOfParis
  /\ \A e \in Events : /\ InfoOf[e].ok /\ InfoOf[e].order \in Orders
                       /\ InfoOf[e].ref = InfoOf[e].order
                       /\ InfoOf[e].status \in Statuses
  /\ "none" \notin Statuses /\ "none" \notin Events /\ NoRef \notin Orders
  /\ \A o \in Orders : ParisKey(o) \in Key
BY HubAssumption DEF Jrn!EventsOfParis, ParisKey, Key

LEMMA InboundTypes == InbP!Spec => []InbP!TypeOK
BY InbP!TypeCorrect, HubAssumption
DEF InbP!Info, InbP!None, InbP!InfoAssumption, InbP!InboundBounds, Jrn!EventsOfParis

LEMMA InboundKeepsItsPromise == InbP!Spec => InbP!InboundKeepsPromise
BY InbP!InboundImplementsPromise, HubAssumption
DEF InbP!Info, InbP!None, InbP!InfoAssumption, InbP!InboundBounds, Jrn!EventsOfParis

LEMMA JourneyOfParis == JrnP!EventsOfParis
BY HubConstants DEF JrnP!EventsOfParis, Jrn!EventsOfParis

LEMMA JourneyDeadLetters == JrnP!Spec => []JrnP!StuckMeansUnsent
BY JrnP!DeadLettersAreUnsent, JourneyOfParis

LEMMA JourneyKnownOrders == JrnP!Spec => JrnP!KnownOrderIsNotSentAgain
BY JrnP!KnownOrdersStay, JourneyOfParis
-----------------------------------------------------------------------------
(* A behaviour of the hub is one of each half.  (Inb and InbP are the same *)
(* module with the same substitutions, as are Jrn and JrnP.)               *)
LEMMA SameInbound ==
  /\ Inb!Init => InbP!Init
  /\ Inb!Next => InbP!Next
<1>1. Inb!Init => InbP!Init
  BY DEF Inb!Init, InbP!Init, Inb!None, InbP!None, Inb!NoOrder, InbP!NoOrder
<1>2. Inb!Next => InbP!Next
  BY
  DEF Inb!Cardinality, InbP!Cardinality, Inb!Emit, InbP!Emit, Inb!Receive, InbP!Receive,
      Inb!RecordNew, InbP!RecordNew, Inb!Duplicate, InbP!Duplicate, Inb!Publish,
      InbP!Publish, Inb!Published, InbP!Published, Inb!PublishFails, InbP!PublishFails,
      Inb!Handle, InbP!Handle, Inb!ToDlq, InbP!ToDlq, Inb!Upsert, InbP!Upsert,
      Inb!MarkInOdoo, InbP!MarkInOdoo, Inb!CommitSilver, InbP!CommitSilver, Inb!Ack,
      InbP!Ack, Inb!EndTransaction, InbP!EndTransaction, Inb!Disturb, InbP!Disturb,
      Inb!ToDlqFails, InbP!ToDlqFails, Inb!HandlingFails, InbP!HandlingFails,
      Inb!AckIgnored, InbP!AckIgnored, Inb!SubscriberEnds, InbP!SubscriberEnds,
      Inb!Pull, InbP!Pull, Inb!Idle, InbP!Idle, Inb!Reconcile, InbP!Reconcile, Inb!Scan,
      InbP!Scan, Inb!FixDrift, InbP!FixDrift, Inb!ReconcilerEnds, InbP!ReconcilerEnds,
      Inb!Delivered, InbP!Delivered, Inb!Restart, InbP!Restart, Inb!EditNote,
      InbP!EditNote, Inb!Processes, InbP!Processes, Inb!IsPoison, InbP!IsPoison,
      Inb!Reason, InbP!Reason, Inb!Fault, InbP!Fault, Inb!NeedsMark, InbP!NeedsMark,
      Inb!MarkIn, InbP!MarkIn, Inb!OrderOf, InbP!OrderOf, Inb!RowOf, InbP!RowOf,
      Inb!None, InbP!None, Inb!receiverVars, InbP!receiverVars, Inb!subscriberVars,
      InbP!subscriberVars, Inb!Next, InbP!Next
<1>3. QED
  BY <1>1, <1>2

LEMMA HubStepOfHalves ==
  ASSUME [HubNext]_hubVars
  PROVE  [McpNext]_mcpVars /\ [InbP!Next]_(InbP!vars)
<1>1. CASE Outbound
  BY <1>1 DEF Outbound, inVars, InbP!vars, InbP!receiverVars, InbP!subscriberVars
<1>2. CASE RegisterWebhook
  BY <1>2 DEF RegisterWebhook, inVars, InbP!vars, InbP!receiverVars, InbP!subscriberVars
<1>3. ASSUME NEW e \in Events, EmitWebhook(e)
      PROVE  [McpNext]_mcpVars /\ [InbP!Next]_(InbP!vars)
  BY <1>3, SameInbound DEF EmitWebhook, Inb!Next
<1>4. ASSUME NEW e \in Events, PostEnds(e)
      PROVE  [McpNext]_mcpVars /\ [InbP!Next]_(InbP!vars)
  BY <1>4 DEF PostEnds, inVars, InbP!vars, InbP!receiverVars, InbP!subscriberVars
<1>5. CASE Inward
  BY <1>5, SameInbound DEF Inward
<1>6. CASE UNCHANGED hubVars
  BY <1>6 DEF hubVars, inVars, parisVars, InbP!vars, InbP!receiverVars, InbP!subscriberVars
<1>7. QED
  BY <1>1, <1>2, <1>3, <1>4, <1>5, <1>6 DEF HubNext

THEOREM HubRunsBothHalves == HubSpec => McpSpec /\ InbP!Spec
<1>1. HubInit => McpInit /\ InbP!Init
  BY SameInbound DEF HubInit
<1>2. [HubNext]_hubVars => [McpNext]_mcpVars /\ [InbP!Next]_(InbP!vars)
  BY HubStepOfHalves
<1>3. QED
  BY <1>1, <1>2, PTL DEF HubSpec, McpSpec, InbP!Spec

(* What the inbound half has recorded was emitted, and its steps are those *)
(* of its promise.                                                         *)
LEMMA HubInboundPromised ==
  HubSpec => []RecordedWasEmitted /\ [][InbP!Promise!Next]_inPromised
<1>1. InbP!TypeOK => RecordedWasEmitted
  BY DEF InbP!TypeOK, RecordedWasEmitted
<1>2. [InbP!Promise!Next]_(InbP!Promise!vars) => [InbP!Promise!Next]_inPromised
  BY DEF inPromised, InbP!Promise!vars
<1>3. QED
  BY <1>1, <1>2, HubRunsBothHalves, InboundTypes, InboundKeepsItsPromise, PTL
  DEF InbP!InboundKeepsPromise, InbP!Promise!Spec

(* With one operator at work the steps of the outbound half are those of   *)
(* the promise of the outbox.                                              *)
LEMMA HubOutboundPromised ==
  ASSUME OneServer
  PROVE  HubSpec => [][Promise!Next]_(Promise!vars)
BY HubRunsBothHalves, OneServerKeepsPromise, PTL DEF McpKeepsPromise, Promise!Spec
-----------------------------------------------------------------------------
(* What holds between the halves, for any number of workers, servers,      *)
(* receivers and subscribers.                                              *)
LEMMA HubInitInv == HubInit => HubInv
<1> SUFFICES ASSUME HubInit PROVE HubInv
  OBVIOUS
<1>1. /\ accepted = [k \in Key |-> 0] /\ paris = [o \in Orders |-> "none"]
      /\ posting = {} /\ emitted = {} /\ dedup = {} /\ note = {}
      /\ silver = [o \in Orders |-> [status |-> "none", ref |-> NoRef]]
  BY DEF HubInit, McpInit, Init, Inb!Init, Inb!NoOrder, Inb!None
<1>2. RecordedWasEmitted /\ ParisHasAccepted /\ EmittedForAccepted
  BY <1>1, HubConstants DEF RecordedWasEmitted, ParisHasAccepted, EmittedForAccepted
<1>3. ShownWasEmitted
  BY <1>1 DEF ShownWasEmitted
<1>4. QED
  BY <1>2, <1>3 DEF HubInv

(* No step takes an acceptance back. *)
LEMMA AcceptanceStays ==
  ASSUME SessionInv, Reasons, [McpNext]_mcpVars, NEW k \in Key, accepted[k] > 0
  PROVE  accepted'[k] > 0
<1>1. CASE accepted' = accepted
  BY <1>1
<1>2. ASSUME NEW w \in Workers, NEW j \in Key, Push(w, j)
      PROVE  accepted'[k] > 0
  BY <1>2, PushedReasons DEF SessionInv, ReasonsStay
<1>3. CASE HubStep
  <2>1. ASSUME NEW w \in Workers, SelectBatch(w, HeldByServers) PROVE accepted' = accepted
    BY <2>1 DEF SelectBatch, worldVars
  <2>2. CASE Environment
    BY <1>1, <2>2 DEF Environment, OdooChange, BackoffExpires, worldVars
  <2>3. ASSUME NEW w \in Workers, WorkerStep(w) PROVE accepted'[k] > 0
    BY <1>1, <1>2, <2>3
    DEF WorkerStep, Fetch, Enqueue, Commit, CommitFails, Crash, SessionLost, worldVars
  <2>4. QED
    BY <1>1, <1>3, <2>1, <2>2, <2>3 DEF HubStep
<1>4. ASSUME NEW s \in Servers, ServerStep(s) PROVE accepted' = accepted
  BY <1>4 DEF ServerStep, Replay, Retry, Drain, Read, Flush, ReturnsUnchanged, CommitCall,
     CommitUnknown, CallFails, EndCall, Audit, EntryLost, vars, worldVars
<1>5. QED
  BY <1>1, <1>3, <1>4 DEF McpNext, mcpVars, vars, worldVars

LEMMA OutboundKeepsHubInv ==
  ASSUME HubInv, SessionInv, Reasons, Reasons', Outbound
  PROVE  HubInv'
<1>1. UNCHANGED <<dedup, silver, note, emitted, posting>>
  BY DEF Outbound, inVars
<1>2. \A o \in Orders : accepted[ParisKey(o)] > 0 => accepted'[ParisKey(o)] > 0
  BY AcceptanceStays, HubConstants DEF Outbound
<1>3. ParisHasAccepted'
  <2>1. /\ paris' \in [Orders -> Statuses \cup {"none", "created"}]
        /\ \A o \in Orders :
             paris'[o] = IF paris[o] = "none" /\ accepted'[ParisKey(o)] > 0 THEN "created"
                                                                          ELSE paris[o]
    BY DEF Outbound, HubInv, ParisHasAccepted
  <2>2. QED
    BY <1>2, <2>1 DEF HubInv, ParisHasAccepted, ParisKey
<1>4. RecordedWasEmitted' /\ EmittedForAccepted'
  BY <1>1, <1>2, HubConstants
  DEF HubInv, RecordedWasEmitted, EmittedForAccepted, ParisKey
<1>5. ShownWasEmitted'
  BY <1>1 DEF HubInv, ShownWasEmitted, Jrn!Said
<1>6. QED
  BY <1>3, <1>4, <1>5 DEF HubInv

LEMMA EmitKeepsHubInv ==
  ASSUME HubInv, NEW e \in Events, EmitWebhook(e)
  PROVE  HubInv'
<1> DEFINE o == InfoOf[e].order
<1>1. o \in Orders /\ InfoOf[e].status \in Statuses /\ InfoOf[e].status # "none"
  BY HubConstants
<1>2. /\ UNCHANGED <<dedup, silver, note, accepted>>
      /\ emitted' = emitted \cup {e} /\ posting' \subseteq posting \cup {e}
      /\ paris[o] # "none" /\ paris' = [paris EXCEPT ![o] = InfoOf[e].status]
  BY DEF EmitWebhook, Inb!Emit, mcpVars, vars, worldVars
<1>3. ParisHasAccepted'
  BY <1>1, <1>2 DEF HubInv, ParisHasAccepted, ParisKey
<1>4. RecordedWasEmitted' /\ EmittedForAccepted'
  BY <1>1, <1>2
  DEF HubInv, RecordedWasEmitted, ParisHasAccepted, EmittedForAccepted, ParisKey
<1>5. ShownWasEmitted'
  BY <1>2 DEF HubInv, ShownWasEmitted, Jrn!Said
<1>6. QED
  BY <1>3, <1>4, <1>5 DEF HubInv

(* What is handled or marked comes from an event that was recorded. *)
LEMMA InwardKeepsHubInv ==
  ASSUME HubInv, RecordedWasEmitted', Inward, [InbP!Promise!Next]_inPromised
  PROVE  HubInv'
<1>1. UNCHANGED <<paris, posting, emitted, accepted>>
  BY DEF Inward, parisVars, mcpVars, vars, worldVars
<1>2. ParisHasAccepted' /\ EmittedForAccepted'
  BY <1>1 DEF HubInv, ParisHasAccepted, EmittedForAccepted, ParisKey
<1>3. ASSUME UNCHANGED <<silver, note>> PROVE ShownWasEmitted'
  BY <1>1, <1>3 DEF HubInv, ShownWasEmitted, Jrn!Said
<1>4. ASSUME NEW e \in Events, InbP!Promise!Handle(e) PROVE ShownWasEmitted'
  <2> DEFINE o == InfoOf[e].order
  <2>1. o \in Orders /\ InfoOf[e].ref = o /\ InfoOf[e].status \in Statuses /\ e \in emitted
    BY <1>4, HubConstants DEF InbP!Promise!Handle, HubInv, RecordedWasEmitted
  <2>2. /\ note' = note
        /\ silver' = [silver EXCEPT ![o] = [status |-> InfoOf[e].status, ref |-> o]]
    BY <1>4, <2>1 DEF InbP!Promise!Handle
  <2>3. Jrn!Said(o, InfoOf[e].status)'
    BY <1>1, <2>1 DEF Jrn!Said
  <2>4. QED
    BY <1>1, <2>1, <2>2, <2>3 DEF HubInv, ShownWasEmitted, Jrn!Said
<1>5. ASSUME NEW o \in Orders, InbP!Promise!Mark(o) PROVE ShownWasEmitted'
  <2>1. PICK e \in dedup : InfoOf[e].status = "delivered" /\ InfoOf[e].ref = o
    BY <1>5 DEF InbP!Promise!Mark, InbP!Promise!IsDelivery
  <2>2. Jrn!Said(o, "delivered")'
    BY <1>1, <2>1, HubConstants DEF Jrn!Said, HubInv, RecordedWasEmitted
  <2>3. silver' = silver /\ note' = note \cup {o}
    BY <1>5 DEF InbP!Promise!Mark
  <2>4. QED
    BY <1>1, <2>2, <2>3 DEF HubInv, ShownWasEmitted, Jrn!Said
<1>6. ASSUME NEW o \in Orders, InbP!Promise!EditNote(o) PROVE ShownWasEmitted'
  BY <1>1, <1>6 DEF InbP!Promise!EditNote, HubInv, ShownWasEmitted, Jrn!Said
<1>7. ASSUME NEW e \in Events, InbP!Promise!Receive(e) \/ InbP!Promise!Bury(e)
      PROVE  ShownWasEmitted'
  BY <1>3, <1>7 DEF InbP!Promise!Receive, InbP!Promise!Bury
<1>8. ShownWasEmitted'
  BY <1>3, <1>4, <1>5, <1>6, <1>7 DEF InbP!Promise!Next, inPromised
<1>9. QED
  BY <1>2, <1>8 DEF HubInv

LEMMA HubStepKeepsInv ==
  ASSUME HubInv, RecordedWasEmitted', SessionInv, Reasons, Reasons',
         [HubNext]_hubVars, [InbP!Promise!Next]_inPromised
  PROVE  HubInv'
<1>1. ASSUME UNCHANGED <<dedup, silver, note, emitted, paris, accepted>>,
             posting' \subseteq posting
      PROVE  HubInv'
  BY <1>1 DEF HubInv, RecordedWasEmitted, ParisHasAccepted, EmittedForAccepted,
     ShownWasEmitted, Jrn!Said, ParisKey
<1>2. CASE RegisterWebhook \/ \E e \in Events : PostEnds(e)
  BY <1>1, <1>2 DEF RegisterWebhook, PostEnds, inVars, mcpVars, vars, worldVars
<1>3. CASE UNCHANGED hubVars
  BY <1>1, <1>3 DEF hubVars, inVars, parisVars, mcpVars, vars, worldVars
<1>4. QED
  BY <1>2, <1>3, OutboundKeepsHubInv, EmitKeepsHubInv, InwardKeepsHubInv DEF HubNext

(* The invariant of the hub, any number of operators included.             *)
THEOREM HubInvHolds == HubSpec => []HubInv
<1>1. HubInit => HubInv
  BY HubInitInv
<1>2. HubInv /\ RecordedWasEmitted' /\ SessionInv /\ Reasons /\ Reasons'
        /\ [HubNext]_hubVars /\ [InbP!Promise!Next]_inPromised => HubInv'
  BY HubStepKeepsInv
<1>3. QED
  BY <1>1, <1>2, HubRunsBothHalves, HubInboundPromised, SessionInvHolds, ReasonsHold, PTL
  DEF HubSpec

(* What get_order_status and Odoo's note show of an order was true once:   *)
(* Paris accepted it and gave it that status, whatever the workers, the    *)
(* operators, the receivers and the subscribers have done meanwhile.       *)
THEOREM HubShowsTheTruth == HubSpec => []HubTellsTheTruth
<1>1. ASSUME HubInv, NEW o \in Orders, NEW st, Jrn!Said(o, st)
      PROVE  parisAccepted[o] > 0
  BY <1>1 DEF HubInv, EmittedForAccepted, Jrn!Said, parisAccepted
<1>2. HubInv => HubTellsTheTruth
  BY <1>1 DEF HubInv, ShownWasEmitted, HubTellsTheTruth, Jrn!HubTellsTheTruth,
     Jrn!GetOrderStatus
<1>3. QED
  BY <1>2, HubInvHolds, PTL
-----------------------------------------------------------------------------
(***************************************************************************)
(* The journey.  With one operator both halves keep their promises, and a  *)
(* step of the hub is one of OrderJourney: of what the outbox promises for *)
(* all pairs it keeps the part that is about Paris.                        *)
(***************************************************************************)
AtParis(S) == {o \in Orders : ParisKey(o) \in S}

(* What the journey reads of a step of the outbox. *)
LEMMA ParisView ==
  /\ \A o \in Orders :
       /\ parisStage[o] = stageMap[ParisKey(o)]
       /\ parisAccepted[o] = accepted[ParisKey(o)]
       /\ o \in parisAnnounced <=> ParisKey(o) \in syncDlq
       /\ o \in parisDoubtful <=> ParisKey(o) \in doubtful
  /\ \A S : AtParis(S) \in SUBSET Orders
BY HubConstants
DEF parisStage, parisAccepted, parisAnnounced, parisDoubtful, stageMap, AtParis

LEMMA OutboundLeaves ==
  ASSUME Outbound
  PROVE  UNCHANGED <<Jrn!inboundVars, registered, emitted, posting \ dedup>>
BY DEF Outbound, inVars, Jrn!inboundVars

LEMMA CreatedAtParis ==
  ASSUME HubInv, Outbound, NEW A \in SUBSET Orders,
         \A o \in A : accepted'[ParisKey(o)] > 0,
         \A o \in Orders \ A : accepted'[ParisKey(o)] = accepted[ParisKey(o)]
  PROVE  paris' = Jrn!Created(A)
<1>1. ASSUME NEW o \in Orders
      PROVE  (paris[o] = "none" /\ accepted'[ParisKey(o)] > 0) <=> (o \in A /\ paris[o] = "none")
  BY DEF HubInv, ParisHasAccepted
<1>2. QED
  BY <1>1 DEF Outbound, Jrn!Created

(* A step that leaves the outside world alone leaves Paris alone. *)
LEMMA ParisStays ==
  ASSUME HubInv, Outbound, UNCHANGED worldVars
  PROVE  /\ paris' = paris
         /\ parisAccepted' = parisAccepted /\ parisAnnounced' = parisAnnounced
         /\ parisDoubtful' = parisDoubtful
<1>1. paris' = Jrn!Created({})
  BY CreatedAtParis DEF worldVars
<1>2. paris' = paris
  BY <1>1 DEF Jrn!Created, HubInv, ParisHasAccepted
<1>3. QED
  BY <1>2 DEF worldVars, parisAccepted, parisAnnounced, parisDoubtful, ParisKey

LEMMA EnqueueAtParis ==
  ASSUME HubInv, Outbound, NEW S \in SUBSET Key, Promise!Enqueue(S)
  PROVE  Jrn!Enqueue(AtParis(S))
<1>1. /\ \A k \in S : stageMap[k] = "absent"
      /\ stageMap' = [k \in Key |-> IF k \in S THEN "queued" ELSE stageMap[k]]
      /\ UNCHANGED worldVars
  BY DEF Promise!Enqueue, stageMap, worldVars
<1>2. Jrn!Out!Enqueue(AtParis(S))
  BY <1>1, HubConstants, ParisView, ParisStays
  DEF Jrn!Out!Enqueue, AtParis, parisStage, stageMap
<1>3. QED
  BY <1>1, <1>2, OutboundLeaves, ParisStays DEF Jrn!Enqueue, Jrn!parisVars

LEMMA ReplayAtParis ==
  ASSUME HubInv, Outbound, NEW S \in SUBSET Key, Promise!Requeue(S)
  PROVE  Jrn!Replay(AtParis(S))
<1>1. /\ \A k \in S : stageMap[k] = "dlq"
      /\ stageMap' = [k \in Key |-> IF k \in S THEN "queued" ELSE stageMap[k]]
      /\ UNCHANGED worldVars
  BY DEF Promise!Requeue, stageMap, worldVars
<1>2. Jrn!Out!Requeue(AtParis(S))
  BY <1>1, HubConstants, ParisView, ParisStays
  DEF Jrn!Out!Requeue, AtParis, parisStage, stageMap
<1>3. QED
  BY <1>1, <1>2, OutboundLeaves, ParisStays DEF Jrn!Replay, Jrn!parisVars

LEMMA SettleAtParis ==
  ASSUME HubInv, Outbound, NEW D \in SUBSET Key, NEW Q \in SUBSET Key, Promise!Settle(D, Q)
  PROVE  Jrn!Settle(AtParis(D), AtParis(Q))
<1>1. /\ D \cap Q = {}
      /\ \A k \in D : stageMap[k] = "queued" /\ accepted[k] > 0
      /\ \A k \in Q : /\ stageMap[k] = "queued" /\ k \in syncDlq
                      /\ accepted[k] = 0 \/ k \in doubtful
      /\ stageMap' = [k \in Key |-> IF k \in D THEN "done"
                                    ELSE IF k \in Q THEN "dlq" ELSE stageMap[k]]
      /\ UNCHANGED worldVars
  BY DEF Promise!Settle, Promise!Open, stageMap, worldVars
<1>2. Jrn!Out!Settle(AtParis(D), AtParis(Q))
  <2>1. AtParis(D) \cap AtParis(Q) = {}
    BY <1>1 DEF AtParis
  <2>2. \A o \in AtParis(D) : parisStage[o] = "queued" /\ parisAccepted[o] > 0
    BY <1>1, ParisView DEF AtParis
  <2>3. \A o \in AtParis(Q) :
          parisStage[o] = "queued" /\ o \in parisAnnounced /\ Jrn!Out!Open(o)
    BY <1>1, ParisView DEF AtParis, Jrn!Out!Open
  <2>4. parisStage' = [o \in Orders |-> IF o \in AtParis(D) THEN "done"
                                        ELSE IF o \in AtParis(Q) THEN "dlq" ELSE parisStage[o]]
    BY <1>1, HubConstants DEF AtParis, parisStage, stageMap
  <2>5. QED
    BY <1>1, <2>1, <2>2, <2>3, <2>4, ParisStays DEF Jrn!Out!Settle
<1>3. QED
  BY <1>1, <1>2, OutboundLeaves, ParisStays DEF Jrn!Settle, Jrn!parisVars

LEMMA PushAtParis ==
  ASSUME HubInv, Outbound, accepted \in [Key -> 0..2],
         NEW A \in SUBSET Key, NEW D \in SUBSET Key, NEW M \in SUBSET Key,
         Promise!Attempt(A, D, M)
  PROVE  Jrn!Push(AtParis(A), AtParis(D), AtParis(M))
<1>1. /\ \A k \in A \cup D \cup M : stageMap[k] # "absent"
      /\ \A k \in A \cup M : (stageMap[k] = "queued" /\ accepted[k] = 0) \/ k \in doubtful
      /\ accepted' = [k \in Key |-> IF k \notin A THEN accepted[k]
                                    ELSE IF accepted[k] = 0 THEN 1 ELSE 2]
      /\ doubtful' = doubtful \cup D /\ syncDlq' = syncDlq \cup M
      /\ stageMap' = stageMap
  BY DEF Promise!Attempt, Promise!Known, Promise!Open, stageMap
<1>2. Jrn!Out!Known(AtParis(A) \cup AtParis(D) \cup AtParis(M))
  BY <1>1, ParisView DEF Jrn!Out!Known, AtParis
<1>3. \A o \in AtParis(A) \cup AtParis(M) : Jrn!Out!Open(o)
  BY <1>1, ParisView DEF Jrn!Out!Open, AtParis
<1>4. parisAccepted' = [o \in Orders |-> IF o \notin AtParis(A) THEN parisAccepted[o]
                                         ELSE IF parisAccepted[o] = 0 THEN 1 ELSE 2]
  BY <1>1, HubConstants DEF parisAccepted, AtParis, ParisKey
<1>5. /\ parisDoubtful' = parisDoubtful \cup AtParis(D)
      /\ parisAnnounced' = parisAnnounced \cup AtParis(M)
  BY <1>1 DEF parisDoubtful, parisAnnounced, AtParis, ParisKey
<1>6. parisStage' = parisStage
  BY <1>1, HubConstants DEF parisStage, stageMap, ParisKey
<1>7. Jrn!Out!Attempt(AtParis(A), AtParis(D), AtParis(M))
  BY <1>2, <1>3, <1>4, <1>5, <1>6 DEF Jrn!Out!Attempt
<1>8. paris' = Jrn!Created(AtParis(A))
  <2>1. /\ \A o \in AtParis(A) : accepted'[ParisKey(o)] > 0
        /\ \A o \in Orders \ AtParis(A) : accepted'[ParisKey(o)] = accepted[ParisKey(o)]
    BY <1>1, HubConstants DEF AtParis
  <2>2. QED
    BY <2>1, ParisView, CreatedAtParis
<1>9. QED
  BY <1>7, <1>8, OutboundLeaves DEF Jrn!Push

LEMMA OutboundIsJourney ==
  ASSUME HubInv, accepted \in [Key -> 0..2], Outbound, [Promise!Next]_(Promise!vars)
  PROVE  [Jrn!Next]_(Jrn!vars)
<1>1. CASE UNCHANGED Promise!vars
  <2>1. UNCHANGED worldVars /\ stageMap' = stageMap
    BY <1>1 DEF Promise!vars, worldVars, stageMap
  <2>2. parisStage' = parisStage
    BY <2>1, HubConstants DEF parisStage, stageMap, ParisKey
  <2>3. QED
    BY <2>1, <2>2, ParisStays, OutboundLeaves DEF Jrn!vars, Jrn!outboxVars, Jrn!parisVars
<1>2. ASSUME NEW S \in SUBSET Key, Promise!Enqueue(S) \/ Promise!Requeue(S)
      PROVE  Jrn!Next
  BY <1>2, EnqueueAtParis, ReplayAtParis, ParisView DEF Jrn!Next
<1>3. ASSUME NEW A \in SUBSET Key, NEW D \in SUBSET Key, NEW M \in SUBSET Key,
             Promise!Attempt(A, D, M)
      PROVE  Jrn!Next
  BY <1>3, PushAtParis, ParisView DEF Jrn!Next
<1>4. ASSUME NEW D \in SUBSET Key, NEW Q \in SUBSET Key, Promise!Settle(D, Q)
      PROVE  Jrn!Next
  BY <1>4, SettleAtParis, ParisView DEF Jrn!Next
<1>5. QED
  BY <1>1, <1>2, <1>3, <1>4 DEF Promise!Next

(* An event is emitted, and goes out to the urls that are registered: it   *)
(* cannot have been recorded before.                                       *)
LEMMA EmitIsJourney ==
  ASSUME HubInv, NEW e \in Events, EmitWebhook(e)
  PROVE  Jrn!EmitWebhook(e)
<1>1. /\ UNCHANGED <<Jrn!outboxVars, Jrn!inboundVars, dedup>>
      /\ e \notin emitted /\ emitted' = emitted \cup {e}
  BY DEF EmitWebhook, Inb!Emit, Jrn!outboxVars, Jrn!inboundVars, mcpVars, vars, worldVars,
     parisStage, parisAccepted, parisAnnounced, parisDoubtful, ParisKey
<1>2. e \notin dedup
  BY <1>1 DEF HubInv, RecordedWasEmitted
<1>3. (posting \ dedup)' = IF registered THEN (posting \ dedup) \cup {e} ELSE posting \ dedup
  BY <1>1, <1>2 DEF EmitWebhook
<1>4. QED
  BY <1>1, <1>3 DEF EmitWebhook, Jrn!EmitWebhook

(* A post that ends before its event was recorded is one that failed. *)
LEMMA PostEndsIsJourney ==
  ASSUME NEW e \in Events, PostEnds(e)
  PROVE  [Jrn!Next]_(Jrn!vars)
<1>1. /\ UNCHANGED <<Jrn!outboxVars, Jrn!inboundVars, paris, registered, emitted, dedup>>
      /\ e \in posting /\ posting' = posting \ {e}
  BY DEF PostEnds, inVars, Jrn!outboxVars, Jrn!inboundVars, mcpVars, vars, worldVars,
     parisStage, parisAccepted, parisAnnounced, parisDoubtful, ParisKey
<1>2. CASE e \in dedup
  <2>1. (posting \ dedup)' = posting \ dedup
    BY <1>1, <1>2
  <2>2. QED
    BY <1>1, <2>1 DEF Jrn!vars, Jrn!parisVars
<1>3. CASE e \notin dedup
  <2>1. e \in posting \ dedup /\ (posting \ dedup)' = (posting \ dedup) \ {e}
    BY <1>1, <1>3
  <2>2. Jrn!DeliverFails(e)
    BY <1>1, <2>1 DEF Jrn!DeliverFails
  <2>3. QED
    BY <2>2 DEF Jrn!Next
<1>4. QED
  BY <1>2, <1>3

(* What the inbound half records was being posted; the rest is its own.    *)
LEMMA InwardIsJourney ==
  ASSUME Inward, [InbP!Promise!Next]_inPromised
  PROVE  [Jrn!Next]_(Jrn!vars)
<1>1. /\ UNCHANGED <<Jrn!outboxVars, paris, registered, emitted, posting>>
      /\ dedup' \subseteq dedup \cup posting
  BY DEF Inward, parisVars, Jrn!outboxVars, mcpVars, vars, worldVars,
     parisStage, parisAccepted, parisAnnounced, parisDoubtful, ParisKey
<1>2. ASSUME dedup' = dedup PROVE UNCHANGED Jrn!parisVars
  BY <1>1, <1>2 DEF Jrn!parisVars
<1>3. CASE UNCHANGED inPromised
  BY <1>1, <1>2, <1>3 DEF inPromised, Jrn!vars, Jrn!inboundVars
<1>4. ASSUME NEW e \in Events, InbP!Promise!Receive(e) PROVE [Jrn!Next]_(Jrn!vars)
  <2>1. dedup' = dedup \cup {e} /\ Jrn!In!Receive(e)
    BY <1>4 DEF InbP!Promise!Receive, Jrn!In!Receive
  <2>2. CASE e \in dedup
    <3>1. dedup' = dedup
      BY <2>1, <2>2
    <3>2. QED
      BY <1>1, <1>2, <2>1, <3>1 DEF Jrn!In!Receive, Jrn!vars, Jrn!inboundVars
  <2>3. CASE e \notin dedup
    <3>1. e \in posting \ dedup /\ (posting \ dedup)' = (posting \ dedup) \ {e}
      BY <1>1, <2>1, <2>3
    <3>2. Jrn!Deliver(e)
      BY <1>1, <2>1, <3>1 DEF Jrn!Deliver
    <3>3. QED
      BY <3>2 DEF Jrn!Next
  <2>4. QED
    BY <2>2, <2>3
<1>5. ASSUME NEW e \in Events, InbP!Promise!Handle(e) PROVE Jrn!Inward
  <2>1. Jrn!In!Handle(e) /\ dedup' = dedup
    BY <1>5 DEF InbP!Promise!Handle, InbP!Promise!IsDelivery, Jrn!In!Handle, Jrn!In!IsDelivery
  <2>2. QED
    BY <1>1, <1>2, <2>1 DEF Jrn!Inward
<1>6. ASSUME NEW o \in Orders, InbP!Promise!Mark(o) \/ InbP!Promise!EditNote(o)
      PROVE  Jrn!Inward
  <2>1. (Jrn!In!Mark(o) \/ Jrn!In!EditNote(o)) /\ dedup' = dedup
    BY <1>6 DEF InbP!Promise!Mark, InbP!Promise!EditNote, InbP!Promise!IsDelivery,
       Jrn!In!Mark, Jrn!In!EditNote, Jrn!In!IsDelivery
  <2>2. QED
    BY <1>1, <1>2, <2>1 DEF Jrn!Inward
<1>7. ASSUME NEW e \in Events PROVE ~InbP!Promise!Bury(e)
  BY HubConstants DEF InbP!Promise!Bury
<1>8. QED
  BY <1>3, <1>4, <1>5, <1>6, <1>7 DEF InbP!Promise!Next, Jrn!Next

LEMMA HubStepIsJourney ==
  ASSUME HubInv, Reasons, [HubNext]_hubVars,
         [Promise!Next]_(Promise!vars), [InbP!Promise!Next]_inPromised
  PROVE  [Jrn!Next]_(Jrn!vars)
<1>1. CASE Outbound
  BY <1>1, OutboundIsJourney DEF Reasons
<1>2. CASE RegisterWebhook
  <2>1. /\ UNCHANGED <<Jrn!outboxVars, Jrn!inboundVars, paris, emitted, posting \ dedup>>
        /\ ~registered /\ registered' = TRUE
    BY <1>2 DEF RegisterWebhook, inVars, Jrn!outboxVars, Jrn!inboundVars, mcpVars, vars,
       worldVars, parisStage, parisAccepted, parisAnnounced, parisDoubtful, ParisKey
  <2>2. Jrn!RegisterWebhook
    BY <2>1 DEF Jrn!RegisterWebhook
  <2>3. QED
    BY <2>2 DEF Jrn!Next
<1>3. ASSUME NEW e \in Events, EmitWebhook(e) \/ PostEnds(e) PROVE [Jrn!Next]_(Jrn!vars)
  BY <1>3, EmitIsJourney, PostEndsIsJourney DEF Jrn!Next
<1>4. CASE Inward
  BY <1>4, InwardIsJourney
<1>5. CASE UNCHANGED hubVars
  BY <1>5 DEF hubVars, inVars, parisVars, mcpVars, vars, worldVars, Jrn!vars, Jrn!outboxVars,
     Jrn!inboundVars, Jrn!parisVars, parisStage, parisAccepted, parisAnnounced, parisDoubtful,
     ParisKey
<1>6. QED
  BY <1>1, <1>2, <1>3, <1>4, <1>5 DEF HubNext

LEMMA HubInitIsJourney == HubInit => Jrn!Init
<1> SUFFICES ASSUME HubInit PROVE Jrn!Init
  OBVIOUS
<1>1. /\ outbox = [k \in Key |-> NoRow] /\ accepted = [k \in Key |-> 0]
      /\ syncDlq = {} /\ doubtful = {}
  BY DEF HubInit, McpInit, Init
<1>2. Jrn!Out!Init
  BY <1>1, HubConstants
  DEF Jrn!Out!Init, parisStage, parisAccepted, parisAnnounced, parisDoubtful, NoRow, StageOf
<1>3. Jrn!In!Init
  BY DEF HubInit, Inb!Init, Inb!NoOrder, Inb!None, Jrn!In!Init, Jrn!In!NoOrder
<1>4. emitted = {} /\ posting \ dedup = {}
  BY DEF HubInit, Inb!Init
<1>5. QED
  BY <1>2, <1>3, <1>4 DEF HubInit, Jrn!Init

(* Workers, tools, receivers, subscribers, reconciler and Paris together   *)
(* implement the journey.                                                  *)
THEOREM HubMakesJourneys ==
  ASSUME OneServer
  PROVE  HubSpec => HubMakesJourney
<1>1. HubInit => Jrn!Init
  BY HubInitIsJourney
<1>2. HubInv /\ Reasons /\ [HubNext]_hubVars /\ [Promise!Next]_(Promise!vars)
        /\ [InbP!Promise!Next]_inPromised => [Jrn!Next]_(Jrn!vars)
  BY HubStepIsJourney
<1>3. HubSpec => [][Promise!Next]_(Promise!vars)
  BY HubOutboundPromised
<1>4. QED
  BY <1>1, <1>2, <1>3, HubInvHolds, HubRunsBothHalves, HubInboundPromised, ReasonsHold, PTL
  DEF HubSpec, HubMakesJourney, Jrn!Spec

(* (Jrn and JrnP are the same module with the same substitutions.) *)
LEMMA SameJourney == Jrn!Spec => JrnP!Spec
<1>1. Jrn!Init => JrnP!Init
  BY
  DEF Jrn!Init, JrnP!Init, Jrn!Out!Init, JrnP!Out!Init, Jrn!In!Init, JrnP!In!Init,
      Jrn!In!NoOrder, JrnP!In!NoOrder
<1>2. [Jrn!Next]_(Jrn!vars) => [JrnP!Next]_(JrnP!vars)
  BY
  DEF Jrn!Enqueue, JrnP!Enqueue, Jrn!Replay, JrnP!Replay, Jrn!Created, JrnP!Created,
      Jrn!Push, JrnP!Push, Jrn!Settle, JrnP!Settle, Jrn!RegisterWebhook,
      JrnP!RegisterWebhook, Jrn!EmitWebhook, JrnP!EmitWebhook, Jrn!Deliver,
      JrnP!Deliver, Jrn!DeliverFails, JrnP!DeliverFails, Jrn!Inward, JrnP!Inward,
      Jrn!outboxVars, JrnP!outboxVars, Jrn!inboundVars, JrnP!inboundVars,
      Jrn!parisVars, JrnP!parisVars, Jrn!Next, JrnP!Next, Jrn!Out!Enqueue,
      JrnP!Out!Enqueue, Jrn!Out!Requeue, JrnP!Out!Requeue, Jrn!Out!Known,
      JrnP!Out!Known, Jrn!Out!Open, JrnP!Out!Open, Jrn!Out!Attempt, JrnP!Out!Attempt,
      Jrn!Out!Settle, JrnP!Out!Settle, Jrn!In!Receive, JrnP!In!Receive,
      Jrn!In!IsDelivery, JrnP!In!IsDelivery, Jrn!In!Handle, JrnP!In!Handle,
      Jrn!In!Mark, JrnP!In!Mark, Jrn!In!EditNote, JrnP!In!EditNote, Jrn!In!Bury,
      JrnP!In!Bury, Jrn!vars, JrnP!vars
<1>3. QED
  BY <1>1, <1>2, PTL DEF Jrn!Spec, JrnP!Spec

(* An order that has come back from Paris is a dead letter only after      *)
(* doubt: a theorem about the journey, hence about the hub.                *)
THEOREM HubDeadLettersAreUnsent ==
  ASSUME OneServer
  PROVE  HubSpec => []StuckMeansUnsent
<1>1. JrnP!StuckMeansUnsent => StuckMeansUnsent
  BY DEF StuckMeansUnsent, Jrn!StuckMeansUnsent, JrnP!StuckMeansUnsent,
     Jrn!DeadLetters, JrnP!DeadLetters, Jrn!GetOrderStatus, JrnP!GetOrderStatus
<1>2. HubSpec => HubMakesJourney
  BY HubMakesJourneys
<1>3. QED
  BY <1>1, <1>2, SameJourney, JourneyDeadLetters, PTL DEF HubMakesJourney

(* An order that has come back from Paris is sent there again only after   *)
(* doubt, by the same argument.                                            *)
THEOREM HubKnownOrdersStay ==
  ASSUME OneServer
  PROVE  HubSpec => KnownOrderIsNotSentAgain
<1> DEFINE Step == \A o \in Orders :
      parisAccepted'[o] # parisAccepted[o] /\ Jrn!GetOrderStatus(o) # "none" => o \in parisDoubtful
<1> DEFINE StepP == \A o \in Orders :
      parisAccepted'[o] # parisAccepted[o] /\ JrnP!GetOrderStatus(o) # "none" => o \in parisDoubtful
<1>1. [StepP]_(JrnP!vars) => [Step]_(Jrn!vars)
  BY DEF JrnP!GetOrderStatus, Jrn!GetOrderStatus, JrnP!vars, Jrn!vars, JrnP!outboxVars,
     Jrn!outboxVars, JrnP!inboundVars, Jrn!inboundVars, JrnP!parisVars, Jrn!parisVars
<1>2. JrnP!KnownOrderIsNotSentAgain => KnownOrderIsNotSentAgain
  BY <1>1, PTL
  DEF JrnP!KnownOrderIsNotSentAgain, KnownOrderIsNotSentAgain, Jrn!KnownOrderIsNotSentAgain
<1>3. HubSpec => HubMakesJourney
  BY HubMakesJourneys
<1>4. QED
  BY <1>2, <1>3, SameJourney, JourneyKnownOrders, PTL DEF HubMakesJourney
=============================================================================
