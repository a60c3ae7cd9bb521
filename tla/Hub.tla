-------------------------------- MODULE Hub --------------------------------
(***************************************************************************)
(* The hub as it runs: the workers and the operators' tools of             *)
(* McpWriteTools, the receivers, subscribers and reconciler of Inbound,    *)
(* and paris-mock between them.  The two halves never look at each other:  *)
(* an order goes out when Paris accepts a push of its row, and comes back  *)
(* in the webhooks that Paris posts.  OrderJourney is what all of them     *)
(* together implement.  Other marketplaces are pushed to, but the webhooks *)
(* are those of Paris.                                                     *)
(***************************************************************************)
EXTENDS McpWriteTools

CONSTANTS
  Paris,         \* paris-mock's name in the adapter registry
  Statuses,      \* statuses that paris-mock's operator may give an order
  Events,        \* the events that paris-mock may emit
  InfoOf,        \* InfoOf[e]: what normalize_event makes of the event
  NoRef,         \* the reference of an event that names no sale order
  Receivers, Subscribers, Reconciler, PullSize, Supervised,   \* see Inbound
  MaxInFaults,   \* Inbound's bound on raising calls, deaths and ignored acks
  MaxEdits       \* bound on notes overwritten by hand in Odoo

VARIABLES
  answered, dedup, bronze, receiving, published, unacked, pulled, current,
  marked, acks, silver, handled, poison, note, scan, down, inFaults, edits,
  paris,         \* paris[o]: status of o's row in paris_orders, or "none"
  registered,    \* the receiver's url is in paris_webhooks
  emitted,       \* events emitted so far
  posting        \* events that _deliver is posting to the receiver

ParisKey(o) == <<o, Paris>>

(* What the journey knows of the hub: of the outbox the rows of Paris, of  *)
(* the posts those whose event is not recorded yet.                        *)
parisStage     == [o \in Orders |-> StageOf[outbox[ParisKey(o)].status]]
parisAccepted  == [o \in Orders |-> accepted[ParisKey(o)]]
parisAnnounced == {o \in Orders : ParisKey(o) \in syncDlq}
parisDoubtful  == {o \in Orders : ParisKey(o) \in doubtful}

Jrn == INSTANCE OrderJourney WITH
  stage     <- parisStage,
  accepted  <- parisAccepted,
  announced <- parisAnnounced,
  doubtful  <- parisDoubtful,
  received  <- dedup,
  dead      <- {p[1] : p \in poison},
  edited    <- edits > 0,
  posting   <- posting \ dedup

ASSUME HubAssumption ==
  /\ Jrn!EventsOfParis /\ Paris \in Targets /\ Statuses \subseteq STRING
  /\ "none" \notin Events /\ NoRef \notin Orders
  /\ MaxInFaults \in Nat /\ MaxEdits \in Nat
  /\ PullSize \in Nat \ {0} /\ Supervised \in BOOLEAN

Inb == INSTANCE Inbound WITH
  MarketOrders <- Orders, Refs <- Orders, OdooOrders <- Orders,
  MaxFaults <- MaxInFaults, faults <- inFaults

inVars == <<answered, dedup, bronze, receiving, published, unacked, pulled, current,
            marked, acks, silver, handled, poison, note, scan, down, inFaults, edits>>
parisVars == <<paris, registered, emitted, posting>>
hubVars == <<mcpVars, inVars, parisVars>>

HubInit ==
  /\ McpInit /\ Inb!Init
  /\ paris = [o \in Orders |-> "none"]
  /\ registered = FALSE
  /\ posting = {}
-----------------------------------------------------------------------------
(* A step of the workers, of Odoo or of the tools.  If Paris accepts an    *)
(* order, create_order inserts its row unless external_ref has one.        *)
Outbound ==
  /\ McpNext
  /\ paris' = [o \in Orders |->
                 IF paris[o] = "none" /\ accepted'[ParisKey(o)] > 0 THEN "created"
                                                                    ELSE paris[o]]
  /\ UNCHANGED <<inVars, registered, emitted, posting>>

(* register_webhook: a url is inserted once. *)
RegisterWebhook ==
  /\ ~registered
  /\ registered' = TRUE
  /\ UNCHANGED <<mcpVars, inVars, paris, emitted, posting>>

(* Mutant: an order that Paris does not have is not answered with 404. *)
EmitAny(e) ==
  /\ Inb!Emit(e)
  /\ paris' = [paris EXCEPT ![InfoOf[e].order] = InfoOf[e].status]
  /\ posting' = IF registered THEN posting \cup {e} ELSE posting
  /\ UNCHANGED <<mcpVars, registered>>

(* emit_webhook: 404 for an order that Paris does not have; then the       *)
(* status is committed and the event posted to the urls read with it.      *)
EmitWebhook(e) ==
  /\ paris[InfoOf[e].order] # "none"
  /\ Inb!Emit(e)
  /\ paris' = [paris EXCEPT ![InfoOf[e].order] = InfoOf[e].status]
  /\ posting' = IF registered THEN posting \cup {e} ELSE posting
  /\ UNCHANGED <<mcpVars, registered>>

(* The post is answered, fails or times out; it is not repeated. *)
PostEnds(e) ==
  /\ e \in posting
  /\ posting' = posting \ {e}
  /\ UNCHANGED <<mcpVars, inVars, paris, registered, emitted>>

(* A step of the inbound half: it records only what is being posted. *)
Inward ==
  /\ Inb!Next /\ dedup' \subseteq dedup \cup posting
  /\ UNCHANGED <<mcpVars, parisVars>>

HubNext ==
  \/ Outbound
  \/ RegisterWebhook
  \/ \E e \in Events : EmitWebhook(e) \/ PostEnds(e)
  \/ Inward

HubSpec == HubInit /\ [][HubNext]_hubVars
-----------------------------------------------------------------------------
(* What get_order_status and Odoo's note show of an order was true once:   *)
(* Paris accepted the order and gave it that status, however often its row *)
(* was pushed, rolled back or replayed and its webhooks were posted, lost, *)
(* redelivered or reordered.                                               *)
HubTellsTheTruth == Jrn!HubTellsTheTruth

(* An order that get_dlq_depth counts as stuck although the hub has heard  *)
(* of it from Paris is one whose acceptance may have gone unrecorded.      *)
StuckMeansUnsent == Jrn!StuckMeansUnsent

(* An order that has come back from Paris is sent there again, by a worker *)
(* or after a replay, only if its acceptance was in doubt.                 *)
KnownOrderIsNotSentAgain == Jrn!KnownOrderIsNotSentAgain

(* Workers, tools, receivers, subscribers, reconciler and Paris together   *)
(* take only steps of OrderJourney: the promises of the two halves say all *)
(* that the journey needs to know of them.                                 *)
HubMakesJourney == Jrn!Spec
=============================================================================
