---------------------------- MODULE OutboxWorker ----------------------------
(***************************************************************************)
(* The outbox worker: poll Odoo for confirmed orders, put one row per      *)
(* (order, marketplace) in the outbox table, push the due rows through the *)
(* adapters, retry with backoff, and give a row up to the dead-letter      *)
(* topic after MaxAttempts failures.                                       *)
(*                                                                         *)
(* A worker takes a whole batch in ONE database transaction: it locks the  *)
(* rows (FOR UPDATE SKIP LOCKED), works on its own copy of them and writes *)
(* all outcomes back at the commit.  What it tells the outside world on    *)
(* the way (a push, a dead-letter message) cannot be rolled back.          *)
(***************************************************************************)
EXTENDS Naturals, FiniteSets

CONSTANTS
  Orders,        \* Odoo sale orders
  Targets,       \* names in the adapter registry
  Workers,       \* outbox worker processes
  Empty,         \* orders none of whose lines has a product
  Invalid,       \* orders with a product line whose int(quantity) is not > 0
  Healthy,       \* marketplaces whose adapter accepts every push
  Rank,          \* position of a pair in the two nested enqueue loops
  MaxAttempts,   \* settings.outbox_max_attempts
  BatchSize,     \* process_pending's batch_size
  MaxFaults      \* bound on crashes and lost database sessions

Key == Orders \X Targets
OrderOf(k) == k[1]
TargetOf(k) == k[2]
Span == Cardinality(Key)

ASSUME RankAssumption ==
  /\ Rank \in [Key -> 1..Span]
  /\ \A j, k \in Key : Rank[j] = Rank[k] => j = k
ASSUME BoundAssumption ==
  /\ MaxAttempts \in Nat \ {0}
  /\ BatchSize \in Nat \ {0}
  /\ MaxFaults \in Nat
ASSUME DomainAssumption ==
  /\ IsFiniteSet(Orders) /\ IsFiniteSet(Targets)
  /\ Empty \subseteq Orders /\ Invalid \subseteq Orders /\ Healthy \subseteq Targets

VARIABLES
  odoo,          \* odoo[o]: sale.order.state
  outbox,        \* outbox[k]: the committed row of the pair, NoRow if none
  lastId,        \* the id sequence of the outbox table
  pc,            \* pc[w]: the step of run_once the worker is at
  fetched,       \* fetched[w]: the orders fetch_confirmed_orders returned
  todo,          \* todo[w]: rows of the batch not yet processed
  tx,            \* tx[w]: the ORM copies of the batch's rows, NoRow elsewhere
  lost,          \* lost[w]: the server has dropped the session of the batch
  accepted,      \* accepted[k]: orders the marketplace took: 0, 1, 2 = more
  syncDlq,       \* pairs with a message on the dead-letter topic
  doubtful,      \* history: pairs whose acceptance may go unrecorded
  faults         \* crashes and lost sessions so far

workerVars == <<pc, fetched, todo, tx, lost>>
worldVars  == <<accepted, syncDlq, doubtful>>
vars == <<odoo, outbox, lastId, workerVars, worldVars, faults>>

(***************************************************************************)
(* A row: status, attempts, "next_attempt_at has passed", "error_log is    *)
(* not NULL" and the primary key.  The payload never changes after the     *)
(* insert and is left out.                                                 *)
(***************************************************************************)
Status == {"none", "pending", "done", "dlq"}
Row == [status : Status, attempts : 0..MaxAttempts, due : BOOLEAN,
        error : BOOLEAN, id : Nat]
NoRow == [status |-> "none", attempts |-> 0, due |-> FALSE,
          error |-> FALSE, id |-> 0]
NewRow(id) == [status |-> "pending", attempts |-> 0, due |-> TRUE,
               error |-> FALSE, id |-> id]

OdooState == {"draft", "sale", "done", "cancel"}
ConfirmedStates == {"sale", "done"}
(* Mutant: the poll asks for state "sale" only. *)
ConfirmedSaleOnly == {o \in Orders : odoo[o] = "sale"}

Confirmed == {o \in Orders : odoo[o] \in ConfirmedStates}

Batch(w)  == {k \in Key : tx[w][k].status # "none"}
Locked(w) == IF lost[w] THEN {} ELSE Batch(w)
DoneIn(w) == {k \in Key : tx[w][k].status = "done"}
LockedByWorkers == UNION {Locked(w) : w \in Workers}

Init ==
  /\ odoo = [o \in Orders |-> "draft"]
  /\ outbox = [k \in Key |-> NoRow]
  /\ lastId = 0
  /\ pc = [w \in Workers |-> "idle"]
  /\ fetched = [w \in Workers |-> {}]
  /\ todo = [w \in Workers |-> {}]
  /\ tx = [w \in Workers |-> [k \in Key |-> NoRow]]
  /\ lost = [w \in Workers |-> FALSE]
  /\ accepted = [k \in Key |-> 0]
  /\ syncDlq = {}
  /\ doubtful = {}
  /\ faults = 0
-----------------------------------------------------------------------------
(* Sales staff confirm, lock or cancel an order in Odoo.  Unlocking and     *)
(* reopening are left out: an order that has rows never gets others.       *)
OdooMove == {<<"draft", "sale">>, <<"draft", "cancel">>, <<"sale", "done">>,
             <<"sale", "cancel">>}

OdooChange(o) ==
  /\ \E m \in OdooMove : odoo[o] = m[1] /\ odoo' = [odoo EXCEPT ![o] = m[2]]
  /\ UNCHANGED <<outbox, lastId, workerVars, worldVars, faults>>

(***************************************************************************)
(* fetch_confirmed_orders.  Building the DTO of an order with a line whose *)
(* truncated quantity is 0 raises, so run_once ends before it has enqueued *)
(* or pushed anything and run_forever starts over: the worker stays idle.  *)
(***************************************************************************)
Fetch(w) ==
  /\ pc[w] = "idle"
  /\ Confirmed \cap Invalid = {}
  /\ fetched' = [fetched EXCEPT ![w] = Confirmed \ Empty]
  /\ pc' = [pc EXCEPT ![w] = "fetched"]
  /\ UNCHANGED <<odoo, outbox, lastId, todo, tx, lost, worldVars, faults>>

(***************************************************************************)
(* enqueue_orders: one transaction, one INSERT ... ON CONFLICT DO NOTHING  *)
(* per pair.  A conflicting insert also takes a value of the id sequence,  *)
(* so ids have gaps; a call that inserts nothing leaves lastId alone here, *)
(* for only the order of the ids matters.                                  *)
(***************************************************************************)
(* Mutant: ON CONFLICT DO UPDATE. *)
NewKeysUpsert(w) == {k \in Key : OrderOf(k) \in fetched[w]}

NewKeys(w) == {k \in Key : OrderOf(k) \in fetched[w] /\ outbox[k].status = "none"}

(* Mutant: a session per insert, and a death half-way. *)
EnqueueHalf(w) ==
  /\ pc[w] = "fetched"
  /\ \E S \in SUBSET NewKeys(w) :
       outbox' = [k \in Key |-> IF k \in S THEN NewRow(lastId + Rank[k]) ELSE outbox[k]]
  /\ lastId' = IF NewKeys(w) = {} THEN lastId ELSE lastId + Span
  /\ fetched' = [fetched EXCEPT ![w] = {}]
  /\ pc' = [pc EXCEPT ![w] = "enqueued"]
  /\ UNCHANGED <<odoo, todo, tx, lost, worldVars, faults>>

Enqueue(w) ==
  /\ pc[w] = "fetched"
  /\ outbox' = [k \in Key |-> IF k \in NewKeys(w) THEN NewRow(lastId + Rank[k])
                              ELSE outbox[k]]
  /\ lastId' = IF NewKeys(w) = {} THEN lastId ELSE lastId + Span
  /\ fetched' = [fetched EXCEPT ![w] = {}]
  /\ pc' = [pc EXCEPT ![w] = "enqueued"]
  /\ UNCHANGED <<odoo, todo, tx, lost, worldVars, faults>>

(* Mutant: the query without FOR UPDATE SKIP LOCKED. *)
EligibleUnlocked(held) ==
  {k \in Key : outbox[k].status = "pending" /\ outbox[k].due}

(***************************************************************************)
(* The query of process_pending: the BatchSize oldest due pending rows     *)
(* that no other session has locked; "held" are the rows locked by         *)
(* sessions that are not workers'.                                         *)
(***************************************************************************)
Eligible(held) ==
  {k \in Key : outbox[k].status = "pending" /\ outbox[k].due}
    \ (LockedByWorkers \cup held)

FirstOf(S, E) ==
  /\ S \subseteq E
  /\ Cardinality(S) <= BatchSize
  /\ Cardinality(S) < BatchSize => S = E
  /\ \A k \in S, j \in E \ S : outbox[k].id < outbox[j].id

SelectBatch(w, held) ==
  /\ pc[w] = "enqueued"
  /\ \E S \in SUBSET Eligible(held) :
       /\ FirstOf(S, Eligible(held))
       /\ todo' = [todo EXCEPT ![w] = S]
       /\ tx' = [tx EXCEPT ![w] = [k \in Key |-> IF k \in S THEN outbox[k] ELSE NoRow]]
  /\ pc' = [pc EXCEPT ![w] = "pushing"]
  /\ UNCHANGED <<odoo, outbox, lastId, fetched, lost, worldVars, faults>>

Select(w) == SelectBatch(w, {})
-----------------------------------------------------------------------------
(* process_entry, for the oldest row of the batch still to be processed. *)
IsNext(w, k) ==
  /\ pc[w] = "pushing"
  /\ k \in todo[w]
  /\ \A j \in todo[w] : tx[w][k].id <= tx[w][j].id

Accept(k) == accepted' = [accepted EXCEPT ![k] = IF @ = 0 THEN 1 ELSE 2]

(* A push that fails may have reached the marketplace all the same (a      *)
(* timeout after the request was served): then nobody records it.          *)
FailedPush(k, hit, unrecorded) ==
  /\ TargetOf(k) \notin Healthy
  /\ IF hit THEN Accept(k) ELSE UNCHANGED accepted
  /\ doubtful' = doubtful \cup unrecorded \cup (IF hit THEN {k} ELSE {})

(* Mutant: one failure too many. *)
LastAttemptLate(w, k) == tx[w][k].attempts + 1 > MaxAttempts

LastAttempt(w, k) == tx[w][k].attempts + 1 >= MaxAttempts

(* The session is closed or dies: the copies and the locks are gone. *)
Reset(w) ==
  /\ pc' = [pc EXCEPT ![w] = "idle"]
  /\ fetched' = [fetched EXCEPT ![w] = {}]
  /\ todo' = [todo EXCEPT ![w] = {}]
  /\ tx' = [tx EXCEPT ![w] = [k \in Key |-> NoRow]]
  /\ lost' = [lost EXCEPT ![w] = FALSE]

Processed(w, k, row) ==
  /\ tx' = [tx EXCEPT ![w][k] = row]
  /\ todo' = [todo EXCEPT ![w] = @ \ {k}]
  /\ UNCHANGED <<odoo, outbox, lastId, pc, fetched, lost, faults>>

(* Mutant: error_log is not cleared. *)
PushOkKeepsError(w, k) ==
  /\ IsNext(w, k)
  /\ Accept(k)
  /\ Processed(w, k, [tx[w][k] EXCEPT !.status = "done"])
  /\ UNCHANGED <<syncDlq, doubtful>>

(* Mutant: the outcome of a push that succeeded is not written to the row. *)
PushOkForgotten(w, k) ==
  /\ IsNext(w, k)
  /\ Accept(k)
  /\ Processed(w, k, tx[w][k])
  /\ UNCHANGED <<syncDlq, doubtful>>

PushOk(w, k) ==
  /\ IsNext(w, k)
  /\ Accept(k)
  /\ Processed(w, k, [tx[w][k] EXCEPT !.status = "done", !.error = FALSE])
  /\ UNCHANGED <<syncDlq, doubtful>>

(* Mutant: the exception handler falls through to the success path. *)
PushRetryFallsThrough(w, k) ==
  /\ IsNext(w, k)
  /\ ~LastAttempt(w, k)
  /\ \E hit \in BOOLEAN : FailedPush(k, hit, {})
  /\ Processed(w, k, [tx[w][k] EXCEPT !.attempts = @ + 1, !.status = "done"])
  /\ UNCHANGED syncDlq

(* Mutant: a failed push is raised to run_forever. *)
PushRetryRaises(w, k) ==
  /\ IsNext(w, k)
  /\ ~LastAttempt(w, k)
  /\ \E hit \in BOOLEAN : FailedPush(k, hit, DoneIn(w))
  /\ Reset(w)
  /\ UNCHANGED <<odoo, outbox, lastId, syncDlq, faults>>

PushRetry(w, k) ==
  /\ IsNext(w, k)
  /\ ~LastAttempt(w, k)
  /\ \E hit \in BOOLEAN : FailedPush(k, hit, {})
  /\ Processed(w, k, [tx[w][k] EXCEPT !.attempts = @ + 1, !.error = TRUE,
                                      !.status = "pending", !.due = FALSE])
  /\ UNCHANGED syncDlq

PushDead(w, k) ==
  /\ IsNext(w, k)
  /\ LastAttempt(w, k)
  /\ \E hit \in BOOLEAN : FailedPush(k, hit, {})
  /\ syncDlq' = syncDlq \cup {k}
  /\ Processed(w, k, [tx[w][k] EXCEPT !.attempts = @ + 1, !.error = TRUE,
                                      !.status = "dlq"])

(* Mutant: the publisher's exception is swallowed. *)
DlqPublishSwallowed(w, k) ==
  /\ IsNext(w, k)
  /\ LastAttempt(w, k)
  /\ \E hit \in BOOLEAN : FailedPush(k, hit, {})
  /\ Processed(w, k, [tx[w][k] EXCEPT !.attempts = @ + 1, !.error = TRUE,
                                      !.status = "dlq"])
  /\ UNCHANGED syncDlq

(***************************************************************************)
(* publisher.publish raises inside process_entry: session_scope rolls the  *)
(* whole batch back, the outcomes of its other rows included, and          *)
(* run_forever swallows the exception.  A publish that times out may have  *)
(* put the message on the topic ("out").                                   *)
(***************************************************************************)
DlqPublishRaises(w, k) ==
  /\ IsNext(w, k)
  /\ LastAttempt(w, k)
  /\ \E hit \in BOOLEAN : FailedPush(k, hit, DoneIn(w))
  /\ \E out \in BOOLEAN : syncDlq' = IF out THEN syncDlq \cup {k} ELSE syncDlq
  /\ Reset(w)
  /\ UNCHANGED <<odoo, outbox, lastId, faults>>

(* session.commit() writes every row of the batch back. *)
Commit(w) ==
  /\ pc[w] = "pushing"
  /\ todo[w] = {}
  /\ ~lost[w]
  /\ outbox' = [k \in Key |-> IF k \in Batch(w) THEN tx[w][k] ELSE outbox[k]]
  /\ Reset(w)
  /\ UNCHANGED <<odoo, lastId, worldVars, faults>>

(* The commit over a lost session raises; run_forever goes on. *)
CommitFails(w) ==
  /\ pc[w] = "pushing"
  /\ todo[w] = {}
  /\ lost[w]
  /\ Reset(w)
  /\ UNCHANGED <<odoo, outbox, lastId, worldVars, faults>>
-----------------------------------------------------------------------------
(***************************************************************************)
(* The server drops the session between the query and the commit.  The     *)
(* worker issues no SQL in between, so it pushes on without noticing and   *)
(* without its locks: from here on every row of the batch is doubtful.     *)
(***************************************************************************)
SessionLost(w) ==
  /\ faults < MaxFaults
  /\ pc[w] = "pushing"
  /\ ~lost[w]
  /\ lost' = [lost EXCEPT ![w] = TRUE]
  /\ doubtful' = doubtful \cup Batch(w)
  /\ faults' = faults + 1
  /\ UNCHANGED <<odoo, outbox, lastId, pc, fetched, todo, tx, accepted, syncDlq>>

(* The process is killed (or the database refuses a statement of the       *)
(* cycle) and a later cycle starts from the top.                           *)
Crash(w) ==
  /\ faults < MaxFaults
  /\ pc[w] # "idle"
  /\ doubtful' = doubtful \cup DoneIn(w)
  /\ Reset(w)
  /\ faults' = faults + 1
  /\ UNCHANGED <<odoo, outbox, lastId, accepted, syncDlq>>

(* Time passes next_attempt_at = now + _backoff(attempts). *)
BackoffExpires(k) ==
  /\ outbox[k].status = "pending"
  /\ ~outbox[k].due
  /\ outbox' = [outbox EXCEPT ![k].due = TRUE]
  /\ UNCHANGED <<odoo, lastId, workerVars, worldVars, faults>>

Push(w, k) == PushOk(w, k) \/ PushRetry(w, k) \/ PushDead(w, k) \/ DlqPublishRaises(w, k)

Environment ==
  \/ \E o \in Orders : OdooChange(o)
  \/ \E k \in Key : BackoffExpires(k)

WorkerStep(w) ==
  \/ Fetch(w) \/ Enqueue(w)
  \/ \E k \in Key : Push(w, k)
  \/ Commit(w) \/ CommitFails(w)
  \/ SessionLost(w) \/ Crash(w)

Next ==
  \/ Environment
  \/ \E w \in Workers : Select(w) \/ WorkerStep(w)

Spec == Init /\ [][Next]_vars
-----------------------------------------------------------------------------
(* Every variable has its type. *)
TypeOK ==
  /\ odoo \in [Orders -> OdooState]
  /\ outbox \in [Key -> Row]
  /\ lastId \in Nat
  /\ pc \in [Workers -> {"idle", "fetched", "enqueued", "pushing"}]
  /\ fetched \in [Workers -> SUBSET Orders]
  /\ todo \in [Workers -> SUBSET Key]
  /\ tx \in [Workers -> [Key -> Row]]
  /\ lost \in [Workers -> BOOLEAN]
  /\ accepted \in [Key -> 0..2]
  /\ syncDlq \subseteq Key
  /\ doubtful \subseteq Key
  /\ faults \in 0..MaxFaults

(***************************************************************************)
(* No two sessions work on one row, and while a worker holds a row the     *)
(* table still says "pending": what a worker decides about a row it        *)
(* decides about the row's latest version (FOR UPDATE SKIP LOCKED).        *)
(***************************************************************************)
BatchIsOwned ==
  \A w \in Workers : \A k \in Locked(w) :
    /\ outbox[k].status = "pending"
    /\ \A v \in Workers \ {w} : k \notin Locked(v)

(* A row is "done" only if its marketplace took the order, whatever was    *)
(* rolled back, retried or lost in between.                                *)
DoneMeansAccepted == \A k \in Key : outbox[k].status = "done" => accepted[k] > 0

(* A row is in the dead-letter state only if its message is on the topic   *)
(* the operators watch; the converse does not hold (the message may be     *)
(* published by a batch that is rolled back).                              *)
DlqMeansAnnounced == \A k \in Key : outbox[k].status = "dlq" => k \in syncDlq

(* A marketplace gets an order twice only when the record of the first     *)
(* acceptance may have been lost: a batch rolled back, a dropped session,  *)
(* a push that timed out after it was served.                              *)
DuplicateOnlyAfterDoubt == \A k \in Key : accepted[k] = 2 => k \in doubtful

(* What trace_order and drain_dlq show an operator is true: a dead row has *)
(* used all its attempts and says why, a row that failed says why, and a   *)
(* row done says nothing.                                                  *)
RowTellsItsStory ==
  \A k \in Key :
    /\ outbox[k].status = "dlq" => outbox[k].attempts = MaxAttempts /\ outbox[k].error
    /\ outbox[k].status = "pending" =>
         /\ outbox[k].attempts < MaxAttempts
         /\ outbox[k].error <=> outbox[k].attempts > 0
    /\ outbox[k].status = "done" => ~outbox[k].error

(* An order is queued for every marketplace or for none: a worker that     *)
(* dies half-way through enqueue_orders leaves no partly queued order.     *)
OrderQueuedForAllTargets ==
  \A o \in Orders, t, u \in Targets :
    outbox[<<o, t>>].status = "none" <=> outbox[<<o, u>>].status = "none"

(* Without an operator a settled row never changes again, a row never      *)
(* loses a recorded attempt and gains at most one per commit, and keeps    *)
(* its id (re-enqueuing an order is a no-op).                              *)
RowHistory ==
  [][\A k \in Key :
       LET old == outbox[k] new == outbox'[k]
       IN /\ old.status \in {"done", "dlq"} => new = old
          /\ new.attempts \in {old.attempts, old.attempts + 1}
          /\ old.status # "none" => new.id = old.id]_vars
-----------------------------------------------------------------------------
(***************************************************************************)
(* The hub keeps OutboxPromise: a row's status is the pair's stage.        *)
(***************************************************************************)
StageOf == [none |-> "absent", pending |-> "queued", done |-> "done", dlq |-> "dlq"]

Promise == INSTANCE OutboxPromise
             WITH stage <- [k \in Key |-> StageOf[outbox[k].status]],
                  announced <- syncDlq

(* Every step of the workers is a step of the promise or changes nothing   *)
(* of it: no row is settled without its reason, none leaves a settled      *)
(* stage, and no duplicate is sent without doubt.                          *)
KeepsPromise == Promise!Spec
-----------------------------------------------------------------------------
(***************************************************************************)
(* Fairness.  run_forever loops for ever, Odoo and the database answer, a  *)
(* killed worker is started again, and time passes.  "Dead-letter topic    *)
(* up" is the only strong assumption: a publish that is tried again and    *)
(* again succeeds in the end.                                              *)
(***************************************************************************)
LoopFairness ==
  /\ \A w \in Workers :
       /\ WF_vars(Fetch(w)) /\ WF_vars(Enqueue(w)) /\ WF_vars(Select(w))
       /\ WF_vars(\E k \in Key : Push(w, k))
       /\ WF_vars(Commit(w)) /\ WF_vars(CommitFails(w))
  /\ \A k \in Key : WF_vars(BackoffExpires(k))

TopicFairness == \A w \in Workers, k \in Key : SF_vars(PushDead(w, k))

FairSpec == Spec /\ LoopFairness /\ TopicFairness
OutageSpec == Spec /\ LoopFairness

Settled(k) == outbox[k].status \in {"done", "dlq"}

(* No row waits for ever: it is done or dead in the end. *)
QueuedIsSettled == \A k \in Key : outbox[k].status = "pending" ~> Settled(k)

(* A row of a marketplace that works is done in the end, whatever the      *)
(* rows of the other marketplaces go through.                              *)
HealthyIsSent ==
  \A k \in Key : TargetOf(k) \in Healthy =>
    (outbox[k].status = "pending" ~> outbox[k].status = "done")

(* An order that is confirmed and stays so is settled everywhere. *)
ConfirmedIsSettled ==
  \A o \in Orders \ Empty :
    <>[](odoo[o] \in ConfirmedStates) => <>(\A t \in Targets : Settled(<<o, t>>))
=============================================================================
