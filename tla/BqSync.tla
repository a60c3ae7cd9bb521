------------------------------- MODULE BqSync -------------------------------
(***************************************************************************)
(* bq_sync: a job that copies a Postgres table (webhook_log by             *)
(* received_at, orders by updated_at) to BigQuery, in batches, starting    *)
(* after the largest timestamp BigQuery already has.                       *)
(*                                                                         *)
(* A row is named by its timestamp, which is the start of the transaction  *)
(* that inserts it (server default now()): transactions that overlap may   *)
(* commit in another order.                                                *)
(***************************************************************************)
EXTENDS Naturals, Sequences, FiniteSets, FiniteSetsExt

CONSTANTS
  MaxRows,       \* bound on the rows of the table
  Writers,       \* processes that insert rows
  MaxVersion,    \* 1 for webhook_log; more for orders, which are updated
  BatchSize,     \* settings.bq_batch_size
  Provisioned,   \* the BigQuery table exists before the first run
  MaxFaults,     \* bound on insert_rows calls that raise
  MaxBackfills   \* bound on runs of scripts/backfill_bronze.py

ASSUME BqBounds ==
  /\ MaxRows \in Nat \ {0} /\ MaxVersion \in Nat \ {0} /\ BatchSize \in Nat \ {0}
  /\ MaxFaults \in Nat /\ MaxBackfills \in Nat /\ Provisioned \in BOOLEAN

Rows == 1..MaxRows

VARIABLES
  clock,         \* the timestamp of the last transaction that began
  open,          \* open[w]: the row of w's open transaction, 0 if none
  version,       \* version[r]: the version of the committed row, 0 if none
  created,       \* the BigQuery table exists
  bq,            \* bq[r]: the versions of r copied so far, in order
  watermark,     \* MAX(column) as the run read it, or the backfill's date
  left,          \* rows of the query result still to insert
  snapshot,      \* snapshot[r]: the version of r in the query result
  pc,            \* "idle", "watermark" or "inserting"
  faults, backfills  \* counters of the bounded events

tableVars == <<clock, open, version>>
runVars   == <<watermark, left, snapshot, pc>>
vars == <<tableVars, created, bq, runVars, faults, backfills>>

Committed == {r \in Rows : version[r] > 0}
Copied == {r \in Rows : bq[r] # <<>>}

Init ==
  /\ clock = 0
  /\ open = [w \in Writers |-> 0]
  /\ version = [r \in Rows |-> 0]
  /\ created = Provisioned
  /\ bq = [r \in Rows |-> <<>>]
  /\ watermark = 0 /\ left = {} /\ pc = "idle"
  /\ snapshot = [r \in Rows |-> 0]
  /\ faults = 0 /\ backfills = 0
-----------------------------------------------------------------------------
(* A receiver or subscriber begins the transaction of a new row. *)
Begin(w) ==
  /\ open[w] = 0 /\ clock < MaxRows
  /\ clock' = clock + 1
  /\ open' = [open EXCEPT ![w] = clock + 1]
  /\ UNCHANGED <<version, created, bq, runVars, faults, backfills>>

CommitRow(w) ==
  /\ open[w] # 0
  /\ version' = [version EXCEPT ![open[w]] = 1]
  /\ open' = [open EXCEPT ![w] = 0]
  /\ UNCHANGED <<clock, created, bq, runVars, faults, backfills>>

(* upsert_order on an existing row: ON CONFLICT DO UPDATE does not run the *)
(* column's onupdate, so the row keeps its updated_at.                     *)
UpdateRow(r) ==
  /\ version[r] \in 1..(MaxVersion - 1)
  /\ version' = [version EXCEPT ![r] = @ + 1]
  /\ UNCHANGED <<clock, open, created, bq, runVars, faults, backfills>>
-----------------------------------------------------------------------------
(* Mutant: the watermark is rounded up. *)
MaxTimestampNext == Max(Copied \cup {0}) + 1

MaxTimestamp == Max(Copied \cup {0})

(* max_timestamp, the first step of a run.  The query raises if the table  *)
(* does not exist, and the run is over before ensure_table.                *)
ReadWatermark ==
  /\ pc = "idle"
  /\ created
  /\ watermark' = MaxTimestamp
  /\ pc' = "watermark"
  /\ UNCHANGED <<tableVars, created, bq, left, snapshot, faults, backfills>>

(* A backfill starts from a date that an operator gives, and asks for no   *)
(* watermark: it also works on a table that does not exist.                *)
Backfill(since) ==
  /\ pc = "idle"
  /\ backfills < MaxBackfills /\ backfills' = backfills + 1
  /\ watermark' = since
  /\ pc' = "watermark"
  /\ UNCHANGED <<tableVars, created, bq, left, snapshot, faults>>

(* Mutant: ">=" instead of ">". *)
NewerOrEqual(wm) == {r \in Committed : r >= wm}

Newer(wm) == {r \in Committed : r > wm}

(* ensure_table, then one query: the rows committed by now. *)
Query ==
  /\ pc = "watermark"
  /\ created' = TRUE
  /\ left' = Newer(watermark)
  /\ snapshot' = version
  /\ pc' = "inserting"
  /\ UNCHANGED <<tableVars, bq, watermark, faults, backfills>>

(* Mutant: the query has no ORDER BY. *)
IsBatchUnordered(B) == B # {} /\ B \subseteq left /\ Cardinality(B) <= BatchSize

(* The next rows of the ordered result: a full batch, or the rest. *)
IsBatch(B) ==
  /\ B # {} /\ B \subseteq left
  /\ \A r \in B, q \in left \ B : r < q
  /\ IF left = B THEN Cardinality(B) <= BatchSize ELSE Cardinality(B) = BatchSize

Inserted(B) == bq' = [r \in Rows |-> IF r \in B THEN Append(bq[r], snapshot[r]) ELSE bq[r]]

InsertBatch ==
  /\ pc = "inserting"
  /\ \E B \in SUBSET left : IsBatch(B) /\ Inserted(B) /\ left' = left \ B
  /\ UNCHANGED <<tableVars, created, watermark, snapshot, pc, faults, backfills>>

EndRun ==
  /\ pc' = "idle"
  /\ left' = {}
  /\ watermark' = 0
  /\ snapshot' = [r \in Rows |-> 0]

(* Mutant: the errors of insert_rows_json are logged, the loop goes on. *)
InsertSkips ==
  /\ faults < MaxFaults /\ faults' = faults + 1
  /\ pc = "inserting"
  /\ \E B \in SUBSET left : IsBatch(B) /\ left' = left \ B
  /\ UNCHANGED <<tableVars, created, bq, watermark, snapshot, pc, backfills>>

(* insert_rows raises (with or without the rows in BigQuery), or the job   *)
(* is killed: the run is over.                                             *)
InsertFails ==
  /\ faults < MaxFaults /\ faults' = faults + 1
  /\ pc = "inserting"
  /\ \E B \in SUBSET left : IsBatch(B) /\ (Inserted(B) \/ UNCHANGED bq)
  /\ EndRun
  /\ UNCHANGED <<tableVars, created, backfills>>

Finish ==
  /\ pc = "inserting"
  /\ left = {}
  /\ EndRun
  /\ UNCHANGED <<tableVars, created, bq, faults, backfills>>

Run == ReadWatermark \/ Query \/ InsertBatch \/ Finish

Next ==
  \/ \E w \in Writers : Begin(w) \/ CommitRow(w)
  \/ \E r \in Rows : UpdateRow(r)
  \/ Run \/ InsertFails
  \/ \E since \in 0..clock : Backfill(since)

Spec == Init /\ [][Next]_vars
-----------------------------------------------------------------------------
(* Every variable has its type; a run reads no more than what is committed *)
(* and no watermark lies in the future.                                    *)
TypeOK ==
  /\ clock \in 0..MaxRows /\ watermark \in 0..clock
  /\ open \in [Writers -> 0..MaxRows]
  /\ version \in [Rows -> 0..MaxVersion] /\ snapshot \in [Rows -> 0..MaxVersion]
  /\ created \in BOOLEAN
  /\ bq \in [Rows -> Seq(1..MaxVersion)]
  /\ left \subseteq Committed
  /\ pc \in {"idle", "watermark", "inserting"}
  /\ faults \in 0..MaxFaults /\ backfills \in 0..MaxBackfills

(* Without backfills no row reaches BigQuery twice, whatever batch failed  *)
(* and whether or not its rows had arrived: the next run starts from what  *)
(* BigQuery has.                                                           *)
CopiedOnce == backfills = 0 => \A r \in Rows : Len(bq[r]) <= 1

(* Without backfills BigQuery has every committed row up to its newest one *)
(* (later runs look at nothing older, so a gap would not be filled), if    *)
(* rows are committed in the order of their timestamps.                    *)
NoGap ==
  backfills = 0 => \A r \in Committed : r <= MaxTimestamp => r \in Copied

(* A run that goes on has copied, or has still to copy, every row newer    *)
(* than its watermark that it could see, as it was when the run read it:   *)
(* so a run that finishes has left none out.                               *)
RunCopiesAll ==
  pc = "inserting" =>
    \A r \in Rows : snapshot[r] > 0 /\ r > watermark =>
      r \in left \/ \E i \in DOMAIN bq[r] : bq[r][i] = snapshot[r]

(***************************************************************************)
(* Fairness: the job is run again and again, and BigQuery and Postgres     *)
(* answer, but for the bounded faults.                                     *)
(***************************************************************************)
FairSpec == Spec /\ WF_vars(Run)

(* "Sync new rows" (sync.py:35): a committed row is copied in the end, if  *)
(* rows are committed in the order of their timestamps and no backfill     *)
(* moved the watermark beyond it.                                          *)
NewRowIsCopied == \A r \in Rows : r \in Committed ~> r \in Copied \/ backfills > 0

(* "Sync new/updated rows from orders" (sync.py:79): BigQuery gets the     *)
(* last version of an order that is not updated any more.                  *)
UpdateIsCopied ==
  \A r \in Rows : version[r] = MaxVersion ~> \E i \in DOMAIN bq[r] : bq[r][i] = MaxVersion
=============================================================================
