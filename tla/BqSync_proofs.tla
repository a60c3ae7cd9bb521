---------------------------- MODULE BqSync_proofs ----------------------------
(***************************************************************************)
(* Theorems about BqSync, for any rows, writers, versions, batch size,     *)
(* faults and backfills.  A run inserts its result from the oldest row to  *)
(* the newest, so wherever it stops BigQuery has a prefix of it: the       *)
(* largest timestamp there is then the right place to go on from.          *)
(***************************************************************************)
EXTENDS BqSync, Integers, SequenceTheorems, WellFoundedInduction, TLAPS

(* The table: rows are named by timestamps that have been given out. *)
TableInv ==
  /\ clock \in 0..MaxRows
  /\ open \in [Writers -> 0..MaxRows]
  /\ \A w \in Writers : open[w] <= clock
  /\ version \in [Rows -> 0..MaxVersion]
  /\ \A r \in Committed : r <= clock

(* The run: its result is of committed rows, in a version of theirs. *)
RunTypes ==
  /\ watermark \in 0..clock
  /\ pc \in {"idle", "watermark", "inserting"}
  /\ left \subseteq Committed
  /\ snapshot \in [Rows -> 0..MaxVersion]
  /\ \A r \in left : snapshot[r] > 0

CountTypes ==
  created \in BOOLEAN /\ faults \in 0..MaxFaults /\ backfills \in 0..MaxBackfills

CopyTypes ==
  /\ bq \in [Rows -> Seq(1..MaxVersion)]
  /\ Copied \subseteq Committed

(* Without backfills a run starts from the newest row of BigQuery, and     *)
(* what it has still to insert is newer than all that is there.            *)
GoesOn ==
  backfills = 0 =>
    /\ pc = "watermark" =>
         watermark \in Copied \cup {0} /\ \A q \in Copied : q <= watermark
    /\ \A r \in left, q \in Copied : q < r

Inv ==
  /\ TableInv /\ RunTypes /\ CountTypes /\ CopyTypes
  /\ GoesOn /\ CopiedOnce /\ RunCopiesAll

(* One writer commits in the order of the timestamps. *)
OneWriter == \A v, w \in Writers : v = w

OpenIsNewest ==
  \A w \in Writers : open[w] # 0 => \A r \in Committed : r < open[w]

(* What a run leaves aside is newer than what it takes and has taken. *)
LeftAsideIsNewer ==
  backfills = 0 =>
    \A r \in Committed : r \in Copied \/ r \in left \/ \A q \in Copied \cup left : q < r

OrderInv == OpenIsNewest /\ LeftAsideIsNewer
-----------------------------------------------------------------------------
(* Sets of numbers have a least, and if they are bounded a greatest one. *)
LEMMA LeastExists ==
  ASSUME NEW S, S \subseteq Nat, S # {}
  PROVE  \E x \in S : \A y \in S : x <= y
<1>1. \E x \in S : \A y \in S : ~ (<<y, x>> \in OpToRel(<, Nat))
  BY WFMin, NatLessThanWellFounded, Zenon
<1>2. \A x, y \in Nat : x < y => <<x, y>> \in OpToRel(<, Nat)
  BY Zenon DEF OpToRel
<1>3. \E x \in S : \A y \in S : ~ (y < x)
  BY <1>1, <1>2, Zenon
<1> QED
  BY <1>3

LEMMA MaxIsGreatest ==
  ASSUME NEW n \in Nat, NEW S, S \subseteq 0..n, S # {}
  PROVE  Max(S) \in S /\ \A y \in S : y <= Max(S)
<1> DEFINE D == {n - x : x \in S}
<1>1. D \subseteq Nat
  <2>1. \A x \in S : n - x \in Nat
    OBVIOUS
  <2> QED
    BY <2>1
<1>2. D # {}
  OBVIOUS
<1>3. PICK d \in D : \A e \in D : d <= e
  BY <1>1, <1>2, LeastExists
<1>4. PICK x \in S : d = n - x
  OBVIOUS
<1>5. \A y \in S : x >= y
  BY <1>3, <1>4
<1>6. Max(S) \in S /\ \A y \in S : Max(S) >= y
  BY <1>5 DEF Max
<1> QED
  BY <1>6

LEMMA MaxTimestampIsNewest ==
  ASSUME TableInv, CopyTypes
  PROVE  /\ MaxTimestamp \in Copied \cup {0}
         /\ MaxTimestamp \in 0..clock
         /\ \A q \in Copied : q <= MaxTimestamp
<1>1. clock \in Nat /\ Copied \cup {0} \subseteq 0..clock
  BY BqBounds DEF TableInv, CopyTypes, Committed, Copied, Rows, BqBounds
<1>2. /\ Max(Copied \cup {0}) \in Copied \cup {0}
      /\ \A y \in Copied \cup {0} : y <= Max(Copied \cup {0})
  BY <1>1, MaxIsGreatest
<1> QED
  BY <1>1, <1>2 DEF MaxTimestamp

(* What inserting a batch does to BigQuery. *)
LEMMA InsertedFacts ==
  ASSUME RunTypes, CopyTypes, NEW B, B \subseteq left, Inserted(B)
  PROVE  /\ bq' \in [Rows -> Seq(1..MaxVersion)]
         /\ Copied' = Copied \cup B
         /\ \A r \in Rows : r \notin B => bq'[r] = bq[r]
         /\ \A r \in B : Len(bq'[r]) = Len(bq[r]) + 1
         /\ \A r \in B : \E i \in DOMAIN bq'[r] : bq'[r][i] = snapshot[r]
<1>1. B \subseteq Rows /\ \A r \in B : snapshot[r] \in 1..MaxVersion
  <2>1. left \subseteq Rows /\ snapshot \in [Rows -> 0..MaxVersion] /\ \A r \in left : snapshot[r] > 0
    BY DEF RunTypes, Committed
  <2>2. MaxVersion \in Nat
    BY BqBounds DEF BqBounds
  <2> QED
    BY <2>1, <2>2
<1>2. bq \in [Rows -> Seq(1..MaxVersion)]
  BY DEF CopyTypes
<1>3. bq' = [r \in Rows |-> IF r \in B THEN Append(bq[r], snapshot[r]) ELSE bq[r]]
  BY DEF Inserted
<1>4. \A r \in B : /\ bq[r] \in Seq(1..MaxVersion)
                   /\ bq'[r] = Append(bq[r], snapshot[r])
  BY <1>1, <1>2, <1>3
<1>5. \A r \in B : /\ bq'[r] \in Seq(1..MaxVersion)
                   /\ Len(bq'[r]) = Len(bq[r]) + 1
                   /\ bq'[r] # <<>>
                   /\ \E i \in DOMAIN bq'[r] : bq'[r][i] = snapshot[r]
  <2> TAKE r \in B
  <2>1. bq[r] \in Seq(1..MaxVersion) /\ snapshot[r] \in 1..MaxVersion
    BY <1>1, <1>4
  <2>2. Append(bq[r], snapshot[r]) \in Seq(1..MaxVersion)
        /\ Len(Append(bq[r], snapshot[r])) = Len(bq[r]) + 1
        /\ Append(bq[r], snapshot[r])[Len(bq[r]) + 1] = snapshot[r]
        /\ Len(bq[r]) \in Nat
    BY <2>1, AppendProperties
  <2>3. Len(bq[r]) + 1 \in DOMAIN Append(bq[r], snapshot[r])
    BY <2>2, LenProperties
  <2>4. Append(bq[r], snapshot[r]) # <<>>
    BY <2>1, AppendProperties
  <2> QED
    BY <1>4, <2>2, <2>3, <2>4
<1>6. \A r \in Rows : r \notin B => bq'[r] = bq[r]
  BY <1>3
<1>7. bq' \in [Rows -> Seq(1..MaxVersion)]
  BY <1>1, <1>2, <1>3, <1>4, <1>5, <1>6
<1>8. Copied' = Copied \cup B
  BY <1>1, <1>5, <1>6 DEF Copied
<1> QED
  BY <1>5, <1>6, <1>7, <1>8
-----------------------------------------------------------------------------
LEMMA InitInv ==
  ASSUME Init
  PROVE  Inv /\ OrderInv
<1>1. MaxRows \in Nat /\ MaxVersion \in Nat /\ MaxFaults \in Nat /\ MaxBackfills \in Nat
      /\ Provisioned \in BOOLEAN
  BY BqBounds DEF BqBounds
<1>2. Committed = {} /\ Copied = {}
  BY DEF Init, Committed, Copied
<1>3. TableInv /\ RunTypes /\ CountTypes
  BY <1>1, <1>2 DEF Init, TableInv, RunTypes, CountTypes
<1>4. CopyTypes /\ CopiedOnce
  BY <1>2 DEF Init, CopyTypes, CopiedOnce
<1>5. GoesOn /\ RunCopiesAll /\ OpenIsNewest /\ LeftAsideIsNewer
  BY <1>2 DEF Init, GoesOn, RunCopiesAll, OpenIsNewest, LeftAsideIsNewer
<1> QED
  BY <1>3, <1>4, <1>5 DEF Inv, OrderInv

(* A step of the table changes neither the run nor BigQuery, and rows that *)
(* are committed stay so.                                                  *)
LEMMA TableStep ==
  ASSUME Inv, TableInv', clock <= clock', Committed \subseteq Committed',
         UNCHANGED <<created, bq, runVars, faults, backfills>>
  PROVE  Inv'
<1>1. Copied' = Copied
  BY DEF Copied
<1>2. UNCHANGED <<watermark, left, snapshot, pc>>
  BY DEF runVars
<1>3. clock \in Int /\ clock' \in Int
  BY BqBounds DEF Inv, TableInv, BqBounds
<1>4. RunTypes'
  BY <1>2, <1>3 DEF Inv, RunTypes
<1>5. CountTypes' /\ CopyTypes'
  BY <1>1 DEF Inv, CountTypes, CopyTypes
<1>6. GoesOn'
  BY <1>1, <1>2 DEF Inv, GoesOn
<1>7. CopiedOnce' /\ RunCopiesAll'
  BY <1>2 DEF Inv, CopiedOnce, RunCopiesAll
<1> QED
  BY <1>4, <1>5, <1>6, <1>7 DEF Inv

LEMMA TableActions ==
  ASSUME Inv,
         \/ \E w \in Writers : Begin(w) \/ CommitRow(w)
         \/ \E r \in Rows : UpdateRow(r)
  PROVE  Inv'
<1>0. /\ MaxRows \in Nat /\ MaxVersion \in Nat \ {0}
      /\ clock \in 0..MaxRows /\ open \in [Writers -> 0..MaxRows]
      /\ \A w \in Writers : open[w] <= clock
      /\ version \in [Rows -> 0..MaxVersion]
      /\ \A r \in Rows : version[r] > 0 => r <= clock
  BY BqBounds DEF Inv, TableInv, Committed, BqBounds
<1>1. ASSUME NEW w \in Writers, Begin(w) PROVE Inv'
  <2>1. /\ clock < MaxRows /\ clock' = clock + 1 /\ open' = [open EXCEPT ![w] = clock + 1]
        /\ UNCHANGED <<version, created, bq, runVars, faults, backfills>>
    BY <1>1 DEF Begin
  <2>2. Committed' = Committed
    BY <2>1 DEF Committed
  <2>3. clock' \in 0..MaxRows /\ clock <= clock'
    BY <1>0, <2>1
  <2>4. open' \in [Writers -> 0..MaxRows] /\ \A v \in Writers : open'[v] <= clock'
    BY <1>0, <2>1
  <2>5. version' = version /\ \A r \in Rows : version'[r] > 0 => r <= clock'
    <3>1. version' = version
      BY <2>1
    <3>2. \A r \in Rows : r \in Int
      BY DEF Rows
    <3> QED
      BY <1>0, <2>1, <3>1, <3>2
  <2>6. TableInv'
    BY <1>0, <2>3, <2>4, <2>5 DEF TableInv, Committed
  <2> QED
    BY <2>1, <2>2, <2>3, <2>6, TableStep
<1>2. ASSUME NEW w \in Writers, CommitRow(w) PROVE Inv'
  <2>1. /\ open[w] # 0 /\ open' = [open EXCEPT ![w] = 0]
        /\ version' = [version EXCEPT ![open[w]] = 1]
        /\ clock' = clock
        /\ UNCHANGED <<created, bq, runVars, faults, backfills>>
    BY <1>2 DEF CommitRow
  <2>2. open[w] \in Rows /\ open[w] <= clock
    BY <1>0, <2>1 DEF Rows
  <2>3. version' \in [Rows -> 0..MaxVersion]
    <3>1. 1 \in 0..MaxVersion
      BY <1>0
    <3> QED
      BY <1>0, <2>1, <3>1
  <2>4. \A r \in Rows : version'[r] = IF r = open[w] THEN 1 ELSE version[r]
    BY <1>0, <2>1
  <2>5. Committed \subseteq Committed'
    BY <2>4 DEF Committed
  <2>6. \A r \in Rows : version'[r] > 0 => r <= clock
    BY <1>0, <2>2, <2>4
  <2>7. open' \in [Writers -> 0..MaxRows] /\ \A v \in Writers : open'[v] <= clock
    BY <1>0, <2>1
  <2>8. TableInv'
    BY <1>0, <2>1, <2>3, <2>6, <2>7 DEF TableInv, Committed
  <2> QED
    BY <1>0, <2>1, <2>5, <2>8, TableStep
<1>3. ASSUME NEW r \in Rows, UpdateRow(r) PROVE Inv'
  <2>1. /\ version[r] \in 1..(MaxVersion - 1)
        /\ version' = [version EXCEPT ![r] = @ + 1]
        /\ clock' = clock /\ open' = open
        /\ UNCHANGED <<created, bq, runVars, faults, backfills>>
    BY <1>3 DEF UpdateRow
  <2>2. version[r] + 1 \in 0..MaxVersion
    BY <1>0, <2>1
  <2>3. version' \in [Rows -> 0..MaxVersion]
    BY <1>0, <2>1, <2>2
  <2>4. Committed' = Committed
    BY <1>0, <2>1, <2>2 DEF Committed
  <2>5. TableInv'
    BY <1>0, <2>1, <2>3, <2>4 DEF TableInv, Committed
  <2> QED
    BY <1>0, <2>1, <2>4, <2>5, TableStep
<1> QED
  BY <1>1, <1>2, <1>3

(* A step of the run leaves the table alone. *)
LEMMA TableFrame ==
  ASSUME TableInv, UNCHANGED tableVars
  PROVE  TableInv' /\ Committed' = Committed /\ clock' = clock
BY DEF TableInv, tableVars, Committed

LEMMA ReadWatermarkInv ==
  ASSUME Inv, ReadWatermark
  PROVE  Inv'
<1>1. /\ watermark' = MaxTimestamp /\ pc' = "watermark"
      /\ UNCHANGED <<created, bq, left, snapshot, faults, backfills>>
      /\ UNCHANGED tableVars
  BY DEF ReadWatermark
<1>2. TableInv' /\ Committed' = Committed /\ clock' = clock
  BY <1>1, TableFrame DEF Inv
<1>3. /\ MaxTimestamp \in Copied \cup {0}
      /\ MaxTimestamp \in 0..clock
      /\ \A q \in Copied : q <= MaxTimestamp
  BY MaxTimestampIsNewest DEF Inv
<1>4. Copied' = Copied
  BY <1>1 DEF Copied
<1>5. RunTypes'
  BY <1>1, <1>2, <1>3 DEF Inv, RunTypes
<1>6. CountTypes' /\ CopyTypes' /\ CopiedOnce'
  BY <1>1, <1>2, <1>4 DEF Inv, CountTypes, CopyTypes, CopiedOnce
<1>7. GoesOn'
  BY <1>1, <1>3, <1>4 DEF Inv, GoesOn
<1>8. RunCopiesAll'
  BY <1>1 DEF RunCopiesAll
<1> QED
  BY <1>2, <1>5, <1>6, <1>7, <1>8 DEF Inv

LEMMA BackfillInv ==
  ASSUME Inv, NEW since \in 0..clock, Backfill(since)
  PROVE  Inv'
<1>1. /\ watermark' = since /\ pc' = "watermark"
      /\ backfills < MaxBackfills /\ backfills' = backfills + 1
      /\ UNCHANGED <<created, bq, left, snapshot, faults>>
      /\ UNCHANGED tableVars
  BY DEF Backfill
<1>2. TableInv' /\ Committed' = Committed /\ clock' = clock
  BY <1>1, TableFrame DEF Inv
<1>3. Copied' = Copied
  BY <1>1 DEF Copied
<1>4. RunTypes'
  BY <1>1, <1>2 DEF Inv, RunTypes
<1>5. backfills' \in 0..MaxBackfills /\ backfills' # 0
  <2>1. backfills \in 0..MaxBackfills /\ MaxBackfills \in Nat
    BY BqBounds DEF Inv, CountTypes, BqBounds
  <2> QED
    BY <1>1, <2>1
<1>6. CountTypes' /\ CopyTypes'
  BY <1>1, <1>2, <1>3, <1>5 DEF Inv, CountTypes, CopyTypes
<1>7. GoesOn' /\ CopiedOnce' /\ RunCopiesAll'
  BY <1>1, <1>5 DEF GoesOn, CopiedOnce, RunCopiesAll
<1> QED
  BY <1>2, <1>4, <1>6, <1>7 DEF Inv

LEMMA QueryInv ==
  ASSUME Inv, Query
  PROVE  Inv'
<1>1. /\ pc = "watermark" /\ pc' = "inserting" /\ created' = TRUE
      /\ left' = Newer(watermark) /\ snapshot' = version
      /\ UNCHANGED <<bq, watermark, faults, backfills>>
      /\ UNCHANGED tableVars
  BY DEF Query
<1>2. TableInv' /\ Committed' = Committed /\ clock' = clock
  BY <1>1, TableFrame DEF Inv
<1>3. Copied' = Copied
  BY <1>1 DEF Copied
<1>4. \A r \in Rows : r \in left' <=> version[r] > 0 /\ r > watermark
  BY <1>1 DEF Newer, Committed
<1>5. left' \subseteq Committed /\ \A r \in left' : version[r] > 0 /\ r > watermark
  BY <1>1 DEF Newer, Committed
<1>6. RunTypes'
  BY <1>1, <1>2, <1>5 DEF Inv, RunTypes, TableInv
<1>7. CountTypes' /\ CopyTypes' /\ CopiedOnce'
  BY <1>1, <1>2, <1>3 DEF Inv, CountTypes, CopyTypes, CopiedOnce
<1>8. GoesOn'
  <2>1. backfills = 0 => \A q \in Copied : q <= watermark
    BY <1>1 DEF Inv, GoesOn
  <2>2. watermark \in Int /\ Copied \subseteq Int /\ left' \subseteq Int
    BY <1>5, BqBounds DEF Inv, RunTypes, Copied, Committed, Rows, BqBounds
  <2>3. backfills = 0 => \A r \in left', q \in Copied : q < r
    BY <1>5, <2>1, <2>2
  <2> QED
    BY <1>1, <1>3, <2>3 DEF GoesOn
<1>9. RunCopiesAll'
  BY <1>1, <1>4 DEF RunCopiesAll
<1> QED
  BY <1>2, <1>6, <1>7, <1>8, <1>9 DEF Inv

(* A batch is inserted: it is the oldest part of what is left. *)
LEMMA BatchIsCopied ==
  ASSUME Inv, NEW B, B \subseteq left, \A r \in B, q \in left \ B : r < q,
         Inserted(B), left' \subseteq left \ B,
         UNCHANGED tableVars, backfills' = backfills
  PROVE  /\ CopyTypes' /\ CopiedOnce'
         /\ backfills = 0 => \A r \in left', q \in Copied' : q < r
<1>1. TableInv' /\ Committed' = Committed /\ clock' = clock
  BY TableFrame DEF Inv
<1>2. /\ bq' \in [Rows -> Seq(1..MaxVersion)]
      /\ Copied' = Copied \cup B
      /\ \A r \in Rows : r \notin B => bq'[r] = bq[r]
      /\ \A r \in B : Len(bq'[r]) = Len(bq[r]) + 1
  BY InsertedFacts DEF Inv
<1>3. left \subseteq Committed /\ Copied \subseteq Committed /\ Committed \subseteq Rows
  BY DEF Inv, RunTypes, CopyTypes, Committed
<1>4. Rows \subseteq Int
  BY DEF Rows
<1>5. backfills = 0 => \A r \in left, q \in Copied : q < r
  BY DEF Inv, GoesOn
<1>6. backfills = 0 => \A r \in B : bq[r] = <<>>
  <2> SUFFICES ASSUME backfills = 0, NEW r \in B, bq[r] # <<>> PROVE FALSE
    OBVIOUS
  <2>1. r \in left /\ r \in Copied /\ r \in Int
    BY <1>3, <1>4 DEF Copied
  <2>2. r < r
    BY <1>5, <2>1
  <2> QED
    BY <2>1, <2>2
<1>7. Len(<<>>) = 0
  OBVIOUS
<1>8. CopiedOnce'
  <2> SUFFICES ASSUME backfills = 0, NEW r \in Rows PROVE Len(bq'[r]) <= 1
    BY DEF CopiedOnce
  <2>1. Len(bq[r]) <= 1
    BY DEF Inv, CopiedOnce
  <2>2. CASE r \in B
    <3>1. Len(bq'[r]) = Len(bq[r]) + 1 /\ bq[r] = <<>>
      BY <1>2, <1>6, <2>2
    <3>2. Len(bq[r]) = 0
      BY <1>7, <3>1
    <3>3. Len(bq'[r]) = 1
      BY <3>1, <3>2
    <3> QED
      BY <3>3
  <2>3. CASE r \notin B
    <3>1. bq'[r] = bq[r]
      BY <1>2, <2>3
    <3> QED
      BY <2>1, <3>1
  <2> QED
    BY <2>2, <2>3
<1>9. CopyTypes'
  BY <1>1, <1>2, <1>3 DEF CopyTypes
<1>10. backfills = 0 => \A r \in left', q \in Copied' : q < r
  BY <1>2, <1>5
<1> QED
  BY <1>8, <1>9, <1>10

LEMMA InsertBatchInv ==
  ASSUME Inv, InsertBatch
  PROVE  Inv'
<1>1. PICK B \in SUBSET left : IsBatch(B) /\ Inserted(B) /\ left' = left \ B
  BY DEF InsertBatch
<1>2. /\ pc = "inserting"
      /\ UNCHANGED <<created, watermark, snapshot, pc, faults, backfills>>
      /\ UNCHANGED tableVars
  BY DEF InsertBatch
<1>3. \A r \in B, q \in left \ B : r < q
  BY <1>1 DEF IsBatch
<1>4. TableInv' /\ Committed' = Committed /\ clock' = clock
  BY <1>2, TableFrame DEF Inv
<1>5. /\ CopyTypes' /\ CopiedOnce'
      /\ backfills = 0 => \A r \in left', q \in Copied' : q < r
  BY <1>1, <1>2, <1>3, BatchIsCopied
<1>6. RunTypes' /\ CountTypes'
  BY <1>1, <1>2, <1>4 DEF Inv, RunTypes, CountTypes
<1>7. GoesOn'
  BY <1>2, <1>5 DEF GoesOn
<1>8. RunCopiesAll'
  <2>1. /\ \A r \in Rows : r \notin B => bq'[r] = bq[r]
        /\ \A r \in B : \E i \in DOMAIN bq'[r] : bq'[r][i] = snapshot[r]
    BY <1>1, InsertedFacts DEF Inv
  <2>2. \A r \in Rows : snapshot[r] > 0 /\ r > watermark =>
          r \in left \/ \E i \in DOMAIN bq[r] : bq[r][i] = snapshot[r]
    BY <1>2 DEF Inv, RunCopiesAll
  <2>3. \A r \in Rows : snapshot[r] > 0 /\ r > watermark =>
          r \in left' \/ \E i \in DOMAIN bq'[r] : bq'[r][i] = snapshot[r]
    BY <1>1, <2>1, <2>2
  <2> QED
    BY <1>2, <2>3 DEF RunCopiesAll
<1> QED
  BY <1>4, <1>5, <1>6, <1>7, <1>8 DEF Inv

(* A run that is over, with or without its last batch in BigQuery. *)
LEMMA EndInv ==
  ASSUME Inv, EndRun, UNCHANGED tableVars, created' = created, backfills' = backfills,
         faults' \in 0..MaxFaults, CopyTypes', CopiedOnce'
  PROVE  Inv'
<1>1. TableInv' /\ Committed' = Committed /\ clock' = clock
  BY TableFrame DEF Inv
<1>2. RunTypes'
  BY <1>1, BqBounds DEF EndRun, RunTypes, Inv, TableInv, BqBounds
<1>3. CountTypes'
  BY DEF Inv, CountTypes
<1>4. GoesOn' /\ RunCopiesAll'
  BY DEF EndRun, GoesOn, RunCopiesAll
<1> QED
  BY <1>1, <1>2, <1>3, <1>4 DEF Inv

LEMMA InsertFailsInv ==
  ASSUME Inv, InsertFails
  PROVE  Inv'
<1>1. /\ EndRun /\ UNCHANGED tableVars /\ created' = created /\ backfills' = backfills
      /\ faults < MaxFaults /\ faults' = faults + 1
  BY DEF InsertFails
<1>2. PICK B \in SUBSET left : IsBatch(B) /\ (Inserted(B) \/ UNCHANGED bq)
  BY DEF InsertFails
<1>3. faults' \in 0..MaxFaults
  BY <1>1, BqBounds DEF Inv, CountTypes, BqBounds
<1>4. CopyTypes' /\ CopiedOnce'
  <2>1. CASE Inserted(B)
    <3>1. left' \subseteq left \ B
      BY <1>1 DEF EndRun
    <3>2. \A r \in B, q \in left \ B : r < q
      BY <1>2 DEF IsBatch
    <3> QED
      BY <1>1, <2>1, <3>1, <3>2, BatchIsCopied
  <2>2. CASE UNCHANGED bq
    <3>1. Committed' = Committed
      BY <1>1, TableFrame DEF Inv
    <3> QED
      BY <1>1, <2>2, <3>1 DEF Inv, CopyTypes, CopiedOnce, Copied
  <2> QED
    BY <1>2, <2>1, <2>2
<1> QED
  BY <1>1, <1>3, <1>4, EndInv

LEMMA FinishInv ==
  ASSUME Inv, Finish
  PROVE  Inv'
<1>1. /\ EndRun /\ UNCHANGED tableVars /\ created' = created /\ backfills' = backfills
      /\ faults' = faults /\ bq' = bq
  BY DEF Finish
<1>2. Committed' = Committed
  BY <1>1, TableFrame DEF Inv
<1>3. CopyTypes' /\ CopiedOnce'
  BY <1>1, <1>2 DEF Inv, CopyTypes, CopiedOnce, Copied
<1>4. faults' \in 0..MaxFaults
  BY <1>1 DEF Inv, CountTypes
<1> QED
  BY <1>1, <1>3, <1>4, EndInv

LEMMA NextInv ==
  ASSUME Inv, [Next]_vars
  PROVE  Inv'
<1>1. CASE UNCHANGED vars
  <2>1. UNCHANGED <<created, bq, runVars, faults, backfills>> /\ UNCHANGED tableVars
    BY <1>1 DEF vars
  <2>2. TableInv' /\ Committed' = Committed /\ clock' = clock
    BY <2>1, TableFrame DEF Inv
  <2>3. clock <= clock'
    BY <2>2, BqBounds DEF TableInv, BqBounds
  <2> QED
    BY <2>1, <2>2, <2>3, TableStep
<1> QED
  BY <1>1, TableActions, ReadWatermarkInv, BackfillInv, QueryInv, InsertBatchInv, InsertFailsInv,
    FinishInv
  DEF Next, Run
-----------------------------------------------------------------------------
(* With one writer, what a run leaves aside is newer than what it takes.   *)
(* The lemma is about the run: whatever is gone from its result has been   *)
(* copied, or was newer than the rest of what is there.                    *)
LEMMA RunKeepsOrder ==
  ASSUME Inv, OrderInv, UNCHANGED tableVars,
         LeftAsideIsNewer'
  PROVE  OrderInv'
<1>1. Committed' = Committed /\ open' = open
  BY TableFrame DEF Inv, tableVars
<1> QED
  BY <1>1 DEF OrderInv, OpenIsNewest

LEMMA TableKeepsOrder ==
  ASSUME OneWriter, Inv, Inv', OrderInv,
         \/ \E w \in Writers : Begin(w) \/ CommitRow(w)
         \/ \E r \in Rows : UpdateRow(r)
  PROVE  OrderInv'
<1>0. /\ MaxRows \in Nat /\ MaxVersion \in Nat \ {0}
      /\ clock \in 0..MaxRows /\ open \in [Writers -> 0..MaxRows]
      /\ version \in [Rows -> 0..MaxVersion]
      /\ \A r \in Committed : r <= clock
      /\ Rows \subseteq Int
  BY BqBounds DEF Inv, TableInv, BqBounds, Rows
<1>1. Copied \subseteq Committed /\ left \subseteq Committed /\ Committed \subseteq Rows
  BY DEF Inv, CopyTypes, RunTypes, Committed
<1>2. ASSUME NEW w \in Writers, Begin(w) PROVE OrderInv'
  <2>1. /\ open' = [open EXCEPT ![w] = clock + 1]
        /\ version' = version
        /\ UNCHANGED <<bq, runVars, backfills>>
    BY <1>2 DEF Begin
  <2>2. Committed' = Committed /\ Copied' = Copied /\ left' = left /\ backfills' = backfills
    BY <2>1 DEF Committed, Copied, runVars
  <2>3. \A r \in Committed : r < clock + 1
    BY <1>0, <1>1
  <2>4. OpenIsNewest'
    BY <1>0, <2>1, <2>2, <2>3 DEF OrderInv, OpenIsNewest
  <2> QED
    BY <2>2, <2>4 DEF OrderInv, LeftAsideIsNewer
<1>3. ASSUME NEW w \in Writers, CommitRow(w) PROVE OrderInv'
  <2>1. /\ open[w] # 0 /\ open' = [open EXCEPT ![w] = 0]
        /\ version' = [version EXCEPT ![open[w]] = 1]
        /\ UNCHANGED <<bq, runVars, backfills>>
    BY <1>3 DEF CommitRow
  <2>2. Copied' = Copied /\ left' = left /\ backfills' = backfills
    BY <2>1 DEF Copied, runVars
  <2>3. \A r \in Committed' : r \in Committed \/ r = open[w]
    BY <1>0, <2>1 DEF Committed
  <2>4. \A q \in Copied \cup left : q < open[w]
    BY <1>1, <2>1 DEF OrderInv, OpenIsNewest
  <2>5. \A v \in Writers : open'[v] = 0
    BY <1>0, <2>1 DEF OneWriter
  <2>6. OpenIsNewest'
    BY <2>5 DEF OpenIsNewest
  <2>7. LeftAsideIsNewer'
    BY <2>2, <2>3, <2>4 DEF OrderInv, LeftAsideIsNewer
  <2> QED
    BY <2>6, <2>7 DEF OrderInv
<1>4. ASSUME NEW r \in Rows, UpdateRow(r) PROVE OrderInv'
  <2>1. /\ version[r] \in 1..(MaxVersion - 1)
        /\ version' = [version EXCEPT ![r] = @ + 1]
        /\ UNCHANGED <<open, bq, runVars, backfills>>
    BY <1>4 DEF UpdateRow
  <2>2. Copied' = Copied /\ left' = left /\ backfills' = backfills /\ open' = open
    BY <2>1 DEF Copied, runVars
  <2>3. Committed' = Committed
    BY <1>0, <2>1 DEF Committed
  <2> QED
    BY <2>2, <2>3 DEF OrderInv, OpenIsNewest, LeftAsideIsNewer
<1> QED
  BY <1>2, <1>3, <1>4

LEMMA NextOrder ==
  ASSUME OneWriter, Inv, Inv', OrderInv, [Next]_vars
  PROVE  OrderInv'
<1>0. Copied \subseteq Committed /\ left \subseteq Committed /\ Committed \subseteq Int
  BY DEF Inv, CopyTypes, RunTypes, Committed, Rows
<1>1. backfills = 0 =>
        \A r \in Committed : r \in Copied \/ r \in left \/ \A q \in Copied \cup left : q < r
  BY DEF OrderInv, LeftAsideIsNewer
<1>2. backfills = 0 => \A r \in left, q \in Copied : q < r
  BY DEF Inv, GoesOn
<1>3. CASE ReadWatermark \/ UNCHANGED vars
  <2>1. UNCHANGED <<bq, left, backfills>> /\ UNCHANGED tableVars
    BY <1>3 DEF ReadWatermark, vars, runVars
  <2>2. Committed' = Committed
    BY <2>1, TableFrame DEF Inv
  <2>3. LeftAsideIsNewer'
    BY <1>1, <2>1, <2>2 DEF LeftAsideIsNewer, Copied
  <2> QED
    BY <2>1, <2>3, RunKeepsOrder
<1>4. ASSUME NEW since \in 0..clock, Backfill(since) PROVE OrderInv'
  <2>1. backfills' = backfills + 1 /\ UNCHANGED tableVars /\ backfills \in Nat
    BY <1>4, BqBounds DEF Backfill, Inv, CountTypes, BqBounds
  <2>2. LeftAsideIsNewer'
    BY <2>1 DEF LeftAsideIsNewer
  <2> QED
    BY <2>1, <2>2, RunKeepsOrder
<1>5. CASE Query
  <2>1. /\ pc = "watermark" /\ left' = Newer(watermark)
        /\ UNCHANGED <<bq, backfills>> /\ UNCHANGED tableVars
    BY <1>5 DEF Query
  <2>2. Committed' = Committed /\ Copied' = Copied
    BY <2>1, TableFrame DEF Inv, Copied
  <2>3. backfills = 0 => watermark \in Copied \cup {0} /\ \A q \in Copied : q <= watermark
    BY <2>1 DEF Inv, GoesOn
  <2>4. \A r \in Committed : r > watermark => r \in left'
    BY <2>1 DEF Newer
  <2>5. \A r \in Committed : r > 0
    BY DEF Committed, Rows
  <2>6. backfills = 0 => \A r \in Committed : r \in Copied \/ r > watermark
    <3> SUFFICES ASSUME backfills = 0, NEW r \in Committed, r \notin Copied
                 PROVE  r > watermark
      OBVIOUS
    <3>1. \A q \in Copied : q < r
      BY <1>1, <1>2
    <3> QED
      BY <1>0, <2>3, <2>5, <3>1
  <2>7. LeftAsideIsNewer'
    BY <2>1, <2>2, <2>4, <2>6 DEF LeftAsideIsNewer
  <2> QED
    BY <2>1, <2>7, RunKeepsOrder
<1>6. ASSUME NEW B \in SUBSET left, IsBatch(B), Inserted(B) \/ UNCHANGED bq,
             left' = {} \/ (left' = left \ B /\ Inserted(B)),
             backfills' = backfills, UNCHANGED tableVars
      PROVE  OrderInv'
  <2>1. Copied' = Copied \cup B \/ Copied' = Copied
    BY <1>6, InsertedFacts DEF Inv, Copied
  <2>2. Inserted(B) => Copied' = Copied \cup B
    BY <1>6, InsertedFacts DEF Inv
  <2>3. \A r \in B, q \in left \ B : r < q
    BY <1>6 DEF IsBatch
  <2>4. Committed' = Committed
    BY <1>6, TableFrame DEF Inv
  <2>5. LeftAsideIsNewer'
    BY <1>0, <1>1, <1>2, <1>6, <2>1, <2>2, <2>3, <2>4 DEF LeftAsideIsNewer
  <2> QED
    BY <1>6, <2>5, RunKeepsOrder
<1>7. CASE InsertBatch \/ InsertFails
  BY <1>6, <1>7 DEF InsertBatch, InsertFails, EndRun
<1>8. CASE Finish
  <2>1. left = {} /\ left' = {} /\ UNCHANGED <<bq, backfills>> /\ UNCHANGED tableVars
    BY <1>8 DEF Finish, EndRun
  <2>2. Committed' = Committed
    BY <2>1, TableFrame DEF Inv
  <2>3. LeftAsideIsNewer'
    BY <1>1, <2>1, <2>2 DEF LeftAsideIsNewer, Copied
  <2> QED
    BY <2>1, <2>3, RunKeepsOrder
<1> QED
  BY <1>3, <1>4, <1>5, <1>7, <1>8, TableKeepsOrder DEF Next, Run

LEMMA OrderLeavesNoGap ==
  ASSUME Inv, OrderInv
  PROVE  NoGap
<1>1. /\ MaxTimestamp \in Copied \cup {0}
      /\ \A q \in Copied : q <= MaxTimestamp
  BY MaxTimestampIsNewest DEF Inv
<1>2. Copied \subseteq Int /\ Committed \subseteq Int /\ \A r \in Committed : r > 0
  BY DEF Inv, CopyTypes, Committed, Rows
<1>3. backfills = 0 => \A r \in left, q \in Copied : q < r
  BY DEF Inv, GoesOn
<1>4. backfills = 0 => \A r \in Committed : r \in Copied \/ \A q \in Copied : q < r
  BY <1>3 DEF OrderInv, LeftAsideIsNewer
<1> QED
  BY <1>1, <1>2, <1>4 DEF NoGap
-----------------------------------------------------------------------------
LEMMA InvHolds == Spec => []Inv
<1>1. Init => Inv
  BY InitInv
<1>2. Inv /\ [Next]_vars => Inv'
  BY NextInv
<1> QED
  BY <1>1, <1>2, PTL DEF Spec

(* Every reachable state is well typed, with any writers. *)
THEOREM TypeCorrect == Spec => []TypeOK
<1>1. Inv => TypeOK
  BY DEF Inv, TableInv, RunTypes, CountTypes, CopyTypes, TypeOK
<1> QED
  BY <1>1, InvHolds, PTL

(* sync_webhooks and sync_orders copy no row twice, whatever insert_rows   *)
(* call failed, and whether or not its rows had arrived.                   *)
THEOREM NoRowTwice == Spec => []CopiedOnce
<1>1. Inv => CopiedOnce
  BY DEF Inv
<1> QED
  BY <1>1, InvHolds, PTL

(* A run that finishes has left no row of its query result out.            *)
THEOREM NoRowLeftOut == Spec => []RunCopiesAll
<1>1. Inv => RunCopiesAll
  BY DEF Inv
<1> QED
  BY <1>1, InvHolds, PTL

(* If rows are committed in the order of their timestamps, no row is       *)
(* behind the watermark without being in BigQuery.                         *)
THEOREM OneWriterLeavesNoGap ==
  ASSUME OneWriter
  PROVE  Spec => []NoGap
<1>1. Init => OrderInv
  BY InitInv
<1>2. Inv /\ Inv' /\ OrderInv /\ [Next]_vars => OrderInv'
  BY NextOrder
<1>3. Inv /\ OrderInv => NoGap
  BY OrderLeavesNoGap
<1> QED
  BY <1>1, <1>2, <1>3, InvHolds, PTL DEF Spec
=============================================================================
