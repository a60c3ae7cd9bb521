------------------------ MODULE OutboxWorker_proofs ------------------------
(***************************************************************************)
(* Theorems about OutboxWorker, for every set of orders, marketplaces and  *)
(* workers and every bound.  The invariant Inv is inductive; the safety    *)
(* properties of OutboxWorker, its action property and the refinement of   *)
(* OutboxPromise follow from it.                                           *)
(***************************************************************************)
EXTENDS OutboxWorker, FiniteSetTheorems, TLAPS

(* A worker has copies of rows only between the query and the commit, and  *)
(* what it has still to process is among them and untouched.               *)
BatchShape ==
  \A w \in Workers :
    /\ pc[w] # "pushing" => Batch(w) = {} /\ ~lost[w]
    /\ todo[w] \subseteq Batch(w)
    /\ \A k \in todo[w] : tx[w][k].status = "pending"

(* A row's fields agree with its status. *)
Consistent(row) ==
  /\ row.status = "dlq" => row.attempts = MaxAttempts /\ row.error
  /\ row.status = "pending" =>
       /\ row.attempts < MaxAttempts
       /\ row.error <=> row.attempts > 0
  /\ row.status = "done" => ~row.error

(* The copies of a batch are consistent, and an outcome in a copy has its  *)
(* reason outside the database.                                            *)
CopyIsJustified ==
  \A w \in Workers, k \in Key :
    /\ Consistent(tx[w][k])
    /\ tx[w][k].status = "done" => accepted[k] > 0
    /\ tx[w][k].status = "dlq" => k \in syncDlq

(* The copy of a row that is still locked is at most one attempt ahead of  *)
(* the committed row, which nobody else changes meanwhile.                 *)
CopyIsCurrent ==
  \A w \in Workers : \A k \in Locked(w) :
    /\ outbox[k].due
    /\ tx[w][k].id = outbox[k].id
    /\ tx[w][k].attempts \in {outbox[k].attempts, outbox[k].attempts + 1}
    /\ k \in todo[w] => tx[w][k] = outbox[k]

(* The rows of a batch without its locks are doubtful. *)
LostIsDoubtful == \A w \in Workers : lost[w] => Batch(w) \subseteq doubtful

(* An acceptance is doubtful, or recorded in the row, or recorded in the   *)
(* copy of the worker that has the row locked.                             *)
AcceptanceIsRecorded ==
  \A k \in Key : accepted[k] > 0 =>
    \/ k \in doubtful
    \/ outbox[k].status = "done"
    \/ \E w \in Workers : k \in Locked(w) /\ tx[w][k].status = "done"

(* The part of RowTellsItsStory that holds whoever changes dead rows.       *)
LiveRowsTell ==
  \A k \in Key :
    /\ outbox[k].status = "pending" =>
         /\ outbox[k].attempts < MaxAttempts
         /\ outbox[k].error <=> outbox[k].attempts > 0
    /\ outbox[k].status = "done" => ~outbox[k].error

Inv ==
  /\ TypeOK
  /\ BatchShape
  /\ BatchIsOwned
  /\ CopyIsJustified
  /\ CopyIsCurrent
  /\ LostIsDoubtful
  /\ AcceptanceIsRecorded
  /\ DuplicateOnlyAfterDoubt
  /\ DoneMeansAccepted
  /\ DlqMeansAnnounced
  /\ LiveRowsTell
-----------------------------------------------------------------------------
USE DEF Status, OdooState

(* The number of pairs is a natural number. *)
LEMMA SpanNat == Span \in Nat
<1>1. IsFiniteSet(Orders \X Targets)
  BY DomainAssumption, FS_Product
<1>2. QED
  BY <1>1, FS_CardinalityType DEF Span, Key

(* Inserted rows and absent rows are rows. *)
LEMMA RowTypes ==
  /\ NoRow \in Row
  /\ \A i \in Nat : NewRow(i) \in Row
BY BoundAssumption DEF NoRow, NewRow, Row

(* A worker whose session ends has no copies, no locks and nothing to do;  *)
(* the other workers are left alone.                                       *)
LEMMA ResetFacts ==
  ASSUME TypeOK, NEW w \in Workers, Reset(w)
  PROVE  /\ pc'[w] = "idle" /\ todo'[w] = {} /\ ~lost'[w]
         /\ Batch(w)' = {} /\ Locked(w)' = {}
         /\ \A k \in Key : tx'[w][k] = NoRow
         /\ \A v \in Workers \ {w} :
              /\ pc'[v] = pc[v] /\ todo'[v] = todo[v] /\ tx'[v] = tx[v]
              /\ lost'[v] = lost[v] /\ fetched'[v] = fetched[v]
              /\ Batch(v)' = Batch(v) /\ Locked(v)' = Locked(v)
         /\ pc' \in [Workers -> {"idle", "fetched", "enqueued", "pushing"}]
         /\ fetched' \in [Workers -> SUBSET Orders]
         /\ todo' \in [Workers -> SUBSET Key]
         /\ tx' \in [Workers -> [Key -> Row]]
         /\ lost' \in [Workers -> BOOLEAN]
<1>1. /\ pc'[w] = "idle" /\ todo'[w] = {} /\ ~lost'[w]
      /\ \A k \in Key : tx'[w][k] = NoRow
      /\ \A v \in Workers \ {w} :
           /\ pc'[v] = pc[v] /\ todo'[v] = todo[v] /\ tx'[v] = tx[v]
           /\ lost'[v] = lost[v] /\ fetched'[v] = fetched[v]
  BY DEF TypeOK, Reset
<1>2. Batch(w)' = {} /\ Locked(w)' = {}
  BY <1>1 DEF Batch, Locked, NoRow
<1>3. ASSUME NEW v \in Workers \ {w}
      PROVE  Batch(v)' = Batch(v) /\ Locked(v)' = Locked(v)
  BY <1>1 DEF Batch, Locked
<1>4. /\ pc' \in [Workers -> {"idle", "fetched", "enqueued", "pushing"}]
      /\ fetched' \in [Workers -> SUBSET Orders]
      /\ todo' \in [Workers -> SUBSET Key]
      /\ lost' \in [Workers -> BOOLEAN]
  BY DEF TypeOK, Reset
<1>5. tx' \in [Workers -> [Key -> Row]]
  BY RowTypes DEF TypeOK, Reset
<1>6. QED
  BY <1>1, <1>2, <1>3, <1>4, <1>5

(* A processed row changes in the copy of its worker and nowhere else. *)
LEMMA ProcessedFacts ==
  ASSUME TypeOK, NEW w \in Workers, NEW k \in Key, NEW row \in Row,
         row.status # "none", tx[w][k].status # "none", Processed(w, k, row)
  PROVE  /\ tx'[w][k] = row
         /\ \A v \in Workers, j \in Key : v # w \/ j # k => tx'[v][j] = tx[v][j]
         /\ todo'[w] = todo[w] \ {k}
         /\ \A v \in Workers \ {w} : todo'[v] = todo[v]
         /\ \A v \in Workers : Batch(v)' = Batch(v) /\ Locked(v)' = Locked(v)
         /\ todo' \in [Workers -> SUBSET Key]
         /\ tx' \in [Workers -> [Key -> Row]]
<1>1. /\ tx'[w][k] = row
      /\ \A v \in Workers, j \in Key : v # w \/ j # k => tx'[v][j] = tx[v][j]
      /\ todo'[w] = todo[w] \ {k}
      /\ \A v \in Workers \ {w} : todo'[v] = todo[v]
      /\ todo' \in [Workers -> SUBSET Key]
      /\ tx' \in [Workers -> [Key -> Row]]
  BY DEF TypeOK, Processed
<1>2. \A v \in Workers : Batch(v)' = Batch(v)
  BY <1>1 DEF Batch
<1>3. lost' = lost
  BY DEF Processed
<1>4. \A v \in Workers : Locked(v)' = Locked(v)
  BY <1>2, <1>3 DEF Locked
<1>5. QED
  BY <1>1, <1>2, <1>4
-----------------------------------------------------------------------------
(* The initial state satisfies the invariant. *)
LEMMA InvInit == Init => Inv
<1> SUFFICES ASSUME Init PROVE Inv
  OBVIOUS
<1>1. TypeOK
  BY RowTypes, BoundAssumption DEF Init, TypeOK
<1>2. \A w \in Workers : Batch(w) = {} /\ Locked(w) = {}
  BY DEF Init, Batch, Locked, NoRow
<1>3. BatchShape /\ BatchIsOwned /\ CopyIsCurrent /\ LostIsDoubtful
  BY <1>2 DEF Init, BatchShape, BatchIsOwned, CopyIsCurrent, LostIsDoubtful
<1>4. CopyIsJustified /\ LiveRowsTell /\ DoneMeansAccepted /\ DlqMeansAnnounced
  BY DEF Init, CopyIsJustified, Consistent, NoRow, LiveRowsTell,
         DoneMeansAccepted, DlqMeansAnnounced
<1>5. AcceptanceIsRecorded /\ DuplicateOnlyAfterDoubt
  BY DEF Init, AcceptanceIsRecorded, DuplicateOnlyAfterDoubt
<1>6. QED
  BY <1>1, <1>3, <1>4, <1>5 DEF Inv

(* The row a worker is about to push is pending in its copy and, unless    *)
(* doubtful, in the table, too, and its marketplace has not taken the      *)
(* order.                                                                  *)
LEMMA NextIsFresh ==
  ASSUME Inv, NEW w \in Workers, NEW k \in Key, IsNext(w, k)
  PROVE  /\ k \in todo[w]
         /\ pc[w] = "pushing"
         /\ tx[w][k] \in Row
         /\ tx[w][k].status = "pending"
         /\ tx[w][k].attempts < MaxAttempts
         /\ tx[w][k].attempts \in Nat
         /\ accepted[k] = 0 \/ k \in doubtful
         /\ outbox[k].status = "pending" \/ k \in doubtful
<1>1. k \in todo[w] /\ pc[w] = "pushing"
  BY DEF IsNext
<1>2. tx[w][k] \in Row /\ tx[w][k].status = "pending" /\ k \in Batch(w)
  BY <1>1 DEF Inv, TypeOK, BatchShape
<1>3. tx[w][k].attempts < MaxAttempts /\ tx[w][k].attempts \in Nat
  BY <1>2, BoundAssumption DEF Inv, CopyIsJustified, Consistent, Row
<1>4. (accepted[k] = 0 /\ outbox[k].status = "pending") \/ k \in doubtful
  <2>1. CASE lost[w]
    BY <2>1, <1>2 DEF Inv, LostIsDoubtful
  <2>2. CASE ~lost[w]
    <3>1. k \in Locked(w)
      BY <2>2, <1>2 DEF Locked
    <3>2. outbox[k].status = "pending" /\ \A v \in Workers \ {w} : k \notin Locked(v)
      BY <3>1 DEF Inv, BatchIsOwned
    <3>3. accepted[k] \in 0..2
      BY DEF Inv, TypeOK
    <3>4. accepted[k] > 0 => k \in doubtful
      BY <3>2, <1>2 DEF Inv, AcceptanceIsRecorded
    <3>5. QED
      BY <3>2, <3>3, <3>4
  <2>3. QED
    BY <2>1, <2>2
<1>5. QED
  BY <1>1, <1>2, <1>3, <1>4

(***************************************************************************)
(* The outcome of one push kept in the worker's copy: the three outcomes   *)
(* of process_entry differ in the row and in what the world has seen.      *)
(***************************************************************************)
LEMMA OutcomeKeepsInv ==
  ASSUME Inv, NEW w \in Workers, NEW k \in Key, NEW row \in Row,
         IsNext(w, k), Processed(w, k, row), Consistent(row),
         row.status # "none", row.id = tx[w][k].id,
         row.attempts \in {tx[w][k].attempts, tx[w][k].attempts + 1},
         accepted' \in [Key -> 0..2],
         \A j \in Key \ {k} : accepted'[j] = accepted[j],
         accepted[k] > 0 => accepted'[k] > 0,
         doubtful \subseteq doubtful', doubtful' \subseteq Key,
         syncDlq \subseteq syncDlq', syncDlq' \subseteq Key,
         row.status = "done" => accepted'[k] > 0,
         row.status = "dlq" => k \in syncDlq',
         accepted'[k] > 0 => k \in doubtful' \/ row.status = "done",
         accepted'[k] = 2 => k \in doubtful'
  PROVE  Inv'
<1>1. /\ k \in todo[w] /\ pc[w] = "pushing"
      /\ tx[w][k].status = "pending"
  BY NextIsFresh
<1>2. /\ tx'[w][k] = row
      /\ \A v \in Workers, j \in Key : v # w \/ j # k => tx'[v][j] = tx[v][j]
      /\ todo'[w] = todo[w] \ {k}
      /\ \A v \in Workers \ {w} : todo'[v] = todo[v]
      /\ \A v \in Workers : Batch(v)' = Batch(v) /\ Locked(v)' = Locked(v)
      /\ todo' \in [Workers -> SUBSET Key]
      /\ tx' \in [Workers -> [Key -> Row]]
  BY <1>1, ProcessedFacts DEF Inv
<1>3. /\ odoo' = odoo /\ outbox' = outbox /\ lastId' = lastId /\ pc' = pc
      /\ fetched' = fetched /\ lost' = lost /\ faults' = faults
  BY DEF Processed
<1>4. TypeOK'
  BY <1>2, <1>3 DEF Inv, TypeOK
<1>5. BatchShape'
  BY <1>2, <1>3 DEF Inv, BatchShape
<1>6. BatchIsOwned'
  BY <1>2, <1>3 DEF Inv, BatchIsOwned
<1>7. CopyIsJustified'
  <2> SUFFICES ASSUME NEW v \in Workers, NEW j \in Key
               PROVE  /\ Consistent(tx'[v][j])
                      /\ tx'[v][j].status = "done" => accepted'[j] > 0
                      /\ tx'[v][j].status = "dlq" => j \in syncDlq'
    BY DEF CopyIsJustified, Consistent
  <2>1. CASE v = w /\ j = k
    BY <2>1, <1>2
  <2>2. CASE v # w \/ j # k
    <3>1. tx'[v][j] = tx[v][j]
      BY <2>2, <1>2
    <3>2. accepted[j] > 0 => accepted'[j] > 0
      BY DEF Inv, TypeOK
    <3>3. QED
      BY <3>1, <3>2 DEF Inv, CopyIsJustified
  <2>3. QED
    BY <2>1, <2>2
<1>8. CopyIsCurrent'
  <2> SUFFICES ASSUME NEW v \in Workers, NEW j \in Locked(v)
               PROVE  /\ outbox[j].due
                      /\ tx'[v][j].id = outbox[j].id
                      /\ tx'[v][j].attempts \in {outbox[j].attempts, outbox[j].attempts + 1}
                      /\ j \in todo'[v] => tx'[v][j] = outbox[j]
    BY <1>2, <1>3 DEF CopyIsCurrent
  <2>0. j \in Key
    BY DEF Locked, Batch
  <2>1. CASE v = w /\ j = k
    <3>1. tx[w][k] = outbox[k] /\ outbox[k].due
      BY <2>1, <1>1 DEF Inv, CopyIsCurrent
    <3>2. QED
      BY <3>1, <2>1, <1>2
  <2>2. CASE v # w \/ j # k
    BY <2>0, <2>2, <1>2 DEF Inv, CopyIsCurrent
  <2>3. QED
    BY <2>1, <2>2
<1>9. LostIsDoubtful'
  BY <1>2, <1>3 DEF Inv, LostIsDoubtful
<1>10. AcceptanceIsRecorded'
  <2> SUFFICES ASSUME NEW j \in Key, accepted'[j] > 0
               PROVE  \/ j \in doubtful'
                      \/ outbox'[j].status = "done"
                      \/ \E v \in Workers : j \in Locked(v)' /\ tx'[v][j].status = "done"
    BY DEF AcceptanceIsRecorded
  <2>1. CASE j = k
    <3>1. CASE k \in doubtful'
      BY <3>1, <2>1
    <3>2. CASE k \notin doubtful'
      <4>1. k \in Batch(w)
        BY <1>1 DEF Inv, BatchShape
      <4>2. ~lost[w]
        BY <3>2, <4>1 DEF Inv, LostIsDoubtful
      <4>3. k \in Locked(w)
        BY <4>1, <4>2 DEF Locked
      <4>4. tx'[w][k].status = "done"
        BY <3>2, <2>1, <1>2
      <4>5. QED
        BY <4>3, <4>4, <2>1, <1>2
    <3>3. QED
      BY <3>1, <3>2
  <2>2. CASE j # k
    BY <2>2, <1>2, <1>3 DEF Inv, AcceptanceIsRecorded
  <2>3. QED
    BY <2>1, <2>2
<1>11. DuplicateOnlyAfterDoubt'
  BY DEF Inv, DuplicateOnlyAfterDoubt
<1>12. DoneMeansAccepted' /\ DlqMeansAnnounced' /\ LiveRowsTell'
  <2>1. \A j \in Key : accepted[j] > 0 => accepted'[j] > 0
    BY DEF Inv, TypeOK
  <2>2. QED
    BY <2>1, <1>3 DEF Inv, DoneMeansAccepted, DlqMeansAnnounced, LiveRowsTell
<1>13. QED
  BY <1>4, <1>5, <1>6, <1>7, <1>8, <1>9, <1>10, <1>11, <1>12 DEF Inv

(* One of the three outcomes that stay in the copy. *)
LEMMA PushKeepsInv ==
  ASSUME Inv, NEW w \in Workers, NEW k \in Key,
         PushOk(w, k) \/ PushRetry(w, k) \/ PushDead(w, k)
  PROVE  Inv'
<1>1. IsNext(w, k)
  BY DEF PushOk, PushRetry, PushDead
<1>2. /\ tx[w][k] \in Row
      /\ tx[w][k].status = "pending"
      /\ tx[w][k].attempts < MaxAttempts
      /\ tx[w][k].attempts \in Nat
      /\ accepted[k] = 0 \/ k \in doubtful
  BY <1>1, NextIsFresh
<1>3. /\ accepted \in [Key -> 0..2] /\ syncDlq \subseteq Key /\ doubtful \subseteq Key
      /\ accepted[k] = 2 => k \in doubtful
  BY DEF Inv, TypeOK, DuplicateOnlyAfterDoubt
<1>4. CASE PushOk(w, k)
  <2> DEFINE row == [tx[w][k] EXCEPT !.status = "done", !.error = FALSE]
  <2>1. row \in Row /\ Consistent(row) /\ row.status = "done"
        /\ row.id = tx[w][k].id /\ row.attempts = tx[w][k].attempts
    BY <1>2 DEF Row, Consistent
  <2>2. Processed(w, k, row) /\ Accept(k) /\ doubtful' = doubtful /\ syncDlq' = syncDlq
    BY <1>4 DEF PushOk
  <2>3. /\ accepted' \in [Key -> 0..2]
        /\ \A j \in Key \ {k} : accepted'[j] = accepted[j]
        /\ accepted'[k] = IF accepted[k] = 0 THEN 1 ELSE 2
    BY <2>2, <1>3 DEF Accept
  <2>4. (accepted'[k] = 2 => k \in doubtful') /\ accepted'[k] > 0
    BY <2>2, <2>3, <1>2
  <2> HIDE DEF row
  <2>5. QED
    BY <1>1, <1>3, <2>1, <2>2, <2>3, <2>4, OutcomeKeepsInv
<1>5. ASSUME NEW hit \in BOOLEAN, FailedPush(k, hit, {})
      PROVE  /\ accepted' \in [Key -> 0..2]
             /\ \A j \in Key \ {k} : accepted'[j] = accepted[j]
             /\ accepted[k] > 0 => accepted'[k] > 0
             /\ doubtful \subseteq doubtful' /\ doubtful' \subseteq Key
             /\ accepted'[k] > 0 => k \in doubtful'
             /\ accepted'[k] = 2 => k \in doubtful'
  BY <1>2, <1>3, <1>5 DEF FailedPush, Accept
<1>6. CASE PushRetry(w, k)
  <2> DEFINE row == [tx[w][k] EXCEPT !.attempts = @ + 1, !.error = TRUE,
                                     !.status = "pending", !.due = FALSE]
  <2>1. ~LastAttempt(w, k) /\ Processed(w, k, row) /\ syncDlq' = syncDlq
    BY <1>6 DEF PushRetry
  <2>2. /\ row.status = "pending" /\ row.error = TRUE
        /\ row.id = tx[w][k].id /\ row.attempts = tx[w][k].attempts + 1
    BY <1>2 DEF Row
  <2>3. row.attempts \in 0..MaxAttempts /\ row.attempts < MaxAttempts
    BY <2>1, <2>2, <1>2, BoundAssumption DEF LastAttempt
  <2>4. row \in Row
    BY <2>3, <1>2 DEF Row
  <2>5. Consistent(row)
    BY <2>2, <2>3, <1>2 DEF Consistent
  <2>6. PICK hit \in BOOLEAN : FailedPush(k, hit, {})
    BY <1>6 DEF PushRetry
  <2> HIDE DEF row
  <2>7. QED
    BY <1>1, <1>3, <1>5, <2>1, <2>2, <2>4, <2>5, <2>6, OutcomeKeepsInv
<1>7. CASE PushDead(w, k)
  <2> DEFINE row == [tx[w][k] EXCEPT !.attempts = @ + 1, !.error = TRUE,
                                     !.status = "dlq"]
  <2>1. LastAttempt(w, k) /\ Processed(w, k, row) /\ syncDlq' = syncDlq \cup {k}
    BY <1>7 DEF PushDead
  <2>2. /\ row.status = "dlq" /\ row.error = TRUE
        /\ row.id = tx[w][k].id /\ row.attempts = tx[w][k].attempts + 1
    BY <1>2 DEF Row
  <2>3. row.attempts \in 0..MaxAttempts /\ row.attempts = MaxAttempts
    BY <2>1, <2>2, <1>2, BoundAssumption DEF LastAttempt
  <2>4. row \in Row
    BY <2>3, <1>2 DEF Row
  <2>5. Consistent(row)
    BY <2>2, <2>3, <1>2 DEF Consistent
  <2>6. PICK hit \in BOOLEAN : FailedPush(k, hit, {})
    BY <1>7 DEF PushDead
  <2> HIDE DEF row
  <2>7. QED
    BY <1>1, <1>3, <1>5, <2>1, <2>2, <2>4, <2>5, <2>6, OutcomeKeepsInv
<1>8. QED
  BY <1>4, <1>6, <1>7

(***************************************************************************)
(* A batch given up without a commit: what its copies recorded is lost, so *)
(* the rows done in it must have become doubtful.                          *)
(***************************************************************************)
LEMMA RollbackKeepsInv ==
  ASSUME Inv, NEW w \in Workers, Reset(w),
         UNCHANGED <<odoo, outbox, lastId>>, faults' \in 0..MaxFaults,
         accepted' \in [Key -> 0..2],
         \A j \in Key : accepted[j] > 0 => accepted'[j] > 0,
         \A j \in Key : accepted'[j] # accepted[j] => j \in doubtful',
         doubtful \cup DoneIn(w) \subseteq doubtful', doubtful' \subseteq Key,
         syncDlq \subseteq syncDlq', syncDlq' \subseteq Key
  PROVE  Inv'
<1>1. /\ pc'[w] = "idle" /\ todo'[w] = {} /\ ~lost'[w]
      /\ Batch(w)' = {} /\ Locked(w)' = {}
      /\ \A k \in Key : tx'[w][k] = NoRow
      /\ \A v \in Workers \ {w} :
           /\ pc'[v] = pc[v] /\ todo'[v] = todo[v] /\ tx'[v] = tx[v]
           /\ lost'[v] = lost[v] /\ fetched'[v] = fetched[v]
           /\ Batch(v)' = Batch(v) /\ Locked(v)' = Locked(v)
  BY ResetFacts DEF Inv
<1>2. TypeOK'
  BY ResetFacts DEF Inv, TypeOK
<1>3. BatchShape'
  BY <1>1 DEF Inv, BatchShape
<1>4. BatchIsOwned'
  BY <1>1 DEF Inv, BatchIsOwned
<1>5. CopyIsJustified'
  BY <1>1 DEF Inv, CopyIsJustified, Consistent, NoRow
<1>6. CopyIsCurrent'
  <2>1. ASSUME NEW v \in Workers, NEW k \in Locked(v)'
        PROVE  v # w /\ k \in Locked(v) /\ k \in Key
    BY <2>1, <1>1 DEF Locked, Batch
  <2>2. QED
    BY <2>1, <1>1 DEF Inv, CopyIsCurrent
<1>7. LostIsDoubtful'
  BY <1>1 DEF Inv, LostIsDoubtful
<1>8. AcceptanceIsRecorded'
  <2> SUFFICES ASSUME NEW k \in Key, accepted'[k] > 0, k \notin doubtful'
               PROVE  \/ outbox'[k].status = "done"
                      \/ \E v \in Workers : k \in Locked(v)' /\ tx'[v][k].status = "done"
    BY DEF AcceptanceIsRecorded
  <2>1. accepted[k] > 0 /\ k \notin doubtful /\ k \notin DoneIn(w)
    OBVIOUS
  <2>2. \/ outbox[k].status = "done"
        \/ \E v \in Workers : k \in Locked(v) /\ tx[v][k].status = "done"
    BY <2>1 DEF Inv, AcceptanceIsRecorded
  <2>3. QED
    BY <2>1, <2>2, <1>1 DEF DoneIn
<1>9. DuplicateOnlyAfterDoubt'
  BY DEF Inv, DuplicateOnlyAfterDoubt
<1>10. DoneMeansAccepted' /\ DlqMeansAnnounced' /\ LiveRowsTell'
  BY DEF Inv, DoneMeansAccepted, DlqMeansAnnounced, LiveRowsTell
<1>11. QED
  BY <1>2, <1>3, <1>4, <1>5, <1>6, <1>7, <1>8, <1>9, <1>10 DEF Inv

(* A failed push whose outcome is thrown away with the batch. *)
LEMMA GiveUpKeepsInv ==
  ASSUME Inv, NEW w \in Workers,
         \/ \E k \in Key : DlqPublishRaises(w, k)
         \/ CommitFails(w)
         \/ Crash(w)
  PROVE  Inv'
<1>1. /\ accepted \in [Key -> 0..2] /\ syncDlq \subseteq Key /\ doubtful \subseteq Key
      /\ faults \in 0..MaxFaults /\ DoneIn(w) \subseteq Key /\ DoneIn(w) \subseteq Batch(w)
  BY DEF Inv, TypeOK, DoneIn, Batch
<1>2. ASSUME NEW k \in Key, DlqPublishRaises(w, k) PROVE Inv'
  <2>1. Reset(w) /\ UNCHANGED <<odoo, outbox, lastId>> /\ faults' = faults
    BY <1>2 DEF DlqPublishRaises
  <2>2. PICK hit \in BOOLEAN : FailedPush(k, hit, DoneIn(w))
    BY <1>2 DEF DlqPublishRaises
  <2>3. /\ accepted' \in [Key -> 0..2]
        /\ \A j \in Key : accepted[j] > 0 => accepted'[j] > 0
        /\ \A j \in Key : accepted'[j] # accepted[j] => j \in doubtful'
        /\ doubtful \cup DoneIn(w) \subseteq doubtful' /\ doubtful' \subseteq Key
    BY <2>2, <1>1 DEF FailedPush, Accept
  <2>4. syncDlq \subseteq syncDlq' /\ syncDlq' \subseteq Key
    BY <1>2, <1>1 DEF DlqPublishRaises
  <2>5. QED
    BY <1>1, <2>1, <2>3, <2>4, RollbackKeepsInv
<1>3. CASE CommitFails(w)
  <2>1. Reset(w) /\ UNCHANGED <<odoo, outbox, lastId>> /\ UNCHANGED worldVars
        /\ faults' = faults /\ lost[w]
    BY <1>3 DEF CommitFails
  <2>2. DoneIn(w) \subseteq doubtful
    BY <2>1, <1>1 DEF Inv, LostIsDoubtful
  <2>3. QED
    BY <1>1, <2>1, <2>2, RollbackKeepsInv DEF worldVars
<1>4. CASE Crash(w)
  <2>1. /\ Reset(w) /\ UNCHANGED <<odoo, outbox, lastId, accepted, syncDlq>>
        /\ faults' \in 0..MaxFaults /\ doubtful' = doubtful \cup DoneIn(w)
    BY <1>1, <1>4, BoundAssumption DEF Crash
  <2>2. QED
    BY <1>1, <2>1, RollbackKeepsInv
<1>5. QED
  BY <1>2, <1>3, <1>4

(* Steps that leave rows, copies and acceptances alone. *)
LEMMA QuietStepKeepsInv ==
  ASSUME Inv, UNCHANGED <<outbox, lastId, todo, tx, lost, worldVars>>,
         faults' \in 0..MaxFaults, odoo' \in [Orders -> OdooState],
         pc' \in [Workers -> {"idle", "fetched", "enqueued", "pushing"}],
         fetched' \in [Workers -> SUBSET Orders],
         \A w \in Workers : pc[w] = "pushing" <=> pc'[w] = "pushing"
  PROVE  Inv'
<1>1. \A w \in Workers : Batch(w)' = Batch(w) /\ Locked(w)' = Locked(w)
  BY DEF Batch, Locked
<1>2. TypeOK'
  BY DEF Inv, TypeOK, worldVars
<1>3. BatchShape' /\ BatchIsOwned' /\ CopyIsCurrent' /\ LostIsDoubtful'
  BY <1>1 DEF Inv, BatchShape, BatchIsOwned, CopyIsCurrent, LostIsDoubtful, worldVars
<1>4. CopyIsJustified' /\ AcceptanceIsRecorded' /\ DuplicateOnlyAfterDoubt'
  BY <1>1 DEF Inv, CopyIsJustified, Consistent, AcceptanceIsRecorded,
              DuplicateOnlyAfterDoubt, worldVars
<1>5. DoneMeansAccepted' /\ DlqMeansAnnounced' /\ LiveRowsTell'
  BY DEF Inv, DoneMeansAccepted, DlqMeansAnnounced, LiveRowsTell, worldVars
<1>6. QED
  BY <1>2, <1>3, <1>4, <1>5 DEF Inv

LEMMA OdooChangeKeepsInv ==
  ASSUME Inv, NEW o \in Orders, OdooChange(o)
  PROVE  Inv'
<1>1. odoo' \in [Orders -> OdooState]
  BY DEF Inv, TypeOK, OdooChange, OdooMove
<1>2. QED
  BY <1>1, QuietStepKeepsInv DEF OdooChange, workerVars, Inv, TypeOK

LEMMA FetchKeepsInv ==
  ASSUME Inv, NEW w \in Workers, Fetch(w)
  PROVE  Inv'
<1>1. fetched' \in [Workers -> SUBSET Orders]
  BY DEF Inv, TypeOK, Fetch, Confirmed
<1>2. pc' \in [Workers -> {"idle", "fetched", "enqueued", "pushing"}]
  BY DEF Inv, TypeOK, Fetch
<1>3. \A v \in Workers : pc[v] = "pushing" <=> pc'[v] = "pushing"
  BY DEF Inv, TypeOK, Fetch
<1>4. QED
  BY <1>1, <1>2, <1>3, QuietStepKeepsInv DEF Fetch, Inv, TypeOK

(***************************************************************************)
(* Steps that change committed rows but no row that is locked or settled,  *)
(* and leave the copies and the world alone.                               *)
(***************************************************************************)
LEMMA RowStepKeepsInv ==
  ASSUME Inv, UNCHANGED <<odoo, todo, tx, lost, worldVars, faults>>,
         outbox' \in [Key -> Row], lastId' \in Nat,
         pc' \in [Workers -> {"idle", "fetched", "enqueued", "pushing"}],
         fetched' \in [Workers -> SUBSET Orders],
         \A w \in Workers : pc[w] = "pushing" <=> pc'[w] = "pushing",
         \A k \in Key : outbox'[k] # outbox[k] =>
           /\ outbox[k].status = "none" \/ ~outbox[k].due
           /\ outbox'[k].status = "pending"
           /\ outbox[k].status # "done"
           /\ Consistent(outbox'[k])
  PROVE  Inv'
<1>1. \A w \in Workers : Batch(w)' = Batch(w) /\ Locked(w)' = Locked(w)
  BY DEF Batch, Locked
<1>2. TypeOK'
  BY DEF Inv, TypeOK, worldVars
<1>3. ASSUME NEW w \in Workers, NEW k \in Locked(w)
      PROVE  k \in Key /\ outbox'[k] = outbox[k]
  <2>1. k \in Key /\ outbox[k].due /\ outbox[k].status = "pending"
    BY DEF Inv, CopyIsCurrent, BatchIsOwned, Locked, Batch
  <2>2. QED
    BY <2>1
<1>4. BatchShape' /\ LostIsDoubtful'
  BY <1>1 DEF Inv, BatchShape, LostIsDoubtful, worldVars
<1>5. BatchIsOwned'
  BY <1>1, <1>3 DEF Inv, BatchIsOwned
<1>6. CopyIsCurrent'
  BY <1>1, <1>3 DEF Inv, CopyIsCurrent
<1>7. CopyIsJustified' /\ DuplicateOnlyAfterDoubt'
  BY DEF Inv, CopyIsJustified, Consistent, DuplicateOnlyAfterDoubt, worldVars
<1>8. AcceptanceIsRecorded'
  BY <1>1 DEF Inv, AcceptanceIsRecorded, worldVars
<1>9. DoneMeansAccepted' /\ DlqMeansAnnounced'
  BY DEF Inv, DoneMeansAccepted, DlqMeansAnnounced, worldVars
<1>10. LiveRowsTell'
  BY DEF Inv, LiveRowsTell, Consistent
<1>11. QED
  BY <1>2, <1>4, <1>5, <1>6, <1>7, <1>8, <1>9, <1>10 DEF Inv

LEMMA BackoffExpiresKeepsInv ==
  ASSUME Inv, NEW k \in Key, BackoffExpires(k)
  PROVE  Inv'
<1>1. /\ outbox' \in [Key -> Row]
      /\ \A j \in Key \ {k} : outbox'[j] = outbox[j]
      /\ outbox'[k] = [outbox[k] EXCEPT !.due = TRUE]
  <2>1. outbox \in [Key -> Row] /\ outbox[k] \in Row
    BY DEF Inv, TypeOK
  <2>2. [outbox[k] EXCEPT !.due = TRUE] \in Row
    BY <2>1 DEF Row
  <2>3. outbox' = [outbox EXCEPT ![k] = [outbox[k] EXCEPT !.due = TRUE]]
    BY DEF BackoffExpires
  <2>4. QED
    BY <2>1, <2>2, <2>3
<1>2. /\ ~outbox[k].due /\ outbox[k].status = "pending"
      /\ outbox'[k].status = outbox[k].status
      /\ outbox'[k].attempts = outbox[k].attempts
      /\ outbox'[k].error = outbox[k].error
  BY <1>1 DEF Inv, TypeOK, Row, BackoffExpires
<1>3. Consistent(outbox'[k])
  BY <1>2 DEF Inv, LiveRowsTell, Consistent
<1>4. QED
  BY <1>1, <1>2, <1>3, RowStepKeepsInv DEF BackoffExpires, workerVars, Inv, TypeOK

LEMMA EnqueueKeepsInv ==
  ASSUME Inv, NEW w \in Workers, Enqueue(w)
  PROVE  Inv'
<1>1. ASSUME NEW k \in Key
      PROVE  /\ lastId + Rank[k] \in Nat
             /\ NewRow(lastId + Rank[k]) \in Row
             /\ NewRow(lastId + Rank[k]).status = "pending"
             /\ Consistent(NewRow(lastId + Rank[k]))
  <2>1. lastId \in Nat /\ Rank[k] \in Nat
    BY SpanNat, RankAssumption DEF Inv, TypeOK
  <2>2. lastId + Rank[k] \in Nat
    BY <2>1
  <2>3. Consistent(NewRow(lastId + Rank[k]))
    BY BoundAssumption DEF Consistent, NewRow
  <2>4. QED
    BY <2>2, <2>3, RowTypes DEF NewRow
<1>2. outbox' \in [Key -> Row]
  BY <1>1 DEF Inv, TypeOK, Enqueue
<1>3. lastId' \in Nat
  BY SpanNat DEF Inv, TypeOK, Enqueue
<1>4. \A k \in Key : outbox'[k] # outbox[k] =>
        outbox[k].status = "none" /\ outbox'[k] = NewRow(lastId + Rank[k])
  BY DEF Enqueue, NewKeys
<1>5. /\ pc' \in [Workers -> {"idle", "fetched", "enqueued", "pushing"}]
      /\ fetched' \in [Workers -> SUBSET Orders]
      /\ \A v \in Workers : pc[v] = "pushing" <=> pc'[v] = "pushing"
  BY DEF Inv, TypeOK, Enqueue
<1>6. UNCHANGED <<odoo, todo, tx, lost, worldVars, faults>>
  BY DEF Enqueue
<1>7. QED
  BY <1>1, <1>2, <1>3, <1>4, <1>5, <1>6, RowStepKeepsInv

(* SKIP LOCKED: the rows of a new batch are in no other batch that still   *)
(* has its locks.  "held" may be any set: the lemma also serves sessions   *)
(* other than the workers'.                                                *)
LEMMA SelectBatchKeepsInv ==
  ASSUME Inv, NEW w \in Workers, NEW held, SelectBatch(w, held)
  PROVE  Inv'
<1>1. PICK S \in SUBSET Eligible(held) :
        /\ todo' = [todo EXCEPT ![w] = S]
        /\ tx' = [tx EXCEPT ![w] = [k \in Key |-> IF k \in S THEN outbox[k] ELSE NoRow]]
  BY DEF SelectBatch
<1>2. /\ pc[w] = "enqueued" /\ pc' = [pc EXCEPT ![w] = "pushing"]
      /\ UNCHANGED <<odoo, outbox, lastId, fetched, lost, worldVars, faults>>
  BY DEF SelectBatch
<1>3. \A k \in S : /\ k \in Key /\ outbox[k].status = "pending" /\ outbox[k].due
                   /\ \A v \in Workers : k \notin Locked(v)
  BY DEF Eligible, LockedByWorkers
<1>4. /\ \A k \in S : tx'[w][k] = outbox[k]
      /\ \A k \in Key \ S : tx'[w][k] = NoRow
      /\ \A v \in Workers \ {w} : tx'[v] = tx[v] /\ todo'[v] = todo[v] /\ pc'[v] = pc[v]
      /\ todo'[w] = S /\ pc'[w] = "pushing"
  BY <1>1, <1>2, <1>3 DEF Inv, TypeOK
<1>5. /\ todo' \in [Workers -> SUBSET Key]
      /\ pc' \in [Workers -> {"idle", "fetched", "enqueued", "pushing"}]
      /\ tx' \in [Workers -> [Key -> Row]]
  BY <1>1, <1>2, <1>3, RowTypes DEF Inv, TypeOK
<1>6. Batch(w)' = S
  BY <1>3, <1>4 DEF Batch, NoRow
<1>7. ~lost[w]
  BY <1>2 DEF Inv, BatchShape
<1>8. Locked(w)' = S
  BY <1>2, <1>6, <1>7 DEF Locked
<1>9. ASSUME NEW v \in Workers \ {w}
      PROVE  Batch(v)' = Batch(v) /\ Locked(v)' = Locked(v)
  BY <1>2, <1>4 DEF Batch, Locked
<1>10. Batch(w) = {} /\ Locked(w) = {}
  BY <1>2 DEF Inv, BatchShape, Locked
<1>11. TypeOK'
  BY <1>2, <1>5 DEF Inv, TypeOK, worldVars
<1>12. BatchShape'
  BY <1>2, <1>3, <1>4, <1>6, <1>9 DEF Inv, BatchShape
<1>13. BatchIsOwned'
  BY <1>2, <1>3, <1>8, <1>9 DEF Inv, BatchIsOwned
<1>14. CopyIsJustified'
  <2> SUFFICES ASSUME NEW v \in Workers, NEW k \in Key
               PROVE  /\ Consistent(tx'[v][k])
                      /\ tx'[v][k].status = "done" => accepted'[k] > 0
                      /\ tx'[v][k].status = "dlq" => k \in syncDlq'
    BY DEF CopyIsJustified, Consistent
  <2>1. CASE v = w /\ k \in S
    BY <2>1, <1>3, <1>4 DEF Inv, LiveRowsTell, Consistent
  <2>2. CASE v = w /\ k \notin S
    BY <2>2, <1>4 DEF Consistent, NoRow
  <2>3. CASE v # w
    BY <2>3, <1>2, <1>4 DEF Inv, CopyIsJustified, worldVars
  <2>4. QED
    BY <2>1, <2>2, <2>3
<1>15. CopyIsCurrent'
  <2> SUFFICES ASSUME NEW v \in Workers, NEW k \in Locked(v)'
               PROVE  /\ outbox[k].due
                      /\ tx'[v][k].id = outbox[k].id
                      /\ tx'[v][k].attempts \in {outbox[k].attempts, outbox[k].attempts + 1}
                      /\ k \in todo'[v] => tx'[v][k] = outbox[k]
    BY <1>2 DEF CopyIsCurrent
  <2>1. CASE v = w
    BY <2>1, <1>3, <1>4, <1>8
  <2>2. CASE v # w
    <3>1. k \in Locked(v) /\ tx'[v] = tx[v] /\ todo'[v] = todo[v]
      BY <2>2, <1>4, <1>9
    <3>2. QED
      BY <3>1 DEF Inv, CopyIsCurrent
  <2>3. QED
    BY <2>1, <2>2
<1>16. LostIsDoubtful'
  BY <1>2, <1>7, <1>9 DEF Inv, LostIsDoubtful, worldVars
<1>17. AcceptanceIsRecorded'
  <2> SUFFICES ASSUME NEW k \in Key, accepted[k] > 0, k \notin doubtful,
                      outbox[k].status # "done"
               PROVE  \E v \in Workers : k \in Locked(v)' /\ tx'[v][k].status = "done"
    BY <1>2 DEF AcceptanceIsRecorded, worldVars
  <2>1. PICK v \in Workers : k \in Locked(v) /\ tx[v][k].status = "done"
    BY DEF Inv, AcceptanceIsRecorded
  <2>2. v # w
    BY <2>1, <1>10
  <2>3. QED
    BY <2>1, <2>2, <1>4, <1>9
<1>18. DuplicateOnlyAfterDoubt' /\ DoneMeansAccepted' /\ DlqMeansAnnounced'
       /\ LiveRowsTell'
  BY <1>2 DEF Inv, DuplicateOnlyAfterDoubt, DoneMeansAccepted, DlqMeansAnnounced,
              LiveRowsTell, worldVars
<1>19. QED
  BY <1>11, <1>12, <1>13, <1>14, <1>15, <1>16, <1>17, <1>18 DEF Inv

(* The commit makes the copies the rows. *)
LEMMA CommitKeepsInv ==
  ASSUME Inv, NEW w \in Workers, Commit(w)
  PROVE  Inv'
<1>1. /\ ~lost[w] /\ todo[w] = {} /\ Reset(w)
      /\ outbox' = [k \in Key |-> IF k \in Batch(w) THEN tx[w][k] ELSE outbox[k]]
      /\ UNCHANGED <<odoo, lastId, worldVars, faults>>
  BY DEF Commit
<1>2. /\ pc'[w] = "idle" /\ todo'[w] = {} /\ ~lost'[w]
      /\ Batch(w)' = {} /\ Locked(w)' = {}
      /\ \A k \in Key : tx'[w][k] = NoRow
      /\ \A v \in Workers \ {w} :
           /\ pc'[v] = pc[v] /\ todo'[v] = todo[v] /\ tx'[v] = tx[v]
           /\ lost'[v] = lost[v] /\ fetched'[v] = fetched[v]
           /\ Batch(v)' = Batch(v) /\ Locked(v)' = Locked(v)
  BY <1>1, ResetFacts DEF Inv
<1>3. Locked(w) = Batch(w) /\ Batch(w) \subseteq Key
  BY <1>1 DEF Locked, Batch
<1>4. /\ \A k \in Batch(w) : outbox'[k] = tx[w][k]
      /\ \A k \in Key \ Batch(w) : outbox'[k] = outbox[k]
  BY <1>1, <1>3
<1>5. TypeOK'
  BY <1>1, ResetFacts DEF Inv, TypeOK, worldVars
<1>6. ASSUME NEW v \in Workers \ {w}, NEW k \in Locked(v)
      PROVE  k \in Key /\ outbox'[k] = outbox[k]
  BY <1>3, <1>4 DEF Inv, BatchIsOwned, Locked, Batch
<1>7. BatchShape'
  BY <1>2 DEF Inv, BatchShape
<1>8. BatchIsOwned'
  BY <1>2, <1>6 DEF Inv, BatchIsOwned
<1>9. CopyIsJustified'
  BY <1>1, <1>2 DEF Inv, CopyIsJustified, Consistent, NoRow, worldVars
<1>10. CopyIsCurrent'
  BY <1>2, <1>6 DEF Inv, CopyIsCurrent
<1>11. LostIsDoubtful'
  BY <1>1, <1>2 DEF Inv, LostIsDoubtful, worldVars
<1>12. AcceptanceIsRecorded'
  <2> SUFFICES ASSUME NEW k \in Key, accepted[k] > 0, k \notin doubtful
               PROVE  \/ outbox'[k].status = "done"
                      \/ \E v \in Workers : k \in Locked(v)' /\ tx'[v][k].status = "done"
    BY <1>1 DEF AcceptanceIsRecorded, worldVars
  <2>1. CASE outbox[k].status = "done"
    BY <2>1, <1>3, <1>4 DEF Inv, BatchIsOwned
  <2>2. ASSUME NEW v \in Workers, k \in Locked(v), tx[v][k].status = "done"
        PROVE  \/ outbox'[k].status = "done"
               \/ k \in Locked(v)' /\ tx'[v][k].status = "done"
    <3>1. CASE v = w
      BY <3>1, <2>2, <1>3, <1>4
    <3>2. CASE v # w
      BY <3>2, <2>2, <1>2
    <3>3. QED
      BY <3>1, <3>2
  <2>3. QED
    BY <2>1, <2>2 DEF Inv, AcceptanceIsRecorded
<1>13. DuplicateOnlyAfterDoubt'
  BY <1>1 DEF Inv, DuplicateOnlyAfterDoubt, worldVars
<1>14. DoneMeansAccepted' /\ DlqMeansAnnounced'
  BY <1>1, <1>4 DEF Inv, CopyIsJustified, DoneMeansAccepted, DlqMeansAnnounced, worldVars
<1>15. LiveRowsTell'
  BY <1>4 DEF Inv, CopyIsJustified, Consistent, LiveRowsTell
<1>16. QED
  BY <1>5, <1>7, <1>8, <1>9, <1>10, <1>11, <1>12, <1>13, <1>14, <1>15 DEF Inv

(* A lost session takes the locks away and makes its rows doubtful. *)
LEMMA SessionLostKeepsInv ==
  ASSUME Inv, NEW w \in Workers, SessionLost(w)
  PROVE  Inv'
<1>1. /\ lost' = [lost EXCEPT ![w] = TRUE] /\ pc[w] = "pushing"
      /\ doubtful' = doubtful \cup Batch(w) /\ faults' = faults + 1 /\ faults < MaxFaults
      /\ UNCHANGED <<odoo, outbox, lastId, pc, fetched, todo, tx, accepted, syncDlq>>
  BY DEF SessionLost
<1>2. /\ lost'[w] /\ \A v \in Workers \ {w} : lost'[v] = lost[v]
      /\ lost' \in [Workers -> BOOLEAN]
  BY <1>1 DEF Inv, TypeOK
<1>3. \A v \in Workers : Batch(v)' = Batch(v) /\ Batch(v) \subseteq Key
  BY <1>1 DEF Batch
<1>4. Locked(w)' = {} /\ \A v \in Workers \ {w} : Locked(v)' = Locked(v)
  BY <1>2, <1>3 DEF Locked
<1>5. TypeOK'
  BY <1>1, <1>2, <1>3, BoundAssumption DEF Inv, TypeOK
<1>6. BatchShape'
  BY <1>1, <1>2, <1>3 DEF Inv, BatchShape
<1>7. BatchIsOwned'
  BY <1>1, <1>4 DEF Inv, BatchIsOwned
<1>8. CopyIsJustified'
  BY <1>1 DEF Inv, CopyIsJustified, Consistent
<1>9. CopyIsCurrent'
  BY <1>1, <1>4 DEF Inv, CopyIsCurrent
<1>10. LostIsDoubtful'
  BY <1>1, <1>2, <1>3 DEF Inv, LostIsDoubtful
<1>11. AcceptanceIsRecorded'
  <2> SUFFICES ASSUME NEW k \in Key, accepted[k] > 0, k \notin doubtful',
                      outbox[k].status # "done"
               PROVE  \E v \in Workers : k \in Locked(v)' /\ tx'[v][k].status = "done"
    BY <1>1 DEF AcceptanceIsRecorded
  <2>1. PICK v \in Workers : k \in Locked(v) /\ tx[v][k].status = "done"
    BY <1>1 DEF Inv, AcceptanceIsRecorded
  <2>2. v # w
    BY <2>1, <1>1 DEF Locked
  <2>3. QED
    BY <2>1, <2>2, <1>1, <1>4
<1>12. DuplicateOnlyAfterDoubt' /\ DoneMeansAccepted' /\ DlqMeansAnnounced'
       /\ LiveRowsTell'
  BY <1>1 DEF Inv, DuplicateOnlyAfterDoubt, DoneMeansAccepted, DlqMeansAnnounced,
              LiveRowsTell
<1>13. QED
  BY <1>5, <1>6, <1>7, <1>8, <1>9, <1>10, <1>11, <1>12 DEF Inv
-----------------------------------------------------------------------------
(* A step of the workers and their environment while sessions that are not *)
(* theirs hold the rows in "held".                                         *)
StepBeside(held) ==
  \/ Environment
  \/ \E w \in Workers : SelectBatch(w, held) \/ WorkerStep(w)

LEMMA NextIsStepBesideNobody == Next <=> StepBeside({})
BY DEF Next, StepBeside, Select

(* Every step keeps the invariant. *)
LEMMA StepKeepsInv ==
  ASSUME Inv, NEW held, StepBeside(held) \/ UNCHANGED vars
  PROVE  Inv'
<1>1. ASSUME NEW o \in Orders, OdooChange(o) PROVE Inv'
  BY <1>1, OdooChangeKeepsInv
<1>2. ASSUME NEW k \in Key, BackoffExpires(k) PROVE Inv'
  BY <1>2, BackoffExpiresKeepsInv
<1>3. ASSUME NEW w \in Workers, SelectBatch(w, held) PROVE Inv'
  BY <1>3, SelectBatchKeepsInv
<1>4. ASSUME NEW w \in Workers, WorkerStep(w) PROVE Inv'
  <2>1. CASE Fetch(w)
    BY <2>1, FetchKeepsInv
  <2>2. CASE Enqueue(w)
    BY <2>2, EnqueueKeepsInv
  <2>3. ASSUME NEW k \in Key, Push(w, k) PROVE Inv'
    BY <2>3, PushKeepsInv, GiveUpKeepsInv DEF Push
  <2>4. CASE Commit(w)
    BY <2>4, CommitKeepsInv
  <2>5. CASE CommitFails(w) \/ Crash(w)
    BY <2>5, GiveUpKeepsInv
  <2>6. CASE SessionLost(w)
    BY <2>6, SessionLostKeepsInv
  <2>7. QED
    BY <1>4, <2>1, <2>2, <2>3, <2>4, <2>5, <2>6 DEF WorkerStep
<1>5. CASE UNCHANGED vars
  <2>1. UNCHANGED <<outbox, lastId, todo, tx, lost, worldVars, faults>>
        /\ UNCHANGED <<odoo, pc, fetched>>
    BY <1>5 DEF vars, workerVars
  <2>2. QED
    BY <2>1, QuietStepKeepsInv DEF Inv, TypeOK
<1>6. QED
  BY <1>1, <1>2, <1>3, <1>4, <1>5 DEF StepBeside, Environment

LEMMA InvNext == Inv /\ [Next]_vars => Inv'
BY StepKeepsInv, NextIsStepBesideNobody

(***************************************************************************)
(* Whatever the number of workers, orders and marketplaces, however often  *)
(* workers crash, sessions are lost, pushes time out and publishes fail:   *)
(* the outbox's rows are owned by one session at a time, "done" and "dlq"  *)
(* have their reason outside the database, a duplicate needs a doubt, and  *)
(* a row tells its story.                                                  *)
(***************************************************************************)
THEOREM InvHolds == Spec => []Inv
BY InvInit, InvNext, PTL DEF Spec

(* Every variable keeps its type. *)
THEOREM TypeCorrect == Spec => []TypeOK
<1>1. Inv => TypeOK
  BY DEF Inv
<1>2. QED
  BY <1>1, InvHolds, PTL

(* FOR UPDATE SKIP LOCKED gives every row of a batch a single owner. *)
THEOREM OneOwner == Spec => []BatchIsOwned
<1>1. Inv => BatchIsOwned
  BY DEF Inv
<1>2. QED
  BY <1>1, InvHolds, PTL

(* The status "done" never lies about the marketplace, whatever batch was  *)
(* rolled back and whatever session was lost in between.                   *)
THEOREM DoneForAReason == Spec => []DoneMeansAccepted
<1>1. Inv => DoneMeansAccepted
  BY DEF Inv
<1>2. QED
  BY <1>1, InvHolds, PTL

(* The status "dlq" never lies about the dead-letter topic: the message is *)
(* published before the row is committed.                                  *)
THEOREM DeadIsAnnounced == Spec => []DlqMeansAnnounced
<1>1. Inv => DlqMeansAnnounced
  BY DEF Inv
<1>2. QED
  BY <1>1, InvHolds, PTL

(* At-least-once delivery is exactly-once where no acceptance is doubtful. *)
THEOREM NoUndoubtedDuplicate == Spec => []DuplicateOnlyAfterDoubt
<1>1. Inv => DuplicateOnlyAfterDoubt
  BY DEF Inv
<1>2. QED
  BY <1>1, InvHolds, PTL
-----------------------------------------------------------------------------
(* A pair without a row has no attempts either. *)
AbsentIsBlank == \A k \in Key : outbox[k].status = "none" => outbox[k].attempts = 0

(* Only enqueue_orders makes rows; no step takes one away. *)
LEMMA RowsStay ==
  ASSUME Inv, NEW held, StepBeside(held) \/ UNCHANGED vars
  PROVE  \/ \E w \in Workers : Enqueue(w)
         \/ \E w \in Workers : Commit(w)
         \/ \E k \in Key : BackoffExpires(k)
         \/ outbox' = outbox
<1>1. ASSUME NEW w \in Workers, NEW k \in Key, Push(w, k) PROVE outbox' = outbox
  BY <1>1 DEF Push, PushOk, PushRetry, PushDead, DlqPublishRaises, Processed
<1>2. ASSUME NEW w \in Workers, SelectBatch(w, held) PROVE outbox' = outbox
  BY <1>2 DEF SelectBatch
<1>3. ASSUME NEW w \in Workers, WorkerStep(w), ~Enqueue(w), ~Commit(w)
      PROVE  outbox' = outbox
  BY <1>1, <1>3 DEF WorkerStep, Fetch, CommitFails, SessionLost, Crash
<1>4. ASSUME NEW o \in Orders, OdooChange(o) PROVE outbox' = outbox
  BY <1>4 DEF OdooChange
<1>5. QED
  BY <1>2, <1>3, <1>4 DEF StepBeside, Environment, vars

(* What a commit writes over a row: at most one more attempt, same id. *)
LEMMA CommitWrites ==
  ASSUME Inv, NEW w \in Workers, Commit(w), NEW k \in Key
  PROVE  \/ outbox'[k] = outbox[k]
         \/ /\ outbox[k].status = "pending"
            /\ k \in Batch(w)
            /\ outbox'[k] = tx[w][k]
            /\ outbox'[k].status \in {"pending", "done", "dlq"}
            /\ outbox'[k].id = outbox[k].id
            /\ outbox'[k].attempts \in {outbox[k].attempts, outbox[k].attempts + 1}
<1>1. ~lost[w] /\ outbox' = [j \in Key |-> IF j \in Batch(w) THEN tx[w][j] ELSE outbox[j]]
  BY DEF Commit
<1>2. CASE k \notin Batch(w)
  BY <1>1, <1>2
<1>3. CASE k \in Batch(w)
  <2>1. k \in Locked(w) /\ tx[w][k].status # "none" /\ tx[w][k] \in Row
    BY <1>1, <1>3 DEF Locked, Batch, Inv, TypeOK
  <2>2. outbox'[k] = tx[w][k]
    BY <1>1, <1>3
  <2>3. outbox[k].status = "pending"
    BY <2>1 DEF Inv, BatchIsOwned
  <2>4. /\ tx[w][k].id = outbox[k].id
        /\ tx[w][k].attempts \in {outbox[k].attempts, outbox[k].attempts + 1}
    BY <2>1 DEF Inv, CopyIsCurrent
  <2>5. tx[w][k].status \in {"pending", "done", "dlq"}
    BY <2>1 DEF Row
  <2>6. QED
    BY <1>3, <2>2, <2>3, <2>4, <2>5
<1>4. QED
  BY <1>2, <1>3

LEMMA BackoffWrites ==
  ASSUME Inv, NEW j \in Key, BackoffExpires(j), NEW k \in Key
  PROVE  \/ outbox'[k] = outbox[k]
         \/ /\ outbox[k].status = "pending" /\ outbox'[k].status = "pending"
            /\ outbox'[k].id = outbox[k].id
            /\ outbox'[k].attempts = outbox[k].attempts
BY DEF BackoffExpires, Inv, TypeOK, Row

(* Without operators only a batch makes a row dead, and with its story. *)
DeadRowsTell ==
  \A k \in Key : outbox[k].status = "dlq" => outbox[k].attempts = MaxAttempts /\ outbox[k].error

LEMMA DeadRowsNext ==
  ASSUME Inv, DeadRowsTell, NEW held, StepBeside(held) \/ UNCHANGED vars
  PROVE  DeadRowsTell'
<1> SUFFICES ASSUME NEW k \in Key, outbox'[k].status = "dlq"
             PROVE  outbox'[k].attempts = MaxAttempts /\ outbox'[k].error
  BY DEF DeadRowsTell
<1>1. ASSUME NEW w \in Workers, Enqueue(w)
      PROVE  outbox'[k] = outbox[k]
  BY <1>1 DEF Enqueue, NewRow
<1>2. ASSUME NEW w \in Workers, Commit(w)
      PROVE  outbox'[k] = outbox[k] \/ outbox'[k] = tx[w][k]
  BY <1>2, CommitWrites
<1>3. ASSUME NEW j \in Key, BackoffExpires(j)
      PROVE  outbox'[k] = outbox[k]
  BY <1>3, BackoffWrites
<1>4. QED
  BY <1>1, <1>2, <1>3, RowsStay DEF DeadRowsTell, Inv, CopyIsJustified, Consistent

(* Attempts and error of a row agree with its status. *)
THEOREM RowsTellTheirStory == Spec => []RowTellsItsStory
<1>1. Init => DeadRowsTell
  BY DEF Init, DeadRowsTell, NoRow
<1>2. Inv /\ DeadRowsTell => RowTellsItsStory
  BY DEF Inv, LiveRowsTell, DeadRowsTell, RowTellsItsStory
<1>3. Inv /\ DeadRowsTell /\ [Next]_vars => DeadRowsTell'
  BY DeadRowsNext, NextIsStepBesideNobody
<1>4. QED
  BY <1>1, <1>2, <1>3, InvHolds, PTL DEF Spec

LEMMA BlankNext == Inv /\ AbsentIsBlank /\ [Next]_vars => AbsentIsBlank'
<1> SUFFICES ASSUME Inv, AbsentIsBlank, [Next]_vars, NEW k \in Key,
                    outbox'[k].status = "none"
             PROVE  outbox'[k].attempts = 0
  BY DEF AbsentIsBlank
<1>1. ASSUME NEW w \in Workers, Enqueue(w) PROVE outbox'[k].attempts = 0
  BY <1>1 DEF Enqueue, NewRow, AbsentIsBlank
<1>2. ASSUME NEW w \in Workers, Commit(w) PROVE outbox'[k].attempts = 0
  BY <1>2, CommitWrites DEF AbsentIsBlank
<1>3. ASSUME NEW j \in Key, BackoffExpires(j) PROVE outbox'[k].attempts = 0
  BY <1>3, BackoffWrites DEF AbsentIsBlank
<1>4. CASE outbox' = outbox
  BY <1>4 DEF AbsentIsBlank
<1>5. QED
  BY <1>1, <1>2, <1>3, <1>4, RowsStay, NextIsStepBesideNobody

LEMMA BlankHolds == Spec => []AbsentIsBlank
<1>1. Init => AbsentIsBlank
  BY DEF Init, AbsentIsBlank, NoRow
<1>2. QED
  BY <1>1, BlankNext, InvHolds, PTL DEF Spec

(***************************************************************************)
(* A settled row is final, attempts are never lost once recorded and grow  *)
(* by one per commit, and a row keeps its id.                              *)
(***************************************************************************)
THEOREM RowHistoryHolds == Spec => RowHistory
<1> DEFINE Step(k) ==
      LET old == outbox[k] new == outbox'[k]
      IN /\ old.status \in {"done", "dlq"} => new = old
         /\ new.attempts \in {old.attempts, old.attempts + 1}
         /\ old.status # "none" => new.id = old.id
<1>1. ASSUME Inv, AbsentIsBlank, [Next]_vars, NEW k \in Key PROVE Step(k)
  <2>1. ASSUME NEW w \in Workers, Enqueue(w) PROVE Step(k)
    <3>1. CASE k \in NewKeys(w)
      BY <2>1, <3>1, <1>1 DEF Enqueue, NewKeys, NewRow, AbsentIsBlank
    <3>2. CASE k \notin NewKeys(w)
      BY <2>1, <3>2 DEF Enqueue
    <3>3. QED
      BY <3>1, <3>2
  <2>2. ASSUME NEW w \in Workers, Commit(w) PROVE Step(k)
    BY <2>2, <1>1, CommitWrites
  <2>3. ASSUME NEW j \in Key, BackoffExpires(j) PROVE Step(k)
    BY <2>3, <1>1, BackoffWrites
  <2>4. CASE outbox' = outbox
    BY <2>4
  <2>5. QED
    BY <2>1, <2>2, <2>3, <2>4, <1>1, RowsStay, NextIsStepBesideNobody
<1>2. Inv /\ AbsentIsBlank /\ [Next]_vars => [\A k \in Key : Step(k)]_vars
  BY <1>1
<1>3. QED
  BY <1>2, InvHolds, BlankHolds, PTL DEF Spec, RowHistory

(* enqueue_orders is all or nothing: an order has its rows for every       *)
(* marketplace or for none.                                                *)
THEOREM QueuedForAllTargets == Spec => []OrderQueuedForAllTargets
<1>1. Init => OrderQueuedForAllTargets
  BY DEF Init, OrderQueuedForAllTargets, NoRow, Key
<1>2. Inv /\ OrderQueuedForAllTargets /\ [Next]_vars => OrderQueuedForAllTargets'
  <2> SUFFICES ASSUME Inv, OrderQueuedForAllTargets, [Next]_vars,
                      NEW o \in Orders, NEW t \in Targets, NEW u \in Targets
               PROVE  outbox'[<<o, t>>].status = "none" <=> outbox'[<<o, u>>].status = "none"
    BY DEF OrderQueuedForAllTargets
  <2>1. <<o, t>> \in Key /\ <<o, u>> \in Key
    BY DEF Key
  <2>2. outbox[<<o, t>>].status = "none" <=> outbox[<<o, u>>].status = "none"
    BY DEF OrderQueuedForAllTargets
  <2>3. ASSUME NEW w \in Workers, Enqueue(w)
        PROVE  outbox'[<<o, t>>].status = "none" <=> outbox'[<<o, u>>].status = "none"
    <3>1. ASSUME NEW k \in Key
          PROVE  outbox'[k].status = "none" <=>
                   outbox[k].status = "none" /\ OrderOf(k) \notin fetched[w]
      BY <2>3 DEF Enqueue, NewKeys, NewRow
    <3>2. OrderOf(<<o, t>>) = o /\ OrderOf(<<o, u>>) = o
      BY DEF OrderOf
    <3>3. QED
      BY <2>1, <2>2, <3>1, <3>2
  <2>4. ASSUME NEW w \in Workers, Commit(w), NEW k \in Key
        PROVE  outbox'[k].status = "none" <=> outbox[k].status = "none"
    BY <2>4, CommitWrites
  <2>5. ASSUME NEW j \in Key, BackoffExpires(j), NEW k \in Key
        PROVE  outbox'[k].status = "none" <=> outbox[k].status = "none"
    BY <2>5, BackoffWrites
  <2>6. QED
    BY <2>1, <2>2, <2>3, <2>4, <2>5, RowsStay, NextIsStepBesideNobody
<1>3. QED
  BY <1>1, <1>2, InvHolds, PTL DEF Spec
-----------------------------------------------------------------------------
(***************************************************************************)
(* The refinement of OutboxPromise.  "stage" below is the value the        *)
(* mapping gives to the promise's variable of that name.                   *)
(***************************************************************************)
stageMap == [k \in Key |-> StageOf[outbox[k].status]]

LEMMA StageFacts ==
  ASSUME TypeOK, NEW k \in Key
  PROVE  /\ stageMap[k] = StageOf[outbox[k].status]
         /\ stageMap[k] = "absent" <=> outbox[k].status = "none"
         /\ stageMap[k] = "queued" <=> outbox[k].status = "pending"
         /\ stageMap[k] = "done" <=> outbox[k].status = "done"
         /\ stageMap[k] = "dlq" <=> outbox[k].status = "dlq"
<1>1. outbox[k].status \in {"none", "pending", "done", "dlq"}
  BY DEF TypeOK, Row
<1>2. stageMap[k] = StageOf[outbox[k].status]
  BY DEF stageMap
<1>3. QED
  BY <1>1, <1>2 DEF StageOf

(* Rows that keep their status keep their stage. *)
LEMMA SameStages ==
  ASSUME \A k \in Key : outbox'[k].status = outbox[k].status
  PROVE  stageMap' = stageMap
BY DEF stageMap

(* A worker's batch gets new rows from the query only. *)
LEMMA BatchGrows ==
  ASSUME Inv, NEW held, StepBeside(held) \/ UNCHANGED vars,
         NEW w \in Workers, NEW k \in Batch(w)'
  PROVE  k \in Batch(w) \/ outbox[k].status = "pending"
<1>0. k \in Key /\ tx'[w][k].status # "none"
  BY DEF Batch
<1>1. CASE tx' = tx
  BY <1>0, <1>1 DEF Batch
<1>2. ASSUME NEW v \in Workers, SelectBatch(v, held)
      PROVE  k \in Batch(w) \/ outbox[k].status = "pending"
  <2>1. PICK S \in SUBSET Eligible(held) :
          tx' = [tx EXCEPT ![v] = [j \in Key |-> IF j \in S THEN outbox[j] ELSE NoRow]]
    BY <1>2 DEF SelectBatch
  <2>2. CASE w = v
    <3>1. tx'[w][k] = IF k \in S THEN outbox[k] ELSE NoRow
      BY <2>1, <2>2, <1>0 DEF Inv, TypeOK
    <3>2. k \in S
      BY <3>1, <1>0 DEF NoRow
    <3>3. QED
      BY <3>2 DEF Eligible
  <2>3. CASE w # v
    BY <2>1, <2>3, <1>0 DEF Inv, TypeOK, Batch
  <2>4. QED
    BY <2>2, <2>3
<1>3. ASSUME NEW v \in Workers, NEW j \in Key, NEW row, IsNext(v, j), Processed(v, j, row)
      PROVE  k \in Batch(w)
  <2>1. j \in Batch(v)
    BY <1>3 DEF IsNext, Inv, BatchShape
  <2>2. tx' = [tx EXCEPT ![v][j] = row]
    BY <1>3 DEF Processed
  <2>3. CASE w = v /\ k = j
    BY <2>1, <2>3
  <2>4. CASE ~(w = v /\ k = j)
    <3>1. tx'[w][k] = tx[w][k]
      BY <2>2, <2>4, <1>0 DEF Inv, TypeOK
    <3>2. QED
      BY <3>1, <1>0 DEF Batch
  <2>5. QED
    BY <2>3, <2>4
<1>4. ASSUME NEW v \in Workers, Reset(v) PROVE k \in Batch(w)
  <2>1. CASE w = v
    BY <1>4, <2>1, ResetFacts DEF Inv
  <2>2. CASE w # v
    BY <1>4, <2>2, ResetFacts DEF Inv
  <2>3. QED
    BY <2>1, <2>2
<1>5. ASSUME NEW v \in Workers, NEW j \in Key, Push(v, j) PROVE k \in Batch(w)
  BY <1>3, <1>4, <1>5 DEF Push, PushOk, PushRetry, PushDead, DlqPublishRaises
<1>6. ASSUME NEW v \in Workers, WorkerStep(v) PROVE tx' = tx \/ k \in Batch(w)
  <2>1. CASE Fetch(v) \/ Enqueue(v) \/ SessionLost(v)
    BY <2>1 DEF Fetch, Enqueue, SessionLost
  <2>2. CASE Commit(v) \/ CommitFails(v) \/ Crash(v)
    BY <2>2, <1>4 DEF Commit, CommitFails, Crash
  <2>3. QED
    BY <2>1, <2>2, <1>5, <1>6 DEF WorkerStep
<1>7. CASE Environment \/ UNCHANGED vars
  <2>1. tx' = tx
    BY <1>7 DEF Environment, OdooChange, BackoffExpires, vars, workerVars
  <2>2. QED
    BY <2>1, <1>1
<1>8. QED
  BY <1>1, <1>2, <1>6, <1>7 DEF StepBeside

(* No step takes a row away. *)
LEMMA RowsNeverVanish ==
  ASSUME Inv, NEW held, StepBeside(held) \/ UNCHANGED vars, NEW k \in Key, outbox[k].status # "none"
  PROVE  outbox'[k].status # "none"
<1>1. ASSUME NEW w \in Workers, Enqueue(w) PROVE outbox'[k].status # "none"
  BY <1>1 DEF Enqueue, NewKeys
<1>2. ASSUME NEW w \in Workers, Commit(w) PROVE outbox'[k].status # "none"
  BY <1>2, CommitWrites
<1>3. ASSUME NEW j \in Key, BackoffExpires(j) PROVE outbox'[k].status # "none"
  BY <1>3, BackoffWrites
<1>4. QED
  BY <1>1, <1>2, <1>3, RowsStay

(* What a worker works on has a row, even after its session was lost. *)
BatchHasRows == \A w \in Workers : \A k \in Batch(w) : outbox[k].status # "none"

LEMMA BatchKeepsRows ==
  ASSUME Inv, BatchHasRows, NEW held, StepBeside(held) \/ UNCHANGED vars
  PROVE  BatchHasRows'
<1> SUFFICES ASSUME NEW w \in Workers, NEW k \in Batch(w)'
             PROVE  outbox'[k].status # "none"
  BY DEF BatchHasRows
<1>1. k \in Key
  BY DEF Batch
<1>2. outbox[k].status # "none"
  BY BatchGrows DEF BatchHasRows
<1>3. QED
  BY <1>1, <1>2, RowsNeverVanish

LEMMA BatchHasRowsHolds == Spec => []BatchHasRows
<1>1. Init => BatchHasRows
  BY DEF Init, BatchHasRows, Batch, NoRow
<1>2. Inv /\ BatchHasRows /\ [Next]_vars => BatchHasRows'
  BY BatchKeepsRows, NextIsStepBesideNobody
<1>3. QED
  BY <1>1, <1>2, InvHolds, PTL DEF Spec

(* A push, a doubt and an announcement are one Attempt of the promise. *)
LEMMA AttemptStep ==
  ASSUME TypeOK, outbox' = outbox,
         NEW A \in SUBSET Key, NEW D \in SUBSET Key, NEW M \in SUBSET Key,
         \A k \in A \cup D \cup M : outbox[k].status # "none",
         \A k \in A \cup M : (outbox[k].status = "pending" /\ accepted[k] = 0)
                             \/ k \in doubtful,
         accepted' = [k \in Key |-> IF k \notin A THEN accepted[k]
                                    ELSE IF accepted[k] = 0 THEN 1 ELSE 2],
         doubtful' = doubtful \cup D,
         syncDlq' = syncDlq \cup M
  PROVE  Promise!Next
<1>1. stageMap' = stageMap
  BY DEF stageMap
<1>2. Promise!Known(A \cup D \cup M)
  BY StageFacts DEF Promise!Known, stageMap
<1>3. \A k \in A \cup M : Promise!Open(k)
  BY StageFacts DEF Promise!Open, stageMap
<1>4. Promise!Attempt(A, D, M)
  BY <1>1, <1>2, <1>3 DEF Promise!Attempt, stageMap
<1>5. QED
  BY <1>4 DEF Promise!Next

(* A failed push, in the promise's terms. *)
LEMMA FailedPushIs ==
  ASSUME TypeOK, NEW k \in Key, NEW hit \in BOOLEAN, NEW U \in SUBSET Key,
         FailedPush(k, hit, U)
  PROVE  \E A \in SUBSET {k} :
           /\ accepted' = [j \in Key |-> IF j \notin A THEN accepted[j]
                                         ELSE IF accepted[j] = 0 THEN 1 ELSE 2]
           /\ doubtful' = doubtful \cup (U \cup A)
<1>1. accepted \in [Key -> 0..2]
  BY DEF TypeOK
<1>2. CASE hit
  <2>1. accepted' = [j \in Key |-> IF j \notin {k} THEN accepted[j]
                                   ELSE IF accepted[j] = 0 THEN 1 ELSE 2]
    BY <1>1, <1>2 DEF FailedPush, Accept
  <2>2. doubtful' = doubtful \cup (U \cup {k})
    BY <1>2 DEF FailedPush
  <2>3. QED
    BY <2>1, <2>2
<1>3. CASE ~hit
  <2>1. accepted' = [j \in Key |-> IF j \notin {} THEN accepted[j]
                                   ELSE IF accepted[j] = 0 THEN 1 ELSE 2]
    BY <1>1, <1>3 DEF FailedPush
  <2>2. doubtful' = doubtful \cup (U \cup {})
    BY <1>3 DEF FailedPush
  <2>3. QED
    BY <2>1, <2>2
<1>4. QED
  BY <1>2, <1>3

LEMMA PushRefines ==
  ASSUME Inv, BatchHasRows, NEW w \in Workers, NEW k \in Key, Push(w, k)
  PROVE  Promise!Next
<1>1. IsNext(w, k)
  BY DEF Push, PushOk, PushRetry, PushDead, DlqPublishRaises
<1>2. /\ (outbox[k].status = "pending" /\ accepted[k] = 0) \/ k \in doubtful
      /\ k \in Batch(w)
      /\ TypeOK /\ accepted \in [Key -> 0..2]
  BY <1>1, NextIsFresh DEF Inv, BatchShape, TypeOK
<1>3. outbox[k].status # "none" /\ \A j \in DoneIn(w) : outbox[j].status # "none"
  BY <1>2 DEF BatchHasRows, DoneIn, Batch
<1>4. outbox' = outbox
  BY DEF Push, PushOk, PushRetry, PushDead, DlqPublishRaises, Processed
<1>5. {k} \in SUBSET Key /\ {} \in SUBSET Key /\ DoneIn(w) \in SUBSET Key
  BY DEF DoneIn
<1>6. CASE PushOk(w, k)
  <2>1. /\ accepted' = [j \in Key |-> IF j \notin {k} THEN accepted[j]
                                      ELSE IF accepted[j] = 0 THEN 1 ELSE 2]
        /\ doubtful' = doubtful \cup {} /\ syncDlq' = syncDlq \cup {}
    BY <1>2, <1>6 DEF PushOk, Accept
  <2>2. QED
    BY <1>2, <1>3, <1>4, <1>5, <2>1, AttemptStep
<1>7. ASSUME NEW hit \in BOOLEAN, NEW U \in SUBSET DoneIn(w), FailedPush(k, hit, U),
             NEW M \in SUBSET {k}, syncDlq' = syncDlq \cup M
      PROVE  Promise!Next
  <2>1. U \in SUBSET Key /\ M \in SUBSET Key
    BY <1>5
  <2>2. PICK A \in SUBSET {k} :
          /\ accepted' = [j \in Key |-> IF j \notin A THEN accepted[j]
                                        ELSE IF accepted[j] = 0 THEN 1 ELSE 2]
          /\ doubtful' = doubtful \cup (U \cup A)
    BY <1>2, <1>7, <2>1, FailedPushIs
  <2>3. A \in SUBSET Key /\ (U \cup A) \in SUBSET Key
    BY <2>1
  <2>4. \A j \in A \cup (U \cup A) \cup M : outbox[j].status # "none"
    BY <1>3
  <2>5. \A j \in A \cup M : (outbox[j].status = "pending" /\ accepted[j] = 0)
                             \/ j \in doubtful
    BY <1>2
  <2>6. QED
    BY <1>2, <1>4, <1>7, <2>1, <2>2, <2>3, <2>4, <2>5, AttemptStep
<1>8. CASE PushRetry(w, k)
  <2>1. PICK hit \in BOOLEAN : FailedPush(k, hit, {})
    BY <1>8 DEF PushRetry
  <2>2. {} \in SUBSET DoneIn(w) /\ {} \in SUBSET {k} /\ syncDlq' = syncDlq \cup {}
    BY <1>8 DEF PushRetry
  <2>3. QED
    BY <1>7, <2>1, <2>2
<1>9. CASE PushDead(w, k)
  <2>1. PICK hit \in BOOLEAN : FailedPush(k, hit, {})
    BY <1>9 DEF PushDead
  <2>2. {} \in SUBSET DoneIn(w) /\ {k} \in SUBSET {k} /\ syncDlq' = syncDlq \cup {k}
    BY <1>9 DEF PushDead
  <2>3. QED
    BY <1>7, <2>1, <2>2
<1>10. CASE DlqPublishRaises(w, k)
  <2>1. PICK hit \in BOOLEAN : FailedPush(k, hit, DoneIn(w))
    BY <1>10 DEF DlqPublishRaises
  <2>2. \E M \in SUBSET {k} : syncDlq' = syncDlq \cup M
    <3>1. syncDlq' = syncDlq \cup {k} \/ syncDlq' = syncDlq \cup {}
      BY <1>10 DEF DlqPublishRaises
    <3>2. QED
      BY <3>1
  <2>3. DoneIn(w) \in SUBSET DoneIn(w)
    OBVIOUS
  <2>4. QED
    BY <1>7, <2>1, <2>2, <2>3
<1>11. QED
  BY <1>6, <1>8, <1>9, <1>10 DEF Push

LEMMA CommitRefines ==
  ASSUME Inv, NEW w \in Workers, Commit(w)
  PROVE  Promise!Next
<1>0. PICK D \in SUBSET Key, Q \in SUBSET Key :
        D = DoneIn(w) /\ Q = {k \in Key : tx[w][k].status = "dlq"}
  <2>1. DoneIn(w) \in SUBSET Key /\ {k \in Key : tx[w][k].status = "dlq"} \in SUBSET Key
    BY DEF DoneIn
  <2>2. QED
    BY <2>1
<1>1. /\ ~lost[w] /\ UNCHANGED worldVars
      /\ outbox' = [k \in Key |-> IF k \in Batch(w) THEN tx[w][k] ELSE outbox[k]]
      /\ TypeOK
  BY DEF Commit, Inv
<1>2. D \cap Q = {}
  BY <1>0 DEF DoneIn
<1>3. \A k \in D \cup Q : k \in Batch(w) /\ k \in Locked(w)
  BY <1>0, <1>1 DEF DoneIn, Batch, Locked
<1>4. \A k \in D : stageMap[k] = "queued" /\ accepted[k] > 0
  BY <1>0, <1>1, <1>3, StageFacts DEF DoneIn, Inv, BatchIsOwned, CopyIsJustified
<1>5. ASSUME NEW k \in Q
      PROVE  stageMap[k] = "queued" /\ k \in syncDlq /\ (accepted[k] = 0 \/ k \in doubtful)
  <2>1. stageMap[k] = "queued" /\ k \in syncDlq
    BY <1>0, <1>1, <1>3, StageFacts DEF Inv, BatchIsOwned, CopyIsJustified
  <2>2. /\ outbox[k].status = "pending" /\ accepted[k] \in 0..2
        /\ \A v \in Workers : k \in Locked(v) => v = w
    BY <1>0, <1>3 DEF Inv, BatchIsOwned, TypeOK
  <2>3. accepted[k] > 0 => k \in doubtful
    BY <2>2, <1>0 DEF Inv, AcceptanceIsRecorded
  <2>4. QED
    BY <2>1, <2>2, <2>3
<1>6. ASSUME NEW k \in Key
      PROVE  stageMap'[k] = IF k \in D THEN "done" ELSE IF k \in Q THEN "dlq" ELSE stageMap[k]
  <2>1. stageMap'[k] = StageOf[outbox'[k].status] /\ stageMap[k] = StageOf[outbox[k].status]
    BY DEF stageMap
  <2>2. CASE k \in D
    <3>1. outbox'[k].status = "done"
      BY <1>0, <1>1, <1>3, <2>2 DEF DoneIn
    <3>2. QED
      BY <2>1, <2>2, <3>1 DEF StageOf
  <2>3. CASE k \in Q
    <3>1. outbox'[k].status = "dlq"
      BY <1>0, <1>1, <1>3, <2>3
    <3>2. QED
      BY <1>2, <2>1, <2>3, <3>1 DEF StageOf
  <2>4. CASE k \notin D /\ k \notin Q
    <3>1. outbox'[k].status = outbox[k].status
      BY <1>0, <2>4, CommitWrites DEF DoneIn
    <3>2. QED
      BY <2>1, <2>4, <3>1
  <2>5. QED
    BY <2>2, <2>3, <2>4
<1>7. stageMap' = [k \in Key |-> IF k \in D THEN "done"
                                 ELSE IF k \in Q THEN "dlq" ELSE stageMap[k]]
  BY <1>6 DEF stageMap
<1>8. \A k \in Q : Promise!Open(k)
  BY <1>5 DEF Promise!Open, stageMap
<1>9. Promise!Settle(D, Q)
  BY <1>1, <1>2, <1>4, <1>5, <1>7, <1>8 DEF Promise!Settle, stageMap, worldVars
<1>10. QED
  BY <1>9 DEF Promise!Next

LEMMA EnqueueRefines ==
  ASSUME Inv, NEW w \in Workers, Enqueue(w)
  PROVE  Promise!Next
<1>1. PICK S \in SUBSET Key : S = NewKeys(w)
  <2>1. NewKeys(w) \in SUBSET Key
    BY DEF NewKeys
  <2>2. QED
    BY <2>1
<1>2. \A k \in S : stageMap[k] = "absent"
  BY <1>1, StageFacts DEF Inv, NewKeys
<1>3. ASSUME NEW k \in Key
      PROVE  stageMap'[k] = IF k \in S THEN "queued" ELSE stageMap[k]
  BY <1>1 DEF stageMap, StageOf, Enqueue, NewRow
<1>4. stageMap' = [k \in Key |-> IF k \in S THEN "queued" ELSE stageMap[k]]
  BY <1>3 DEF stageMap
<1>5. Promise!Enqueue(S)
  BY <1>2, <1>4 DEF Promise!Enqueue, stageMap, Enqueue, worldVars
<1>6. QED
  BY <1>5 DEF Promise!Next

LEMMA InitRefines == Init => Promise!Init
<1> SUFFICES ASSUME Init PROVE Promise!Init
  OBVIOUS
<1>1. stageMap = [k \in Key |-> "absent"]
  BY DEF Init, stageMap, StageOf, NoRow
<1>2. QED
  BY <1>1 DEF Init, Promise!Init, stageMap

(* Every step of the workers is one of the promise, or none. *)
LEMMA StepRefines ==
  ASSUME Inv, BatchHasRows, NEW held, StepBeside(held) \/ UNCHANGED vars
  PROVE  Promise!Next \/ UNCHANGED Promise!vars
<1>0. ASSUME outbox' = outbox, UNCHANGED worldVars PROVE UNCHANGED Promise!vars
  BY <1>0 DEF Promise!vars, worldVars
<1>1. ASSUME NEW o \in Orders, OdooChange(o) PROVE UNCHANGED Promise!vars
  BY <1>1, <1>0 DEF OdooChange
<1>2. ASSUME NEW k \in Key, BackoffExpires(k) PROVE UNCHANGED Promise!vars
  <2>1. \A j \in Key : outbox'[j].status = outbox[j].status
    BY <1>2, BackoffWrites
  <2>2. stageMap' = stageMap
    BY <2>1, SameStages
  <2>3. QED
    BY <1>2, <2>2 DEF BackoffExpires, Promise!vars, stageMap, worldVars
<1>3. ASSUME NEW w \in Workers, SelectBatch(w, held) PROVE UNCHANGED Promise!vars
  BY <1>3, <1>0 DEF SelectBatch
<1>4. ASSUME NEW w \in Workers, WorkerStep(w)
      PROVE  Promise!Next \/ UNCHANGED Promise!vars
  <2>1. CASE Fetch(w) \/ CommitFails(w)
    BY <2>1, <1>0 DEF Fetch, CommitFails
  <2>2. CASE Enqueue(w)
    BY <2>2, EnqueueRefines
  <2>3. ASSUME NEW k \in Key, Push(w, k) PROVE Promise!Next
    BY <2>3, PushRefines
  <2>4. CASE Commit(w)
    BY <2>4, CommitRefines
  <2>5. ASSUME NEW D \in SUBSET Batch(w), doubtful' = doubtful \cup D,
               outbox' = outbox, UNCHANGED <<accepted, syncDlq>>
        PROVE  Promise!Next
    <3>1. D \in SUBSET Key /\ {} \in SUBSET Key /\ TypeOK /\ accepted \in [Key -> 0..2]
      BY DEF Batch, Inv, TypeOK
    <3>2. accepted' = [k \in Key |-> IF k \notin {} THEN accepted[k]
                                     ELSE IF accepted[k] = 0 THEN 1 ELSE 2]
      BY <2>5, <3>1
    <3>3. \A k \in {} \cup D \cup {} : outbox[k].status # "none"
      BY DEF BatchHasRows
    <3>4. syncDlq' = syncDlq \cup {}
      BY <2>5
    <3>5. \A k \in {} \cup {} : (outbox[k].status = "pending" /\ accepted[k] = 0)
                             \/ k \in doubtful
      OBVIOUS
    <3>6. QED
      BY <2>5, <3>1, <3>2, <3>3, <3>4, <3>5, AttemptStep
  <2>6. CASE SessionLost(w)
    BY <2>5, <2>6 DEF SessionLost
  <2>7. CASE Crash(w)
    <3>1. DoneIn(w) \in SUBSET Batch(w)
      BY DEF DoneIn, Batch
    <3>2. QED
      BY <2>5, <2>7, <3>1 DEF Crash
  <2>8. QED
    BY <1>4, <2>1, <2>2, <2>3, <2>4, <2>6, <2>7 DEF WorkerStep
<1>5. CASE UNCHANGED vars
  BY <1>5, <1>0 DEF vars
<1>6. QED
  BY <1>1, <1>2, <1>3, <1>4, <1>5 DEF StepBeside, Environment

(***************************************************************************)
(* The workers implement the promise, for every instance: settled for a    *)
(* reason, settled for good, and duplicates only after a doubt.            *)
(***************************************************************************)
THEOREM WorkerKeepsPromise == Spec => KeepsPromise
<1>1. Inv /\ BatchHasRows /\ [Next]_vars => [Promise!Next]_(Promise!vars)
  BY StepRefines, NextIsStepBesideNobody
<1>2. QED
  BY <1>1, InitRefines, InvHolds, BatchHasRowsHolds, PTL DEF Spec, KeepsPromise, Promise!Spec
=============================================================================
