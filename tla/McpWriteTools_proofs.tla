------------------------ MODULE McpWriteTools_proofs ------------------------
(***************************************************************************)
(* Theorems about McpWriteTools, for every set of orders, marketplaces,    *)
(* workers and tools.  What locks and the audit log promise holds for any  *)
(* number of servers; what a replay and the promise of the outbox say      *)
(* holds for one server, and is not true of two.                           *)
(***************************************************************************)
EXTENDS McpWriteTools, OutboxWorker_proofs

USE DEF Status

(* With several servers a stale reset may leave a row that has used all    *)
(* its attempts pending: here attempts have no bound.                      *)
LooseRow == [status : Status, attempts : Nat, due : BOOLEAN, error : BOOLEAN,
             id : Nat]

TableTypes == outbox \in [Key -> LooseRow] /\ lastId \in Nat

WorkerTypes ==
  /\ pc \in [Workers -> {"idle", "fetched", "enqueued", "pushing"}]
  /\ todo \in [Workers -> SUBSET Key]
  /\ tx \in [Workers -> [Key -> LooseRow]]
  /\ lost \in [Workers -> BOOLEAN]
  /\ \A w \in Workers :
       /\ pc[w] # "pushing" => Batch(w) = {} /\ ~lost[w]
       /\ todo[w] \subseteq Batch(w)

ServerTypes ==
  /\ tool \in [Servers -> {"none"} \cup Tools]
  /\ seen \in [Servers -> [Key -> LooseRow]]
  /\ flushed \in [Servers -> [Key -> LooseRow]]
  /\ verdict \in [Servers -> {"none", "ok", "denied", "error"}]
  /\ applied \in [Servers -> SUBSET Key]
  /\ untold \subseteq Key /\ silent \in BOOLEAN

(* A server has rows only during a call, updates only rows it has found,   *)
(* and knows an outcome only when the call is over.                        *)
CallShape ==
  \A s \in Servers :
    /\ tool[s] # "none" => verdict[s] = "none"
    /\ tool[s] = "none" => seen[s] = Nothing /\ flushed[s] = Nothing
    /\ verdict[s] = "none" => applied[s] = {}
    /\ Held(s) \subseteq Present(seen[s])

SessionInv ==
  /\ TableTypes
  /\ WorkerTypes
  /\ ServerTypes
  /\ CallShape
  /\ SessionsAreDisjoint
  /\ ResetIsLogged
-----------------------------------------------------------------------------
LEMMA LooseRows ==
  /\ NoRow \in LooseRow
  /\ \A i \in Nat : NewRow(i) \in LooseRow
BY DEF NoRow, NewRow, LooseRow

LEMMA NothingIsThere ==
  /\ Nothing \in [Key -> LooseRow]
  /\ Present(Nothing) = {}
BY LooseRows DEF Nothing, Present, NoRow

(* The end of a worker's session, for rows of the wider type. *)
LEMMA LooseReset ==
  ASSUME WorkerTypes, NEW w \in Workers, Reset(w)
  PROVE  /\ WorkerTypes'
         /\ \A v \in Workers : Locked(v)' \subseteq Locked(v)
         /\ Locked(w)' = {}
<1>1. /\ pc'[w] = "idle" /\ todo'[w] = {} /\ ~lost'[w]
      /\ \A k \in Key : tx'[w][k] = NoRow
      /\ \A v \in Workers \ {w} :
           pc'[v] = pc[v] /\ todo'[v] = todo[v] /\ tx'[v] = tx[v] /\ lost'[v] = lost[v]
  BY DEF WorkerTypes, Reset
<1>2. Batch(w)' = {} /\ Locked(w)' = {}
  BY <1>1 DEF Batch, Locked, NoRow
<1>3. \A v \in Workers \ {w} : Batch(v)' = Batch(v) /\ Locked(v)' = Locked(v)
  BY <1>1 DEF Batch, Locked
<1>4. /\ pc' \in [Workers -> {"idle", "fetched", "enqueued", "pushing"}]
      /\ todo' \in [Workers -> SUBSET Key]
      /\ lost' \in [Workers -> BOOLEAN]
  BY DEF WorkerTypes, Reset
<1>5. tx' \in [Workers -> [Key -> LooseRow]]
  BY LooseRows DEF WorkerTypes, Reset
<1>6. \A v \in Workers :
        /\ pc'[v] # "pushing" => Batch(v)' = {} /\ ~lost'[v]
        /\ todo'[v] \subseteq Batch(v)'
  BY <1>1, <1>2, <1>3 DEF WorkerTypes
<1>7. QED
  BY <1>2, <1>3, <1>4, <1>5, <1>6 DEF WorkerTypes

(* The outcome of a push in the copy of its worker. *)
LEMMA LooseProcessed ==
  ASSUME WorkerTypes, NEW w \in Workers, NEW k \in Key, k \in todo[w],
         NEW row \in LooseRow, row.status # "none", Processed(w, k, row)
  PROVE  WorkerTypes' /\ \A v \in Workers : Locked(v)' \subseteq Locked(v)
<1>1. /\ tx'[w][k] = row
      /\ \A v \in Workers, j \in Key : v # w \/ j # k => tx'[v][j] = tx[v][j]
      /\ \A v \in Workers : todo'[v] \subseteq todo[v]
      /\ todo' \in [Workers -> SUBSET Key]
      /\ tx' \in [Workers -> [Key -> LooseRow]]
      /\ pc' = pc /\ lost' = lost
  BY DEF WorkerTypes, Processed
<1>2. k \in Batch(w)
  BY DEF WorkerTypes
<1>3. \A v \in Workers : Batch(v)' = Batch(v)
  BY <1>1, <1>2 DEF Batch
<1>4. \A v \in Workers : Locked(v)' = Locked(v)
  BY <1>1, <1>3 DEF Locked
<1>5. QED
  BY <1>1, <1>3, <1>4 DEF WorkerTypes

(* The four ends of process_entry. *)
LEMMA LoosePush ==
  ASSUME WorkerTypes, NEW w \in Workers, NEW k \in Key, Push(w, k)
  PROVE  /\ WorkerTypes' /\ UNCHANGED <<outbox, lastId>>
         /\ \A v \in Workers : Locked(v)' \subseteq Locked(v)
<1>1. k \in todo[w] /\ tx[w][k] \in LooseRow
  BY DEF Push, PushOk, PushRetry, PushDead, DlqPublishRaises, IsNext, WorkerTypes
<1>2. UNCHANGED <<outbox, lastId>>
  BY DEF Push, PushOk, PushRetry, PushDead, DlqPublishRaises, Processed
<1>3. ASSUME NEW row \in LooseRow, row.status # "none", Processed(w, k, row)
      PROVE  WorkerTypes' /\ \A v \in Workers : Locked(v)' \subseteq Locked(v)
  BY <1>1, <1>3, LooseProcessed
<1>4. CASE PushOk(w, k)
  <2> DEFINE row == [tx[w][k] EXCEPT !.status = "done", !.error = FALSE]
  <2>1. row \in LooseRow /\ row.status # "none"
    BY <1>1 DEF LooseRow
  <2>2. Processed(w, k, row)
    BY <1>4 DEF PushOk
  <2> HIDE DEF row
  <2>3. QED
    BY <1>2, <1>3, <2>1, <2>2
<1>5. CASE PushRetry(w, k)
  <2> DEFINE row == [tx[w][k] EXCEPT !.attempts = @ + 1, !.error = TRUE,
                                     !.status = "pending", !.due = FALSE]
  <2>0. tx[w][k].attempts + 1 \in Nat
    BY <1>1 DEF LooseRow
  <2>1. row \in LooseRow /\ row.status # "none"
    BY <1>1, <2>0 DEF LooseRow
  <2>2. Processed(w, k, row)
    BY <1>5 DEF PushRetry
  <2> HIDE DEF row
  <2>3. QED
    BY <1>2, <1>3, <2>1, <2>2
<1>6. CASE PushDead(w, k)
  <2> DEFINE row == [tx[w][k] EXCEPT !.attempts = @ + 1, !.error = TRUE,
                                     !.status = "dlq"]
  <2>0. tx[w][k].attempts + 1 \in Nat
    BY <1>1 DEF LooseRow
  <2>1. row \in LooseRow /\ row.status # "none"
    BY <1>1, <2>0 DEF LooseRow
  <2>2. Processed(w, k, row)
    BY <1>6 DEF PushDead
  <2> HIDE DEF row
  <2>3. QED
    BY <1>2, <1>3, <2>1, <2>2
<1>7. CASE DlqPublishRaises(w, k)
  BY <1>2, <1>7, LooseReset DEF DlqPublishRaises
<1>8. QED
  BY <1>4, <1>5, <1>6, <1>7 DEF Push

(* SKIP LOCKED over the rows of servers, too. *)
LEMMA LooseSelect ==
  ASSUME TableTypes, WorkerTypes, NEW w \in Workers, NEW held, SelectBatch(w, held)
  PROVE  /\ WorkerTypes'
         /\ \A k \in Locked(w)' : /\ outbox[k].status = "pending"
                                  /\ k \notin LockedByWorkers \cup held
         /\ \A v \in Workers \ {w} : Locked(v)' = Locked(v)
<1>1. PICK S \in SUBSET Eligible(held) :
        /\ todo' = [todo EXCEPT ![w] = S]
        /\ tx' = [tx EXCEPT ![w] = [k \in Key |-> IF k \in S THEN outbox[k] ELSE NoRow]]
  BY DEF SelectBatch
<1>2. /\ pc[w] = "enqueued" /\ pc' = [pc EXCEPT ![w] = "pushing"] /\ lost' = lost
  BY DEF SelectBatch
<1>3. \A k \in S : /\ k \in Key /\ outbox[k].status = "pending"
                   /\ k \notin LockedByWorkers \cup held
  BY DEF Eligible
<1>4. /\ \A k \in S : tx'[w][k] = outbox[k]
      /\ \A k \in Key \ S : tx'[w][k] = NoRow
      /\ \A v \in Workers \ {w} : tx'[v] = tx[v] /\ todo'[v] = todo[v] /\ pc'[v] = pc[v]
      /\ todo'[w] = S /\ pc'[w] = "pushing"
  BY <1>1, <1>2, <1>3 DEF WorkerTypes
<1>5. /\ todo' \in [Workers -> SUBSET Key]
      /\ pc' \in [Workers -> {"idle", "fetched", "enqueued", "pushing"}]
      /\ lost' \in [Workers -> BOOLEAN]
  BY <1>1, <1>2, <1>3 DEF WorkerTypes
<1>6. tx' \in [Workers -> [Key -> LooseRow]]
  BY <1>1, LooseRows DEF WorkerTypes, TableTypes
<1>7. Batch(w)' = S
  BY <1>3, <1>4 DEF Batch, NoRow
<1>8. Locked(w)' = S
  BY <1>2, <1>7 DEF Locked, WorkerTypes
<1>9. \A v \in Workers \ {w} : Batch(v)' = Batch(v) /\ Locked(v)' = Locked(v)
  BY <1>2, <1>4 DEF Batch, Locked
<1>10. \A v \in Workers :
         /\ pc'[v] # "pushing" => Batch(v)' = {} /\ ~lost'[v]
         /\ todo'[v] \subseteq Batch(v)'
  BY <1>2, <1>4, <1>7, <1>9 DEF WorkerTypes
<1>11. QED
  BY <1>3, <1>5, <1>6, <1>8, <1>9, <1>10 DEF WorkerTypes
-----------------------------------------------------------------------------
(* A step of the hub that takes no lock: rows that are locked keep their   *)
(* status, so nothing that is disjoint meets.                              *)
LEMMA LocksStayDisjoint ==
  ASSUME SessionsAreDisjoint, UNCHANGED flushed,
         \A v \in Workers : Locked(v)' \subseteq Locked(v),
         \A v \in Workers : \A k \in Locked(v)' : outbox'[k].status = outbox[k].status
  PROVE  SessionsAreDisjoint'
<1>1. BatchIsOwned'
  BY DEF SessionsAreDisjoint, BatchIsOwned
<1>2. \A s \in Servers : Held(s)' = Held(s)
  BY DEF Held
<1>3. HeldByServers' = HeldByServers
  BY <1>2 DEF HeldByServers
<1>4. LockedByWorkers' \subseteq LockedByWorkers
  BY DEF LockedByWorkers
<1>5. QED
  BY <1>1, <1>2, <1>3, <1>4 DEF SessionsAreDisjoint

(* A step of a worker keeps every session to its own rows. *)
LEMMA HubKeepsSessions ==
  ASSUME TableTypes, WorkerTypes, SessionsAreDisjoint, HubStep
  PROVE  TableTypes' /\ WorkerTypes' /\ SessionsAreDisjoint'
<1>0. UNCHANGED flushed
  BY DEF HubStep, serverVars
<1>1. ASSUME UNCHANGED <<pc, todo, tx, lost>>
      PROVE  WorkerTypes' /\ \A v \in Workers : Locked(v)' = Locked(v)
  <2>1. \A v \in Workers : Batch(v)' = Batch(v) /\ Locked(v)' = Locked(v)
    BY <1>1 DEF Batch, Locked
  <2>2. QED
    BY <1>1, <2>1 DEF WorkerTypes
<1>2. ASSUME UNCHANGED <<outbox, lastId>>, WorkerTypes',
             \A v \in Workers : Locked(v)' \subseteq Locked(v)
      PROVE  TableTypes' /\ WorkerTypes' /\ SessionsAreDisjoint'
  BY <1>0, <1>2, LocksStayDisjoint DEF TableTypes
<1>3. ASSUME NEW o \in Orders, OdooChange(o)
      PROVE  TableTypes' /\ WorkerTypes' /\ SessionsAreDisjoint'
  BY <1>1, <1>2, <1>3 DEF OdooChange, workerVars
<1>4. ASSUME NEW k \in Key, BackoffExpires(k)
      PROVE  TableTypes' /\ WorkerTypes' /\ SessionsAreDisjoint'
  <2>1. UNCHANGED <<pc, todo, tx, lost>> /\ lastId' = lastId
    BY <1>4 DEF BackoffExpires, workerVars
  <2>2. outbox' = [outbox EXCEPT ![k].due = TRUE]
    BY <1>4 DEF BackoffExpires
  <2>3. outbox' \in [Key -> LooseRow]
    BY <2>2 DEF TableTypes, LooseRow
  <2>4. \A j \in Key : outbox'[j].status = outbox[j].status
    BY <2>2 DEF TableTypes, LooseRow
  <2>5. \A v \in Workers : Locked(v) \subseteq Key
    BY DEF Locked, Batch
  <2>6. QED
    BY <1>0, <1>1, <2>1, <2>3, <2>4, <2>5, LocksStayDisjoint DEF TableTypes
<1>5. ASSUME NEW w \in Workers, SelectBatch(w, HeldByServers)
      PROVE  TableTypes' /\ WorkerTypes' /\ SessionsAreDisjoint'
  <2>1. UNCHANGED <<outbox, lastId>>
    BY <1>5 DEF SelectBatch
  <2>2. /\ WorkerTypes'
        /\ \A k \in Locked(w)' : /\ outbox[k].status = "pending"
                                 /\ k \notin LockedByWorkers \cup HeldByServers
        /\ \A v \in Workers \ {w} : Locked(v)' = Locked(v)
    BY <1>5, LooseSelect
  <2>3. \A s \in Servers : Held(s)' = Held(s)
    BY <1>0 DEF Held
  <2>4. HeldByServers' = HeldByServers
    BY <2>3 DEF HeldByServers
  <2>5. \A v \in Workers \ {w} : Locked(v) \subseteq LockedByWorkers
    BY DEF LockedByWorkers
  <2>6. BatchIsOwned'
    BY <2>1, <2>2, <2>5 DEF SessionsAreDisjoint, BatchIsOwned
  <2>7. HeldByServers \cap LockedByWorkers' = {}
    BY <2>2, <2>5 DEF SessionsAreDisjoint, LockedByWorkers
  <2>8. QED
    BY <2>1, <2>2, <2>3, <2>4, <2>6, <2>7 DEF TableTypes, SessionsAreDisjoint
<1>6. ASSUME NEW w \in Workers, WorkerStep(w)
      PROVE  TableTypes' /\ WorkerTypes' /\ SessionsAreDisjoint'
  <2>1. CASE Fetch(w)
    <3>1. UNCHANGED <<outbox, lastId, todo, tx, lost>> /\ pc[w] = "idle"
          /\ pc' = [pc EXCEPT ![w] = "fetched"]
      BY <2>1 DEF Fetch
    <3>2. \A v \in Workers : Batch(v)' = Batch(v) /\ Locked(v)' = Locked(v)
      BY <3>1 DEF Batch, Locked
    <3>3. WorkerTypes'
      BY <3>1, <3>2 DEF WorkerTypes
    <3>4. QED
      BY <1>2, <3>1, <3>2, <3>3
  <2>2. CASE Enqueue(w)
    <3>1. UNCHANGED <<todo, tx, lost>> /\ pc[w] = "fetched"
          /\ pc' = [pc EXCEPT ![w] = "enqueued"]
          /\ outbox' = [k \in Key |-> IF k \in NewKeys(w) THEN NewRow(lastId + Rank[k])
                                      ELSE outbox[k]]
          /\ lastId' = IF NewKeys(w) = {} THEN lastId ELSE lastId + Span
      BY <2>2 DEF Enqueue
    <3>2. \A v \in Workers : Batch(v)' = Batch(v) /\ Locked(v)' = Locked(v)
      BY <3>1 DEF Batch, Locked
    <3>3. WorkerTypes'
      BY <3>1, <3>2 DEF WorkerTypes
    <3>4. \A k \in Key : lastId + Rank[k] \in Nat
      BY SpanNat, RankAssumption DEF TableTypes
    <3>5. TableTypes'
      BY <3>1, <3>4, LooseRows, SpanNat DEF TableTypes
    <3>6. \A v \in Workers : \A k \in Locked(v) : k \in Key /\ outbox'[k] = outbox[k]
      BY <3>1 DEF SessionsAreDisjoint, BatchIsOwned, NewKeys, Locked, Batch
    <3>7. QED
      BY <1>0, <3>2, <3>3, <3>5, <3>6, LocksStayDisjoint
  <2>3. ASSUME NEW k \in Key, Push(w, k)
        PROVE  TableTypes' /\ WorkerTypes' /\ SessionsAreDisjoint'
    BY <1>2, <2>3, LoosePush
  <2>4. CASE Commit(w)
    <3>1. /\ ~lost[w] /\ Reset(w) /\ lastId' = lastId
          /\ outbox' = [k \in Key |-> IF k \in Batch(w) THEN tx[w][k] ELSE outbox[k]]
      BY <2>4 DEF Commit
    <3>2. WorkerTypes' /\ Locked(w)' = {} /\ \A v \in Workers : Locked(v)' \subseteq Locked(v)
      BY <3>1, LooseReset
    <3>3. TableTypes'
      BY <3>1 DEF TableTypes, WorkerTypes
    <3>4. Batch(w) = Locked(w) /\ \A v \in Workers : Locked(v) \subseteq Key
      BY <3>1 DEF Locked, Batch
    <3>5. \A v \in Workers : \A k \in Locked(v)' : outbox'[k] = outbox[k]
      BY <3>1, <3>2, <3>4 DEF SessionsAreDisjoint, BatchIsOwned
    <3>6. QED
      BY <1>0, <3>2, <3>3, <3>5, LocksStayDisjoint
  <2>5. CASE CommitFails(w) \/ Crash(w)
    BY <1>2, <2>5, LooseReset DEF CommitFails, Crash
  <2>6. CASE SessionLost(w)
    <3>1. UNCHANGED <<outbox, lastId, pc, todo, tx>> /\ pc[w] = "pushing"
          /\ lost' = [lost EXCEPT ![w] = TRUE]
      BY <2>6 DEF SessionLost
    <3>2. \A v \in Workers : Batch(v)' = Batch(v)
      BY <3>1 DEF Batch
    <3>3. \A v \in Workers : Locked(v)' \subseteq Locked(v)
      BY <3>1, <3>2 DEF Locked, WorkerTypes
    <3>4. WorkerTypes'
      BY <3>1, <3>2 DEF WorkerTypes
    <3>5. QED
      BY <1>2, <3>1, <3>3, <3>4
  <2>7. QED
    BY <1>6, <2>1, <2>2, <2>3, <2>4, <2>5, <2>6 DEF WorkerStep
<1>7. QED
  BY <1>3, <1>4, <1>5, <1>6 DEF HubStep, Environment
-----------------------------------------------------------------------------
(* What the UPDATE makes of a row is a row. *)
LEMMA LooseResetColumns ==
  ASSUME NEW cur \in LooseRow, NEW read \in LooseRow
  PROVE  ResetColumns(cur, read) \in LooseRow
BY DEF ResetColumns, LooseRow

(* A server that takes no row and changes no row disturbs no session. *)
LEMMA HoldsNoMore ==
  ASSUME SessionsAreDisjoint, UNCHANGED <<outbox, tx, lost>>,
         \A s \in Servers : Held(s)' \subseteq Held(s)
  PROVE  SessionsAreDisjoint'
<1>1. \A w \in Workers : Locked(w)' = Locked(w)
  BY DEF Locked, Batch
<1>2. LockedByWorkers' = LockedByWorkers
  BY <1>1 DEF LockedByWorkers
<1>3. HeldByServers' \subseteq HeldByServers
  BY DEF HeldByServers
<1>4. QED
  BY <1>1, <1>2, <1>3 DEF SessionsAreDisjoint, BatchIsOwned

LEMMA SameTable ==
  ASSUME TableTypes, WorkerTypes, UNCHANGED <<outbox, lastId, workerVars>>
  PROVE  TableTypes' /\ WorkerTypes'
<1>1. \A w \in Workers : Batch(w)' = Batch(w)
  BY DEF Batch, workerVars
<1>2. QED
  BY <1>1 DEF TableTypes, WorkerTypes, workerVars

LEMMA ReadKeepsSessions ==
  ASSUME SessionInv, NEW s \in Servers, NEW t \in Tools, NEW S, Read(s, t, S)
  PROVE  SessionInv'
<1>1. /\ tool' = [tool EXCEPT ![s] = t]
      /\ seen' = [seen EXCEPT ![s] = [k \in Key |-> IF k \in S THEN outbox[k] ELSE NoRow]]
      /\ UNCHANGED <<vars, flushed, auditVars>> /\ tool[s] = "none" /\ verdict[s] = "none"
  BY DEF Read, IsIdle
<1>2. TableTypes' /\ WorkerTypes'
  BY <1>1, SameTable DEF SessionInv, vars
<1>3. ServerTypes'
  BY <1>1, LooseRows DEF SessionInv, ServerTypes, TableTypes, auditVars
<1>4. \A r \in Servers : Held(r)' = Held(r)
  BY <1>1 DEF Held
<1>5. Held(s) = {}
  BY <1>1, NothingIsThere DEF SessionInv, CallShape, Held
<1>6. \A r \in Servers \ {s} : tool'[r] = tool[r] /\ seen'[r] = seen[r]
  BY <1>1 DEF SessionInv, ServerTypes
<1>7. CallShape'
  <2>1. t # "none"
    BY ServerAssumption
  <2>2. tool'[s] = t
    BY <1>1 DEF SessionInv, ServerTypes
  <2>3. CallShape
    BY DEF SessionInv
  <2>4. QED
    BY <1>1, <1>4, <1>5, <1>6, <2>1, <2>2, <2>3 DEF CallShape, auditVars
<1>8. SessionsAreDisjoint'
  BY <1>1, <1>4, HoldsNoMore DEF SessionInv, vars, workerVars
<1>9. ResetIsLogged'
  BY <1>1 DEF SessionInv, ResetIsLogged, auditVars
<1>10. QED
  BY <1>2, <1>3, <1>7, <1>8, <1>9 DEF SessionInv

LEMMA ReturnKeepsSessions ==
  ASSUME SessionInv, NEW s \in Servers, ReturnsUnchanged(s)
  PROVE  SessionInv'
<1>1. /\ UNCHANGED <<vars, tool, seen, flushed, applied, untold, silent>>
      /\ tool[s] = "none"
      /\ verdict' \in [Servers -> {"none", "ok", "denied", "error"}]
      /\ verdict'[s] # "none" /\ \A r \in Servers \ {s} : verdict'[r] = verdict[r]
  BY DEF ReturnsUnchanged, IsIdle, SessionInv, ServerTypes
<1>2. TableTypes' /\ WorkerTypes'
  BY <1>1, SameTable DEF SessionInv, vars
<1>3. \A r \in Servers : Held(r)' = Held(r)
  BY <1>1 DEF Held
<1>4. ServerTypes' /\ CallShape'
  BY <1>1, <1>3 DEF SessionInv, ServerTypes, CallShape
<1>5. SessionsAreDisjoint'
  BY <1>1, <1>3, HoldsNoMore DEF SessionInv, vars, workerVars
<1>6. ResetIsLogged'
  BY <1>1 DEF SessionInv, ResetIsLogged
<1>7. QED
  BY <1>2, <1>4, <1>5, <1>6 DEF SessionInv

(* The row that an UPDATE has reached, and what it says. *)
LEMMA FlushFacts ==
  ASSUME TableTypes, ServerTypes, NEW s \in Servers, NEW k \in Key, Flush(s, k)
  PROVE  /\ flushed' \in [Servers -> [Key -> LooseRow]]
         /\ flushed'[s][k] = ResetColumns(outbox[k], seen[s][k])
         /\ \A r \in Servers, j \in Key : r # s \/ j # k => flushed'[r][j] = flushed[r][j]
         /\ Held(s)' \subseteq Held(s) \cup {k}
         /\ \A r \in Servers \ {s} : Held(r)' = Held(r)
<1>1. flushed' = [flushed EXCEPT ![s][k] = ResetColumns(outbox[k], seen[s][k])]
  BY DEF Flush
<1>2. ResetColumns(outbox[k], seen[s][k]) \in LooseRow
  BY LooseResetColumns DEF TableTypes, ServerTypes
<1>3. /\ flushed' \in [Servers -> [Key -> LooseRow]]
      /\ flushed'[s][k] = ResetColumns(outbox[k], seen[s][k])
      /\ \A r \in Servers, j \in Key : r # s \/ j # k => flushed'[r][j] = flushed[r][j]
  BY <1>1, <1>2 DEF ServerTypes
<1>4. QED
  BY <1>3 DEF Held, Present

LEMMA FlushKeepsSessions ==
  ASSUME SessionInv, NEW s \in Servers, NEW k \in Key, Flush(s, k)
  PROVE  SessionInv'
<1>1. /\ k \in Present(seen[s]) /\ k \notin LockedByWorkers /\ k \notin HeldByServers
      /\ UNCHANGED <<vars, tool, seen, auditVars>>
  BY DEF Flush, ToFlush
<1>2. /\ flushed' \in [Servers -> [Key -> LooseRow]]
      /\ \A r \in Servers, j \in Key : r # s \/ j # k => flushed'[r][j] = flushed[r][j]
      /\ Held(s)' \subseteq Held(s) \cup {k}
      /\ \A r \in Servers \ {s} : Held(r)' = Held(r)
  BY FlushFacts DEF SessionInv
<1>3. TableTypes' /\ WorkerTypes'
  BY <1>1, SameTable DEF SessionInv, vars
<1>4. ServerTypes'
  BY <1>1, <1>2 DEF SessionInv, ServerTypes, auditVars
<1>5. tool[s] # "none"
  BY <1>1, NothingIsThere DEF SessionInv, CallShape
<1>6. \A r \in Servers \ {s} : flushed'[r] = flushed[r]
  BY <1>2 DEF SessionInv, ServerTypes
<1>7. CallShape'
  <2>1. CallShape
    BY DEF SessionInv
  <2>2. QED
    BY <1>1, <1>2, <1>5, <1>6, <2>1 DEF CallShape, auditVars
<1>8. SessionsAreDisjoint'
  <2>1. SessionsAreDisjoint
    BY DEF SessionInv
  <2>2. \A w \in Workers : Locked(w)' = Locked(w)
    BY <1>1 DEF Locked, Batch, vars, workerVars
  <2>3. LockedByWorkers' = LockedByWorkers
    BY <2>2 DEF LockedByWorkers
  <2>4. BatchIsOwned'
    BY <1>1, <2>1, <2>2 DEF SessionsAreDisjoint, BatchIsOwned, vars
  <2>5. HeldByServers' \subseteq HeldByServers \cup {k}
    BY <1>2 DEF HeldByServers
  <2>6. HeldByServers' \cap LockedByWorkers' = {}
    BY <1>1, <2>1, <2>3, <2>5 DEF SessionsAreDisjoint
  <2>7. ASSUME NEW r \in Servers, NEW t \in Servers, r # t
        PROVE  Held(r)' \cap Held(t)' = {}
    <3>1. Held(r) \cap Held(t) = {} /\ k \notin Held(r) /\ k \notin Held(t)
      BY <1>1, <2>1, <2>7 DEF SessionsAreDisjoint, HeldByServers
    <3>2. /\ Held(r)' \subseteq Held(r) \cup (IF r = s THEN {k} ELSE {})
          /\ Held(t)' \subseteq Held(t) \cup (IF t = s THEN {k} ELSE {})
      BY <1>2
    <3>3. QED
      BY <2>7, <3>1, <3>2
  <2>8. QED
    BY <2>4, <2>6, <2>7 DEF SessionsAreDisjoint
<1>9. ResetIsLogged'
  BY <1>1 DEF SessionInv, ResetIsLogged, auditVars
<1>10. QED
  BY <1>3, <1>4, <1>7, <1>8, <1>9 DEF SessionInv

(* The end of a call writes rows of its own and lets them go. *)
LEMMA EndCallKeepsSessions ==
  ASSUME SessionInv, NEW s \in Servers, NEW v \in {"ok", "error"},
         NEW S \in SUBSET Held(s), tool[s] # "none", EndCall(s, v, S)
  PROVE  SessionInv'
<1>1. /\ outbox' = [k \in Key |-> IF k \in S THEN flushed[s][k] ELSE outbox[k]]
      /\ UNCHANGED <<lastId, workerVars, silent>> /\ untold' = untold \cup S
      /\ tool' = [tool EXCEPT ![s] = "none"] /\ verdict' = [verdict EXCEPT ![s] = v]
      /\ seen' = [seen EXCEPT ![s] = Nothing] /\ flushed' = [flushed EXCEPT ![s] = Nothing]
      /\ applied' = [applied EXCEPT ![s] = S]
  BY DEF EndCall
<1>2. S \subseteq Key
  BY DEF Held, Present
<1>3. ServerTypes'
  BY <1>1, <1>2, NothingIsThere DEF SessionInv, ServerTypes
<1>4. /\ tool'[s] = "none" /\ verdict'[s] = v /\ seen'[s] = Nothing
      /\ flushed'[s] = Nothing /\ applied'[s] = S
      /\ \A r \in Servers \ {s} :
           /\ tool'[r] = tool[r] /\ verdict'[r] = verdict[r] /\ seen'[r] = seen[r]
           /\ flushed'[r] = flushed[r] /\ applied'[r] = applied[r]
  BY <1>1 DEF SessionInv, ServerTypes
<1>5. Held(s)' = {} /\ \A r \in Servers \ {s} : Held(r)' = Held(r)
  BY <1>4, NothingIsThere DEF Held
<1>6. CallShape'
  <2>1. CallShape
    BY DEF SessionInv
  <2>2. QED
    BY <1>4, <1>5, <2>1 DEF CallShape
<1>7. TableTypes'
  BY <1>1, <1>2 DEF SessionInv, TableTypes, ServerTypes
<1>8. \A w \in Workers : Batch(w)' = Batch(w) /\ Locked(w)' = Locked(w)
  BY <1>1 DEF Batch, Locked, workerVars
<1>9. WorkerTypes'
  BY <1>1, <1>8 DEF SessionInv, WorkerTypes, workerVars
<1>10. SessionsAreDisjoint'
  <2>1. SessionsAreDisjoint
    BY DEF SessionInv
  <2>2. LockedByWorkers' = LockedByWorkers
    BY <1>8 DEF LockedByWorkers
  <2>3. HeldByServers' \subseteq HeldByServers
    BY <1>5 DEF HeldByServers
  <2>4. ASSUME NEW w \in Workers, NEW k \in Locked(w)
        PROVE  outbox'[k] = outbox[k]
    <3>1. k \in Key /\ k \in LockedByWorkers
      BY DEF Locked, Batch, LockedByWorkers
    <3>2. k \notin S
      BY <2>1, <3>1 DEF SessionsAreDisjoint, HeldByServers
    <3>3. QED
      BY <1>1, <3>1, <3>2
  <2>5. BatchIsOwned'
    BY <1>8, <2>1, <2>4 DEF SessionsAreDisjoint, BatchIsOwned
  <2>6. \A r, t \in Servers : r # t => Held(r)' \cap Held(t)' = {}
    BY <1>5, <2>1 DEF SessionsAreDisjoint
  <2>7. QED
    BY <2>1, <2>2, <2>3, <2>5, <2>6 DEF SessionsAreDisjoint
<1>11. ResetIsLogged'
  <2>1. applied[s] = {}
    BY DEF SessionInv, CallShape
  <2>2. \A r \in Servers : applied[r] \subseteq applied'[r]
    BY <1>4, <2>1
  <2>3. untold \subseteq UNION {applied[r] : r \in Servers} \/ silent
    BY DEF SessionInv, ResetIsLogged
  <2>4. untold' \subseteq UNION {applied'[r] : r \in Servers} \/ silent'
    BY <1>1, <1>4, <2>2, <2>3
  <2>5. QED
    BY <2>4 DEF ResetIsLogged
<1>12. QED
  BY <1>3, <1>6, <1>7, <1>9, <1>10, <1>11 DEF SessionInv

(* The end of the wrapper, with an entry or without one. *)
LEMMA ForgetKeepsSessions ==
  ASSUME SessionInv, NEW s \in Servers, Forget(s),
         UNCHANGED <<outbox, lastId, workerVars>>,
         \/ untold' = untold \ applied[s] /\ silent' = silent
         \/ untold' = untold /\ silent' = TRUE
  PROVE  SessionInv'
<1>1. TableTypes' /\ WorkerTypes'
  BY SameTable DEF SessionInv
<1>2. ServerTypes'
  BY NothingIsThere DEF SessionInv, ServerTypes, Forget
<1>3. /\ tool'[s] = "none" /\ verdict'[s] = "none" /\ seen'[s] = Nothing
      /\ flushed'[s] = Nothing /\ applied'[s] = {}
      /\ \A r \in Servers \ {s} :
           /\ tool'[r] = tool[r] /\ verdict'[r] = verdict[r] /\ seen'[r] = seen[r]
           /\ flushed'[r] = flushed[r] /\ applied'[r] = applied[r]
  BY DEF SessionInv, ServerTypes, Forget
<1>4. Held(s)' = {} /\ \A r \in Servers \ {s} : Held(r)' = Held(r)
  BY <1>3, NothingIsThere DEF Held
<1>5. CallShape'
  <2>1. CallShape
    BY DEF SessionInv
  <2>2. QED
    BY <1>3, <1>4, <2>1 DEF CallShape
<1>6. SessionsAreDisjoint'
  BY <1>4, HoldsNoMore DEF SessionInv, workerVars
<1>7. ResetIsLogged'
  <2>1. untold \subseteq UNION {applied[r] : r \in Servers} \/ silent
    BY DEF SessionInv, ResetIsLogged
  <2>2. ASSUME untold' = untold \ applied[s], silent' = silent, ~silent,
               NEW k \in untold'
        PROVE  \E r \in Servers : k \in applied'[r]
    <3>1. PICK r \in Servers : k \in applied[r]
      BY <2>1, <2>2
    <3>2. r # s
      BY <2>2, <3>1
    <3>3. QED
      BY <1>3, <3>1, <3>2
  <2>3. untold' \subseteq UNION {applied'[r] : r \in Servers} \/ silent'
    BY <2>1, <2>2 DEF SessionInv, ServerTypes
  <2>4. QED
    BY <2>3 DEF ResetIsLogged
<1>8. QED
  BY <1>1, <1>2, <1>5, <1>6, <1>7 DEF SessionInv

(* A tool finds dead rows; retry finds pending ones, too. *)
Finds(t, S) ==
  \A k \in S : \/ outbox[k].status = "dlq"
               \/ outbox[k].status = "pending" /\ t = "retry"

(* The steps of a server: which tool, which rows, which end. *)
LEMMA ServerStepIs ==
  ASSUME NEW s \in Servers, ServerStep(s)
  PROVE  \/ \E t \in Tools, S \in SUBSET Key : Read(s, t, S) /\ Finds(t, S)
         \/ \E k \in Key : Flush(s, k)
         \/ ReturnsUnchanged(s)
         \/ /\ tool[s] # "none" /\ ToFlush(s) = {}
            /\ EndCall(s, "ok", Held(s)) \/ EndCall(s, "error", Held(s))
         \/ tool[s] # "none" /\ EndCall(s, "error", {})
         \/ Audit(s)
         \/ EntryLost(s)
<1>1. ASSUME NEW k \in Key, Replay(s, k)
      PROVE  \E t \in Tools, S \in SUBSET Key : Read(s, t, S) /\ Finds(t, S)
  <2>1. "replay" \in Tools /\ {k} \in SUBSET Key
    BY <1>1 DEF Replay, Read, HasScope
  <2>2. outbox[k].status = "dlq" /\ Read(s, "replay", {k})
    BY <1>1 DEF Replay
  <2>3. Finds("replay", {k})
    BY <2>2 DEF Finds
  <2>4. QED
    BY <2>1, <2>2, <2>3
<1>2. ASSUME NEW i \in Orders, Retry(s, i)
      PROVE  \E t \in Tools, S \in SUBSET Key : Read(s, t, S) /\ Finds(t, S)
  <2>1. /\ "retry" \in Tools /\ RetryRows(i) \in SUBSET Key
        /\ Finds("retry", RetryRows(i))
    BY <1>2 DEF Retry, Read, HasScope, RetryRows, Finds
  <2>2. QED
    BY <1>2, <2>1 DEF Retry
<1>3. ASSUME Drain(s)
      PROVE  \E t \in Tools, S \in SUBSET Key : Read(s, t, S) /\ Finds(t, S)
  <2>1. "drain" \in Tools /\ {k \in Key : outbox[k].status = "dlq"} \in SUBSET Key
    BY <1>3 DEF Drain, Read, HasScope
  <2>2. Finds("drain", {k \in Key : outbox[k].status = "dlq"})
    BY DEF Finds
  <2>3. QED
    BY <1>3, <2>1, <2>2 DEF Drain
<1>4. QED
  BY <1>1, <1>2, <1>3 DEF ServerStep, CommitCall, CommitUnknown, CallFails

LEMMA ServerKeepsSessions ==
  ASSUME SessionInv, NEW s \in Servers, ServerStep(s)
  PROVE  SessionInv'
<1>1. ASSUME tool[s] # "none", NEW S \in SUBSET Held(s),
             EndCall(s, "ok", S) \/ EndCall(s, "error", S)
      PROVE  SessionInv'
  BY <1>1, EndCallKeepsSessions
<1>2. Held(s) \in SUBSET Held(s) /\ {} \in SUBSET Held(s)
  OBVIOUS
<1>3. CASE Audit(s)
  BY <1>3, ForgetKeepsSessions DEF Audit, vars
<1>4. CASE EntryLost(s)
  BY <1>4, ForgetKeepsSessions DEF EntryLost
<1>5. QED
  BY <1>1, <1>2, <1>3, <1>4, ServerStepIs, ReadKeepsSessions, ReturnKeepsSessions,
     FlushKeepsSessions

LEMMA StutterKeepsSessions ==
  ASSUME SessionInv, UNCHANGED mcpVars
  PROVE  SessionInv'
<1>1. UNCHANGED <<outbox, lastId, workerVars, tool, seen, flushed, verdict, applied,
                  untold, silent>>
  BY DEF mcpVars, vars, serverVars, auditVars
<1>2. \A s \in Servers : Held(s)' = Held(s)
  BY <1>1 DEF Held
<1>3. TableTypes' /\ WorkerTypes'
  BY <1>1, SameTable DEF SessionInv
<1>4. SessionsAreDisjoint'
  BY <1>1, <1>2, HoldsNoMore DEF SessionInv, workerVars
<1>5. ServerTypes' /\ CallShape' /\ ResetIsLogged'
  BY <1>1, <1>2 DEF SessionInv, ServerTypes, CallShape, ResetIsLogged
<1>6. QED
  BY <1>3, <1>4, <1>5 DEF SessionInv

LEMMA McpNextKeepsSessions == SessionInv /\ [McpNext]_mcpVars => SessionInv'
<1> SUFFICES ASSUME SessionInv, [McpNext]_mcpVars PROVE SessionInv'
  OBVIOUS
<1>1. CASE HubStep
  <2>1. TableTypes' /\ WorkerTypes' /\ SessionsAreDisjoint'
    BY <1>1, HubKeepsSessions DEF SessionInv
  <2>2. UNCHANGED <<tool, seen, flushed, verdict, applied, untold, silent>>
    BY <1>1 DEF HubStep, serverVars, auditVars
  <2>3. \A s \in Servers : Held(s)' = Held(s)
    BY <2>2 DEF Held
  <2>4. ServerTypes' /\ CallShape' /\ ResetIsLogged'
    BY <2>2, <2>3 DEF SessionInv, ServerTypes, CallShape, ResetIsLogged
  <2>5. QED
    BY <2>1, <2>4 DEF SessionInv
<1>2. QED
  BY <1>1, ServerKeepsSessions, StutterKeepsSessions DEF McpNext

LEMMA McpInitSessions == McpInit => SessionInv
<1> SUFFICES ASSUME McpInit PROVE SessionInv
  OBVIOUS
<1>1. TableTypes /\ ServerTypes
  BY LooseRows, NothingIsThere DEF McpInit, Init, TableTypes, ServerTypes
<1>2. \A w \in Workers : Batch(w) = {} /\ Locked(w) = {}
  BY DEF McpInit, Init, Batch, Locked, NoRow
<1>3. WorkerTypes
  BY <1>2, LooseRows DEF McpInit, Init, WorkerTypes
<1>4. \A s \in Servers : Held(s) = {}
  BY NothingIsThere DEF McpInit, Held
<1>5. CallShape /\ ResetIsLogged
  BY <1>4 DEF McpInit, CallShape, ResetIsLogged
<1>6. SessionsAreDisjoint
  BY <1>2, <1>4 DEF SessionsAreDisjoint, BatchIsOwned, HeldByServers
<1>7. QED
  BY <1>1, <1>3, <1>5, <1>6 DEF SessionInv

(* What is true of sessions and of the log, for any number of servers. *)
THEOREM SessionInvHolds == McpSpec => []SessionInv
BY McpInitSessions, McpNextKeepsSessions, PTL DEF McpSpec

(* Workers and servers never change one row at once, whatever the servers  *)
(* do to rows that are not locked (FOR UPDATE SKIP LOCKED, and an UPDATE   *)
(* that waits).                                                            *)
THEOREM NoRowHasTwoSessions == McpSpec => []SessionsAreDisjoint
<1>1. SessionInv => SessionsAreDisjoint
  BY DEF SessionInv
<1>2. QED
  BY <1>1, SessionInvHolds, PTL

(* A reset without an entry in the log has its entry still to come, as     *)
(* long as no entry was lost (the finally clause of the audit wrapper).    *)
THEOREM ResetsAreLogged == McpSpec => []ResetIsLogged
<1>1. SessionInv => ResetIsLogged
  BY DEF SessionInv
<1>2. QED
  BY <1>1, SessionInvHolds, PTL

(* A call resets all the rows it has found or none, and its entry says     *)
(* "ok" only for all of them (session_scope inside the audit wrapper).     *)
THEOREM CallsAreAllOrNothing == McpSpec => CallIsAllOrNothing
<1> DEFINE Step(s) ==
      LET found == Present(seen[s]) IN
      verdict'[s] # verdict[s] =>
        /\ applied'[s] \in {{}, found}
        /\ verdict'[s] = "ok" => applied'[s] = found
        /\ verdict'[s] = "denied" => applied'[s] = {}
<1>1. ASSUME SessionInv, McpNext, NEW s \in Servers PROVE Step(s)
  <2>0. ServerTypes /\ CallShape
    BY <1>1 DEF SessionInv
  <2>1. ASSUME verdict' = verdict PROVE Step(s)
    BY <2>1
  <2>2. ASSUME NEW r \in Servers, ReturnsUnchanged(r) PROVE Step(s)
    <3>1. /\ tool[r] = "none" /\ verdict[r] = "none" /\ applied' = applied
          /\ \E v \in {"ok", "denied"} : verdict' = [verdict EXCEPT ![r] = v]
      BY <2>2 DEF ReturnsUnchanged, IsIdle
    <3>2. Present(seen[r]) = {} /\ applied[r] = {}
      BY <2>0, <3>1, NothingIsThere DEF CallShape
    <3>3. CASE r = s
      BY <3>1, <3>2, <3>3
    <3>4. CASE r # s
      BY <2>0, <3>1, <3>4 DEF ServerTypes
    <3>5. QED
      BY <3>3, <3>4
  <2>3. ASSUME NEW r \in Servers, NEW v \in {"ok", "error"}, NEW S, EndCall(r, v, S),
               S = Present(seen[r]) \/ (S = {} /\ v = "error")
        PROVE  Step(s)
    <3>1. /\ verdict' = [verdict EXCEPT ![r] = v] /\ applied' = [applied EXCEPT ![r] = S]
      BY <2>3 DEF EndCall
    <3>2. CASE r = s
      <4>1. verdict'[s] = v /\ applied'[s] = S
        BY <2>0, <3>1, <3>2 DEF ServerTypes
      <4>2. QED
        BY <2>3, <3>2, <4>1
    <3>3. CASE r # s
      BY <2>0, <3>1, <3>3 DEF ServerTypes
    <3>4. QED
      BY <3>2, <3>3
  <2>4. ASSUME NEW r \in Servers, Forget(r) PROVE Step(s)
    <3>1. \/ verdict'[s] = verdict[s]
          \/ verdict'[s] = "none" /\ applied'[s] = {}
      BY <2>0, <2>4 DEF Forget, ServerTypes
    <3>2. QED
      BY <3>1
  <2>5. ASSUME NEW r \in Servers, ToFlush(r) = {} PROVE Held(r) = Present(seen[r])
    BY <2>0, <2>5 DEF CallShape, ToFlush
  <2>6. ASSUME NEW r \in Servers, ServerStep(r) PROVE Step(s)
    <3>1. CASE \/ \E t \in Tools, S \in SUBSET Key : Read(r, t, S) /\ Finds(t, S)
               \/ \E k \in Key : Flush(r, k)
      BY <2>1, <3>1 DEF Read, Flush, auditVars
    <3>2. CASE /\ tool[r] # "none" /\ ToFlush(r) = {}
               /\ EndCall(r, "ok", Held(r)) \/ EndCall(r, "error", Held(r))
      BY <2>3, <2>5, <3>2
    <3>3. CASE EndCall(r, "error", {})
      BY <2>3, <3>3
    <3>4. CASE Audit(r) \/ EntryLost(r)
      BY <2>4, <3>4 DEF Audit, EntryLost
    <3>5. QED
      BY <2>2, <2>6, <3>1, <3>2, <3>3, <3>4, ServerStepIs
  <2>7. CASE HubStep
    BY <2>1, <2>7 DEF HubStep, serverVars, auditVars
  <2>8. QED
    BY <1>1, <2>6, <2>7 DEF McpNext
<1>2. SessionInv /\ [McpNext]_mcpVars => [\A s \in Servers : Step(s)]_mcpVars
  BY <1>1
<1>3. QED
  BY <1>2, SessionInvHolds, PTL DEF McpSpec, CallIsAllOrNothing
-----------------------------------------------------------------------------
(* A row that says "done" or "dlq" has its reason outside the database,    *)
(* which no step takes back.                                               *)
RowsAreJustified(rows) ==
  \A k \in Key :
    /\ rows[k].status = "done" => accepted[k] > 0
    /\ rows[k].status = "dlq" => k \in syncDlq

Reasons ==
  /\ accepted \in [Key -> 0..2] /\ syncDlq \subseteq Key /\ doubtful \subseteq Key
  /\ RowsAreJustified(outbox)
  /\ \A w \in Workers : RowsAreJustified(tx[w])
  /\ \A s \in Servers : RowsAreJustified(flushed[s])

(* What was accepted stays so, what was announced too. *)
ReasonsStay ==
  /\ accepted' \in [Key -> 0..2] /\ syncDlq' \subseteq Key /\ doubtful' \subseteq Key
  /\ \A k \in Key : accepted[k] > 0 => accepted'[k] > 0
  /\ syncDlq \subseteq syncDlq'

LEMMA SameReasons ==
  ASSUME Reasons, UNCHANGED worldVars
  PROVE  ReasonsStay
BY DEF Reasons, ReasonsStay, worldVars

LEMMA PushedReasons ==
  ASSUME Reasons, WorkerTypes, NEW w \in Workers, NEW k \in Key, Push(w, k)
  PROVE  /\ ReasonsStay
         /\ \A v \in Workers : RowsAreJustified(tx[v])'
<1>1. k \in todo[w] /\ tx[w][k] \in LooseRow
  BY DEF Push, PushOk, PushRetry, PushDead, DlqPublishRaises, IsNext, WorkerTypes
<1>2. ASSUME NEW hit \in BOOLEAN, NEW unrecorded \in SUBSET Key, FailedPush(k, hit, unrecorded)
      PROVE  /\ accepted' \in [Key -> 0..2] /\ doubtful' \subseteq Key
             /\ \A j \in Key : accepted[j] > 0 => accepted'[j] > 0
  BY <1>2 DEF FailedPush, Accept, Reasons
<1>3. {} \in SUBSET Key /\ DoneIn(w) \in SUBSET Key
  BY DEF DoneIn
<1>4. ReasonsStay
  <2>1. CASE PushOk(w, k)
    BY <2>1 DEF PushOk, Accept, Reasons, ReasonsStay
  <2>2. CASE PushRetry(w, k)
    BY <1>2, <1>3, <2>2 DEF PushRetry, Reasons, ReasonsStay
  <2>3. CASE PushDead(w, k)
    BY <1>2, <1>3, <2>3 DEF PushDead, Reasons, ReasonsStay
  <2>4. CASE DlqPublishRaises(w, k)
    BY <1>2, <1>3, <2>4 DEF DlqPublishRaises, Reasons, ReasonsStay
  <2>5. QED
    BY <2>1, <2>2, <2>3, <2>4 DEF Push
<1>5. ASSUME NEW row, tx' = [tx EXCEPT ![w][k] = row],
             row.status = "done" => accepted'[k] > 0,
             row.status = "dlq" => k \in syncDlq'
      PROVE  \A v \in Workers : RowsAreJustified(tx[v])'
  BY <1>4, <1>5 DEF Reasons, RowsAreJustified, ReasonsStay, WorkerTypes
<1>6. CASE PushOk(w, k)
  <2> DEFINE row == [tx[w][k] EXCEPT !.status = "done", !.error = FALSE]
  <2>1. accepted'[k] > 0 /\ row.status = "done" /\ tx' = [tx EXCEPT ![w][k] = row]
    BY <1>1, <1>6 DEF PushOk, Accept, Processed, Reasons, LooseRow
  <2> HIDE DEF row
  <2>2. QED
    BY <1>4, <1>5, <2>1
<1>7. CASE PushRetry(w, k)
  <2> DEFINE row == [tx[w][k] EXCEPT !.attempts = @ + 1, !.error = TRUE,
                                     !.status = "pending", !.due = FALSE]
  <2>1. row.status = "pending" /\ tx' = [tx EXCEPT ![w][k] = row]
    BY <1>1, <1>7 DEF PushRetry, Processed, LooseRow
  <2> HIDE DEF row
  <2>2. QED
    BY <1>4, <1>5, <2>1
<1>8. CASE PushDead(w, k)
  <2> DEFINE row == [tx[w][k] EXCEPT !.attempts = @ + 1, !.error = TRUE, !.status = "dlq"]
  <2>1. row.status = "dlq" /\ tx' = [tx EXCEPT ![w][k] = row] /\ k \in syncDlq'
    BY <1>1, <1>8 DEF PushDead, Processed, LooseRow
  <2> HIDE DEF row
  <2>2. QED
    BY <1>4, <1>5, <2>1
<1>9. CASE DlqPublishRaises(w, k)
  <2>1. tx' = [tx EXCEPT ![w] = [j \in Key |-> NoRow]]
    BY <1>9 DEF DlqPublishRaises, Reset
  <2>2. QED
    BY <1>4, <2>1 DEF Reasons, RowsAreJustified, ReasonsStay, WorkerTypes, NoRow
<1>10. QED
  BY <1>4, <1>6, <1>7, <1>8, <1>9 DEF Push

(* A step that makes rows out of rows keeps their reasons. *)
LEMMA RowsFromRows ==
  ASSUME Reasons, ReasonsStay,
         \A k \in Key : \/ outbox'[k].status \in {"none", "pending"}
                       \/ outbox'[k].status = outbox[k].status
                       \/ \E w \in Workers : outbox'[k] = tx[w][k],
         \A w \in Workers : RowsAreJustified(tx[w])',
         \A s \in Servers : RowsAreJustified(flushed[s])'
  PROVE  Reasons'
<1>1. RowsAreJustified(outbox)'
  BY DEF Reasons, RowsAreJustified, ReasonsStay
<1>2. QED
  BY <1>1 DEF Reasons, ReasonsStay

LEMMA CopiesStay ==
  ASSUME Reasons, ReasonsStay
  PROVE  /\ UNCHANGED tx => \A w \in Workers : RowsAreJustified(tx[w])'
         /\ UNCHANGED flushed => \A s \in Servers : RowsAreJustified(flushed[s])'
BY DEF Reasons, RowsAreJustified, ReasonsStay

(* The end of a session of a worker, with or without a commit. *)
LEMMA ResetReasons ==
  ASSUME Reasons, ReasonsStay, WorkerTypes, NEW w \in Workers, Reset(w)
  PROVE  \A v \in Workers : RowsAreJustified(tx[v])'
BY DEF Reasons, RowsAreJustified, ReasonsStay, Reset, WorkerTypes, NoRow

LEMMA HubKeepsReasons ==
  ASSUME TableTypes, WorkerTypes, Reasons, HubStep
  PROVE  Reasons'
<1>0. UNCHANGED flushed
  BY DEF HubStep, serverVars
<1>1. ASSUME UNCHANGED <<worldVars, outbox, tx>> PROVE Reasons'
  BY <1>0, <1>1, SameReasons, CopiesStay, RowsFromRows
<1>2. ASSUME NEW o \in Orders, OdooChange(o) PROVE Reasons'
  BY <1>1, <1>2 DEF OdooChange, workerVars
<1>3. ASSUME NEW k \in Key, BackoffExpires(k) PROVE Reasons'
  <2>1. UNCHANGED <<worldVars, tx>> /\ outbox' = [outbox EXCEPT ![k].due = TRUE]
    BY <1>3 DEF BackoffExpires, workerVars
  <2>2. \A j \in Key : outbox'[j].status = outbox[j].status
    BY <2>1 DEF TableTypes, LooseRow
  <2>3. QED
    BY <1>0, <2>1, <2>2, SameReasons, CopiesStay, RowsFromRows
<1>4. ASSUME NEW w \in Workers, SelectBatch(w, HeldByServers) PROVE Reasons'
  <2>1. UNCHANGED <<worldVars, outbox>>
        /\ \E S : tx' = [tx EXCEPT ![w] = [k \in Key |-> IF k \in S THEN outbox[k] ELSE NoRow]]
    BY <1>4 DEF SelectBatch
  <2>2. ReasonsStay
    BY <2>1, SameReasons
  <2>3. \A v \in Workers : RowsAreJustified(tx[v])'
    BY <2>1, <2>2 DEF Reasons, RowsAreJustified, ReasonsStay, WorkerTypes, NoRow
  <2>4. QED
    BY <1>0, <2>1, <2>2, <2>3, CopiesStay, RowsFromRows
<1>5. ASSUME NEW w \in Workers, WorkerStep(w) PROVE Reasons'
  <2>1. CASE Fetch(w)
    BY <1>1, <2>1 DEF Fetch
  <2>2. CASE Enqueue(w)
    <3>1. UNCHANGED <<worldVars, tx>>
          /\ \A k \in Key : outbox'[k].status = "pending" \/ outbox'[k] = outbox[k]
      BY <2>2 DEF Enqueue, NewRow
    <3>2. QED
      BY <1>0, <3>1, SameReasons, CopiesStay, RowsFromRows
  <2>3. ASSUME NEW k \in Key, Push(w, k) PROVE Reasons'
    BY <1>0, <2>3, PushedReasons, LoosePush, CopiesStay, RowsFromRows
  <2>4. CASE Commit(w)
    <3>1. UNCHANGED worldVars /\ Reset(w)
          /\ outbox' = [k \in Key |-> IF k \in Batch(w) THEN tx[w][k] ELSE outbox[k]]
      BY <2>4 DEF Commit
    <3>2. QED
      BY <1>0, <3>1, SameReasons, ResetReasons, CopiesStay, RowsFromRows
  <2>5. CASE CommitFails(w)
    BY <1>0, <2>5, SameReasons, ResetReasons, CopiesStay, RowsFromRows DEF CommitFails
  <2>6. CASE Crash(w)
    <3>1. ReasonsStay /\ outbox' = outbox /\ Reset(w)
      BY <2>6 DEF Crash, Reasons, ReasonsStay, DoneIn
    <3>2. QED
      BY <1>0, <3>1, ResetReasons, CopiesStay, RowsFromRows
  <2>7. CASE SessionLost(w)
    <3>1. ReasonsStay /\ UNCHANGED <<outbox, tx>>
      BY <2>7 DEF SessionLost, Reasons, ReasonsStay, Batch
    <3>2. QED
      BY <1>0, <3>1, CopiesStay, RowsFromRows
  <2>8. QED
    BY <1>5, <2>1, <2>2, <2>3, <2>4, <2>5, <2>6, <2>7 DEF WorkerStep
<1>6. QED
  BY <1>2, <1>3, <1>4, <1>5 DEF HubStep, Environment

(* A reset makes no row settled that was not. *)
LEMMA ServerKeepsReasons ==
  ASSUME SessionInv, Reasons, NEW s \in Servers, ServerStep(s)
  PROVE  Reasons'
<1>1. UNCHANGED <<worldVars, tx>>
  BY DEF ServerStep, Replay, Retry, Drain, Read, Flush, ReturnsUnchanged, CommitCall,
         CommitUnknown, CallFails, EndCall, Audit, EntryLost, Forget, vars, workerVars
<1>2. ReasonsStay /\ \A w \in Workers : RowsAreJustified(tx[w])'
  BY <1>1, SameReasons, CopiesStay
<1>0. ASSUME flushed' = flushed \/ flushed' = [flushed EXCEPT ![s] = Nothing]
      PROVE  \A r \in Servers : RowsAreJustified(flushed[r])'
  <2>1. \A r \in Servers : flushed'[r] = flushed[r] \/ flushed'[r] = Nothing
    BY <1>0 DEF SessionInv, ServerTypes
  <2>2. QED
    BY <1>2, <2>1 DEF Reasons, RowsAreJustified, ReasonsStay, Nothing, NoRow
<1>3. ASSUME UNCHANGED outbox,
             flushed' = flushed \/ flushed' = [flushed EXCEPT ![s] = Nothing]
      PROVE  Reasons'
  BY <1>2, <1>0, <1>3, RowsFromRows
<1>4. ASSUME NEW v, NEW S \in SUBSET Held(s), EndCall(s, v, S)
      PROVE  Reasons'
  <2>1. /\ flushed' = [flushed EXCEPT ![s] = Nothing]
        /\ outbox' = [k \in Key |-> IF k \in S THEN flushed[s][k] ELSE outbox[k]]
    BY <1>4 DEF EndCall
  <2>2. RowsAreJustified(outbox)'
    BY <1>2, <2>1 DEF Reasons, RowsAreJustified, ReasonsStay
  <2>3. \A r \in Servers : RowsAreJustified(flushed[r])'
    BY <1>0, <2>1
  <2>4. QED
    BY <1>2, <2>2, <2>3 DEF Reasons, ReasonsStay
<1>5. ASSUME NEW k \in Key, Flush(s, k) PROVE Reasons'
  <2>1. /\ outbox' = outbox
        /\ flushed'[s][k] = ResetColumns(outbox[k], seen[s][k])
        /\ \A r \in Servers, j \in Key : r # s \/ j # k => flushed'[r][j] = flushed[r][j]
    BY <1>5, FlushFacts DEF SessionInv, Flush, vars
  <2>2. flushed'[s][k].status \in {"pending", outbox[k].status}
    BY <2>1 DEF ResetColumns, SessionInv, TableTypes, LooseRow
  <2>3. \A r \in Servers : RowsAreJustified(flushed[r])'
    BY <1>2, <2>1, <2>2 DEF Reasons, RowsAreJustified, ReasonsStay
  <2>4. QED
    BY <1>2, <2>1, <2>3, RowsFromRows
<1>6. Held(s) \in SUBSET Held(s) /\ {} \in SUBSET Held(s)
  OBVIOUS
<1>7. CASE ReturnsUnchanged(s) \/ Audit(s) \/ EntryLost(s)
  BY <1>3, <1>7 DEF ReturnsUnchanged, Audit, EntryLost, Forget, vars
<1>8. ASSUME NEW t, NEW S, Read(s, t, S) PROVE Reasons'
  BY <1>3, <1>8 DEF Read, vars
<1>9. QED
  BY <1>4, <1>5, <1>6, <1>7, <1>8, ServerStepIs

LEMMA McpNextKeepsReasons == SessionInv /\ Reasons /\ [McpNext]_mcpVars => Reasons'
<1> SUFFICES ASSUME SessionInv, Reasons, [McpNext]_mcpVars PROVE Reasons'
  OBVIOUS
<1>1. CASE UNCHANGED mcpVars
  <2>1. UNCHANGED <<worldVars, outbox, tx, flushed>>
    BY <1>1 DEF mcpVars, vars, workerVars, serverVars
  <2>2. QED
    BY <2>1, SameReasons, CopiesStay, RowsFromRows
<1>2. QED
  BY <1>1, HubKeepsReasons, ServerKeepsReasons DEF McpNext, SessionInv

LEMMA McpInitReasons == McpInit => Reasons
BY DEF McpInit, Init, Reasons, RowsAreJustified, NoRow, Nothing

(* Every settled row has its reason, in the table, in a worker's copies    *)
(* and in a server's UPDATEs, for any number of servers.                   *)
THEOREM ReasonsHold == McpSpec => []Reasons
BY McpInitReasons, McpNextKeepsReasons, SessionInvHolds, PTL DEF McpSpec

(* However many operators reset rows at once, a row is "done" only if its  *)
(* marketplace took the order (process_entry's success path).              *)
THEOREM DoneForAReasonBesideServers == McpSpec => []DoneMeansAccepted
<1>1. Reasons => DoneMeansAccepted
  BY DEF Reasons, RowsAreJustified, DoneMeansAccepted
<1>2. QED
  BY <1>1, ReasonsHold, PTL

(* However many operators reset rows at once, a row is dead only if its    *)
(* message is on the topic (publish before the commit).                    *)
THEOREM DeadIsAnnouncedBesideServers == McpSpec => []DlqMeansAnnounced
<1>1. Reasons => DlqMeansAnnounced
  BY DEF Reasons, RowsAreJustified, DlqMeansAnnounced
<1>2. QED
  BY <1>1, ReasonsHold, PTL
-----------------------------------------------------------------------------
(***************************************************************************)
(* One server.  With two, a reset that was decided on a row as it was read *)
(* may be written over what the other's reset has led to in the meantime.  *)
(***************************************************************************)
OneServer == \A s, t \in Servers : s = t

(* The part of RowTellsItsStory that a reset relies on. *)
Tells(row) ==
  /\ row.status = "pending" => row.attempts < MaxAttempts /\ (row.error <=> row.attempts > 0)
  /\ row.status = "done" => ~row.error

(* What a server has read is still so if it was dead; if it was pending,   *)
(* the workers may have moved on.                                          *)
SeenIsTrue ==
  \A s \in Servers : \A k \in Present(seen[s]) :
    /\ outbox[k].status # "none"
    /\ \/ seen[s][k].status = "dlq" /\ outbox[k] = seen[s][k]
       \/ /\ seen[s][k].status = "pending" /\ tool[s] \notin {"replay", "drain"}
          /\ seen[s][k].error <=> seen[s][k].attempts > 0

(* An UPDATE that is not committed says what it would say now. *)
FlushIsCurrent ==
  \A s \in Servers : \A k \in Held(s) :
    flushed[s][k] = ResetColumns(outbox[k], seen[s][k])

McpInv ==
  /\ SessionInv
  /\ Inv
  /\ BatchHasRows
  /\ seen \in [Servers -> [Key -> Row]]
  /\ flushed \in [Servers -> [Key -> Row]]
  /\ SeenIsTrue
  /\ FlushIsCurrent

(* What a reset makes of a row. *)
LEMMA ResetColumnsFacts ==
  ASSUME NEW cur \in Row, NEW read \in Row, Tells(cur), cur.status # "none",
         \/ read.status = "dlq" /\ cur = read
         \/ read.status = "pending" /\ (read.error <=> read.attempts > 0)
  PROVE  /\ ResetColumns(cur, read) \in Row
         /\ Tells(ResetColumns(cur, read))
         /\ read.status = "dlq" => ResetColumns(cur, read) = NewRow(cur.id)
         /\ read.status = "pending" => ResetColumns(cur, read).status = cur.status
<1> DEFINE new == ResetColumns(cur, read)
<1>1. /\ new.status = (IF read.status = "pending" THEN cur.status ELSE "pending")
      /\ new.attempts = (IF read.attempts = 0 THEN cur.attempts ELSE 0)
      /\ new.error = (IF read.error THEN FALSE ELSE cur.error)
      /\ new.due = TRUE /\ new.id = cur.id
  BY DEF ResetColumns, Row
<1>2. /\ cur.status \in Status /\ cur.attempts \in 0..MaxAttempts /\ cur.error \in BOOLEAN
      /\ read.error \in BOOLEAN /\ cur.id \in Nat /\ read.attempts \in 0..MaxAttempts
  BY DEF Row
<1>3. 0 \in 0..MaxAttempts /\ 0 < MaxAttempts
  BY BoundAssumption
<1>4. new \in Row
  BY <1>2, <1>3 DEF ResetColumns, Row
<1>5. CASE read.status = "dlq"
  <2>1. new.status = "pending" /\ new.attempts = 0 /\ new.error = FALSE
    BY <1>1, <1>2, <1>5
  <2>2. new = NewRow(cur.id)
    BY <1>1, <1>4, <2>1 DEF NewRow, Row
  <2>3. Tells(new)
    BY <1>3, <2>1 DEF Tells
  <2>4. QED
    BY <1>4, <1>5, <2>2, <2>3
<1>6. CASE read.status = "pending"
  <2>1. new.status = cur.status
    BY <1>1, <1>6
  <2>2. Tells(new)
    BY <1>1, <1>2, <1>3, <1>6, <2>1 DEF Tells
  <2>3. QED
    BY <1>4, <1>6, <2>1, <2>2
<1>7. QED
  BY <1>5, <1>6

(* What a step of the hub may do to a row that a server has read or        *)
(* updated.                                                                *)
LEMMA HubWrites ==
  ASSUME Inv, NEW held, StepBeside(held), NEW k \in Key, outbox[k].status # "none"
  PROVE  /\ outbox'[k].status # "none"
         /\ \/ outbox'[k] = outbox[k]
            \/ /\ outbox[k].status = "pending"
               /\ k \in LockedByWorkers \/ outbox'[k] = [outbox[k] EXCEPT !.due = TRUE]
<1>1. outbox'[k].status # "none"
  BY RowsNeverVanish
<1>2. ASSUME NEW w \in Workers, Enqueue(w) PROVE outbox'[k] = outbox[k]
  BY <1>2 DEF Enqueue, NewKeys
<1>3. ASSUME NEW w \in Workers, Commit(w)
      PROVE  outbox'[k] = outbox[k] \/ (outbox[k].status = "pending" /\ k \in LockedByWorkers)
  <2>1. ~lost[w]
    BY <1>3 DEF Commit
  <2>2. Batch(w) \subseteq LockedByWorkers
    BY <2>1 DEF LockedByWorkers, Locked
  <2>3. QED
    BY <1>3, <2>2, CommitWrites
<1>4. ASSUME NEW j \in Key, BackoffExpires(j)
      PROVE  \/ outbox'[k] = outbox[k]
             \/ outbox[k].status = "pending" /\ outbox'[k] = [outbox[k] EXCEPT !.due = TRUE]
  BY <1>4 DEF BackoffExpires, Inv, TypeOK
<1>5. QED
  BY <1>1, <1>2, <1>3, <1>4, RowsStay

(* A row that becomes due is reset to the same. *)
LEMMA DueIsOverwritten ==
  ASSUME NEW cur \in Row, NEW read
  PROVE  ResetColumns([cur EXCEPT !.due = TRUE], read) = ResetColumns(cur, read)
BY DEF ResetColumns, Row

LEMMA HubKeepsMcpInv ==
  ASSUME McpInv, HubStep
  PROVE  McpInv'
<1>1. StepBeside(HeldByServers) /\ UNCHANGED <<tool, seen, flushed>>
  BY DEF HubStep, StepBeside, serverVars
<1>2. SessionInv'
  BY McpNextKeepsSessions DEF McpInv, McpNext
<1>3. Inv' /\ BatchHasRows'
  BY <1>1, StepKeepsInv, BatchKeepsRows DEF McpInv
<1>4. Inv /\ SeenIsTrue /\ FlushIsCurrent /\ CallShape /\ SessionsAreDisjoint
      /\ outbox \in [Key -> Row]
  BY DEF McpInv, SessionInv, Inv, TypeOK
<1>5. SeenIsTrue'
  <2> SUFFICES ASSUME NEW s \in Servers, NEW k \in Present(seen[s])
               PROVE  /\ outbox'[k].status # "none"
                      /\ \/ seen[s][k].status = "dlq" /\ outbox'[k] = seen[s][k]
                         \/ /\ seen[s][k].status = "pending"
                            /\ tool[s] \notin {"replay", "drain"}
                            /\ seen[s][k].error <=> seen[s][k].attempts > 0
    BY <1>1 DEF SeenIsTrue, Present
  <2>1. k \in Key /\ outbox[k].status # "none"
    BY <1>4 DEF SeenIsTrue, Present
  <2>2. outbox'[k].status # "none" /\ (outbox[k].status = "dlq" => outbox'[k] = outbox[k])
    BY <1>1, <1>4, <2>1, HubWrites
  <2>3. QED
    BY <1>4, <2>2 DEF SeenIsTrue
<1>6. FlushIsCurrent'
  <2> SUFFICES ASSUME NEW s \in Servers, NEW k \in Held(s)
               PROVE  flushed[s][k] = ResetColumns(outbox'[k], seen[s][k])
    BY <1>1 DEF FlushIsCurrent, Held, Present, ResetColumns
  <2>1. k \in Key /\ k \in Present(seen[s]) /\ k \notin LockedByWorkers
    BY <1>4 DEF CallShape, SessionsAreDisjoint, HeldByServers, Held, Present
  <2>2. outbox[k].status # "none" /\ flushed[s][k] = ResetColumns(outbox[k], seen[s][k])
    BY <1>4, <2>1 DEF SeenIsTrue, FlushIsCurrent
  <2>3. outbox'[k] = outbox[k] \/ outbox'[k] = [outbox[k] EXCEPT !.due = TRUE]
    BY <1>1, <1>4, <2>1, <2>2, HubWrites
  <2>4. outbox[k] \in Row
    BY <1>4, <2>1
  <2>5. QED
    BY <2>2, <2>3, <2>4, DueIsOverwritten
<1>7. QED
  BY <1>1, <1>2, <1>3, <1>5, <1>6 DEF McpInv

LEMMA ReadKeepsMcpInv ==
  ASSUME McpInv, OneServer, NEW s \in Servers, NEW t \in Tools, NEW S \in SUBSET Key,
         Read(s, t, S), Finds(t, S)
  PROVE  McpInv' /\ UNCHANGED vars
<1>1. /\ tool' = [tool EXCEPT ![s] = t]
      /\ seen' = [seen EXCEPT ![s] = [k \in Key |-> IF k \in S THEN outbox[k] ELSE NoRow]]
      /\ UNCHANGED <<vars, flushed>> /\ tool[s] = "none"
  BY DEF Read, IsIdle
<1>2. SessionInv'
  BY ReadKeepsSessions DEF McpInv
<1>3. UNCHANGED vars /\ outbox' = outbox /\ tx' = tx
  BY <1>1 DEF vars, workerVars
<1>4. Inv'
  BY <1>3, StepKeepsInv DEF McpInv
<1>5. BatchHasRows'
  BY <1>3 DEF McpInv, BatchHasRows, Batch
<1>6. /\ seen' \in [Servers -> [Key -> Row]] /\ flushed' \in [Servers -> [Key -> Row]]
      /\ tool'[s] = t
      /\ \A k \in Key : seen'[s][k] = IF k \in S THEN outbox[k] ELSE NoRow
  BY <1>1, RowTypes DEF McpInv, Inv, TypeOK, SessionInv, ServerTypes
<1>7. SeenIsTrue'
  <2> SUFFICES ASSUME NEW k \in Present(seen'[s])
               PROVE  /\ outbox[k].status # "none"
                      /\ \/ seen'[s][k].status = "dlq" /\ outbox[k] = seen'[s][k]
                         \/ /\ seen'[s][k].status = "pending" /\ t \notin {"replay", "drain"}
                            /\ seen'[s][k].error <=> seen'[s][k].attempts > 0
    BY <1>3, <1>6 DEF SeenIsTrue, Present, OneServer
  <2>1. k \in S /\ seen'[s][k] = outbox[k]
    BY <1>6 DEF Present, NoRow
  <2>2. outbox[k].status = "pending" => (outbox[k].error <=> outbox[k].attempts > 0)
    BY <2>1 DEF McpInv, Inv, LiveRowsTell
  <2>3. QED
    BY <2>1, <2>2 DEF Finds
<1>8. FlushIsCurrent'
  <2>1. Held(s) = {}
    BY <1>1, NothingIsThere DEF McpInv, SessionInv, CallShape, Held
  <2>2. Held(s)' = {}
    BY <1>1, <2>1 DEF Held
  <2>3. QED
    BY <2>2 DEF FlushIsCurrent, OneServer
<1>9. QED
  BY <1>2, <1>3, <1>4, <1>5, <1>6, <1>7, <1>8 DEF McpInv

(* The row under an UPDATE, as the lemma about columns wants it. *)
LEMMA SeenRowFacts ==
  ASSUME McpInv, NEW s \in Servers, NEW k \in Present(seen[s])
  PROVE  /\ k \in Key /\ outbox[k] \in Row /\ seen[s][k] \in Row
         /\ Tells(outbox[k]) /\ outbox[k].status # "none"
         /\ \/ seen[s][k].status = "dlq" /\ outbox[k] = seen[s][k]
            \/ /\ seen[s][k].status = "pending"
               /\ seen[s][k].error <=> seen[s][k].attempts > 0
<1>1. k \in Key
  BY DEF Present
<1>2. outbox[k] \in Row /\ seen[s][k] \in Row /\ Tells(outbox[k])
  BY <1>1 DEF McpInv, Inv, TypeOK, LiveRowsTell, Tells
<1>3. QED
  BY <1>1, <1>2 DEF McpInv, SeenIsTrue

LEMMA FlushKeepsMcpInv ==
  ASSUME McpInv, NEW s \in Servers, NEW k \in Key, Flush(s, k)
  PROVE  McpInv' /\ UNCHANGED vars
<1>1. /\ k \in Present(seen[s]) /\ UNCHANGED <<vars, tool, seen>>
  BY DEF Flush, ToFlush
<1>2. SessionInv'
  BY FlushKeepsSessions DEF McpInv
<1>3. UNCHANGED vars /\ outbox' = outbox /\ tx' = tx
  BY <1>1 DEF vars, workerVars
<1>4. Inv'
  BY <1>3, StepKeepsInv DEF McpInv
<1>5. BatchHasRows'
  BY <1>3 DEF McpInv, BatchHasRows, Batch
<1>6. flushed' = [flushed EXCEPT ![s][k] = ResetColumns(outbox[k], seen[s][k])]
  BY DEF Flush
<1>7. ResetColumns(outbox[k], seen[s][k]) \in Row
  BY <1>1, SeenRowFacts, ResetColumnsFacts
<1>8. flushed' \in [Servers -> [Key -> Row]]
  BY <1>6, <1>7 DEF McpInv
<1>9. SeenIsTrue'
  BY <1>1, <1>3 DEF McpInv, SeenIsTrue, Present
<1>10. FlushIsCurrent'
  <2> SUFFICES ASSUME NEW r \in Servers, NEW j \in Held(r)'
               PROVE  flushed'[r][j] = ResetColumns(outbox[j], seen[r][j])
    BY <1>1, <1>3 DEF FlushIsCurrent, ResetColumns
  <2>1. j \in Key
    BY DEF Held, Present
  <2>2. CASE r = s /\ j = k
    BY <1>6, <2>2 DEF McpInv
  <2>3. CASE ~(r = s /\ j = k)
    <3>1. flushed'[r][j] = flushed[r][j]
      BY <1>6, <2>1, <2>3 DEF McpInv
    <3>2. j \in Held(r)
      BY <2>1, <3>1 DEF Held, Present
    <3>3. QED
      BY <3>1, <3>2 DEF McpInv, FlushIsCurrent
  <2>4. QED
    BY <2>2, <2>3
<1>11. QED
  BY <1>1, <1>2, <1>3, <1>4, <1>5, <1>8, <1>9, <1>10 DEF McpInv
-----------------------------------------------------------------------------
(* Operators change rows that nobody has locked, settle none and unsettle  *)
(* only the dead.                                                          *)
LEMMA ResetKeepsInv ==
  ASSUME Inv, UNCHANGED <<odoo, lastId, workerVars, worldVars, faults>>,
         outbox' \in [Key -> Row],
         \A k \in Key : Tells(outbox'[k]),
         \A w \in Workers : \A k \in Locked(w) : outbox'[k] = outbox[k],
         \A k \in Key : outbox'[k].status = "done" <=> outbox[k].status = "done",
         \A k \in Key : outbox'[k].status = "dlq" => outbox[k].status = "dlq"
  PROVE  Inv'
<1>1. \A w \in Workers : Batch(w)' = Batch(w) /\ Locked(w)' = Locked(w)
  BY DEF Batch, Locked, workerVars
<1>2. TypeOK'
  BY DEF Inv, TypeOK, workerVars, worldVars
<1>3. BatchShape' /\ LostIsDoubtful' /\ CopyIsJustified'
  BY <1>1 DEF Inv, BatchShape, LostIsDoubtful, CopyIsJustified, Consistent, workerVars,
              worldVars
<1>4. BatchIsOwned' /\ CopyIsCurrent'
  BY <1>1 DEF Inv, BatchIsOwned, CopyIsCurrent, workerVars
<1>5. AcceptanceIsRecorded' /\ DuplicateOnlyAfterDoubt'
  BY <1>1 DEF Inv, AcceptanceIsRecorded, DuplicateOnlyAfterDoubt, workerVars, worldVars
<1>6. DoneMeansAccepted' /\ DlqMeansAnnounced' /\ LiveRowsTell'
  BY DEF Inv, DoneMeansAccepted, DlqMeansAnnounced, LiveRowsTell, Tells, worldVars
<1>7. QED
  BY <1>2, <1>3, <1>4, <1>5, <1>6 DEF Inv

(* What a call that ends has made of each row. *)
LEMMA ResetWrites ==
  ASSUME McpInv, NEW s \in Servers, NEW S \in SUBSET Held(s), NEW k \in Key,
         outbox' = [j \in Key |-> IF j \in S THEN flushed[s][j] ELSE outbox[j]]
  PROVE  /\ outbox'[k] \in Row /\ Tells(outbox'[k])
         /\ k \notin S => outbox'[k] = outbox[k]
         /\ k \in S => k \in Present(seen[s]) /\ k \notin LockedByWorkers
         /\ k \in S /\ seen[s][k].status = "dlq" =>
              outbox[k].status = "dlq" /\ outbox'[k] = NewRow(outbox[k].id)
         /\ k \in S /\ seen[s][k].status # "dlq" => outbox'[k].status = outbox[k].status
<1>1. CASE k \notin S
  <2>1. outbox'[k] = outbox[k] /\ outbox[k] \in Row /\ Tells(outbox[k])
    BY <1>1 DEF McpInv, Inv, TypeOK, LiveRowsTell, Tells
  <2>2. QED
    BY <1>1, <2>1
<1>2. CASE k \in S
  <2>1. k \in Held(s) /\ k \in Present(seen[s]) /\ k \notin LockedByWorkers
    BY <1>2 DEF McpInv, SessionInv, CallShape, SessionsAreDisjoint, HeldByServers
  <2>2. outbox'[k] = ResetColumns(outbox[k], seen[s][k])
    BY <1>2, <2>1 DEF McpInv, FlushIsCurrent
  <2>3. QED
    BY <1>2, <2>1, <2>2, SeenRowFacts, ResetColumnsFacts
<1>3. QED
  BY <1>1, <1>2

LEMMA NewRowIsPending == \A i : NewRow(i).status = "pending"
BY DEF NewRow

LEMMA EndCallKeepsMcpInv ==
  ASSUME McpInv, OneServer, NEW s \in Servers, NEW v \in {"ok", "error"},
         NEW S \in SUBSET Held(s), tool[s] # "none", EndCall(s, v, S)
  PROVE  McpInv' /\ Promise!Next
<1>1. /\ outbox' = [k \in Key |-> IF k \in S THEN flushed[s][k] ELSE outbox[k]]
      /\ UNCHANGED <<odoo, lastId, workerVars, worldVars, faults>>
      /\ seen' = [seen EXCEPT ![s] = Nothing] /\ flushed' = [flushed EXCEPT ![s] = Nothing]
  BY DEF EndCall
<1>2. SessionInv'
  BY EndCallKeepsSessions DEF McpInv
<1>3. ASSUME NEW k \in Key
      PROVE  /\ outbox'[k] \in Row /\ Tells(outbox'[k])
             /\ k \notin S => outbox'[k] = outbox[k]
             /\ k \in S => k \in Present(seen[s]) /\ k \notin LockedByWorkers
             /\ k \in S /\ seen[s][k].status = "dlq" =>
                  outbox[k].status = "dlq" /\ outbox'[k] = NewRow(outbox[k].id)
             /\ k \in S /\ seen[s][k].status # "dlq" => outbox'[k].status = outbox[k].status
  BY <1>1, ResetWrites
<1>4. outbox' \in [Key -> Row]
  BY <1>1, <1>3
<1>5. ASSUME NEW w \in Workers, NEW k \in Locked(w) PROVE outbox'[k] = outbox[k]
  <2>1. k \in Key /\ k \in LockedByWorkers
    BY DEF Locked, Batch, LockedByWorkers
  <2>2. QED
    BY <1>3, <2>1
<1>6. ASSUME NEW k \in Key
      PROVE  /\ outbox'[k].status = "done" <=> outbox[k].status = "done"
             /\ outbox'[k].status = "dlq" => outbox[k].status = "dlq"
             /\ outbox[k].status # "none" => outbox'[k].status # "none"
  BY <1>3, NewRowIsPending
<1>7. Inv'
  BY <1>1, <1>3, <1>4, <1>5, <1>6, ResetKeepsInv DEF McpInv
<1>8. BatchHasRows'
  <2>1. \A w \in Workers : Batch(w)' = Batch(w) /\ Batch(w) \subseteq Key
    BY <1>1 DEF Batch, workerVars
  <2>2. QED
    BY <1>6, <2>1 DEF McpInv, BatchHasRows
<1>9. /\ seen' \in [Servers -> [Key -> Row]] /\ flushed' \in [Servers -> [Key -> Row]]
      /\ seen'[s] = Nothing /\ flushed'[s] = Nothing
  BY <1>1, RowTypes DEF McpInv, Nothing
<1>10. Present(seen'[s]) = {} /\ Held(s)' = {}
  BY <1>9, NothingIsThere DEF Held
<1>11. SeenIsTrue' /\ FlushIsCurrent'
  BY <1>10 DEF SeenIsTrue, FlushIsCurrent, Present, OneServer
<1>12. PICK D \in SUBSET Key : D = {k \in S : seen[s][k].status = "dlq"}
  <2>1. {k \in S : seen[s][k].status = "dlq"} \in SUBSET Key
    BY DEF Held, Present
  <2>2. QED
    BY <2>1
<1>13. ASSUME NEW k \in Key
       PROVE  /\ k \in D => stageMap[k] = "dlq"
              /\ stageMap'[k] = IF k \in D THEN "queued" ELSE stageMap[k]
  <2>1. stageMap'[k] = StageOf[outbox'[k].status] /\ stageMap[k] = StageOf[outbox[k].status]
    BY DEF stageMap
  <2>2. CASE k \in D
    <3>1. outbox[k].status = "dlq" /\ outbox'[k].status = "pending"
      BY <1>3, <1>12, <2>2, NewRowIsPending
    <3>2. QED
      BY <2>1, <2>2, <3>1 DEF StageOf
  <2>3. CASE k \notin D
    <3>1. outbox'[k].status = outbox[k].status
      BY <1>3, <1>12, <2>3
    <3>2. QED
      BY <2>1, <2>3, <3>1
  <2>4. QED
    BY <2>2, <2>3
<1>14. stageMap' = [k \in Key |-> IF k \in D THEN "queued" ELSE stageMap[k]]
  BY <1>13 DEF stageMap
<1>15. Promise!Requeue(D)
  BY <1>1, <1>13, <1>14 DEF Promise!Requeue, stageMap, worldVars
<1>16. Promise!Next
  BY <1>15 DEF Promise!Next
<1>17. QED
  BY <1>2, <1>7, <1>8, <1>9, <1>11, <1>16 DEF McpInv

LEMMA SameSeen ==
  ASSUME SeenIsTrue, FlushIsCurrent, UNCHANGED <<outbox, tool, seen, flushed>>
  PROVE  SeenIsTrue' /\ FlushIsCurrent'
<1>1. SeenIsTrue'
  BY DEF SeenIsTrue, Present
<1>2. FlushIsCurrent'
  <2> SUFFICES ASSUME NEW s \in Servers, NEW k \in Held(s)
               PROVE  flushed[s][k] = ResetColumns(outbox[k], seen[s][k])
    BY DEF FlushIsCurrent, Held, Present, ResetColumns
  <2>1. QED
    BY DEF FlushIsCurrent
<1>3. QED
  BY <1>1, <1>2

(* Steps of a server that touch no row, the loss of an entry included. *)
LEMMA QuietServerKeepsMcpInv ==
  ASSUME McpInv, OneServer, SessionInv', NEW s \in Servers,
         UNCHANGED <<odoo, outbox, lastId, workerVars, worldVars>>,
         faults' \in 0..MaxFaults,
         \/ UNCHANGED <<tool, seen, flushed>>
         \/ seen' = [seen EXCEPT ![s] = Nothing] /\ flushed' = [flushed EXCEPT ![s] = Nothing]
  PROVE  McpInv' /\ UNCHANGED Promise!vars
<1>1. Inv'
  BY QuietStepKeepsInv DEF McpInv, Inv, TypeOK, workerVars
<1>2. BatchHasRows'
  BY DEF McpInv, BatchHasRows, Batch, workerVars
<1>3. seen' \in [Servers -> [Key -> Row]] /\ flushed' \in [Servers -> [Key -> Row]]
  BY RowTypes DEF McpInv, Nothing
<1>4. SeenIsTrue' /\ FlushIsCurrent'
  <2>1. CASE UNCHANGED <<tool, seen, flushed>>
    BY <2>1, SameSeen DEF McpInv
  <2>2. CASE seen' = [seen EXCEPT ![s] = Nothing] /\ flushed' = [flushed EXCEPT ![s] = Nothing]
    <3>1. seen'[s] = Nothing /\ flushed'[s] = Nothing
      BY <2>2 DEF McpInv
    <3>2. Present(seen'[s]) = {} /\ Held(s)' = {}
      BY <3>1, NothingIsThere DEF Held
    <3>3. QED
      BY <3>2 DEF SeenIsTrue, FlushIsCurrent, Present, OneServer
  <2>3. QED
    BY <2>1, <2>2
<1>5. UNCHANGED Promise!vars
  BY DEF Promise!vars, worldVars
<1>6. QED
  BY <1>1, <1>2, <1>3, <1>4, <1>5 DEF McpInv

LEMMA McpStepRefines ==
  ASSUME McpInv, OneServer, [McpNext]_mcpVars
  PROVE  McpInv' /\ (Promise!Next \/ UNCHANGED Promise!vars)
<1>0. SessionInv' /\ faults \in 0..MaxFaults
  BY McpNextKeepsSessions DEF McpInv, Inv, TypeOK
<1>1. CASE HubStep
  <2>1. StepBeside(HeldByServers)
    BY <1>1 DEF HubStep, StepBeside
  <2>2. QED
    BY <1>1, <2>1, HubKeepsMcpInv, StepRefines DEF McpInv
<1>2. ASSUME UNCHANGED vars PROVE UNCHANGED Promise!vars
  BY <1>2 DEF vars, worldVars, Promise!vars
<1>3. ASSUME NEW s \in Servers, ServerStep(s)
      PROVE  McpInv' /\ (Promise!Next \/ UNCHANGED Promise!vars)
  <2>1. ASSUME NEW S \in SUBSET Held(s), tool[s] # "none",
               EndCall(s, "ok", S) \/ EndCall(s, "error", S)
        PROVE  McpInv' /\ Promise!Next
    BY <2>1, EndCallKeepsMcpInv
  <2>2. Held(s) \in SUBSET Held(s) /\ {} \in SUBSET Held(s)
    OBVIOUS
  <2>4. ASSUME NEW k \in Key, Flush(s, k) PROVE McpInv' /\ UNCHANGED Promise!vars
    BY <1>2, <2>4, FlushKeepsMcpInv
  <2>5. CASE ReturnsUnchanged(s)
    BY <1>0, <2>5, QuietServerKeepsMcpInv DEF ReturnsUnchanged, vars
  <2>6. CASE Audit(s)
    BY <1>0, <2>6, QuietServerKeepsMcpInv DEF Audit, Forget, vars
  <2>7. CASE EntryLost(s)
    <3>1. faults' \in 0..MaxFaults
      BY <1>0, <2>7, BoundAssumption DEF EntryLost
    <3>2. QED
      BY <1>0, <2>7, <3>1, QuietServerKeepsMcpInv DEF EntryLost, Forget
  <2>8. ASSUME NEW t \in Tools, NEW S \in SUBSET Key, Read(s, t, S), Finds(t, S)
        PROVE  McpInv' /\ UNCHANGED Promise!vars
    BY <1>2, <2>8, ReadKeepsMcpInv
  <2>9. CASE /\ tool[s] # "none" /\ ToFlush(s) = {}
             /\ EndCall(s, "ok", Held(s)) \/ EndCall(s, "error", Held(s))
    BY <2>1, <2>2, <2>9
  <2>10. CASE tool[s] # "none" /\ EndCall(s, "error", {})
    BY <2>1, <2>2, <2>10
  <2>11. QED
    BY <1>3, <2>4, <2>5, <2>6, <2>7, <2>8, <2>9, <2>10, ServerStepIs
<1>4. CASE UNCHANGED mcpVars
  <2>1. UNCHANGED vars /\ UNCHANGED <<tool, seen, flushed>>
    BY <1>4 DEF mcpVars, serverVars
  <2>2. Inv' /\ BatchHasRows'
    BY <2>1, StepKeepsInv, BatchKeepsRows DEF McpInv
  <2>3. outbox' = outbox
    BY <2>1 DEF vars
  <2>4. SeenIsTrue' /\ FlushIsCurrent'
    BY <2>1, <2>3, SameSeen DEF McpInv
  <2>5. QED
    BY <1>0, <1>2, <2>1, <2>2, <2>4 DEF McpInv
<1>5. QED
  BY <1>1, <1>3, <1>4 DEF McpNext

LEMMA McpInitInv == McpInit => McpInv
<1> SUFFICES ASSUME McpInit PROVE McpInv
  OBVIOUS
<1>1. SessionInv /\ Inv
  BY McpInitSessions, InvInit DEF McpInit
<1>2. BatchHasRows
  BY DEF McpInit, Init, BatchHasRows, Batch, NoRow
<1>3. seen \in [Servers -> [Key -> Row]] /\ flushed \in [Servers -> [Key -> Row]]
  BY RowTypes DEF McpInit, Nothing
<1>4. \A s \in Servers : Present(seen[s]) = {} /\ Held(s) = {}
  BY NothingIsThere DEF McpInit, Held
<1>5. QED
  BY <1>1, <1>2, <1>3, <1>4 DEF McpInv, SeenIsTrue, FlushIsCurrent

(* One server beside any number of workers keeps their invariant, and what *)
(* it has read of a dead row stays true.                                   *)
THEOREM McpInvHolds ==
  ASSUME OneServer
  PROVE  McpSpec => []McpInv
<1>1. McpInv /\ [McpNext]_mcpVars => McpInv'
  BY McpStepRefines
<1>2. QED
  BY <1>1, McpInitInv, PTL DEF McpSpec

(* With one server no row leaves its type: a reset never gives a pending   *)
(* row the attempts of a dead one (the columns of the UPDATE).             *)
THEOREM McpTypeCorrect ==
  ASSUME OneServer
  PROVE  McpSpec => []McpTypeOK
<1>1. McpInv => McpTypeOK
  BY DEF McpInv, SessionInv, ServerTypes, Inv, McpTypeOK
<1>2. QED
  BY <1>1, McpInvHolds, PTL

(* A replay or a drain that answers has made the row what it says          *)
(* (write_tools.py:54, "reset to pending").                                *)
THEOREM ReplaysRestoreRows ==
  ASSUME OneServer
  PROVE  McpSpec => ReplayRestoresRow
<1> DEFINE Step(s) ==
      CommitCall(s) /\ tool[s] \in {"replay", "drain"} =>
        \A k \in Present(seen[s]) : outbox'[k] = NewRow(outbox[k].id)
<1>1. ASSUME McpInv, NEW s \in Servers, CommitCall(s), tool[s] \in {"replay", "drain"},
             NEW k \in Present(seen[s])
      PROVE  outbox'[k] = NewRow(outbox[k].id)
  <2>1. Held(s) \in SUBSET Held(s) /\ k \in Key /\ k \in Held(s)
    BY <1>1 DEF CommitCall, ToFlush, Present
  <2>2. outbox' = [j \in Key |-> IF j \in Held(s) THEN flushed[s][j] ELSE outbox[j]]
    BY <1>1 DEF CommitCall, EndCall
  <2>3. seen[s][k].status = "dlq"
    BY <1>1 DEF McpInv, SeenIsTrue
  <2>4. QED
    BY <1>1, <2>1, <2>2, <2>3, ResetWrites
<1>2. McpInv => [\A s \in Servers : Step(s)]_mcpVars
  BY <1>1
<1>3. QED
  BY <1>2, McpInvHolds, PTL DEF ReplayRestoresRow

(* With one operator at work the hub keeps the promise of the outbox: what *)
(* a call commits is a Requeue of dead letters, or nothing of it.          *)
THEOREM OneServerKeepsPromise ==
  ASSUME OneServer
  PROVE  McpSpec => McpKeepsPromise
<1>1. McpInit => Promise!Init
  BY InitRefines DEF McpInit
<1>2. McpInv /\ [McpNext]_mcpVars => [Promise!Next]_(Promise!vars)
  BY McpStepRefines
<1>3. QED
  BY <1>1, <1>2, McpInvHolds, PTL DEF McpSpec, McpKeepsPromise, Promise!Spec

(* With one operator at work the outbox still sends an order twice only    *)
(* after doubt: a replay of a dead letter causes no duplicate by itself.   *)
THEOREM NoUndoubtedDuplicateBesideOneServer ==
  ASSUME OneServer
  PROVE  McpSpec => []DuplicateOnlyAfterDoubt
<1>1. McpInv => DuplicateOnlyAfterDoubt
  BY DEF McpInv, Inv
<1>2. QED
  BY <1>1, McpInvHolds, PTL

(* What trace_order and drain_dlq show stays true while an operator        *)
(* replays and drains.  (retry_failed_sync also resets rows that it has    *)
(* read while they were pending: such a row may be dead by the time of the *)
(* UPDATE and is left dead, without its attempts and its error.)           *)
THEOREM ResetRowsTellTheirStory ==
  ASSUME OneServer, "retry" \notin Tools
  PROVE  McpSpec => []RowTellsItsStory
<1>1. ASSUME McpInv, DeadRowsTell, [McpNext]_mcpVars PROVE DeadRowsTell'
  <2>1. CASE HubStep
    <3>1. StepBeside(HeldByServers)
      BY <2>1 DEF HubStep, StepBeside
    <3>2. QED
      BY <1>1, <3>1, DeadRowsNext DEF McpInv
  <2>2. ASSUME outbox' = outbox PROVE DeadRowsTell'
    BY <1>1, <2>2 DEF DeadRowsTell
  <2>3. ASSUME NEW s \in Servers, NEW v, NEW S \in SUBSET Held(s), tool[s] # "none",
               EndCall(s, v, S)
        PROVE  DeadRowsTell'
    <3>1. outbox' = [k \in Key |-> IF k \in S THEN flushed[s][k] ELSE outbox[k]]
      BY <2>3 DEF EndCall
    <3>2. tool[s] \in {"replay", "drain"}
      <4>1. tool[s] \in Tools
        BY <1>1, <2>3 DEF McpInv, SessionInv, ServerTypes
      <4>2. QED
        BY <4>1, ServerAssumption
    <3>3. \A k \in S : k \in Key /\ seen[s][k].status = "dlq"
      BY <1>1, <3>2 DEF McpInv, SeenIsTrue, SessionInv, CallShape, Held, Present
    <3>4. ASSUME NEW k \in Key
          PROVE  outbox'[k] = outbox[k] \/ outbox'[k].status = "pending"
      <4>1. CASE k \in S
        <5>1. k \in S /\ seen[s][k].status = "dlq" => outbox'[k] = NewRow(outbox[k].id)
          BY <1>1, <3>1, ResetWrites
        <5>2. QED
          BY <3>3, <4>1, <5>1, NewRowIsPending
      <4>2. CASE k \notin S
        BY <3>1, <4>2
      <4>3. QED
        BY <4>1, <4>2
    <3>5. QED
      BY <1>1, <3>4 DEF DeadRowsTell
  <2>4. ASSUME NEW s \in Servers, ServerStep(s) PROVE DeadRowsTell'
    <3>1. Held(s) \in SUBSET Held(s) /\ {} \in SUBSET Held(s)
      OBVIOUS
    <3>2. CASE ReturnsUnchanged(s) \/ Audit(s) \/ EntryLost(s)
      BY <2>2, <3>2 DEF ReturnsUnchanged, Audit, EntryLost, vars
    <3>3. ASSUME NEW t, NEW S, Read(s, t, S) PROVE DeadRowsTell'
      BY <2>2, <3>3 DEF Read, vars
    <3>4. ASSUME NEW k, Flush(s, k) PROVE DeadRowsTell'
      BY <2>2, <3>4 DEF Flush, vars
    <3>5. QED
      BY <2>3, <2>4, <3>1, <3>2, <3>3, <3>4, ServerStepIs
  <2>5. CASE UNCHANGED mcpVars
    BY <2>2, <2>5 DEF mcpVars, vars
  <2>6. QED
    BY <1>1, <2>1, <2>4, <2>5 DEF McpNext
<1>2. McpInit => DeadRowsTell
  BY DEF McpInit, Init, DeadRowsTell, NoRow
<1>3. McpInv /\ DeadRowsTell => RowTellsItsStory
  BY DEF McpInv, Inv, LiveRowsTell, DeadRowsTell, RowTellsItsStory
<1>4. McpInv /\ DeadRowsTell /\ [McpNext]_mcpVars => DeadRowsTell'
  BY <1>1
<1>5. QED
  BY <1>2, <1>3, <1>4, McpInvHolds, PTL DEF McpSpec
=============================================================================
