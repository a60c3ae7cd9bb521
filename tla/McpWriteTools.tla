--------------------------- MODULE McpWriteTools ---------------------------
(***************************************************************************)
(* The write tools of the MCP servers over the outbox of OutboxWorker.     *)
(* A tool reads rows with a plain SELECT, changes its copies and flushes   *)
(* them at the commit: one UPDATE per row, in primary-key order, of the    *)
(* columns whose value changed.  An UPDATE waits while another session has *)
(* the row locked, then applies to whatever the row has become.  When the  *)
(* call is over its outcome is written to mcp_audit_log in a transaction   *)
(* of its own, which may fail without anybody noticing.                    *)
(***************************************************************************)
EXTENDS OutboxWorker

CONSTANTS
  Servers,       \* MCP server processes: one per stdio client
  Tools          \* the write tools whose scopes the operators' tokens carry

ASSUME ServerAssumption == Tools \subseteq {"replay", "retry", "drain"}

VARIABLES
  tool,          \* tool[s]: the call in progress, "none" between calls
  seen,          \* seen[s]: the rows read and to be reset, NoRow elsewhere
  flushed,       \* flushed[s]: rows updated, locked and not committed
  verdict,       \* verdict[s]: the result_status still to be logged, or "none"
  applied,       \* applied[s]: (history) rows the call to be logged has changed
  untold,        \* (history) rows a tool has reset without an entry so far
  silent         \* (history) an entry has been lost

auditVars == <<verdict, applied, untold, silent>>
serverVars == <<tool, seen, flushed, auditVars>>
mcpVars == <<vars, serverVars>>

Nothing == [k \in Key |-> NoRow]
Present(rows) == {k \in Key : rows[k].status # "none"}
Held(s) == Present(flushed[s])
HeldByServers == UNION {Held(s) : s \in Servers}
ToFlush(s) == Present(seen[s]) \ Held(s)

McpInit ==
  /\ Init
  /\ tool = [s \in Servers |-> "none"]
  /\ seen = [s \in Servers |-> Nothing]
  /\ flushed = [s \in Servers |-> Nothing]
  /\ verdict = [s \in Servers |-> "none"]
  /\ applied = [s \in Servers |-> {}]
  /\ untold = {}
  /\ silent = FALSE
-----------------------------------------------------------------------------
(* require_scope: without the tool's scope a call raises PermissionError. *)
HasScope(t) == t \in Tools

IsIdle(s) == tool[s] = "none" /\ verdict[s] = "none"

(* A call whose token carries the scope of its tool and that has found     *)
(* the rows S to reset; any other call is ReturnsUnchanged.                *)
Read(s, t, S) ==
  /\ IsIdle(s)
  /\ HasScope(t)
  /\ S # {}
  /\ tool' = [tool EXCEPT ![s] = t]
  /\ seen' = [seen EXCEPT ![s] = [k \in Key |-> IF k \in S THEN outbox[k] ELSE NoRow]]
  /\ UNCHANGED <<vars, flushed, auditVars>>

(* A call that changes nothing: nothing to reset or a dry run (logged as   *)
(* "ok"), or a token without the scope.  An exception while it reads       *)
(* leaves what CallFails leaves.                                           *)
ReturnsUnchanged(s) ==
  /\ IsIdle(s)
  /\ \E v \in {"ok", "denied"} : verdict' = [verdict EXCEPT ![s] = v]
  /\ UNCHANGED <<vars, tool, seen, flushed, applied, untold, silent>>

(* Mutant: the status of the row is not looked at. *)
ReplayAny(s, k) ==
  /\ outbox[k].status # "none"
  /\ Read(s, "replay", {k})

(* _replay_dlq_message(outbox_id): only a row that is in "dlq". *)
Replay(s, k) ==
  /\ outbox[k].status = "dlq"
  /\ Read(s, "replay", {k})

(* _retry_failed_sync(order_id): the rows whose aggregate_id equals the    *)
(* silver row's internal_id i.  The worker writes Odoo ids there, so i may *)
(* be the number of another order, and any order's rows may be reset.      *)
RetryRows(i) ==
  {k \in Key : OrderOf(k) = i /\ outbox[k].status \in {"dlq", "pending"}}

Retry(s, i) == Read(s, "retry", RetryRows(i))

(* _drain_dlq(dry_run=False): every dead row. *)
Drain(s) == Read(s, "drain", {k \in Key : outbox[k].status = "dlq"})

(* Mutants: a whole-row UPDATE; an error_log left behind; a status that    *)
(* the worker's query does not know.                                       *)
ResetWholeRow(cur, read) == NewRow(cur.id)
ResetKeepsError(cur, read) == [NewRow(cur.id) EXCEPT !.error = cur.error]
ResetUnknown(cur, read) == [NewRow(cur.id) EXCEPT !.status = "retry"]

(***************************************************************************)
(* The UPDATE of one row.  The ORM sends a column only if the tool gave it *)
(* a value other than the one it had READ; "cur" is the row now.           *)
(***************************************************************************)
ResetColumns(cur, read) ==
  [cur EXCEPT
     !.status   = IF read.status = "pending" THEN @ ELSE "pending",
     !.attempts = IF read.attempts = 0 THEN @ ELSE 0,
     !.error    = IF read.error THEN FALSE ELSE @,
     !.due      = TRUE]

(* Mutant: the UPDATE does not wait for the row lock. *)
FlushNoWait(s, k) ==
  /\ k \in ToFlush(s)
  /\ flushed' = [flushed EXCEPT ![s][k] = ResetColumns(outbox[k], seen[s][k])]
  /\ UNCHANGED <<vars, tool, seen, auditVars>>

Flush(s, k) ==
  /\ k \in ToFlush(s)
  /\ \A j \in ToFlush(s) : seen[s][k].id <= seen[s][j].id
  /\ k \notin LockedByWorkers \cup HeldByServers
  /\ flushed' = [flushed EXCEPT ![s][k] = ResetColumns(outbox[k], seen[s][k])]
  /\ UNCHANGED <<vars, tool, seen, auditVars>>

(* The business part ends: fn returns or raises, and the finally clause of *)
(* the audit wrapper knows v.  Only the rows in S have been changed.       *)
EndCall(s, v, S) ==
  /\ tool' = [tool EXCEPT ![s] = "none"]
  /\ seen' = [seen EXCEPT ![s] = Nothing]
  /\ flushed' = [flushed EXCEPT ![s] = Nothing]
  /\ verdict' = [verdict EXCEPT ![s] = v]
  /\ applied' = [applied EXCEPT ![s] = S]
  /\ untold' = untold \cup S
  /\ outbox' = [k \in Key |-> IF k \in S THEN flushed[s][k] ELSE outbox[k]]
  /\ UNCHANGED <<odoo, lastId, workerVars, worldVars, faults, silent>>

CommitCall(s) ==
  /\ tool[s] # "none" /\ ToFlush(s) = {}
  /\ EndCall(s, "ok", Held(s))

(* The commit raises although the database has done it. *)
CommitUnknown(s) ==
  /\ tool[s] # "none" /\ ToFlush(s) = {}
  /\ EndCall(s, "error", Held(s))

(* Mutant: every UPDATE is a transaction of its own. *)
CallFailsHalfway(s) ==
  /\ tool[s] # "none"
  /\ EndCall(s, "error", Held(s))

(* The session raises and session_scope's work is undone. *)
CallFails(s) ==
  /\ tool[s] # "none"
  /\ EndCall(s, "error", {})

Forget(s) ==
  /\ tool' = [tool EXCEPT ![s] = "none"]
  /\ seen' = [seen EXCEPT ![s] = Nothing]
  /\ flushed' = [flushed EXCEPT ![s] = Nothing]
  /\ verdict' = [verdict EXCEPT ![s] = "none"]
  /\ applied' = [applied EXCEPT ![s] = {}]

(* Mutant: a call that raised is not logged. *)
AuditSuccess(s) ==
  /\ verdict[s] # "none"
  /\ untold' = IF verdict[s] = "ok" THEN untold \ applied[s] ELSE untold
  /\ Forget(s)
  /\ UNCHANGED <<vars, silent>>

(* _write_audit commits the entry. *)
Audit(s) ==
  /\ verdict[s] # "none"
  /\ untold' = untold \ applied[s]
  /\ Forget(s)
  /\ UNCHANGED <<vars, silent>>

(* The server dies with a call in progress, or _write_audit fails and      *)
(* swallows the exception: either way the call leaves no entry.            *)
EntryLost(s) ==
  /\ ~IsIdle(s)
  /\ faults < MaxFaults /\ faults' = faults + 1
  /\ Forget(s)
  /\ silent' = TRUE
  /\ UNCHANGED <<odoo, outbox, lastId, workerVars, worldVars, untold>>

ServerStep(s) ==
  \/ \E k \in Key : Replay(s, k) \/ Flush(s, k)
  \/ \E i \in Orders : Retry(s, i)
  \/ Drain(s) \/ ReturnsUnchanged(s)
  \/ CommitCall(s) \/ CommitUnknown(s) \/ CallFails(s)
  \/ Audit(s) \/ EntryLost(s)

(* Rows a server has updated are locked: the workers skip them. *)
HubStep ==
  /\ \/ Environment
     \/ \E w \in Workers : SelectBatch(w, HeldByServers) \/ WorkerStep(w)
  /\ UNCHANGED serverVars

McpNext == HubStep \/ \E s \in Servers : ServerStep(s)

McpSpec == McpInit /\ [][McpNext]_mcpVars
-----------------------------------------------------------------------------
(* Every variable has its type. *)
McpTypeOK ==
  /\ TypeOK
  /\ tool \in [Servers -> {"none"} \cup Tools]
  /\ seen \in [Servers -> [Key -> Row]]
  /\ flushed \in [Servers -> [Key -> Row]]
  /\ verdict \in [Servers -> {"none", "ok", "denied", "error"}]
  /\ applied \in [Servers -> SUBSET Key]
  /\ untold \subseteq Key /\ silent \in BOOLEAN

(* No row is in the hands of a worker and of a server, or of two servers,  *)
(* at once, and a worker still only holds rows that are pending.           *)
SessionsAreDisjoint ==
  /\ BatchIsOwned
  /\ HeldByServers \cap LockedByWorkers = {}
  /\ \A s, t \in Servers : s # t => Held(s) \cap Held(t) = {}

(***************************************************************************)
(* What a replay says it did it has done: the row is pending, due, without *)
(* attempts and without an error (write_tools.py:54, "reset to pending").  *)
(***************************************************************************)
ReplayRestoresRow ==
  [][\A s \in Servers :
       CommitCall(s) /\ tool[s] \in {"replay", "drain"} =>
         \A k \in Present(seen[s]) : outbox'[k] = NewRow(outbox[k].id)]_mcpVars

(***************************************************************************)
(* A call changes all the rows it has found or none of them, and the entry *)
(* that is about to be logged says "ok" only for all (session_scope around *)
(* the loop, inside the wrapper): "error" leaves open which, for the       *)
(* commit itself may have raised, and "denied" means none.                 *)
(***************************************************************************)
CallIsAllOrNothing ==
  [][\A s \in Servers :
       LET found == Present(seen[s]) IN
       verdict'[s] # verdict[s] =>
         /\ applied'[s] \in {{}, found}
         /\ verdict'[s] = "ok" => applied'[s] = found
         /\ verdict'[s] = "denied" => applied'[s] = {}]_mcpVars

(***************************************************************************)
(* "Every write tool call - whether it succeeds, is denied, or raises - is *)
(* recorded" (audit.py:3): a row that a tool has reset without an entry in *)
(* the log is one of a call whose entry is still being written, as long as *)
(* no entry was lost.                                                      *)
(***************************************************************************)
ResetIsLogged == untold \subseteq UNION {applied[s] : s \in Servers} \/ silent

(* With operators about, the hub still keeps the promise of the outbox:    *)
(* only dead rows are queued again, and only doubt makes a duplicate.      *)
McpKeepsPromise == Promise!Spec
=============================================================================
