----------------------------- MODULE ParisPush -----------------------------
(***************************************************************************)
(* What one push of OutboxWorker is made of: the Paris adapter sends       *)
(* POST /orders up to MaxAttempts times, and paris-mock looks for an order *)
(* with the same external_ref before it inserts one.  The pushes are those *)
(* of one outbox row, so all requests carry one external_ref.              *)
(***************************************************************************)
EXTENDS Naturals, FiniteSets

CONSTANTS
  MaxPushes,     \* bound on the pushes of the row
  MaxAttempts,   \* settings.adapter_max_attempts: requests of a push
  Overlap        \* the client's timeout may strike while the server works

ASSUME PushBounds ==
  MaxPushes \in Nat \ {0} /\ MaxAttempts \in Nat \ {0} /\ Overlap \in BOOLEAN

Requests == (1..MaxPushes) \X (1..MaxAttempts)
NoOrder == <<0, 0>>

VARIABLES
  push,          \* number of the current push
  attempt,       \* requests sent in it
  client,        \* the adapter: "idle", "waiting" or "retrying"
  result,        \* how the last push ended: "none", "ok" or "failed"
  got,           \* marketplace_order_ids that successful pushes returned
  handler,       \* handler[q]: what the server has done about request q
  found,         \* found[q]: the id that the handler of q will answer
  orders         \* paris_orders, an order being named by its request

clientVars == <<push, attempt, client, result, got>>
serverVars == <<handler, found, orders>>
vars == <<clientVars, serverVars>>

HandlerState == {"none", "received", "inserting", "answered", "error", "busy"}
Working == {"received", "inserting"}
Current == <<push, attempt>>

Init ==
  /\ push = 0 /\ attempt = 0 /\ client = "idle" /\ result = "none" /\ got = {}
  /\ handler = [q \in Requests |-> "none"]
  /\ found = [q \in Requests |-> NoOrder]
  /\ orders = {}
-----------------------------------------------------------------------------
(* A request reaches the server, or the connection fails on the way. *)
Send(q) ==
  /\ handler' \in {[handler EXCEPT ![q] = "received"], handler}
  /\ client' = "waiting"
  /\ UNCHANGED <<found, orders>>

(* process_entry pushes the row, for the first time or again: because the  *)
(* last push failed, or because its batch was rolled back.                 *)
StartPush ==
  /\ client = "idle" /\ push < MaxPushes
  /\ push' = push + 1 /\ attempt' = 1
  /\ Send(<<push + 1, 1>>)
  /\ UNCHANGED <<result, got>>

(* The response is read: 2xx ends the push well, any other but 429 badly.  *)
ReadResponse ==
  /\ client = "waiting"
  /\ \/ /\ handler[Current] = "answered"
        /\ result' = "ok"
        /\ got' = got \cup {found[Current]}
     \/ /\ handler[Current] = "error"
        /\ result' = "failed"
        /\ UNCHANGED got
  /\ client' = "idle"
  /\ UNCHANGED <<push, attempt, serverVars>>

(* RateLimited, or a TransportError: a connection that fails, a response   *)
(* that is lost, or (with Overlap) one that takes longer than the timeout. *)
RequestFails ==
  /\ client = "waiting"
  /\ Overlap \/ handler[Current] \notin Working
  /\ client' = "retrying"
  /\ UNCHANGED <<push, attempt, result, got, serverVars>>

(* Mutant: retry until it works. *)
RetryForever ==
  /\ client = "retrying"
  /\ attempt' = IF attempt < MaxAttempts THEN attempt + 1 ELSE attempt
  /\ Send(<<push, attempt'>>)
  /\ UNCHANGED <<push, result, got>>

Retry ==
  /\ client = "retrying" /\ attempt < MaxAttempts
  /\ attempt' = attempt + 1
  /\ Send(<<push, attempt + 1>>)
  /\ UNCHANGED <<push, result, got>>

(* stop_after_attempt, reraise=True: process_entry sees the exception. *)
GiveUp ==
  /\ client = "retrying" /\ attempt = MaxAttempts
  /\ client' = "idle" /\ result' = "failed"
  /\ UNCHANGED <<push, attempt, got, serverVars>>
-----------------------------------------------------------------------------
(* create_order runs in a thread of its own per request, whether or not    *)
(* the client still waits.  Its SELECT holds no lock.                      *)
(* Mutant: the handler does not look for an order. *)
SelectNothing(q) ==
  /\ handler[q] = "received"
  /\ handler' = [handler EXCEPT ![q] = "inserting"]
  /\ UNCHANGED <<clientVars, found, orders>>

Select(q) ==
  /\ handler[q] = "received"
  /\ IF orders = {}
     THEN handler' = [handler EXCEPT ![q] = "inserting"] /\ UNCHANGED found
     ELSE \E o \in orders : /\ found' = [found EXCEPT ![q] = o]
                            /\ handler' = [handler EXCEPT ![q] = "answered"]
  /\ UNCHANGED <<clientVars, orders>>

(* Mutant: the answer is built but the session is not committed. *)
InsertUncommitted(q) ==
  /\ handler[q] = "inserting"
  /\ orders' \in {orders, orders \cup {q}}
  /\ found' = [found EXCEPT ![q] = q]
  /\ handler' = [handler EXCEPT ![q] = "answered"]
  /\ UNCHANGED clientVars

(* The order is inserted and committed as the handler leaves "scoped". *)
Insert(q) ==
  /\ handler[q] = "inserting"
  /\ orders' = orders \cup {q}
  /\ found' = [found EXCEPT ![q] = q]
  /\ handler' = [handler EXCEPT ![q] = "answered"]
  /\ UNCHANGED clientVars

(* The database raises (it is locked, say): rolled back, 500.  Or the      *)
(* marketplace refuses the request with 4xx or 429 before it looks at it.  *)
ServerRefuses(q) ==
  /\ handler[q] \in Working
  /\ \/ handler' = [handler EXCEPT ![q] = "error"]
     \/ handler[q] = "received" /\ handler' = [handler EXCEPT ![q] = "busy"]
  /\ UNCHANGED <<clientVars, found, orders>>

Adapter == StartPush \/ ReadResponse \/ RequestFails \/ Retry \/ GiveUp
Server == \E q \in Requests : Select(q) \/ Insert(q) \/ ServerRefuses(q)

Next == Adapter \/ Server

Spec == Init /\ [][Next]_vars
-----------------------------------------------------------------------------
(* Every variable has its type, and the ids that the server hands out, and *)
(* the worker believes in, are those of committed orders.                  *)
TypeOK ==
  /\ push \in 0..MaxPushes /\ attempt \in 0..MaxAttempts
  /\ client \in {"idle", "waiting", "retrying"}
  /\ result \in {"none", "ok", "failed"}
  /\ got \subseteq orders /\ orders \subseteq Requests
  /\ handler \in [Requests -> HandlerState]
  /\ found \in [Requests -> orders \cup {NoOrder}]

(* POST /orders is "idempotent by external_ref" (adapters.md:43): requests *)
(* that are repeated, refused or answered in vain leave one order.         *)
OneOrder == Cardinality(orders) <= 1

(***************************************************************************)
(* Fairness: the adapter does not stop and every request times out.        *)
(***************************************************************************)
FairSpec == Spec /\ WF_vars(Adapter) /\ WF_vars(Server)

(* A push ends: the retries inside it are bounded, so the worker, which    *)
(* waits for it with its rows locked, goes on.                             *)
PushEnds == client # "idle" ~> client = "idle"
=============================================================================
