-------------------------- MODULE ParisPush_proofs --------------------------
(***************************************************************************)
(* Theorems about ParisPush, for any number of pushes and of requests in a *)
(* push.  One order is left because a server that finishes what it works   *)
(* at before the client gives up works at one request at a time: it then   *)
(* makes no difference that its SELECT holds no lock.                      *)
(***************************************************************************)
EXTENDS ParisPush, FiniteSetTheorems, TLAPS

(* The request that the client waits for, or repeats, is a real one. *)
CurrentIsSent ==
  client # "idle" => push \in 1..MaxPushes /\ attempt \in 1..MaxAttempts

(* An answer names an order. *)
AnswersAreOrders ==
  \A q \in Requests : handler[q] = "answered" => found[q] \in orders

TypeInv == TypeOK /\ CurrentIsSent /\ AnswersAreOrders

(* The server works at no request but the one the client waits for. *)
WorksForTheClient ==
  \A q \in Requests : handler[q] \in Working => client = "waiting" /\ q = Current

(* Whoever is about to insert an order would insert the first one. *)
InsertsTheFirst ==
  \A q \in Requests : handler[q] = "inserting" => orders = {}

AtMostOne == \A a, b \in orders : a = b

Inv == TypeInv /\ WorksForTheClient /\ InsertsTheFirst /\ AtMostOne
-----------------------------------------------------------------------------
(* What the pieces of the invariant do not mention cannot disturb them. *)
LEMMA ServerFrame ==
  ASSUME AnswersAreOrders, InsertsTheFirst, AtMostOne, UNCHANGED serverVars
  PROVE  AnswersAreOrders' /\ InsertsTheFirst' /\ AtMostOne'
BY DEF AnswersAreOrders, InsertsTheFirst, AtMostOne, serverVars

(* A request that is sent, or fails on its way, is one more that the       *)
(* server has received or nothing at all.                                  *)
LEMMA SendKeepsTypes ==
  ASSUME NEW q \in Requests, TypeInv, Send(q)
  PROVE  /\ orders' = orders /\ client' = "waiting"
         /\ handler' \in [Requests -> HandlerState]
         /\ found' \in [Requests -> orders' \cup {NoOrder}]
         /\ orders' \subseteq Requests
         /\ AnswersAreOrders'
BY DEF TypeInv, TypeOK, Send, HandlerState, AnswersAreOrders

LEMMA SendKeepsOne ==
  ASSUME NEW q \in Requests, TypeInv, Send(q), q = Current',
         InsertsTheFirst, AtMostOne,
         \A r \in Requests : handler[r] \notin Working
  PROVE  WorksForTheClient' /\ InsertsTheFirst' /\ AtMostOne'
<1>1. handler \in [Requests -> HandlerState]
  BY DEF TypeInv, TypeOK
<1>2. orders' = orders /\ client' = "waiting"
  BY DEF Send
<1>3. \A r \in Requests : handler'[r] = handler[r] \/ (r = q /\ handler'[r] = "received")
  BY <1>1 DEF Send
<1> QED
  BY <1>2, <1>3 DEF WorksForTheClient, InsertsTheFirst, AtMostOne, Working

LEMMA InitInv ==
  ASSUME Init
  PROVE  Inv
BY PushBounds DEF Init, Inv, TypeInv, TypeOK, CurrentIsSent, AnswersAreOrders, PushBounds,
  WorksForTheClient, InsertsTheFirst, AtMostOne, HandlerState, Working
-----------------------------------------------------------------------------
(* Each action keeps the types, whether or not requests overlap. *)
LEMMA NextTypes ==
  ASSUME TypeInv, [Next]_vars
  PROVE  TypeInv'
<1> USE DEF TypeInv
<1>0. MaxPushes \in Nat \ {0} /\ MaxAttempts \in Nat \ {0}
  BY PushBounds DEF PushBounds
<1>1. CASE StartPush
  <2>1. push + 1 \in 1..MaxPushes /\ 1 \in 1..MaxAttempts
    BY <1>0, <1>1 DEF StartPush, TypeOK
  <2>2. <<push + 1, 1>> \in Requests
    BY <2>1 DEF Requests
  <2>3. Send(<<push + 1, 1>>)
    BY <1>1 DEF StartPush
  <2>4. /\ orders' = orders /\ client' = "waiting"
        /\ handler' \in [Requests -> HandlerState]
        /\ found' \in [Requests -> orders' \cup {NoOrder}]
        /\ orders' \subseteq Requests
        /\ AnswersAreOrders'
    BY <2>2, <2>3, SendKeepsTypes
  <2> QED
    BY <1>0, <1>1, <2>1, <2>4 DEF StartPush, TypeOK, CurrentIsSent
<1>2. CASE ReadResponse
  <2>1. Current \in Requests
    BY <1>2 DEF ReadResponse, CurrentIsSent, Current, Requests
  <2>2. handler[Current] = "answered" => found[Current] \in orders
    BY <2>1 DEF AnswersAreOrders
  <2> QED
    BY <1>2, <2>2 DEF ReadResponse, serverVars, TypeOK, CurrentIsSent, AnswersAreOrders
<1>3. CASE RequestFails
  BY <1>3 DEF RequestFails, serverVars, TypeOK, CurrentIsSent, AnswersAreOrders
<1>4. CASE Retry
  <2>1. push \in 1..MaxPushes /\ attempt + 1 \in 1..MaxAttempts
    BY <1>0, <1>4 DEF Retry, TypeOK, CurrentIsSent
  <2>2. <<push, attempt + 1>> \in Requests
    BY <2>1 DEF Requests
  <2>3. Send(<<push, attempt + 1>>)
    BY <1>4 DEF Retry
  <2>4. /\ orders' = orders /\ client' = "waiting"
        /\ handler' \in [Requests -> HandlerState]
        /\ found' \in [Requests -> orders' \cup {NoOrder}]
        /\ orders' \subseteq Requests
        /\ AnswersAreOrders'
    BY <2>2, <2>3, SendKeepsTypes
  <2> QED
    BY <1>0, <1>4, <2>1, <2>4 DEF Retry, TypeOK, CurrentIsSent
<1>5. CASE GiveUp
  BY <1>5 DEF GiveUp, serverVars, TypeOK, CurrentIsSent, AnswersAreOrders
<1>6. ASSUME NEW q \in Requests, Select(q) PROVE TypeInv'
  <2>1. UNCHANGED <<push, attempt, client, result, got, orders>>
    BY <1>6 DEF Select, clientVars
  <2>2. handler' \in [Requests -> HandlerState]
    BY <1>6 DEF Select, TypeOK, HandlerState
  <2>3. found' \in [Requests -> orders \cup {NoOrder}]
    BY <1>6 DEF Select, TypeOK
  <2>4. AnswersAreOrders'
    BY <1>6, <2>1 DEF Select, TypeOK, AnswersAreOrders
  <2> QED
    BY <2>1, <2>2, <2>3, <2>4 DEF TypeOK, CurrentIsSent
<1>7. ASSUME NEW q \in Requests, Insert(q) PROVE TypeInv'
  <2>1. UNCHANGED <<push, attempt, client, result, got>> /\ orders' = orders \cup {q}
    BY <1>7 DEF Insert, clientVars
  <2>2. handler' \in [Requests -> HandlerState]
    BY <1>7 DEF Insert, TypeOK, HandlerState
  <2>3. found' \in [Requests -> orders' \cup {NoOrder}]
    BY <1>7, <2>1 DEF Insert, TypeOK
  <2>4. AnswersAreOrders'
    BY <1>7, <2>1 DEF Insert, TypeOK, AnswersAreOrders
  <2> QED
    BY <2>1, <2>2, <2>3, <2>4 DEF TypeOK, CurrentIsSent
<1>8. ASSUME NEW q \in Requests, ServerRefuses(q) PROVE TypeInv'
  <2>1. UNCHANGED <<push, attempt, client, result, got, orders, found>>
    BY <1>8 DEF ServerRefuses, clientVars
  <2>2. handler' \in [Requests -> HandlerState]
    BY <1>8 DEF ServerRefuses, TypeOK, HandlerState
  <2>3. AnswersAreOrders'
    BY <1>8, <2>1 DEF ServerRefuses, TypeOK, AnswersAreOrders
  <2> QED
    BY <2>1, <2>2, <2>3 DEF TypeOK, CurrentIsSent
<1>9. CASE UNCHANGED vars
  BY <1>9 DEF vars, clientVars, serverVars, TypeOK, CurrentIsSent, AnswersAreOrders
<1> QED
  BY <1>1, <1>2, <1>3, <1>4, <1>5, <1>6, <1>7, <1>8, <1>9 DEF Next, Adapter, Server

(* And, if requests do not overlap, the rest of the invariant. *)
LEMMA NextInv ==
  ASSUME ~Overlap, Inv, [Next]_vars
  PROVE  Inv'
<1> USE DEF Inv
<1>0. TypeInv'
  BY NextTypes
<1>1. CASE StartPush
  <2>1. Send(Current') /\ client = "idle" /\ Current' = <<push + 1, 1>>
    BY <1>1 DEF StartPush, Current
  <2>2. Current' \in Requests
    BY <1>1, PushBounds DEF StartPush, Current, Requests, TypeInv, TypeOK, PushBounds
  <2>3. \A r \in Requests : handler[r] \notin Working
    BY <2>1 DEF WorksForTheClient
  <2> QED
    BY <1>0, <2>1, <2>2, <2>3, SendKeepsOne
<1>2. CASE ReadResponse
  <2>1. Current' = Current /\ UNCHANGED serverVars
    BY <1>2 DEF ReadResponse, Current
  <2>2. handler[Current] \notin Working
    BY <1>2 DEF ReadResponse, Working
  <2>3. WorksForTheClient'
    BY <2>1, <2>2 DEF WorksForTheClient, serverVars
  <2> QED
    BY <1>0, <2>1, <2>3, ServerFrame DEF TypeInv
<1>3. CASE RequestFails
  <2>1. Current' = Current /\ UNCHANGED serverVars
    BY <1>3 DEF RequestFails, Current
  <2>2. handler[Current] \notin Working
    BY <1>3 DEF RequestFails
  <2>3. WorksForTheClient'
    BY <2>1, <2>2 DEF WorksForTheClient, serverVars
  <2> QED
    BY <1>0, <2>1, <2>3, ServerFrame DEF TypeInv
<1>4. CASE Retry
  <2>1. Send(Current') /\ client = "retrying" /\ Current' = <<push, attempt + 1>>
    BY <1>4 DEF Retry, Current
  <2>2. Current' \in Requests
    BY <1>4, PushBounds
    DEF Retry, Current, Requests, TypeInv, TypeOK, CurrentIsSent, PushBounds
  <2>3. \A r \in Requests : handler[r] \notin Working
    BY <2>1 DEF WorksForTheClient
  <2> QED
    BY <1>0, <2>1, <2>2, <2>3, SendKeepsOne
<1>5. CASE GiveUp
  <2>1. UNCHANGED serverVars /\ client = "retrying"
    BY <1>5 DEF GiveUp
  <2>2. WorksForTheClient'
    BY <2>1 DEF WorksForTheClient, serverVars
  <2> QED
    BY <1>0, <2>1, <2>2, ServerFrame DEF TypeInv
<1>6. ASSUME NEW q \in Requests, Select(q) PROVE Inv'
  <2>1. UNCHANGED <<push, attempt, client, orders>>
    BY <1>6 DEF Select, clientVars
  <2>2. \A r \in Requests :
          /\ handler'[r] \in Working => handler[r] \in Working
          /\ handler'[r] = "inserting" => handler[r] = "inserting" \/ orders = {}
    BY <1>6 DEF Select, TypeInv, TypeOK, Working
  <2>3. WorksForTheClient' /\ InsertsTheFirst' /\ AtMostOne'
    BY <2>1, <2>2 DEF WorksForTheClient, InsertsTheFirst, AtMostOne, Current
  <2> QED
    BY <1>0, <2>3
<1>7. ASSUME NEW q \in Requests, Insert(q) PROVE Inv'
  <2>1. /\ handler[q] = "inserting" /\ orders' = orders \cup {q}
        /\ UNCHANGED <<push, attempt, client>>
    BY <1>7 DEF Insert, clientVars
  <2>2. orders = {}
    BY <2>1 DEF InsertsTheFirst
  <2>3. \A r \in Requests : handler[r] \in Working => r = q
    BY <2>1 DEF WorksForTheClient, Working
  <2>4. \A r \in Requests : handler'[r] \notin Working
    BY <1>7, <2>3 DEF Insert, TypeInv, TypeOK, Working
  <2>5. WorksForTheClient' /\ InsertsTheFirst' /\ AtMostOne'
    BY <2>1, <2>2, <2>4 DEF WorksForTheClient, InsertsTheFirst, AtMostOne, Working
  <2> QED
    BY <1>0, <2>5
<1>8. ASSUME NEW q \in Requests, ServerRefuses(q) PROVE Inv'
  <2>1. UNCHANGED <<push, attempt, client, orders>>
    BY <1>8 DEF ServerRefuses, clientVars
  <2>2. \A r \in Requests :
          /\ handler'[r] \in Working => handler[r] \in Working
          /\ handler'[r] = "inserting" => handler[r] = "inserting"
    BY <1>8 DEF ServerRefuses, TypeInv, TypeOK, Working
  <2>3. WorksForTheClient' /\ InsertsTheFirst' /\ AtMostOne'
    BY <2>1, <2>2 DEF WorksForTheClient, InsertsTheFirst, AtMostOne, Current
  <2> QED
    BY <1>0, <2>3
<1>9. CASE UNCHANGED vars
  <2>1. UNCHANGED serverVars /\ UNCHANGED <<push, attempt, client>>
    BY <1>9 DEF vars, clientVars
  <2>2. WorksForTheClient'
    BY <2>1 DEF WorksForTheClient, serverVars, Current
  <2> QED
    BY <1>0, <2>1, <2>2, ServerFrame DEF TypeInv
<1> QED
  BY <1>1, <1>2, <1>3, <1>4, <1>5, <1>6, <1>7, <1>8, <1>9 DEF Next, Adapter, Server

LEMMA AtMostOneIsOneOrder ==
  ASSUME AtMostOne
  PROVE  OneOrder
<1>1. CASE orders = {}
  BY <1>1, FS_EmptySet DEF OneOrder
<1>2. CASE orders # {}
  <2>1. PICK o : orders = {o}
    BY <1>2 DEF AtMostOne
  <2> QED
    BY <2>1, FS_Singleton DEF OneOrder
<1> QED
  BY <1>1, <1>2
-----------------------------------------------------------------------------
(* Every reachable state is well typed: even when requests overlap the     *)
(* worker is told of no order that is not committed (app.py of paris-mock  *)
(* answers with what it found or inserted).                                *)
THEOREM TypeCorrect == Spec => []TypeOK
<1>1. Init => TypeInv
  BY InitInv DEF Inv
<1>2. TypeInv /\ [Next]_vars => TypeInv'
  BY NextTypes
<1>3. TypeInv => TypeOK
  BY DEF TypeInv
<1> QED
  BY <1>1, <1>2, <1>3, PTL DEF Spec

(* If the server answers within the client's timeout, a row leaves one     *)
(* order in the marketplace, however many pushes and retries it takes, and *)
(* wherever connections fail and responses are lost.                       *)
THEOREM OneOrderWithoutOverlap ==
  ASSUME ~Overlap
  PROVE  Spec => []OneOrder
<1>1. Init => Inv
  BY InitInv
<1>2. Inv /\ [Next]_vars => Inv'
  BY NextInv
<1>3. Inv => OneOrder
  BY AtMostOneIsOneOrder DEF Inv
<1> QED
  BY <1>1, <1>2, <1>3, PTL DEF Spec
-----------------------------------------------------------------------------
(***************************************************************************)
(* What OutboxWorker takes for granted of a push, which is one step there. *)
(***************************************************************************)

(* A push that ended well has left an order in the marketplace, requests   *)
(* that overlap or not: PushOk may count an acceptance.                    *)
THEOREM OkMeansAccepted == Spec => [](result = "ok" => got # {} /\ got \subseteq orders)
<1> DEFINE OkIsTold == result = "ok" => got # {}
<1>1. Init => TypeInv /\ OkIsTold
  BY InitInv DEF Init, Inv
<1>2. TypeInv /\ [Next]_vars => TypeInv'
  BY NextTypes
<1>3. OkIsTold /\ [Next]_vars => OkIsTold'
  <2>1. CASE ReadResponse
    BY <2>1 DEF ReadResponse
  <2>2. ASSUME StartPush \/ RequestFails \/ Retry PROVE UNCHANGED <<result, got>>
    BY <2>2 DEF StartPush, RequestFails, Retry
  <2>3. CASE GiveUp
    BY <2>3 DEF GiveUp
  <2>4. ASSUME Server \/ UNCHANGED vars PROVE UNCHANGED <<result, got>>
    BY <2>4 DEF Server, Select, Insert, ServerRefuses, vars, clientVars
  <2>5. QED
    BY <2>1, <2>2, <2>3, <2>4 DEF Next, Adapter
<1>4. TypeInv /\ OkIsTold => (result = "ok" => got # {} /\ got \subseteq orders)
  BY DEF TypeInv, TypeOK
<1> QED
  BY <1>1, <1>2, <1>3, <1>4, PTL DEF Spec

(* If the server answers within the client's timeout, no order appears     *)
(* when the push is over or between its requests: what a push that failed  *)
(* has left behind (FailedPush's hit) is decided when it returns.          *)
THEOREM NothingArrivesLate ==
  ASSUME ~Overlap
  PROVE  Spec => [][orders' # orders => client = "waiting"]_vars
<1>1. Init => Inv
  BY InitInv
<1>2. Inv /\ [Next]_vars => Inv'
  BY NextInv
<1>3. Inv /\ [Next]_vars => [orders' # orders => client = "waiting"]_vars
  <2>1. ASSUME Inv, NEW q \in Requests, Insert(q) PROVE client = "waiting"
    BY <2>1 DEF Insert, Inv, WorksForTheClient, Working
  <2>2. ASSUME NEW q \in Requests, Select(q) \/ ServerRefuses(q) PROVE orders' = orders
    BY <2>2 DEF Select, ServerRefuses
  <2>3. ASSUME Adapter PROVE orders' = orders
    BY <2>3 DEF Adapter, StartPush, ReadResponse, RequestFails, Retry, GiveUp, Send, serverVars
  <2>4. QED
    BY <2>1, <2>2, <2>3 DEF Next, Server
<1> QED
  BY <1>1, <1>2, <1>3, PTL DEF Spec
=============================================================================
