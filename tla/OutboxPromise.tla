--------------------------- MODULE OutboxPromise ---------------------------
(***************************************************************************)
(* What the outbound half of the hub promises about every pair of an Odoo  *)
(* order and a marketplace, with no worker, transaction, lock or retry     *)
(* counter in sight.  A pair is queued once, is settled only after the     *)
(* marketplace took the order or after its failure was announced on the    *)
(* dead-letter topic, leaves a settled stage only by an operator's replay  *)
(* of a dead letter, and reaches the marketplace a second time only when   *)
(* the record of the first time may have been lost.                        *)
(***************************************************************************)
EXTENDS Naturals

CONSTANT Key        \* the (order, marketplace) pairs that may be queued

VARIABLES
  stage,            \* stage[k]: where the pair stands
  accepted,         \* accepted[k]: orders the marketplace took: 0, 1, 2 = more
  announced,        \* pairs with a message on the dead-letter topic
  doubtful          \* pairs whose acceptance may not have been recorded

vars == <<stage, accepted, announced, doubtful>>

Stage == {"absent", "queued", "done", "dlq"}

Init ==
  /\ stage = [k \in Key |-> "absent"]
  /\ accepted = [k \in Key |-> 0]
  /\ announced = {}
  /\ doubtful = {}

Known(S) == \A k \in S : stage[k] # "absent"

Enqueue(S) ==
  /\ \A k \in S : stage[k] = "absent"
  /\ stage' = [k \in Key |-> IF k \in S THEN "queued" ELSE stage[k]]
  /\ UNCHANGED <<accepted, announced, doubtful>>

(* A pair whose order has not gone out yet, as far as anybody can know. *)
Open(k) == (stage[k] = "queued" /\ accepted[k] = 0) \/ k \in doubtful

(***************************************************************************)
(* One attempt: the marketplace takes the orders in A (at most one in an   *)
(* implementation), the pairs in D become doubtful and those in M are      *)
(* announced.  Nothing is sent or announced that has been delivered.       *)
(***************************************************************************)
Attempt(A, D, M) ==
  /\ Known(A \cup D \cup M)
  /\ \A k \in A \cup M : Open(k)
  /\ accepted' = [k \in Key |->
                    IF k \notin A THEN accepted[k]
                    ELSE IF accepted[k] = 0 THEN 1 ELSE 2]
  /\ doubtful' = doubtful \cup D
  /\ announced' = announced \cup M
  /\ UNCHANGED stage

Settle(D, Q) ==
  /\ D \cap Q = {}
  /\ \A k \in D : stage[k] = "queued" /\ accepted[k] > 0
  /\ \A k \in Q : stage[k] = "queued" /\ k \in announced /\ Open(k)
  /\ stage' = [k \in Key |-> IF k \in D THEN "done"
                             ELSE IF k \in Q THEN "dlq" ELSE stage[k]]
  /\ UNCHANGED <<accepted, announced, doubtful>>

(* An operator puts dead letters back in the queue. *)
Requeue(S) ==
  /\ \A k \in S : stage[k] = "dlq"
  /\ stage' = [k \in Key |-> IF k \in S THEN "queued" ELSE stage[k]]
  /\ UNCHANGED <<accepted, announced, doubtful>>

Next ==
  \/ \E S \in SUBSET Key : Enqueue(S) \/ Requeue(S)
  \/ \E A, D, M \in SUBSET Key : Attempt(A, D, M)
  \/ \E D, Q \in SUBSET Key : Settle(D, Q)

Spec == Init /\ [][Next]_vars
=============================================================================
