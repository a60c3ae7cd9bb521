--------------------------- MODULE MCOutboxWorker ---------------------------
(* Instances of OutboxWorker for TLC. *)
EXTENDS OutboxWorker

CONSTANTS o1, o2, paris, ml, w1, w2

(* enqueue_orders takes the orders as fetched and the adapters in the      *)
(* order of the registry.                                                  *)
OrderRank(o) == IF o = o1 THEN 0 ELSE 1
TargetRank(t) == IF t = paris THEN 1 ELSE 2
MCRank == [k \in Key |-> OrderRank(OrderOf(k)) * Cardinality(Targets)
                         + (IF Cardinality(Targets) = 1 THEN 1 ELSE TargetRank(TargetOf(k)))]
=============================================================================
