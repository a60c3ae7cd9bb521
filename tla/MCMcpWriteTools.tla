-------------------------- MODULE MCMcpWriteTools --------------------------
(* Instances of McpWriteTools for TLC. *)
EXTENDS McpWriteTools

CONSTANTS o1, o2, paris, ml, w1, s1, s2

OrderRank(o) == IF o = o1 THEN 0 ELSE 1
TargetRank(t) == IF t = ml /\ Cardinality(Targets) = 2 THEN 2 ELSE 1
MCRank == [k \in Key |-> OrderRank(OrderOf(k)) * Cardinality(Targets)
                         + TargetRank(TargetOf(k))]
=============================================================================
