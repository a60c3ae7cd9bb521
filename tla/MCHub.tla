------------------------------- MODULE MCHub -------------------------------
(* Instances of Hub for TLC: one order, and Paris as the only marketplace. *)
EXTENDS Hub

CONSTANTS o1, paris1, w1, op1, r1, sub1, rec, shipped, delivered

MCRank == [k \in Key |-> 1]
MCInfoOf == [e \in Events |->
  [ok |-> TRUE, order |-> o1, ref |-> o1,
   status |-> IF e = shipped THEN "shipped" ELSE "delivered"]]
=============================================================================
