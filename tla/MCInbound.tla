----------------------------- MODULE MCInbound -----------------------------
(* Instances of Inbound for TLC: an order p1 that is shipped and then      *)
(* delivered, a notification of p1 that names no sale order, an event that *)
(* cannot be normalized, and the delivery of an order that Odoo lacks.     *)
EXTENDS Inbound

CONSTANTS shipped, delivered, bare, broken, stray, p1, p2, id1, id2, r1, r2, s1, s2, rec

MCInfoOf ==
  [e \in Events |->
    [ok |-> e # broken,
     order |-> IF e = stray THEN p2 ELSE p1,
     ref |-> IF e = stray THEN id2 ELSE IF e = bare THEN NoRef ELSE id1,
     status |-> IF e \in {delivered, stray} THEN "delivered"
                ELSE IF e = bare THEN "unknown" ELSE "shipped"]]
=============================================================================
