---------------------------- MODULE MCConnection ----------------------------
(* Bounds for model-checking Connection: three endpoints, two of which share *)
(* a priority, or fewer.                                                     *)
EXTENDS Connection

CONSTANTS e1, e2, e3

Priorities == [e \in Endpoints |-> IF e = e3 THEN 0 ELSE 1]
=============================================================================
