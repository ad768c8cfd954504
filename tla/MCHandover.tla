----------------------------- MODULE MCHandover -----------------------------
(* Handover on small instances; the .cfg files choose the callers.  One    *)
(* direction carries more than the other: the roles differ, the directions *)
(* do not.                                                                 *)
EXTENDS Handover

MCTwoEach == [s \in Side |-> 2]
MCServerSends == [s \in Side |-> IF s = "server" THEN 3 ELSE 1]
=============================================================================
