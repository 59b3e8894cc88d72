-------------------------- MODULE MCResultDelivery --------------------------
(* Small instances of ResultDelivery for TLC: the results of one task,     *)
(* measured in different seconds or in one.                                *)
EXTENDS ResultDelivery, TLC

CONSTANT t1

OneTask == [r \in Results |-> t1]
Apart(q, r) == q = r
Together(q, r) == TRUE

(* Bound of delivery_backfill: results go over two sessions, or the center *)
(* forgets them or the node is renamed while there is one.                 *)
FewFaults == session <= 1 \/ (forgets = 0 /\ nodeName = 0)

(* Results of one task are interchangeable (safety runs only).             *)
Alike == Permutations(Results)
=============================================================================
