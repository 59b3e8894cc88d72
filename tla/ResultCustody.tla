--------------------------- MODULE ResultCustody ---------------------------
(***************************************************************************)
(* What the delivery of probe results promises, without its mechanism: a   *)
(* result that was measured stays in the custody of the agent until its    *)
(* fate is settled at the center.  The local cache of the agent            *)
(* (agent/local_cache.py), the acknowledgements of the center              *)
(* (server/ws/agent_handler.py) and the backfill after a reconnection      *)
(* (agent/ws_client.py) together implement it.                             *)
(***************************************************************************)
CONSTANT Results

VARIABLES
  held,      \* results the agent would still send again
  settled    \* results whose fate is decided at the center

vars == <<held, settled>>

TypeOK == held \subseteq Results /\ settled \subseteq Results

Init == held = {} /\ settled = {}

(* A probe finished: its result is new, and is held from the start.        *)
Measure(r) ==
  /\ r \notin held \cup settled
  /\ held' = held \cup {r}
  /\ UNCHANGED settled

(* The center decides the fate of results that are still held.             *)
Settle(R) ==
  /\ R # {} /\ R \subseteq held
  /\ settled' = settled \cup R
  /\ UNCHANGED held

(* Custody of results that are settled may end, or be taken up again; the  *)
(* custody of the others never changes hands.                              *)
Recustody(H) ==
  /\ H \ settled = held \ settled
  /\ held' = H
  /\ UNCHANGED settled

Next ==
  \/ \E r \in Results : Measure(r)
  \/ \E R \in SUBSET Results : Settle(R)
  \/ \E H \in SUBSET Results : Recustody(H)

Spec == Init /\ [][Next]_vars
=============================================================================
