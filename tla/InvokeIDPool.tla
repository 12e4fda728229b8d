---------------------------- MODULE InvokeIDPool ----------------------------
(***************************************************************************)
(* What the transaction state machine promises its callers: a pool of      *)
(* invoke IDs.  An ID is unused, held by a caller (reserved, or given up   *)
(* after its retries), or awaiting a confirmation.  Nothing but a release  *)
(* makes it unused again, at most Capacity IDs are in use, and the IDs     *)
(* other than the one a call names keep their status, except that time     *)
(* may give up any of the awaiting ones.                                   *)
(***************************************************************************)
EXTENDS Naturals, FiniteSets

CONSTANTS IDs, Capacity

VARIABLE status

Statuses == {"unused", "held", "awaiting"}

InUse == {id \in IDs : status[id] # "unused"}

PoolInit == status = [id \in IDs |-> "unused"]

Take(id) ==
  /\ status[id] = "unused"
  /\ Cardinality(InUse) < Capacity
  /\ status' = [status EXCEPT ![id] = "held"]

Start(id) ==
  /\ status[id] # "unused"
  /\ status' = [status EXCEPT ![id] = "awaiting"]

GiveUp(S) ==
  /\ \A id \in S : status[id] = "awaiting"
  /\ status' = [id \in IDs |-> IF id \in S THEN "held" ELSE status[id]]

Release(id) ==
  /\ status[id] # "unused"
  /\ status' = [status EXCEPT ![id] = "unused"]

PoolNext ==
  \/ \E id \in IDs : Take(id) \/ Start(id) \/ Release(id)
  \/ \E S \in SUBSET IDs : GiveUp(S)

PoolSpec == PoolInit /\ [][PoolNext]_status
=============================================================================
