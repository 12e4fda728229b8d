-------------------------------- MODULE TSM --------------------------------
(***************************************************************************)
(* The transaction state machine of a BACnet client                        *)
(* (src/bacnet/basic/tsm/tsm.c): the table TSM_List of outstanding         *)
(* confirmed requests and the counter Current_Invoke_ID that names them.   *)
(*                                                                         *)
(* Every function of the file is an operator on a value of the table, so   *)
(* that the modules which compose the TSM with its callers (Device, COV)   *)
(* use the same definitions.  The specification at the end lets any        *)
(* caller make any call in any order.                                      *)
(*                                                                         *)
(* The contents of a request (dest, npdu_data, apdu) is one value of Pdus. *)
(* Timeout_Function is left out: nothing in the repository registers one.  *)
(***************************************************************************)
EXTENDS Integers, FiniteSets

CONSTANTS
  MAX_TSM_TRANSACTIONS,   \* slots of TSM_List
  MaxInvokeID,            \* largest invoke ID: 255, an uint8_t
  APDU_Timeout,           \* apdu_timeout(), in timer units
  APDU_Retries,           \* apdu_retries()
  Elapsed,                \* the arguments tsm_timer_milliseconds is called with
  Pdus,                   \* request contents
  NoPdu                   \* the contents of a slot never used

(***************************************************************************)
(* config.h lets MAX_TSM_TRANSACTIONS range over 1..255, so there are at   *)
(* least as many invoke IDs as slots.                                      *)
(***************************************************************************)
ASSUME SizeAssumption ==
  /\ MAX_TSM_TRANSACTIONS \in Nat \ {0}
  /\ MaxInvokeID \in Nat
  /\ MAX_TSM_TRANSACTIONS <= MaxInvokeID

ASSUME TimerAssumption ==
  /\ APDU_Timeout \in Nat
  /\ APDU_Retries \in Nat
  /\ Elapsed \subseteq Nat
  /\ NoPdu \notin Pdus

VARIABLES
  TSM_List,
  Current_Invoke_ID

tsmVars == <<TSM_List, Current_Invoke_ID>>

Slots == 0 .. MAX_TSM_TRANSACTIONS - 1
InvokeIDs == 1 .. MaxInvokeID

BACNET_TSM_DATA ==
  [InvokeID : {0} \cup InvokeIDs,
   state : {"IDLE", "AWAIT_CONFIRMATION"},
   RetryCount : Nat,
   RequestTimer : Nat,
   pdu : Pdus \cup {NoPdu}]

FreeSlot ==
  [InvokeID |-> 0, state |-> "IDLE", RetryCount |-> 0, RequestTimer |-> 0,
   pdu |-> NoPdu]

Inited == [i \in Slots |-> FreeSlot]

-----------------------------------------------------------------------------
(***************************************************************************)
(* Searching the table.                                                    *)
(***************************************************************************)

\* Slots that hold an invoke ID; ID 0 asks for the unused slots.
Holders(list, invokeID) == {i \in Slots : list[i].InvokeID = invokeID}

First(S) == CHOOSE i \in S : \A j \in S : i <= j

tsm_find_invokeID_index(list, invokeID) ==
  IF Holders(list, invokeID) = {} THEN MAX_TSM_TRANSACTIONS
                                  ELSE First(Holders(list, invokeID))

tsm_find_first_free_index(list) == tsm_find_invokeID_index(list, 0)

tsm_transaction_available(list) == Holders(list, 0) # {}

tsm_transaction_idle_count(list) ==
  Cardinality({i \in Slots : list[i].InvokeID = 0 /\ list[i].state = "IDLE"})

tsm_invoke_id_free(list, invokeID) == Holders(list, invokeID) = {}

tsm_invoke_id_failed(list, invokeID) ==
  /\ Holders(list, invokeID) # {}
  /\ list[tsm_find_invokeID_index(list, invokeID)].state = "IDLE"

-----------------------------------------------------------------------------
(***************************************************************************)
(* Invoke IDs.  The increment of an uint8_t wraps to 0, which is skipped.  *)
(* The search loop stops at the first ID from Current_Invoke_ID on that no *)
(* slot holds; StepsToUnused is the set of distances at which it may stop, *)
(* and an empty set is a loop that never ends.                             *)
(***************************************************************************)

Increment(id) == IF id = MaxInvokeID THEN 1 ELSE id + 1

IDAfter(current, steps) ==
  IF current + steps <= MaxInvokeID THEN current + steps
                                    ELSE current + steps - MaxInvokeID

\* Mutant: an ID reserved but not yet sent counts as unused.
StepsToUnused_SentOnly(list, current) ==
  {k \in 0 .. MaxInvokeID - 1 :
     \A i \in Holders(list, IDAfter(current, k)) : list[i].state = "IDLE"}

StepsToUnused(list, current) ==
  {k \in 0 .. MaxInvokeID - 1 : tsm_invoke_id_free(list, IDAfter(current, k))}

UnusedID(list, current) == IDAfter(current, First(StepsToUnused(list, current)))

\* Mutant: reserves the first idle slot, be it in use or not.
Reserve_IdleSlot(list, invokeID) ==
  [list EXCEPT ![First({i \in Slots : list[i].state = "IDLE"})] =
     [@ EXCEPT !.InvokeID = invokeID, !.RequestTimer = APDU_Timeout]]

\* The slot as tsm_next_free_invokeID leaves it: reserved, not yet sent.
Reserve(list, invokeID) ==
  [list EXCEPT ![tsm_find_first_free_index(list)] =
     [@ EXCEPT !.InvokeID = invokeID,
               !.state = "IDLE",
               !.RequestTimer = APDU_Timeout]]

tsm_invokeID_set(invokeID) == IF invokeID = 0 THEN 1 ELSE invokeID

-----------------------------------------------------------------------------
(***************************************************************************)
(* A transaction's life.                                                   *)
(***************************************************************************)

tsm_set_confirmed_unsegmented_transaction(list, invokeID, pdu) ==
  IF invokeID = 0 \/ tsm_invoke_id_free(list, invokeID)
    THEN list
    ELSE [list EXCEPT ![tsm_find_invokeID_index(list, invokeID)] =
            [@ EXCEPT !.state = "AWAIT_CONFIRMATION",
                      !.RetryCount = 0,
                      !.RequestTimer = APDU_Timeout,
                      !.pdu = pdu]]

TimedOut(slot, milliseconds) ==
  slot.state = "AWAIT_CONFIRMATION" /\ slot.RequestTimer <= milliseconds

\* The slots whose request the timer call transmits again.
Retransmitted(list, milliseconds) ==
  {i \in Slots : /\ TimedOut(list[i], milliseconds)
                 /\ list[i].RetryCount < APDU_Retries}

\* Mutant: the request is repeated for ever.
TimerStep_NoGiveUp(slot, milliseconds) ==
  CASE slot.state # "AWAIT_CONFIRMATION" -> slot
    [] slot.state = "AWAIT_CONFIRMATION" /\ slot.RequestTimer > milliseconds ->
         [slot EXCEPT !.RequestTimer = @ - milliseconds]
    [] TimedOut(slot, milliseconds) ->
         [slot EXCEPT !.RequestTimer = APDU_Timeout]

\* Mutant: the transaction frees itself when its retries are exhausted.
TimerStep_SelfDelete(slot, milliseconds) ==
  CASE slot.state # "AWAIT_CONFIRMATION" -> slot
    [] slot.state = "AWAIT_CONFIRMATION" /\ slot.RequestTimer > milliseconds ->
         [slot EXCEPT !.RequestTimer = @ - milliseconds]
    [] TimedOut(slot, milliseconds) /\ slot.RetryCount < APDU_Retries ->
         [slot EXCEPT !.RequestTimer = APDU_Timeout, !.RetryCount = @ + 1]
    [] TimedOut(slot, milliseconds) /\ slot.RetryCount >= APDU_Retries ->
         [slot EXCEPT !.RequestTimer = 0, !.state = "IDLE", !.InvokeID = 0]

TimerStep(slot, milliseconds) ==
  CASE slot.state # "AWAIT_CONFIRMATION" -> slot
    [] slot.state = "AWAIT_CONFIRMATION" /\ slot.RequestTimer > milliseconds ->
         [slot EXCEPT !.RequestTimer = @ - milliseconds]
    [] TimedOut(slot, milliseconds) /\ slot.RetryCount < APDU_Retries ->
         [slot EXCEPT !.RequestTimer = APDU_Timeout, !.RetryCount = @ + 1]
    [] TimedOut(slot, milliseconds) /\ slot.RetryCount >= APDU_Retries ->
         [slot EXCEPT !.RequestTimer = 0, !.state = "IDLE"]

tsm_timer_milliseconds(list, milliseconds) ==
  [i \in Slots |-> TimerStep(list[i], milliseconds)]

tsm_free_invoke_id(list, invokeID) ==
  IF tsm_invoke_id_free(list, invokeID)
    THEN list
    ELSE [list EXCEPT ![tsm_find_invokeID_index(list, invokeID)] =
            [@ EXCEPT !.state = "IDLE", !.InvokeID = 0]]

-----------------------------------------------------------------------------
(***************************************************************************)
(* The table under arbitrary callers.                                      *)
(***************************************************************************)

TSMInit ==
  /\ TSM_List = Inited
  /\ Current_Invoke_ID = 1

tsm_next_free_invokeID ==
  /\ tsm_transaction_available(TSM_List)
  /\ LET invokeID == UnusedID(TSM_List, Current_Invoke_ID) IN
       /\ TSM_List' = Reserve(TSM_List, invokeID)
       /\ Current_Invoke_ID' = Increment(invokeID)

SetTransaction(invokeID, pdu) ==
  /\ TSM_List' =
       tsm_set_confirmed_unsegmented_transaction(TSM_List, invokeID, pdu)
  /\ UNCHANGED Current_Invoke_ID

Timer(milliseconds) ==
  /\ TSM_List' = tsm_timer_milliseconds(TSM_List, milliseconds)
  /\ UNCHANGED Current_Invoke_ID

Free(invokeID) ==
  /\ TSM_List' = tsm_free_invoke_id(TSM_List, invokeID)
  /\ UNCHANGED Current_Invoke_ID

SetInvokeID(invokeID) ==
  /\ Current_Invoke_ID' = tsm_invokeID_set(invokeID)
  /\ UNCHANGED TSM_List

TSMNext ==
  \/ tsm_next_free_invokeID
  \/ \E invokeID \in {0} \cup InvokeIDs :
       \/ \E pdu \in Pdus : SetTransaction(invokeID, pdu)
       \/ Free(invokeID)
       \/ SetInvokeID(invokeID)
  \/ \E milliseconds \in Elapsed : Timer(milliseconds)

TSMSpec == TSMInit /\ [][TSMNext]_tsmVars

-----------------------------------------------------------------------------
(***************************************************************************)
(* Properties.                                                             *)
(***************************************************************************)

\* Every slot of TSM_List is a BACNET_TSM_DATA and the counter is never 0,
\* which tsm.c keeps for "no free invoke ID".
TSMTypeOK ==
  /\ TSM_List \in [Slots -> BACNET_TSM_DATA]
  /\ Current_Invoke_ID \in InvokeIDs

\* The table rule of tsm.c, "an Invoke ID = 0 is an unused spot", and the
\* uniqueness its searches rely on when they stop at the first match: no two
\* slots hold the same nonzero invoke ID, so an acknowledgement, a failure
\* poll or a free reaches the transaction it was meant for.
UniqueInvokeIDs ==
  \A i, j \in Slots :
    TSM_List[i].InvokeID = TSM_List[j].InvokeID /\ TSM_List[i].InvokeID # 0
      => i = j

\* A slot waiting for a confirmation has an invoke ID that some later
\* confirmation can name: a waiting slot with ID 0 would be handed out again
\* while its timer still retransmits the old request.
AwaitingIsNamed ==
  \A i \in Slots :
    TSM_List[i].state = "AWAIT_CONFIRMATION" => TSM_List[i].InvokeID # 0

\* The while (!found) loop of tsm_next_free_invokeID ends: whenever the table
\* has a free slot some invoke ID is unused.
SearchTerminates ==
  tsm_transaction_available(TSM_List)
    => StepsToUnused(TSM_List, Current_Invoke_ID) # {}

\* tsm_timer_milliseconds transmits a request at most APDU_Retries times
\* again, however many timer calls, restarts and reuses of its slot happen.
RetriesBounded ==
  \A i \in Slots :
    TSM_List[i].state = "AWAIT_CONFIRMATION"
      => TSM_List[i].RetryCount <= APDU_Retries

\* The status of an invoke ID as the pool's clients see it.
StatusOf(list, id) ==
  CASE tsm_invoke_id_free(list, id) -> "unused"
    [] tsm_invoke_id_failed(list, id) -> "held"
    [] OTHER -> "awaiting"

Pool == INSTANCE InvokeIDPool
          WITH IDs <- InvokeIDs,
               Capacity <- MAX_TSM_TRANSACTIONS,
               status <- [id \in InvokeIDs |-> StatusOf(TSM_List, id)]

\* The table with its linear searches, first-match lookups and wrapping
\* counter implements the pool of invoke IDs: no call disturbs an ID other
\* than the one it names, and only a free makes an ID available again.
ImplementsPool == Pool!PoolSpec
=============================================================================
