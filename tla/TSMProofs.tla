----------------------------- MODULE TSMProofs -----------------------------
(***************************************************************************)
(* Proofs about the transaction state machine, for every table size, every *)
(* number of invoke IDs, timeout and retry count.                          *)
(***************************************************************************)
EXTENDS TSM, FiniteSetTheorems, WellFoundedInduction, TLAPS

(***************************************************************************)
(* The searches of tsm.c stop at the first match: a nonempty set of slots  *)
(* (or of distances) has a least element, and First picks it.              *)
(***************************************************************************)
LEMMA FirstIsLeast ==
  ASSUME NEW S \in SUBSET Nat, S # {}
  PROVE  /\ First(S) \in S
         /\ \A j \in S : First(S) <= j
<1> DEFINE R == OpToRel(<, Nat)
<1>1. \E x \in S : \A y \in S : ~ (<<y, x>> \in R)
  BY WFMin, NatLessThanWellFounded
<1>2. \A x, y \in S : y < x => <<y, x>> \in R
  BY DEF OpToRel
<1>3. \E x \in S : \A y \in S : x <= y
  <2> HIDE DEF R
  <2>1. PICK x \in S : \A y \in S : ~ (<<y, x>> \in R)
    BY <1>1
  <2>2. \A y \in S : ~ (y < x)
    BY <1>2, <2>1
  <2>3. \A y \in S : x <= y
    BY <2>2
  <2> QED
    BY <2>3
<1> QED
  BY <1>3 DEF First

(***************************************************************************)
(* tsm_find_invokeID_index returns a slot that holds the ID, when one does.*)
(***************************************************************************)
LEMMA FindIndex ==
  ASSUME NEW list, NEW invokeID, Holders(list, invokeID) # {}
  PROVE  /\ tsm_find_invokeID_index(list, invokeID) \in Slots
         /\ list[tsm_find_invokeID_index(list, invokeID)].InvokeID = invokeID
<1>1. Holders(list, invokeID) \in SUBSET Nat
  BY SizeAssumption DEF Holders, Slots
<1>2. First(Holders(list, invokeID)) \in Holders(list, invokeID)
  BY <1>1, FirstIsLeast
<1> QED
  BY <1>2 DEF Holders, tsm_find_invokeID_index

(***************************************************************************)
(* Pigeonhole: while a slot is free, fewer IDs are in use than there are,  *)
(* so the search loop of tsm_next_free_invokeID meets an unused one.       *)
(***************************************************************************)
LEMMA UnusedExists ==
  ASSUME NEW list, tsm_transaction_available(list)
  PROVE  \E id \in InvokeIDs : tsm_invoke_id_free(list, id)
<1> SUFFICES ASSUME \A id \in InvokeIDs : Holders(list, id) # {}
             PROVE  FALSE
  BY DEF tsm_invoke_id_free
<1> DEFINE g == [id \in InvokeIDs |-> tsm_find_invokeID_index(list, id)]
<1>1. PICK free \in Slots : list[free].InvokeID = 0
  BY DEF tsm_transaction_available, Holders
<1>2. g \in [InvokeIDs -> Slots \ {free}]
  <2> SUFFICES ASSUME NEW id \in InvokeIDs
               PROVE  g[id] \in Slots \ {free}
    OBVIOUS
  <2>1. g[id] \in Slots /\ list[g[id]].InvokeID = id
    BY FindIndex
  <2>2. id # 0
    BY DEF InvokeIDs
  <2> QED
    BY <1>1, <2>1, <2>2
<1>3. /\ IsFiniteSet(InvokeIDs) /\ Cardinality(InvokeIDs) = MaxInvokeID
      /\ IsFiniteSet(Slots) /\ Cardinality(Slots) = MAX_TSM_TRANSACTIONS
  BY FS_Interval, SizeAssumption DEF InvokeIDs, Slots
<1>4. /\ IsFiniteSet(Slots \ {free})
      /\ Cardinality(Slots \ {free}) = MAX_TSM_TRANSACTIONS - 1
  BY <1>1, <1>3, FS_RemoveElement
<1>5. PICK x \in InvokeIDs, y \in InvokeIDs : x # y /\ g[x] = g[y]
  <2>1. Cardinality(Slots \ {free}) < Cardinality(InvokeIDs)
    BY <1>3, <1>4, SizeAssumption
  <2>2. \A f \in [InvokeIDs -> Slots \ {free}] :
          \E x, y \in InvokeIDs : x # y /\ f[x] = f[y]
    BY <1>3, <1>4, <2>1, FS_PigeonHole
  <2> HIDE DEF g
  <2> QED
    BY <1>2, <2>2
<1>6. list[g[x]].InvokeID = x /\ list[g[y]].InvokeID = y
  BY FindIndex
<1> QED
  BY <1>5, <1>6

(***************************************************************************)
(* The search wraps over every invoke ID, from any starting point.         *)
(***************************************************************************)
LEMMA SearchReaches ==
  ASSUME NEW current \in InvokeIDs, NEW id \in InvokeIDs
  PROVE  \E k \in 0 .. MaxInvokeID - 1 : IDAfter(current, k) = id
<1>1. CASE id >= current
  <2>1. id - current \in 0 .. MaxInvokeID - 1 /\ IDAfter(current, id - current) = id
    BY <1>1, SizeAssumption DEF InvokeIDs, IDAfter
  <2> QED BY <2>1
<1>2. CASE id < current
  <2> DEFINE k == id - current + MaxInvokeID
  <2>1. k \in 0 .. MaxInvokeID - 1 /\ IDAfter(current, k) = id
    BY <1>2, SizeAssumption DEF InvokeIDs, IDAfter
  <2> QED BY <2>1
<1> QED
  BY <1>1, <1>2, SizeAssumption DEF InvokeIDs

\* The search of tsm_next_free_invokeID ends.
LEMMA SearchEnds ==
  ASSUME NEW list, NEW current \in InvokeIDs, tsm_transaction_available(list)
  PROVE  StepsToUnused(list, current) # {}
<1>1. PICK id \in InvokeIDs : tsm_invoke_id_free(list, id)
  BY UnusedExists
<1>2. PICK k \in 0 .. MaxInvokeID - 1 : IDAfter(current, k) = id
  BY SearchReaches
<1> QED
  BY <1>1, <1>2 DEF StepsToUnused

\* The ID it ends at is held by no slot.
LEMMA UnusedIDIsUnused ==
  ASSUME NEW list, NEW current \in InvokeIDs, tsm_transaction_available(list)
  PROVE  /\ UnusedID(list, current) \in InvokeIDs
         /\ tsm_invoke_id_free(list, UnusedID(list, current))
<1>1. StepsToUnused(list, current) \in SUBSET Nat
  BY DEF StepsToUnused
<1>2. First(StepsToUnused(list, current)) \in StepsToUnused(list, current)
  BY <1>1, SearchEnds, FirstIsLeast
<1>3. ASSUME NEW k \in 0 .. MaxInvokeID - 1
      PROVE  IDAfter(current, k) \in InvokeIDs
  BY SizeAssumption DEF IDAfter, InvokeIDs
<1> QED
  BY <1>2, <1>3 DEF UnusedID, StepsToUnused

-----------------------------------------------------------------------------
(***************************************************************************)
(* The inductive invariant.  Uniqueness alone is not inductive: that a     *)
(* reserved ID is new needs the types (the pigeonhole counts slots), and   *)
(* that a reserved slot is not one still waiting needs AwaitingIsNamed.    *)
(***************************************************************************)
TSMInv == TSMTypeOK /\ UniqueInvokeIDs /\ AwaitingIsNamed

\* The invariant holds of the cleared table.
LEMMA InitInv == TSMInit => TSMInv
  BY SizeAssumption, TimerAssumption
  DEF TSMInit, TSMInv, TSMTypeOK, UniqueInvokeIDs, AwaitingIsNamed, Inited,
      FreeSlot, BACNET_TSM_DATA, InvokeIDs, Slots

\* tsm_next_free_invokeID keeps the invariant.
LEMMA ReserveInv == TSMInv /\ tsm_next_free_invokeID => TSMInv'
<1> SUFFICES ASSUME TSMInv, tsm_next_free_invokeID
             PROVE  TSMInv'
  OBVIOUS
<1> DEFINE id == UnusedID(TSM_List, Current_Invoke_ID)
           f == tsm_find_first_free_index(TSM_List)
<1>1. /\ TSM_List \in [Slots -> BACNET_TSM_DATA]
      /\ Current_Invoke_ID \in InvokeIDs
  BY DEF TSMInv, TSMTypeOK
<1>2. id \in InvokeIDs /\ \A i \in Slots : TSM_List[i].InvokeID # id
  BY <1>1, UnusedIDIsUnused
  DEF tsm_next_free_invokeID, tsm_invoke_id_free, Holders
<1>3. f \in Slots /\ TSM_List[f].InvokeID = 0
  BY FindIndex
  DEF tsm_next_free_invokeID, tsm_find_first_free_index,
      tsm_transaction_available
<1>4. /\ TSM_List' = [TSM_List EXCEPT ![f] =
                        [@ EXCEPT !.InvokeID = id, !.state = "IDLE",
                                  !.RequestTimer = APDU_Timeout]]
      /\ Current_Invoke_ID' = Increment(id)
  BY DEF tsm_next_free_invokeID, Reserve
<1> HIDE DEF id, f
<1>5. Increment(id) \in InvokeIDs
  BY <1>2, SizeAssumption DEF Increment, InvokeIDs
<1>6. TSMTypeOK'
  <2>1. TSM_List' \in [Slots -> BACNET_TSM_DATA]
    BY <1>1, <1>2, <1>3, <1>4, TimerAssumption DEF BACNET_TSM_DATA
  <2> QED
    BY <2>1, <1>4, <1>5 DEF TSMTypeOK
<1>7. \A i \in Slots :
        IF i = f THEN /\ TSM_List'[i].InvokeID = id
                      /\ TSM_List'[i].state = "IDLE"
                 ELSE TSM_List'[i] = TSM_List[i]
  BY <1>1, <1>4 DEF BACNET_TSM_DATA
<1>8. UniqueInvokeIDs'
  BY <1>2, <1>7 DEF TSMInv, UniqueInvokeIDs
<1>9. AwaitingIsNamed'
  BY <1>7 DEF TSMInv, AwaitingIsNamed
<1> QED
  BY <1>6, <1>8, <1>9 DEF TSMInv

\* tsm_set_confirmed_unsegmented_transaction keeps the invariant.
LEMMA SetTransactionInv ==
  ASSUME NEW invokeID \in {0} \cup InvokeIDs, NEW pdu \in Pdus,
         TSMInv, SetTransaction(invokeID, pdu)
  PROVE  TSMInv'
<1> DEFINE i0 == tsm_find_invokeID_index(TSM_List, invokeID)
<1>1. CASE invokeID = 0 \/ tsm_invoke_id_free(TSM_List, invokeID)
  BY <1>1 DEF SetTransaction, tsm_set_confirmed_unsegmented_transaction,
              TSMInv, TSMTypeOK, UniqueInvokeIDs, AwaitingIsNamed
<1>2. CASE ~ (invokeID = 0 \/ tsm_invoke_id_free(TSM_List, invokeID))
  <2>1. i0 \in Slots /\ TSM_List[i0].InvokeID = invokeID
    BY <1>2, FindIndex DEF tsm_invoke_id_free
  <2>2. TSM_List' = [TSM_List EXCEPT ![i0] =
                       [@ EXCEPT !.state = "AWAIT_CONFIRMATION",
                                 !.RetryCount = 0,
                                 !.RequestTimer = APDU_Timeout,
                                 !.pdu = pdu]]
    BY <1>2 DEF SetTransaction, tsm_set_confirmed_unsegmented_transaction
  <2> HIDE DEF i0
  <2>3. TSM_List \in [Slots -> BACNET_TSM_DATA]
    BY DEF TSMInv, TSMTypeOK
  <2>4. TSM_List' \in [Slots -> BACNET_TSM_DATA]
    BY <2>1, <2>2, <2>3, TimerAssumption DEF BACNET_TSM_DATA
  <2>5. \A i \in Slots : /\ TSM_List'[i].InvokeID = TSM_List[i].InvokeID
                         /\ i # i0 => TSM_List'[i] = TSM_List[i]
    BY <2>2, <2>3 DEF BACNET_TSM_DATA
  <2>6. UniqueInvokeIDs'
    BY <2>5 DEF TSMInv, UniqueInvokeIDs
  <2>7. AwaitingIsNamed'
    BY <1>2, <2>1, <2>5 DEF TSMInv, AwaitingIsNamed
  <2> QED
    BY <2>4, <2>6, <2>7 DEF TSMInv, TSMTypeOK, SetTransaction
<1> QED
  BY <1>1, <1>2

\* tsm_free_invoke_id keeps the invariant.
LEMMA FreeInv ==
  ASSUME NEW invokeID \in {0} \cup InvokeIDs, TSMInv, Free(invokeID)
  PROVE  TSMInv'
<1> DEFINE i0 == tsm_find_invokeID_index(TSM_List, invokeID)
<1>1. CASE tsm_invoke_id_free(TSM_List, invokeID)
  BY <1>1 DEF Free, tsm_free_invoke_id,
              TSMInv, TSMTypeOK, UniqueInvokeIDs, AwaitingIsNamed
<1>2. CASE ~ tsm_invoke_id_free(TSM_List, invokeID)
  <2>1. i0 \in Slots
    BY <1>2, FindIndex DEF tsm_invoke_id_free
  <2>2. TSM_List' = [TSM_List EXCEPT ![i0] =
                       [@ EXCEPT !.state = "IDLE", !.InvokeID = 0]]
    BY <1>2 DEF Free, tsm_free_invoke_id
  <2> HIDE DEF i0
  <2>3. TSM_List \in [Slots -> BACNET_TSM_DATA]
    BY DEF TSMInv, TSMTypeOK
  <2>4. TSM_List' \in [Slots -> BACNET_TSM_DATA]
    BY <2>1, <2>2, <2>3 DEF BACNET_TSM_DATA
  <2>5. \A i \in Slots :
          IF i = i0 THEN TSM_List'[i].InvokeID = 0 /\ TSM_List'[i].state = "IDLE"
                    ELSE TSM_List'[i] = TSM_List[i]
    BY <2>2, <2>3 DEF BACNET_TSM_DATA
  <2> QED
    BY <2>4, <2>5 DEF TSMInv, TSMTypeOK, UniqueInvokeIDs, AwaitingIsNamed, Free
<1> QED
  BY <1>1, <1>2

(***************************************************************************)
(* What one timer call does to one slot.                                   *)
(***************************************************************************)
LEMMA TimerStepFacts ==
  ASSUME NEW slot \in BACNET_TSM_DATA, NEW milliseconds \in Nat
  PROVE  /\ TimerStep(slot, milliseconds) \in BACNET_TSM_DATA
         /\ TimerStep(slot, milliseconds).InvokeID = slot.InvokeID
         /\ TimerStep(slot, milliseconds).pdu = slot.pdu
         /\ TimerStep(slot, milliseconds).state = "AWAIT_CONFIRMATION"
              => slot.state = "AWAIT_CONFIRMATION"
         /\ slot.RetryCount <= APDU_Retries
              => TimerStep(slot, milliseconds).RetryCount <= APDU_Retries
<1> USE TimerAssumption DEF BACNET_TSM_DATA
<1>1. CASE slot.state # "AWAIT_CONFIRMATION"
  <2>1. TimerStep(slot, milliseconds) = slot
    BY <1>1 DEF TimerStep, TimedOut
  <2> QED BY <2>1
<1>2. CASE slot.state = "AWAIT_CONFIRMATION" /\ slot.RequestTimer > milliseconds
  <2>1. TimerStep(slot, milliseconds) =
          [slot EXCEPT !.RequestTimer = @ - milliseconds]
    BY <1>2 DEF TimerStep, TimedOut
  <2> QED BY <1>2, <2>1
<1>3. CASE TimedOut(slot, milliseconds) /\ slot.RetryCount < APDU_Retries
  <2>1. TimerStep(slot, milliseconds) =
          [slot EXCEPT !.RequestTimer = APDU_Timeout, !.RetryCount = @ + 1]
    BY <1>3 DEF TimerStep, TimedOut
  <2>2. slot.RetryCount + 1 \in Nat
    OBVIOUS
  <2>3. [slot EXCEPT !.RequestTimer = APDU_Timeout, !.RetryCount = @ + 1]
          \in BACNET_TSM_DATA
    BY <2>2
  <2> QED BY <1>3, <2>1, <2>3 DEF TimedOut
<1>4. CASE TimedOut(slot, milliseconds) /\ slot.RetryCount >= APDU_Retries
  <2>1. TimerStep(slot, milliseconds) =
          [slot EXCEPT !.RequestTimer = 0, !.state = "IDLE"]
    BY <1>4 DEF TimerStep, TimedOut
  <2>2. [slot EXCEPT !.RequestTimer = 0, !.state = "IDLE"]
          \in BACNET_TSM_DATA
    OBVIOUS
  <2> QED BY <1>4, <2>1, <2>2 DEF TimedOut
<1> QED
  BY <1>1, <1>2, <1>3, <1>4 DEF TimedOut

\* tsm_timer_milliseconds keeps the invariant.
LEMMA TimerInv ==
  ASSUME NEW milliseconds \in Elapsed, TSMInv, Timer(milliseconds)
  PROVE  TSMInv'
<1>1. TSM_List \in [Slots -> BACNET_TSM_DATA] /\ milliseconds \in Nat
  BY TimerAssumption DEF TSMInv, TSMTypeOK
<1>2. TSM_List' = [i \in Slots |-> TimerStep(TSM_List[i], milliseconds)]
  BY DEF Timer, tsm_timer_milliseconds
<1>3. \A i \in Slots :
        /\ TSM_List'[i] \in BACNET_TSM_DATA
        /\ TSM_List'[i].InvokeID = TSM_List[i].InvokeID
        /\ TSM_List'[i].state = "AWAIT_CONFIRMATION"
             => TSM_List[i].state = "AWAIT_CONFIRMATION"
  BY <1>1, <1>2, TimerStepFacts
<1>4. TSMTypeOK'
  BY <1>2, <1>3 DEF TSMInv, TSMTypeOK, Timer
<1> QED
  BY <1>3, <1>4 DEF TSMInv, UniqueInvokeIDs, AwaitingIsNamed

\* Every call keeps the invariant.
LEMMA NextInv == TSMInv /\ [TSMNext]_tsmVars => TSMInv'
<1> SUFFICES ASSUME TSMInv, [TSMNext]_tsmVars
             PROVE  TSMInv'
  OBVIOUS
<1>1. CASE tsm_next_free_invokeID
  BY <1>1, ReserveInv
<1>2. ASSUME NEW invokeID \in {0} \cup InvokeIDs, NEW pdu \in Pdus,
             SetTransaction(invokeID, pdu)
      PROVE  TSMInv'
  BY <1>2, SetTransactionInv
<1>3. ASSUME NEW invokeID \in {0} \cup InvokeIDs, Free(invokeID)
      PROVE  TSMInv'
  BY <1>3, FreeInv
<1>4. ASSUME NEW invokeID \in {0} \cup InvokeIDs, SetInvokeID(invokeID)
      PROVE  TSMInv'
  BY <1>4, SizeAssumption
  DEF SetInvokeID, tsm_invokeID_set, InvokeIDs, TSMInv, TSMTypeOK,
      UniqueInvokeIDs, AwaitingIsNamed
<1>5. ASSUME NEW milliseconds \in Elapsed, Timer(milliseconds)
      PROVE  TSMInv'
  BY <1>5, TimerInv
<1>6. CASE UNCHANGED tsmVars
  BY <1>6 DEF tsmVars, TSMInv, TSMTypeOK, UniqueInvokeIDs, AwaitingIsNamed
<1> QED
  BY <1>1, <1>2, <1>3, <1>4, <1>5, <1>6 DEF TSMNext

(***************************************************************************)
(* The inductive invariant holds whatever the callers of tsm.c do.         *)
(***************************************************************************)
THEOREM TSMInvariant == TSMSpec => []TSMInv
<1> QED
  BY InitInv, NextInv, PTL DEF TSMSpec

(***************************************************************************)
(* TSM_List and Current_Invoke_ID keep their types under any calls.        *)
(***************************************************************************)
THEOREM TypeCorrect == TSMSpec => []TSMTypeOK
<1>1. TSMInv => TSMTypeOK
  BY DEF TSMInv
<1> QED
  BY <1>1, TSMInvariant, PTL

(***************************************************************************)
(* No two slots of TSM_List ever hold the same invoke ID, whatever the     *)
(* callers of tsm.c do and however often Current_Invoke_ID wraps.          *)
(***************************************************************************)
THEOREM InvokeIDsUnique == TSMSpec => []UniqueInvokeIDs
<1>1. TSMInv => UniqueInvokeIDs
  BY DEF TSMInv
<1> QED
  BY <1>1, TSMInvariant, PTL

(***************************************************************************)
(* The while (!found) loop of tsm_next_free_invokeID always ends, because  *)
(* config.h allows no more slots than there are invoke IDs.                *)
(***************************************************************************)
THEOREM SearchAlwaysTerminates == TSMSpec => []SearchTerminates
<1>1. TSMInv => SearchTerminates
  BY SearchEnds DEF TSMInv, TSMTypeOK, SearchTerminates
<1> QED
  BY <1>1, TSMInvariant, PTL

(***************************************************************************)
(* A slot of TSM_List that waits for a confirmation always has an invoke   *)
(* ID, so tsm_next_free_invokeID never hands out a slot that               *)
(* tsm_timer_milliseconds still retransmits from.                          *)
(***************************************************************************)
THEOREM AwaitingAlwaysNamed == TSMSpec => []AwaitingIsNamed
<1>1. TSMInv => AwaitingIsNamed
  BY DEF TSMInv
<1> QED
  BY <1>1, TSMInvariant, PTL

(***************************************************************************)
(* The counters of all slots, also of those that wait for nothing, stay    *)
(* within APDU_Retries: tsm_next_free_invokeID reuses a slot without       *)
(* resetting its RetryCount.                                               *)
(***************************************************************************)
CountersBounded == \A i \in Slots : TSM_List[i].RetryCount <= APDU_Retries

\* No call takes a counter beyond APDU_Retries.
LEMMA CountersStep ==
  TSMInv /\ CountersBounded /\ [TSMNext]_tsmVars => CountersBounded'
<1> SUFFICES ASSUME TSMInv, CountersBounded, [TSMNext]_tsmVars
             PROVE  CountersBounded'
  OBVIOUS
<1>1. TSM_List \in [Slots -> BACNET_TSM_DATA]
  BY DEF TSMInv, TSMTypeOK
<1>2. CASE tsm_next_free_invokeID
  <2>1. \A i \in Slots : TSM_List'[i].RetryCount = TSM_List[i].RetryCount
    BY <1>1, <1>2 DEF tsm_next_free_invokeID, Reserve, BACNET_TSM_DATA
  <2> QED
    BY <2>1 DEF CountersBounded
<1>3. ASSUME NEW invokeID \in {0} \cup InvokeIDs, NEW pdu \in Pdus,
             SetTransaction(invokeID, pdu)
      PROVE  CountersBounded'
  <2>1. \A i \in Slots : TSM_List'[i].RetryCount \in {TSM_List[i].RetryCount, 0}
    BY <1>1, <1>3
    DEF SetTransaction, tsm_set_confirmed_unsegmented_transaction, BACNET_TSM_DATA
  <2> QED
    BY <2>1, TimerAssumption DEF CountersBounded
<1>4. ASSUME NEW invokeID \in {0} \cup InvokeIDs, Free(invokeID)
      PROVE  CountersBounded'
  <2>1. \A i \in Slots : TSM_List'[i].RetryCount = TSM_List[i].RetryCount
    BY <1>1, <1>4 DEF Free, tsm_free_invoke_id, BACNET_TSM_DATA
  <2> QED
    BY <2>1 DEF CountersBounded
<1>5. ASSUME NEW milliseconds \in Elapsed, Timer(milliseconds)
      PROVE  CountersBounded'
  <2>1. milliseconds \in Nat
    BY TimerAssumption
  <2>2. TSM_List' = [i \in Slots |-> TimerStep(TSM_List[i], milliseconds)]
    BY <1>5 DEF Timer, tsm_timer_milliseconds
  <2> QED
    BY <1>1, <2>1, <2>2, TimerStepFacts DEF CountersBounded
<1>6. CASE UNCHANGED TSM_List
  BY <1>6 DEF CountersBounded
<1> QED
  BY <1>2, <1>3, <1>4, <1>5, <1>6 DEF TSMNext, SetInvokeID, tsmVars

(***************************************************************************)
(* tsm_timer_milliseconds transmits no request more than APDU_Retries      *)
(* times again, in whatever slot and after whatever history of that slot.  *)
(***************************************************************************)
THEOREM RetriesAlwaysBounded == TSMSpec => []RetriesBounded
<1>1. TSMInit => CountersBounded
  BY TimerAssumption DEF TSMInit, Inited, FreeSlot, CountersBounded
<1>2. CountersBounded => RetriesBounded
  BY DEF CountersBounded, RetriesBounded
<1> QED
  BY <1>1, <1>2, CountersStep, TSMInvariant, PTL DEF TSMSpec

-----------------------------------------------------------------------------
(***************************************************************************)
(* The calls of tsm.c as operators on a table, for the components that     *)
(* make several of them in one step.                                       *)
(***************************************************************************)
UniqueIn(list) ==
  \A i, j \in Slots : list[i].InvokeID = list[j].InvokeID /\ list[i].InvokeID # 0 => i = j

\* The table with one slot, unused before, taken for a request.
TakenIn(list, f, id, pdu, list2) ==
  /\ list[f].InvokeID = 0
  /\ list2[f].InvokeID = id
  /\ list2[f].state = "AWAIT_CONFIRMATION"
  /\ list2[f].RetryCount = 0
  /\ list2[f].pdu = pdu
  /\ \A i \in Slots \ {f} : list2[i] = list[i]

(***************************************************************************)
(* What tsm_next_free_invokeID does to the table: the slot it finds is     *)
(* unused, the ID is one that no slot has, and no other slot changes.      *)
(***************************************************************************)
LEMMA ReserveTakesSlot ==
  ASSUME NEW list \in [Slots -> BACNET_TSM_DATA], NEW current \in InvokeIDs,
         tsm_transaction_available(list),
         NEW id, id = UnusedID(list, current),
         NEW list1, list1 = Reserve(list, id)
  PROVE  /\ id \in InvokeIDs /\ id # 0 /\ Increment(id) \in InvokeIDs
         /\ \A i \in Slots : list[i].InvokeID # id
         /\ list1 \in [Slots -> BACNET_TSM_DATA]
         /\ \E f \in Slots :
              /\ list[f].InvokeID = 0
              /\ list1[f].InvokeID = id /\ list1[f].pdu = list[f].pdu
              /\ \A i \in Slots \ {f} : list1[i] = list[i]
              /\ Holders(list1, id) # {}
              /\ tsm_find_invokeID_index(list1, id) = f
<1> DEFINE f == tsm_find_first_free_index(list)
<1>1. id \in InvokeIDs /\ \A i \in Slots : list[i].InvokeID # id
  BY UnusedIDIsUnused DEF tsm_invoke_id_free, Holders
<1>2. Increment(id) \in InvokeIDs /\ id # 0
  BY <1>1, SizeAssumption DEF Increment, InvokeIDs
<1>3. f \in Slots /\ list[f].InvokeID = 0
  BY FindIndex DEF tsm_find_first_free_index, tsm_transaction_available
<1>4. list1 = [list EXCEPT ![f] = [@ EXCEPT !.InvokeID = id, !.state = "IDLE",
                                            !.RequestTimer = APDU_Timeout]]
  BY DEF Reserve
<1> HIDE DEF f
<1>5. /\ list1 \in [Slots -> BACNET_TSM_DATA]
      /\ list1[f].InvokeID = id /\ list1[f].pdu = list[f].pdu
      /\ \A i \in Slots \ {f} : list1[i] = list[i]
  <2> DEFINE slot == [list[f] EXCEPT !.InvokeID = id, !.state = "IDLE",
                                     !.RequestTimer = APDU_Timeout]
  <2>1. slot \in BACNET_TSM_DATA /\ slot.InvokeID = id /\ slot.pdu = list[f].pdu
    BY <1>1, <1>3, TimerAssumption DEF BACNET_TSM_DATA
  <2>2. list1 = [list EXCEPT ![f] = slot]
    BY <1>4
  <2> HIDE DEF slot
  <2> QED
    BY <1>3, <2>1, <2>2
<1>6. f \in Holders(list1, id)
  BY <1>3, <1>5 DEF Holders
<1>7. tsm_find_invokeID_index(list1, id) = f
  <2>1. /\ tsm_find_invokeID_index(list1, id) \in Slots
        /\ list1[tsm_find_invokeID_index(list1, id)].InvokeID = id
    BY <1>6, FindIndex
  <2> QED
    BY <1>1, <1>5, <2>1
<1> QED
  BY <1>1, <1>2, <1>3, <1>5, <1>6, <1>7

(***************************************************************************)
(* tsm_next_free_invokeID and then, with the ID it returned,               *)
(* tsm_set_confirmed_unsegmented_transaction: one slot that was unused     *)
(* holds the request under an ID no slot had.                              *)
(***************************************************************************)
LEMMA StartTakesSlot ==
  ASSUME NEW list \in [Slots -> BACNET_TSM_DATA], NEW current \in InvokeIDs,
         NEW pdu \in Pdus, tsm_transaction_available(list),
         NEW id, id = UnusedID(list, current),
         NEW list2,
         list2 = tsm_set_confirmed_unsegmented_transaction(Reserve(list, id), id, pdu)
  PROVE  /\ id \in InvokeIDs /\ Increment(id) \in InvokeIDs
         /\ \A i \in Slots : list[i].InvokeID # id
         /\ list2 \in [Slots -> BACNET_TSM_DATA]
         /\ \E f \in Slots : TakenIn(list, f, id, pdu, list2)
<1> DEFINE list1 == Reserve(list, id)
<1>1. /\ id \in InvokeIDs /\ id # 0 /\ Increment(id) \in InvokeIDs
      /\ \A i \in Slots : list[i].InvokeID # id
      /\ list1 \in [Slots -> BACNET_TSM_DATA]
  BY ReserveTakesSlot
<1>2. PICK f \in Slots :
        /\ list[f].InvokeID = 0
        /\ list1[f].InvokeID = id /\ list1[f].pdu = list[f].pdu
        /\ \A i \in Slots \ {f} : list1[i] = list[i]
        /\ Holders(list1, id) # {}
        /\ tsm_find_invokeID_index(list1, id) = f
  BY ReserveTakesSlot
<1>3. list2 = [list1 EXCEPT ![f] = [@ EXCEPT !.state = "AWAIT_CONFIRMATION",
                                             !.RetryCount = 0,
                                             !.RequestTimer = APDU_Timeout,
                                             !.pdu = pdu]]
  BY <1>1, <1>2 DEF tsm_set_confirmed_unsegmented_transaction, tsm_invoke_id_free
<1> HIDE DEF list1
<1> DEFINE slot == [list1[f] EXCEPT !.state = "AWAIT_CONFIRMATION",
                                    !.RetryCount = 0,
                                    !.RequestTimer = APDU_Timeout,
                                    !.pdu = pdu]
<1>4. /\ slot \in BACNET_TSM_DATA
      /\ slot.InvokeID = id /\ slot.state = "AWAIT_CONFIRMATION"
      /\ slot.RetryCount = 0 /\ slot.pdu = pdu
  <2>1. list1[f] \in BACNET_TSM_DATA /\ list1[f].InvokeID = id
    BY <1>1, <1>2
  <2> QED
    BY <2>1, TimerAssumption DEF BACNET_TSM_DATA
<1>5. list2 = [list1 EXCEPT ![f] = slot]
  BY <1>3
<1> HIDE DEF slot
<1>6. list2 \in [Slots -> BACNET_TSM_DATA]
  BY <1>1, <1>4, <1>5
<1>7. TakenIn(list, f, id, pdu, list2)
  BY <1>1, <1>2, <1>4, <1>5 DEF TakenIn
<1> QED
  BY <1>1, <1>6, <1>7

(***************************************************************************)
(* tsm_next_free_invokeID followed by tsm_free_invoke_id, what a caller    *)
(* does that finds its request too long: every slot has the ID and the     *)
(* request it had, and none begins to wait.                                *)
(***************************************************************************)
LEMMA ReserveAndFree ==
  ASSUME NEW list \in [Slots -> BACNET_TSM_DATA], NEW current \in InvokeIDs,
         tsm_transaction_available(list),
         NEW id, id = UnusedID(list, current),
         NEW list2, list2 = tsm_free_invoke_id(Reserve(list, id), id)
  PROVE  /\ id \in InvokeIDs /\ Increment(id) \in InvokeIDs
         /\ list2 \in [Slots -> BACNET_TSM_DATA]
         /\ \A i \in Slots : /\ list2[i].InvokeID = list[i].InvokeID
                             /\ list2[i].pdu = list[i].pdu
                             /\ list2[i].state \in {list[i].state, "IDLE"}
<1> DEFINE list1 == Reserve(list, id)
<1>1. /\ id \in InvokeIDs /\ id # 0 /\ Increment(id) \in InvokeIDs
      /\ list1 \in [Slots -> BACNET_TSM_DATA]
  BY ReserveTakesSlot
<1>2. PICK f \in Slots :
        /\ list[f].InvokeID = 0
        /\ list1[f].InvokeID = id /\ list1[f].pdu = list[f].pdu
        /\ \A i \in Slots \ {f} : list1[i] = list[i]
        /\ Holders(list1, id) # {}
        /\ tsm_find_invokeID_index(list1, id) = f
  BY ReserveTakesSlot
<1>3. list2 = [list1 EXCEPT ![f] = [@ EXCEPT !.state = "IDLE", !.InvokeID = 0]]
  BY <1>2 DEF tsm_free_invoke_id, tsm_invoke_id_free
<1> HIDE DEF list1
<1> DEFINE slot == [list1[f] EXCEPT !.state = "IDLE", !.InvokeID = 0]
<1>4. /\ slot \in BACNET_TSM_DATA
      /\ slot.InvokeID = 0 /\ slot.state = "IDLE" /\ slot.pdu = list[f].pdu
  <2>1. list1[f] \in BACNET_TSM_DATA /\ list1[f].pdu = list[f].pdu
    BY <1>1, <1>2
  <2> QED
    BY <2>1 DEF BACNET_TSM_DATA
<1>5. list2 = [list1 EXCEPT ![f] = slot]
  BY <1>3
<1> HIDE DEF slot
<1>6. list2 \in [Slots -> BACNET_TSM_DATA]
  BY <1>1, <1>4, <1>5
<1>7. \A i \in Slots : list2[i] = IF i = f THEN slot ELSE list[i]
  BY <1>1, <1>2, <1>5
<1> QED
  BY <1>1, <1>2, <1>4, <1>6, <1>7

(***************************************************************************)
(* tsm_free_invoke_id on a table without duplicates leaves no slot with    *)
(* the ID and every other slot alone.                                      *)
(***************************************************************************)
LEMMA FreeClearsID ==
  ASSUME NEW list \in [Slots -> BACNET_TSM_DATA], UniqueIn(list), NEW id, id # 0,
         NEW list2, list2 = tsm_free_invoke_id(list, id)
  PROVE  /\ list2 \in [Slots -> BACNET_TSM_DATA]
         /\ \A i \in Slots :
              IF list[i].InvokeID = id
                THEN list2[i].InvokeID = 0 /\ list2[i].state = "IDLE"
                ELSE list2[i] = list[i]
<1> DEFINE i0 == tsm_find_invokeID_index(list, id)
<1>1. CASE tsm_invoke_id_free(list, id)
  BY <1>1 DEF tsm_free_invoke_id, tsm_invoke_id_free, Holders
<1>2. CASE ~ tsm_invoke_id_free(list, id)
  <2>1. i0 \in Slots /\ list[i0].InvokeID = id
    BY <1>2, FindIndex DEF tsm_invoke_id_free
  <2>2. list2 = [list EXCEPT ![i0] = [@ EXCEPT !.state = "IDLE", !.InvokeID = 0]]
    BY <1>2 DEF tsm_free_invoke_id
  <2> HIDE DEF i0
  <2>3. \A i \in Slots : list[i].InvokeID = id <=> i = i0
    BY <2>1 DEF UniqueIn
  <2> DEFINE slot == [list[i0] EXCEPT !.state = "IDLE", !.InvokeID = 0]
  <2>4. slot \in BACNET_TSM_DATA /\ slot.InvokeID = 0 /\ slot.state = "IDLE"
    BY <2>1 DEF BACNET_TSM_DATA
  <2>5. list2 = [list EXCEPT ![i0] = slot]
    BY <2>2
  <2> HIDE DEF slot
  <2> QED
    BY <2>1, <2>3, <2>4, <2>5
<1> QED
  BY <1>1, <1>2

(***************************************************************************)
(* A timer call keeps every slot's ID and request, and begins no waiting.  *)
(***************************************************************************)
LEMMA TimerKeepsIDs ==
  ASSUME NEW list \in [Slots -> BACNET_TSM_DATA], NEW milliseconds \in Nat,
         NEW list2, list2 = tsm_timer_milliseconds(list, milliseconds)
  PROVE  /\ list2 \in [Slots -> BACNET_TSM_DATA]
         /\ \A i \in Slots :
              /\ list2[i].InvokeID = list[i].InvokeID
              /\ list2[i].pdu = list[i].pdu
              /\ list2[i].state = "AWAIT_CONFIRMATION"
                   => list[i].state = "AWAIT_CONFIRMATION"
<1>1. \A i \in Slots : list2[i] = TimerStep(list[i], milliseconds)
  BY DEF tsm_timer_milliseconds
<1>2. \A i \in Slots : list2[i] \in BACNET_TSM_DATA
  BY <1>1, TimerStepFacts
<1> QED
  BY <1>1, <1>2, TimerStepFacts DEF tsm_timer_milliseconds

-----------------------------------------------------------------------------
(***************************************************************************)
(* The transaction table implements the pool of invoke IDs.                *)
(***************************************************************************)

\* The status of the pool that a table stands for.
StatusIn(list) == [id \in InvokeIDs |-> StatusOf(list, id)]

(***************************************************************************)
(* In a table without duplicates the status of an ID is that of the only   *)
(* slot that holds it, which the first-match searches of tsm.c find.       *)
(***************************************************************************)
LEMMA StatusUnused ==
  ASSUME NEW list, NEW id \in InvokeIDs, \A i \in Slots : list[i].InvokeID # id
  PROVE  StatusOf(list, id) = "unused"
<1>1. tsm_invoke_id_free(list, id)
  BY DEF tsm_invoke_id_free, Holders
<1> QED
  BY <1>1 DEF StatusOf, tsm_invoke_id_failed, tsm_invoke_id_free

\* An ID that a slot has is held or awaited, as the slot's state says.
LEMMA StatusHeld ==
  ASSUME NEW list, UniqueIn(list), NEW id \in InvokeIDs,
         NEW i \in Slots, list[i].InvokeID = id
  PROVE  StatusOf(list, id) = IF list[i].state = "IDLE" THEN "held" ELSE "awaiting"
<1>1. i \in Holders(list, id)
  BY DEF Holders
<1>2. id # 0
  BY DEF InvokeIDs
<1>3. tsm_find_invokeID_index(list, id) = i
  <2>1. /\ tsm_find_invokeID_index(list, id) \in Slots
        /\ list[tsm_find_invokeID_index(list, id)].InvokeID = id
    BY <1>1, FindIndex
  <2> QED
    BY <1>2, <2>1 DEF UniqueIn
<1>4. ~ tsm_invoke_id_free(list, id)
  BY <1>1 DEF tsm_invoke_id_free
<1>5. tsm_invoke_id_failed(list, id) <=> list[i].state = "IDLE"
  BY <1>1, <1>3 DEF tsm_invoke_id_failed
<1> QED
  BY <1>4, <1>5 DEF StatusOf

\* An ID that the same slots hold, in the same states, keeps its status.
LEMMA StatusSame ==
  ASSUME NEW list, NEW list2, UniqueIn(list), UniqueIn(list2), NEW id \in InvokeIDs,
         \A i \in Slots : list[i].InvokeID = id <=> list2[i].InvokeID = id,
         \A i \in Slots : list[i].InvokeID = id =>
                            (list[i].state = "IDLE" <=> list2[i].state = "IDLE")
  PROVE  StatusOf(list2, id) = StatusOf(list, id)
<1>1. CASE \A i \in Slots : list[i].InvokeID # id
  BY <1>1, StatusUnused
<1>2. ASSUME NEW i \in Slots, list[i].InvokeID = id
      PROVE  StatusOf(list2, id) = StatusOf(list, id)
  <2>1. StatusOf(list, id) = IF list[i].state = "IDLE" THEN "held" ELSE "awaiting"
    BY <1>2, StatusHeld
  <2>2. StatusOf(list2, id) = IF list2[i].state = "IDLE" THEN "held" ELSE "awaiting"
    BY <1>2, StatusHeld
  <2> QED
    BY <1>2, <2>1, <2>2
<1> QED
  BY <1>1, <1>2

\* The pool counts with the operator of the FiniteSets module, as this one does.
LEMMA SameCardinality ==
  ASSUME NEW S
  PROVE  Pool!Cardinality(S) = Cardinality(S)
BY DEF Pool!Cardinality, Cardinality, Pool!IsFiniteSet, IsFiniteSet

(***************************************************************************)
(* While a slot is free fewer IDs are in use than there are slots: each    *)
(* has a slot of its own.                                                  *)
(***************************************************************************)
LEMMA InUseBelowCapacity ==
  ASSUME TSMInv, tsm_transaction_available(TSM_List)
  PROVE  Cardinality(Pool!InUse) < MAX_TSM_TRANSACTIONS
<1> DEFINE U == {id \in InvokeIDs : Holders(TSM_List, id) # {}}
           g == [id \in U |-> tsm_find_invokeID_index(TSM_List, id)]
<1>1. Pool!InUse = U
  <2>1. ASSUME NEW id \in InvokeIDs
        PROVE  StatusOf(TSM_List, id) # "unused" <=> Holders(TSM_List, id) # {}
    BY DEF StatusOf, tsm_invoke_id_free, tsm_invoke_id_failed
  <2> QED
    BY <2>1 DEF Pool!InUse
<1>2. PICK free \in Slots : TSM_List[free].InvokeID = 0
  BY DEF tsm_transaction_available, Holders
<1>3. \A id \in U : g[id] \in Slots /\ TSM_List[g[id]].InvokeID = id
  BY FindIndex
<1>4. g \in Injection(U, Slots \ {free})
  <2>1. \A id \in U : id # 0
    BY DEF InvokeIDs
  <2> HIDE DEF g
  <2>2. g \in [U -> Slots \ {free}]
    <3>1. g = [id \in U |-> g[id]]
      BY DEF g
    <3>2. \A id \in U : g[id] \in Slots \ {free}
      BY <1>2, <1>3, <2>1
    <3> HIDE DEF U
    <3> QED BY <3>1, <3>2
  <2>3. \A a, b \in U : g[a] = g[b] => a = b
    BY <1>3
  <2> HIDE DEF U
  <2> QED BY <2>2, <2>3 DEF Injection, IsInjective
<1>5. IsFiniteSet(Slots) /\ Cardinality(Slots) = MAX_TSM_TRANSACTIONS
  BY FS_Interval, SizeAssumption DEF Slots
<1>6. /\ IsFiniteSet(Slots \ {free})
      /\ Cardinality(Slots \ {free}) = MAX_TSM_TRANSACTIONS - 1
  BY <1>2, <1>5, FS_RemoveElement
<1>7. IsFiniteSet(U) /\ Cardinality(U) <= Cardinality(Slots \ {free})
  <2> HIDE DEF U, g
  <2> QED BY <1>4, <1>6, FS_Injection
<1>8. Cardinality(U) \in Nat
  <2> HIDE DEF U
  <2> QED BY <1>7, FS_CardinalityType
<1> HIDE DEF U
<1> QED
  BY <1>1, <1>6, <1>7, <1>8, SizeAssumption

-----------------------------------------------------------------------------
(***************************************************************************)
(* Each call of tsm.c is a step of the pool, or changes no status.         *)
(***************************************************************************)
LEMMA UniqueBoth ==
  ASSUME TSMInv, TSMInv'
  PROVE  UniqueIn(TSM_List) /\ UniqueIn(TSM_List')
BY DEF TSMInv, UniqueInvokeIDs, UniqueIn

\* tsm_next_free_invokeID takes an unused ID.
LEMMA ReserveTakes ==
  ASSUME TSMInv, TSMInv', tsm_next_free_invokeID
  PROVE  Pool!PoolNext
<1> DEFINE id == UnusedID(TSM_List, Current_Invoke_ID)
           f == tsm_find_first_free_index(TSM_List)
<1>1. TSM_List \in [Slots -> BACNET_TSM_DATA] /\ Current_Invoke_ID \in InvokeIDs
  BY DEF TSMInv, TSMTypeOK
<1>2. id \in InvokeIDs /\ \A i \in Slots : TSM_List[i].InvokeID # id
  BY <1>1, UnusedIDIsUnused DEF tsm_next_free_invokeID, tsm_invoke_id_free, Holders
<1>3. f \in Slots /\ TSM_List[f].InvokeID = 0
  BY FindIndex
  DEF tsm_next_free_invokeID, tsm_find_first_free_index, tsm_transaction_available
<1>4. TSM_List' = [TSM_List EXCEPT ![f] =
                     [@ EXCEPT !.InvokeID = id, !.state = "IDLE", !.RequestTimer = APDU_Timeout]]
  BY DEF tsm_next_free_invokeID, Reserve
<1>5. Cardinality(Pool!InUse) < MAX_TSM_TRANSACTIONS
  BY InUseBelowCapacity DEF tsm_next_free_invokeID
<1> HIDE DEF id, f
<1>6. \A i \in Slots :
        IF i = f THEN TSM_List'[i].InvokeID = id /\ TSM_List'[i].state = "IDLE"
                 ELSE TSM_List'[i] = TSM_List[i]
  BY <1>1, <1>4 DEF BACNET_TSM_DATA
<1>7. StatusOf(TSM_List, id) = "unused"
  BY <1>2, StatusUnused
<1>8. StatusOf(TSM_List', id) = "held"
  BY <1>2, <1>3, <1>6, UniqueBoth, StatusHeld
<1>9. ASSUME NEW other \in InvokeIDs, other # id
      PROVE  StatusOf(TSM_List', other) = StatusOf(TSM_List, other)
  <2>1. other # 0
    BY DEF InvokeIDs
  <2>2. \A i \in Slots : /\ TSM_List[i].InvokeID = other <=> TSM_List'[i].InvokeID = other
                         /\ TSM_List[i].InvokeID = other =>
                              (TSM_List[i].state = "IDLE" <=> TSM_List'[i].state = "IDLE")
    BY <1>3, <1>6, <1>9, <2>1
  <2> QED
    BY <2>2, UniqueBoth, StatusSame
<1>10. Pool!Take(id)
  BY <1>2, <1>5, <1>7, <1>8, <1>9, SameCardinality DEF Pool!Take
<1> QED
  BY <1>2, <1>10 DEF Pool!PoolNext

\* tsm_set_confirmed_unsegmented_transaction starts the transaction it names.
LEMMA SetTransactionStarts ==
  ASSUME NEW invokeID \in {0} \cup InvokeIDs, NEW pdu \in Pdus,
         TSMInv, TSMInv', SetTransaction(invokeID, pdu)
  PROVE  Pool!PoolNext \/ UNCHANGED StatusIn(TSM_List)
<1> DEFINE i0 == tsm_find_invokeID_index(TSM_List, invokeID)
<1>1. CASE invokeID = 0 \/ tsm_invoke_id_free(TSM_List, invokeID)
  BY <1>1 DEF SetTransaction, tsm_set_confirmed_unsegmented_transaction
<1>2. CASE ~ (invokeID = 0 \/ tsm_invoke_id_free(TSM_List, invokeID))
  <2>1. i0 \in Slots /\ TSM_List[i0].InvokeID = invokeID /\ invokeID \in InvokeIDs
    BY <1>2, FindIndex DEF tsm_invoke_id_free
  <2>2. TSM_List' = [TSM_List EXCEPT ![i0] =
                       [@ EXCEPT !.state = "AWAIT_CONFIRMATION", !.RetryCount = 0,
                                 !.RequestTimer = APDU_Timeout, !.pdu = pdu]]
    BY <1>2 DEF SetTransaction, tsm_set_confirmed_unsegmented_transaction
  <2>3. TSM_List \in [Slots -> BACNET_TSM_DATA]
    BY DEF TSMInv, TSMTypeOK
  <2> HIDE DEF i0
  <2>4. \A i \in Slots :
          IF i = i0 THEN /\ TSM_List'[i].InvokeID = invokeID
                         /\ TSM_List'[i].state = "AWAIT_CONFIRMATION"
                    ELSE TSM_List'[i] = TSM_List[i]
    BY <2>1, <2>2, <2>3 DEF BACNET_TSM_DATA
  <2>5. StatusOf(TSM_List, invokeID) # "unused"
    BY <2>1, UniqueBoth, StatusHeld
  <2>6. StatusOf(TSM_List', invokeID) = "awaiting"
    BY <2>1, <2>4, UniqueBoth, StatusHeld
  <2>7. ASSUME NEW other \in InvokeIDs, other # invokeID
        PROVE  StatusOf(TSM_List', other) = StatusOf(TSM_List, other)
    <3>1. \A i \in Slots : /\ TSM_List[i].InvokeID = other <=> TSM_List'[i].InvokeID = other
                           /\ TSM_List[i].InvokeID = other =>
                                (TSM_List[i].state = "IDLE" <=> TSM_List'[i].state = "IDLE")
      BY <2>1, <2>4, <2>7
    <3> QED
      BY <3>1, UniqueBoth, StatusSame
  <2>8. Pool!Start(invokeID)
    BY <2>1, <2>5, <2>6, <2>7 DEF Pool!Start
  <2> QED
    BY <2>1, <2>8 DEF Pool!PoolNext
<1> QED
  BY <1>1, <1>2

\* tsm_free_invoke_id releases the ID it names.
LEMMA FreeReleases ==
  ASSUME NEW invokeID \in {0} \cup InvokeIDs, TSMInv, TSMInv', Free(invokeID)
  PROVE  Pool!PoolNext \/ UNCHANGED StatusIn(TSM_List)
<1> DEFINE i0 == tsm_find_invokeID_index(TSM_List, invokeID)
<1>1. CASE tsm_invoke_id_free(TSM_List, invokeID)
  BY <1>1 DEF Free, tsm_free_invoke_id
<1>2. CASE ~ tsm_invoke_id_free(TSM_List, invokeID)
  <2>1. i0 \in Slots /\ TSM_List[i0].InvokeID = invokeID
    BY <1>2, FindIndex DEF tsm_invoke_id_free
  <2>2. TSM_List' = [TSM_List EXCEPT ![i0] = [@ EXCEPT !.state = "IDLE", !.InvokeID = 0]]
    BY <1>2 DEF Free, tsm_free_invoke_id
  <2>3. TSM_List \in [Slots -> BACNET_TSM_DATA]
    BY DEF TSMInv, TSMTypeOK
  <2> HIDE DEF i0
  <2>4. \A i \in Slots :
          IF i = i0 THEN TSM_List'[i].InvokeID = 0 ELSE TSM_List'[i] = TSM_List[i]
    BY <2>1, <2>2, <2>3 DEF BACNET_TSM_DATA
  <2>5. ASSUME NEW other \in InvokeIDs, other # invokeID
        PROVE  StatusOf(TSM_List', other) = StatusOf(TSM_List, other)
    <3>1. other # 0
      BY DEF InvokeIDs
    <3>2. \A i \in Slots : /\ TSM_List[i].InvokeID = other <=> TSM_List'[i].InvokeID = other
                           /\ TSM_List[i].InvokeID = other =>
                                (TSM_List[i].state = "IDLE" <=> TSM_List'[i].state = "IDLE")
      BY <2>1, <2>4, <2>5, <3>1
    <3> QED
      BY <3>2, UniqueBoth, StatusSame
  <2>6. CASE invokeID = 0
    <3>1. \A id \in InvokeIDs : StatusOf(TSM_List', id) = StatusOf(TSM_List, id)
      BY <2>5, <2>6 DEF InvokeIDs
    <3> QED
      BY <3>1 DEF StatusIn
  <2>7. CASE invokeID \in InvokeIDs
    <3>1. StatusOf(TSM_List, invokeID) # "unused"
      BY <2>1, <2>7, UniqueBoth, StatusHeld
    <3>2. \A i \in Slots : TSM_List'[i].InvokeID # invokeID
      <4>1. invokeID # 0
        BY <2>7 DEF InvokeIDs
      <4> QED
        BY <2>1, <2>4, <4>1, UniqueBoth DEF UniqueIn
    <3>3. StatusOf(TSM_List', invokeID) = "unused"
      BY <2>7, <3>2, StatusUnused
    <3>4. Pool!Release(invokeID)
      BY <2>5, <2>7, <3>1, <3>3 DEF Pool!Release
    <3> QED
      BY <2>7, <3>4 DEF Pool!PoolNext
  <2> QED
    BY <2>6, <2>7
<1> QED
  BY <1>1, <1>2

\* tsm_timer_milliseconds gives up some of the awaiting IDs.
LEMMA TimerGivesUp ==
  ASSUME NEW milliseconds \in Elapsed, TSMInv, TSMInv', Timer(milliseconds)
  PROVE  Pool!PoolNext
<1> DEFINE S == {id \in InvokeIDs : /\ StatusOf(TSM_List, id) = "awaiting"
                                    /\ StatusOf(TSM_List', id) = "held"}
<1>1. TSM_List \in [Slots -> BACNET_TSM_DATA] /\ milliseconds \in Nat
  BY TimerAssumption DEF TSMInv, TSMTypeOK
<1>2. \A i \in Slots : /\ TSM_List'[i].InvokeID = TSM_List[i].InvokeID
                       /\ TSM_List'[i] \in BACNET_TSM_DATA
                       /\ TSM_List'[i].state = "AWAIT_CONFIRMATION"
                            => TSM_List[i].state = "AWAIT_CONFIRMATION"
  BY <1>1, TimerStepFacts DEF Timer, tsm_timer_milliseconds
<1>3. ASSUME NEW id \in InvokeIDs
      PROVE  StatusOf(TSM_List', id) = IF id \in S THEN "held" ELSE StatusOf(TSM_List, id)
  <2>1. CASE \A i \in Slots : TSM_List[i].InvokeID # id
    BY <1>2, <2>1, StatusUnused
  <2>2. ASSUME NEW i \in Slots, TSM_List[i].InvokeID = id
        PROVE  StatusOf(TSM_List', id) = IF id \in S THEN "held" ELSE StatusOf(TSM_List, id)
    <3>1. StatusOf(TSM_List, id) = IF TSM_List[i].state = "IDLE" THEN "held" ELSE "awaiting"
      BY <2>2, UniqueBoth, StatusHeld
    <3>2. StatusOf(TSM_List', id) = IF TSM_List'[i].state = "IDLE" THEN "held" ELSE "awaiting"
      BY <1>2, <2>2, UniqueBoth, StatusHeld
    <3>3. TSM_List[i].state = "IDLE" => TSM_List'[i].state = "IDLE"
      BY <1>1, <1>2 DEF BACNET_TSM_DATA
    <3> QED
      BY <3>1, <3>2, <3>3
  <2> QED
    BY <2>1, <2>2
<1>4. S \in SUBSET InvokeIDs /\ \A id \in S : StatusOf(TSM_List, id) = "awaiting"
  OBVIOUS
<1> HIDE DEF S
<1>5. Pool!GiveUp(S)
  BY <1>3, <1>4 DEF Pool!GiveUp
<1> QED
  BY <1>4, <1>5 DEF Pool!PoolNext

(***************************************************************************)
(* The table of tsm.c, with its linear searches, its first-match lookups   *)
(* and its wrapping counter, implements the pool of invoke IDs: no call    *)
(* disturbs an ID other than the one it names, an ID in use is never       *)
(* handed out again, and only tsm_free_invoke_id makes one unused.         *)
(***************************************************************************)
THEOREM TableImplementsPool == TSMSpec => ImplementsPool
<1>1. TSMInit => Pool!PoolInit
  <2> SUFFICES ASSUME TSMInit, NEW id \in InvokeIDs
               PROVE  StatusOf(TSM_List, id) = "unused"
    BY DEF Pool!PoolInit
  <2>1. \A i \in Slots : TSM_List[i].InvokeID = 0
    BY DEF TSMInit, Inited, FreeSlot
  <2> QED
    BY <2>1, StatusUnused DEF InvokeIDs
<1>2. TSMInv /\ TSMInv' /\ [TSMNext]_tsmVars
        => Pool!PoolNext \/ UNCHANGED StatusIn(TSM_List)
  <2> SUFFICES ASSUME TSMInv, TSMInv', [TSMNext]_tsmVars
               PROVE  Pool!PoolNext \/ UNCHANGED StatusIn(TSM_List)
    OBVIOUS
  <2>1. CASE tsm_next_free_invokeID
    BY <2>1, ReserveTakes
  <2>2. ASSUME NEW invokeID \in {0} \cup InvokeIDs, NEW pdu \in Pdus,
               SetTransaction(invokeID, pdu)
        PROVE  Pool!PoolNext \/ UNCHANGED StatusIn(TSM_List)
    BY <2>2, SetTransactionStarts
  <2>3. ASSUME NEW invokeID \in {0} \cup InvokeIDs, Free(invokeID)
        PROVE  Pool!PoolNext \/ UNCHANGED StatusIn(TSM_List)
    BY <2>3, FreeReleases
  <2>4. ASSUME NEW milliseconds \in Elapsed, Timer(milliseconds)
        PROVE  Pool!PoolNext
    BY <2>4, TimerGivesUp
  <2>5. CASE UNCHANGED TSM_List
    BY <2>5
  <2> QED
    BY <2>1, <2>2, <2>3, <2>4, <2>5 DEF TSMNext, SetInvokeID, tsmVars
<1>3. TSMInv /\ TSMInv' /\ [TSMNext]_tsmVars
        => [Pool!PoolNext]_([id \in InvokeIDs |-> StatusOf(TSM_List, id)])
  BY <1>2 DEF StatusIn
<1> QED
  BY <1>1, <1>3, TSMInvariant, PTL DEF TSMSpec, ImplementsPool, Pool!PoolSpec
=============================================================================
