-------------------------------- MODULE COV --------------------------------
(***************************************************************************)
(* Change-of-value subscriptions of a server device                        *)
(* (src/bacnet/basic/service/h_cov.c), composed with the transaction state *)
(* machine its confirmed notifications use, with device communication      *)
(* control and with the objects whose value changes (object/bi.c).         *)
(*                                                                         *)
(* handler_cov_fsm handles one subscription per call; between two calls    *)
(* the main loop of the server receives requests and runs the timers, so   *)
(* that a pass over the table interleaves with everything else.            *)
(*                                                                         *)
(* The fields of an invalid entry are never read and are forgotten, except *)
(* for its invokeID, which the TSM may still hold.                         *)
(***************************************************************************)
EXTENDS TSM, DCC

CONSTANTS
  MAX_COV_SUBCRIPTIONS,   \* entries of COV_Subscriptions
  MAX_COV_ADDRESSES,      \* entries of COV_Addresses
  Requests,               \* the subscriptions clients ask for: [src, pid, obj]
  Lifetimes,              \* requested lifetimes in seconds; 0 is indefinite
  Values,                 \* present values
  NoAddress,              \* an entry of COV_Addresses that is not valid
  None,                   \* nothing notified yet
  MaxChanges              \* bound on the changes of value

Entries == 0 .. MAX_COV_SUBCRIPTIONS - 1
AddressSlots == 0 .. MAX_COV_ADDRESSES - 1
Objects == {r.obj : r \in Requests}
Sources == {r.src : r \in Requests}

ASSUME COVAssumption ==
  /\ MAX_COV_SUBCRIPTIONS \in Nat \ {0}
  /\ MAX_COV_ADDRESSES \in Nat
  /\ Requests # {}
  /\ \A r, s \in Requests : r.src = s.src /\ r.pid = s.pid /\ r.obj = s.obj => r = s
  /\ Lifetimes \subseteq Nat
  /\ NoAddress \notin Sources
  /\ None \notin Values
  /\ Pdus = Values
  /\ MaxChanges \in Nat

VARIABLES
  COV_Subscriptions,
  COV_Addresses,
  index, cov_task_state,          \* the static variables of handler_cov_fsm
  Present_Value, Change_Of_Value, \* of the monitored objects
  changes,                        \* number of changes so far
  notified                        \* value last sent for an entry (history)

covVars == <<COV_Subscriptions, COV_Addresses>>
fsmVars == <<index, cov_task_state>>
objVars == <<Present_Value, Change_Of_Value, changes>>
vars == <<tsmVars, dccVars, covVars, fsmVars, objVars, notified>>

\* cov_address_add's -1, stored in an unsigned
NoRoom == -1

Unused ==
  [valid |-> FALSE, confirmed |-> FALSE, send_requested |-> FALSE,
   dest_index |-> MAX_COV_ADDRESSES, invokeID |-> 0, lifetime |-> 0,
   request |-> CHOOSE r \in Requests : TRUE]

-----------------------------------------------------------------------------
(***************************************************************************)
(* The address list.                                                       *)
(***************************************************************************)

cov_address_get(addresses, i) ==
  IF i \in AddressSlots THEN addresses[i] ELSE NoAddress

\* Mutant: forgets to look at the other subscriptions.
RemoveUnused_Never(addresses, subscriptions) == addresses

cov_address_remove_unused(addresses, subscriptions) ==
  [a \in AddressSlots |->
     IF \E i \in Entries : /\ subscriptions[i].valid
                           /\ subscriptions[i].dest_index = a
       THEN addresses[a]
       ELSE NoAddress]

\* Mutant: the index starts at 0 instead of -1, and is kept when there is no room.
AddressIndex_ZeroWhenFull(addresses, src) ==
  LET usable == {a \in AddressSlots : addresses[a] \in {src, NoAddress}}
  IN IF usable = {} THEN 0 ELSE First(usable)

\* Where cov_address_add finds or puts an address.
AddressIndex(addresses, src) ==
  LET same == {a \in AddressSlots : addresses[a] = src}
      free == {a \in AddressSlots : addresses[a] = NoAddress}
  IN CASE same # {} -> First(same)
       [] same = {} /\ free # {} -> First(free)
       [] OTHER -> NoRoom

cov_address_add(addresses, src) ==
  IF AddressIndex(addresses, src) = NoRoom
    THEN addresses
    ELSE [addresses EXCEPT ![AddressIndex(addresses, src)] = src]

-----------------------------------------------------------------------------
(***************************************************************************)
(* SubscribeCOV.  cov_list_subscribe looks for the entry of the same       *)
(* object, process and address; an entry without an address matches any.   *)
(***************************************************************************)

Invalidated(sub) == [Unused EXCEPT !.invokeID = sub.invokeID]

Matches(i, r) ==
  LET sub == COV_Subscriptions[i]
      dest == cov_address_get(COV_Addresses, sub.dest_index)
  IN /\ sub.valid
     /\ sub.request.obj = r.obj
     /\ sub.request.pid = r.pid
     /\ dest \in {r.src, NoAddress}

Existing(r) == {i \in Entries : Matches(i, r)}
Invalid == {i \in Entries : ~ COV_Subscriptions[i].valid}

\* Mutant: a renewal overwrites the invoke ID of the notification in progress.
Renew_IDDropped(r, confirmed, lifetime) ==
  LET i == First(Existing(r)) IN
  /\ Existing(r) # {}
  /\ COV_Addresses' = cov_address_add(COV_Addresses, r.src)
  /\ COV_Subscriptions' =
       [COV_Subscriptions EXCEPT ![i] =
          [@ EXCEPT !.dest_index = AddressIndex(COV_Addresses, r.src),
                    !.confirmed = confirmed,
                    !.lifetime = lifetime,
                    !.send_requested = TRUE,
                    !.invokeID = 0]]
  /\ UNCHANGED <<TSM_List, notified>>

\* A renewal, which also restarts the notifications.
Renew(r, confirmed, lifetime) ==
  LET i == First(Existing(r)) IN
  /\ Existing(r) # {}
  /\ COV_Addresses' = cov_address_add(COV_Addresses, r.src)
  /\ COV_Subscriptions' =
       [COV_Subscriptions EXCEPT ![i] =
          [@ EXCEPT !.dest_index = AddressIndex(COV_Addresses, r.src),
                    !.confirmed = confirmed,
                    !.lifetime = lifetime,
                    !.send_requested = TRUE,
                    !.invokeID = 0]]
  /\ TSM_List' = IF COV_Subscriptions[i].invokeID # 0
                   THEN tsm_free_invoke_id(TSM_List, COV_Subscriptions[i].invokeID)
                   ELSE TSM_List
  /\ UNCHANGED notified

\* A new subscription, when an entry is left for it.
Add(r, confirmed, lifetime) ==
  LET i == First(Invalid) IN
  /\ Existing(r) = {}
  /\ Invalid # {}
  /\ COV_Addresses' = cov_address_add(COV_Addresses, r.src)
  /\ COV_Subscriptions' =
       [COV_Subscriptions EXCEPT ![i] =
          [valid |-> TRUE, confirmed |-> confirmed, send_requested |-> TRUE,
           dest_index |-> AddressIndex(COV_Addresses, r.src),
           invokeID |-> 0, lifetime |-> lifetime, request |-> r]]
  /\ notified' = [notified EXCEPT ![i] = None]
  /\ UNCHANGED TSM_List

\* The two branches above; with neither, the request is refused.
handler_cov_subscribe(r, confirmed, lifetime) ==
  /\ ~ apdu_confirmed_dcc_disabled("SUBSCRIBE_COV")
  /\ Renew(r, confirmed, lifetime) \/ Add(r, confirmed, lifetime)
  /\ UNCHANGED <<Current_Invoke_ID, dccVars, fsmVars, objVars>>

\* A request that cancels.
handler_cov_cancel(r) ==
  LET i == First(Existing(r)) IN
  /\ ~ apdu_confirmed_dcc_disabled("SUBSCRIBE_COV")
  /\ Existing(r) # {}
  /\ COV_Subscriptions' =
       [COV_Subscriptions EXCEPT ![i] = [Invalidated(@) EXCEPT !.invokeID = 0]]
  /\ COV_Addresses' = cov_address_remove_unused(COV_Addresses, COV_Subscriptions')
  /\ TSM_List' = IF COV_Subscriptions[i].invokeID # 0
                   THEN tsm_free_invoke_id(TSM_List, COV_Subscriptions[i].invokeID)
                   ELSE TSM_List
  /\ UNCHANGED <<Current_Invoke_ID, dccVars, fsmVars, objVars, notified>>

-----------------------------------------------------------------------------
(***************************************************************************)
(* handler_cov_fsm: one entry per call, in four passes over the table.     *)
(***************************************************************************)

Advance(next) ==
  /\ index' = (index + 1) % MAX_COV_SUBCRIPTIONS
  /\ cov_task_state' = IF index + 1 < MAX_COV_SUBCRIPTIONS THEN cov_task_state
                                                           ELSE next

Idle ==
  /\ cov_task_state = "IDLE"
  /\ index' = 0
  /\ cov_task_state' = "MARK"
  /\ UNCHANGED <<tsmVars, dccVars, covVars, objVars, notified>>

Mark ==
  /\ cov_task_state = "MARK"
  /\ COV_Subscriptions' =
       [COV_Subscriptions EXCEPT ![index].send_requested =
          @ \/ /\ COV_Subscriptions[index].valid
               /\ Change_Of_Value[COV_Subscriptions[index].request.obj]]
  /\ Advance("CLEAR")
  /\ UNCHANGED <<tsmVars, dccVars, COV_Addresses, objVars, notified>>

\* Mutant: clears the flag whether or not the subscription has seen it.
Clear_Unmarked ==
  /\ cov_task_state = "CLEAR"
  /\ Change_Of_Value' =
       [Change_Of_Value EXCEPT ![COV_Subscriptions[index].request.obj] =
          @ /\ ~ COV_Subscriptions[index].valid]
  /\ Advance("FREE")
  /\ UNCHANGED <<tsmVars, dccVars, covVars, Present_Value, changes, notified>>

Clear ==
  /\ cov_task_state = "CLEAR"
  /\ Change_Of_Value' =
       [Change_Of_Value EXCEPT ![COV_Subscriptions[index].request.obj] =
          @ /\ ~ (/\ COV_Subscriptions[index].valid
                  /\ COV_Subscriptions[index].send_requested)]
  /\ Advance("FREE")
  /\ UNCHANGED <<tsmVars, dccVars, covVars, Present_Value, changes, notified>>

\* Is the confirmed notification of the entry over: acknowledged or failed?
Over(sub) ==
  /\ sub.valid /\ sub.confirmed /\ sub.invokeID # 0
  /\ \/ tsm_invoke_id_free(TSM_List, sub.invokeID)
     \/ tsm_invoke_id_failed(TSM_List, sub.invokeID)

\* Mutant: a failed transaction is not given back to the TSM.
Housekeep_FailedKept ==
  /\ cov_task_state = "FREE"
  /\ COV_Subscriptions' = IF Over(COV_Subscriptions[index])
                            THEN [COV_Subscriptions EXCEPT ![index].invokeID = 0]
                            ELSE COV_Subscriptions
  /\ Advance("SEND")
  /\ UNCHANGED <<tsmVars, dccVars, COV_Addresses, objVars, notified>>

Housekeep ==
  LET sub == COV_Subscriptions[index] IN
  /\ cov_task_state = "FREE"
  /\ COV_Subscriptions' = IF Over(sub)
                            THEN [COV_Subscriptions EXCEPT ![index].invokeID = 0]
                            ELSE COV_Subscriptions
  /\ TSM_List' = IF Over(sub) /\ tsm_invoke_id_failed(TSM_List, sub.invokeID)
                   THEN tsm_free_invoke_id(TSM_List, sub.invokeID)
                   ELSE TSM_List
  /\ Advance("SEND")
  /\ UNCHANGED <<Current_Invoke_ID, dccVars, COV_Addresses, objVars, notified>>

\* Will cov_send_request get as far as the data link?
Sendable(sub) ==
  /\ sub.valid /\ sub.send_requested
  /\ sub.confirmed => sub.invokeID = 0 /\ tsm_transaction_available(TSM_List)
  /\ dcc_communication_enabled
  /\ cov_address_get(COV_Addresses, sub.dest_index) # NoAddress

\* datalink_send_pdu returns whether it sent the notification.
Notify(sent) ==
  LET sub == COV_Subscriptions[index]
      value == Present_Value[sub.request.obj]
      id == UnusedID(TSM_List, Current_Invoke_ID)
  IN /\ cov_task_state = "SEND"
     /\ Sendable(sub)
     /\ IF sub.confirmed
          THEN /\ TSM_List' = tsm_set_confirmed_unsegmented_transaction(
                                Reserve(TSM_List, id), id, value)
               /\ Current_Invoke_ID' = Increment(id)
          ELSE UNCHANGED tsmVars
     /\ COV_Subscriptions' =
          [COV_Subscriptions EXCEPT ![index] =
             [sub EXCEPT !.invokeID = IF sub.confirmed THEN id ELSE sub.invokeID,
                         !.send_requested = ~ sent]]
     /\ notified' = IF sent THEN [notified EXCEPT ![index] = value] ELSE notified
     /\ Advance("IDLE")
     /\ UNCHANGED <<dccVars, COV_Addresses, objVars>>

Skip ==
  /\ cov_task_state = "SEND"
  /\ ~ Sendable(COV_Subscriptions[index])
  /\ Advance("IDLE")
  /\ UNCHANGED <<tsmVars, dccVars, covVars, objVars, notified>>

handler_cov_fsm ==
  Idle \/ Mark \/ Clear \/ Housekeep \/ (\E sent \in BOOLEAN : Notify(sent)) \/ Skip

-----------------------------------------------------------------------------
(***************************************************************************)
(* Timers, values and acknowledgements.                                    *)
(***************************************************************************)

Expires(sub, seconds) == sub.valid /\ sub.lifetime \in 1 .. seconds

FreeAll(list, ids) ==
  [i \in Slots |-> IF list[i].InvokeID \in ids
                     THEN [list[i] EXCEPT !.state = "IDLE", !.InvokeID = 0]
                     ELSE list[i]]

\* handler_cov_timer_seconds: every expiry of the loop in one step.
handler_cov_timer_seconds(seconds) ==
  LET expired == {i \in Entries : Expires(COV_Subscriptions[i], seconds)}
      ids == {COV_Subscriptions[i].invokeID :
                i \in {j \in expired : COV_Subscriptions[j].confirmed}} \ {0}
      After(sub) ==
        CASE Expires(sub, seconds) /\ sub.confirmed ->
               [Invalidated(sub) EXCEPT !.invokeID = 0]
          [] Expires(sub, seconds) /\ ~ sub.confirmed -> Invalidated(sub)
          [] sub.valid /\ sub.lifetime > seconds ->
               [sub EXCEPT !.lifetime = @ - seconds]
          [] OTHER -> sub
  IN /\ COV_Subscriptions' = [i \in Entries |-> After(COV_Subscriptions[i])]
     /\ COV_Addresses' =
          IF expired = {} THEN COV_Addresses
          ELSE cov_address_remove_unused(COV_Addresses, COV_Subscriptions')
     /\ TSM_List' = FreeAll(TSM_List, ids)
     /\ UNCHANGED <<Current_Invoke_ID, dccVars, fsmVars, objVars, notified>>

\* Binary_Input_Present_Value_Set with a different value.
Change(obj, value) ==
  /\ changes < MaxChanges
  /\ Present_Value[obj] # value
  /\ changes' = changes + 1
  /\ Present_Value' = [Present_Value EXCEPT ![obj] = value]
  /\ Change_Of_Value' = [Change_Of_Value EXCEPT ![obj] = TRUE]
  /\ UNCHANGED <<tsmVars, dccVars, covVars, fsmVars, notified>>

TransactionTimer(milliseconds) ==
  /\ Timer(milliseconds)
  /\ UNCHANGED <<dccVars, covVars, fsmVars, objVars, notified>>

\* A SimpleACK, in time, late or a duplicate, reaches apdu_handler; one whose
\* invoke ID no slot has changes nothing.
Acknowledge(id) ==
  /\ Holders(TSM_List, id) # {}
  /\ Free(id)
  /\ UNCHANGED <<dccVars, covVars, fsmVars, objVars, notified>>

Control ==
  /\ DCCNext
  /\ UNCHANGED <<tsmVars, covVars, fsmVars, objVars, notified>>

Init ==
  /\ TSMInit
  /\ DCCInit
  /\ COV_Subscriptions = [i \in Entries |-> Unused]
  /\ COV_Addresses = [a \in AddressSlots |-> NoAddress]
  /\ index = 0
  /\ cov_task_state = "IDLE"
  /\ Present_Value \in [Objects -> Values]
  /\ Change_Of_Value = [o \in Objects |-> FALSE]
  /\ changes = 0
  /\ notified = [i \in Entries |-> None]

Next ==
  \/ \E r \in Requests, confirmed \in BOOLEAN, lifetime \in Lifetimes :
       handler_cov_subscribe(r, confirmed, lifetime)
  \/ \E r \in Requests : handler_cov_cancel(r)
  \/ handler_cov_fsm
  \/ \E seconds \in Seconds : handler_cov_timer_seconds(seconds)
  \/ \E milliseconds \in Elapsed : TransactionTimer(milliseconds)
  \/ \E obj \in Objects, value \in Values : Change(obj, value)
  \/ \E id \in InvokeIDs : Acknowledge(id)
  \/ Control

Spec == Init /\ [][Next]_vars

\* The main loop calls the task and the timers for ever; a data link that is
\* asked again and again sends in the end.
FairSpec ==
  /\ Spec
  /\ WF_vars(handler_cov_fsm)
  /\ \A milliseconds \in Elapsed : WF_vars(TransactionTimer(milliseconds))
  /\ \A i \in Entries : SF_vars(index = i /\ Notify(TRUE))

-----------------------------------------------------------------------------
(***************************************************************************)
(* Properties.                                                             *)
(***************************************************************************)

COVSubscription ==
  [valid : BOOLEAN, confirmed : BOOLEAN, send_requested : BOOLEAN,
   dest_index : AddressSlots \cup {NoRoom, MAX_COV_ADDRESSES},
   invokeID : {0} \cup InvokeIDs, lifetime : Nat,
   request : Requests]

\* The tables and the two static variables of the task keep their types.
COVTypeOK ==
  /\ TSMTypeOK
  /\ DCCTypeOK
  /\ COV_Subscriptions \in [Entries -> COVSubscription]
  /\ COV_Addresses \in [AddressSlots -> Sources \cup {NoAddress}]
  /\ index \in Entries
  /\ cov_task_state \in {"IDLE", "MARK", "CLEAR", "FREE", "SEND"}
  /\ Present_Value \in [Objects -> Values]
  /\ Change_Of_Value \in [Objects -> BOOLEAN]
  /\ changes \in 0 .. MaxChanges
  /\ notified \in [Entries -> Values \cup {None}]

Valid == {i \in Entries : COV_Subscriptions[i].valid}
Destination(i) == cov_address_get(COV_Addresses, COV_Subscriptions[i].dest_index)
UpToDate(i) == notified[i] = Present_Value[COV_Subscriptions[i].request.obj]

\* No transaction leaks: every invoke ID the TSM holds is remembered by a valid
\* subscription, and only a confirmed one remembers any.  So cancelling,
\* renewing and expiring give back what the subscription had, and the
\* housekeeping gets to every transaction that failed.  (An ID may be
\* remembered twice for a while: a subscription whose acknowledgement comes
\* after its turn in FREE keeps the ID until the next one, and the TSM may
\* give it to another meanwhile.)
TransactionsOwned ==
  /\ \A s \in Slots :
       TSM_List[s].InvokeID # 0 =>
         \E i \in Valid : COV_Subscriptions[i].invokeID = TSM_List[s].InvokeID
  /\ \A i \in Entries :
       COV_Subscriptions[i].invokeID # 0 =>
         COV_Subscriptions[i].valid /\ COV_Subscriptions[i].confirmed

\* The address list is what its garbage collection makes it: an address is
\* kept as long as, and no longer than, a valid subscription refers to it,
\* and it is in the list once.
AddressesReferenced ==
  /\ COVTypeOK
  /\ \A a \in AddressSlots :
       COV_Addresses[a] # NoAddress <=>
         \E i \in Valid : COV_Subscriptions[i].dest_index = a
  /\ \A a, b \in AddressSlots :
       COV_Addresses[a] = COV_Addresses[b] /\ COV_Addresses[a] # NoAddress => a = b

\* A subscription notifies the device that made it, or nobody: "match Object
\* ID and Process ID and address" (h_cov.c).
NotifiesSubscriber ==
  /\ \A i \in Valid :
       Destination(i) \in {NoAddress, COV_Subscriptions[i].request.src}
  \* No two entries stand for the same subscription.
  /\ \A i, j \in Valid :
       COV_Subscriptions[i].request = COV_Subscriptions[j].request => i = j

\* No change of value is forgotten: a subscriber that was not sent the present
\* value has its notification requested, or the object still has its flag up
\* for the next pass ("clear the COV flag after checking all subscriptions").
NoLostChange ==
  \A i \in Valid :
    \/ UpToDate(i)
    \/ COV_Subscriptions[i].send_requested
    \/ Change_Of_Value[COV_Subscriptions[i].request.obj]

\* With communication enabled for good, a subscriber with an address is sent
\* the present value in the end, however the passes of the task interleave
\* with renewals, expiries, failed sends and transactions that time out.
SubscribersNotified ==
  <>[] dcc_communication_enabled =>
    \A i \in Entries : []<> (i \in Valid /\ Destination(i) # NoAddress => UpToDate(i))
=============================================================================
