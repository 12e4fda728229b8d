---------------------------- MODULE DeviceProofs ----------------------------
(***************************************************************************)
(* Proofs about the client device, for any number of applications,         *)
(* notifiers, slots, invoke IDs, requests, retries and timeouts, and for a *)
(* network that loses, duplicates, delays and reorders.                    *)
(***************************************************************************)
EXTENDS Device, TSMProofs

-----------------------------------------------------------------------------
(***************************************************************************)
(* The inductive invariant.  That a free invoke ID means a served request  *)
(* depends on where each message and each slot with that ID came from:     *)
(*                                                                         *)
(*  - SlotsOwned is what NoOrphans says of the slots;                      *)
(*  - RepliesServed: a reply in flight is that of an executed request;     *)
(*  - PollsKnow: the ID that an application polls with is its own, every   *)
(*    message and slot that has the ID carries the application's latest    *)
(*    request, and until a slot with the ID is gone or the request was     *)
(*    executed there is such a slot.                                       *)
(***************************************************************************)
SlotsOwned ==
  \A i \in Slots :
    TSM_List[i].InvokeID # 0 =>
      \/ \E a \in Apps : /\ outcome[a] = "pending"
                         /\ Request_Invoke_ID[a] = TSM_List[i].InvokeID
                         /\ TSM_List[i].pdu = <<a, issued[a]>>
      \/ TSM_List[i].pdu \in Notifiers \X (1 .. MaxRequests)

RepliesServed == \A m \in net : m.kind = "reply" => m.pdu \in served

PollsKnow ==
  \A a \in Apps :
    IF outcome[a] = "pending"
      THEN /\ Request_Invoke_ID[a] # 0
           /\ issued[a] > 0
           /\ \A b \in Apps : Request_Invoke_ID[b] = Request_Invoke_ID[a] => a = b
           /\ \A m \in net : m.id = Request_Invoke_ID[a] => m.pdu = <<a, issued[a]>>
           /\ \A i \in Slots : TSM_List[i].InvokeID = Request_Invoke_ID[a]
                                 => TSM_List[i].pdu = <<a, issued[a]>>
           /\ \/ <<a, issued[a]>> \in served
              \/ \E i \in Slots : TSM_List[i].InvokeID = Request_Invoke_ID[a]
      ELSE Request_Invoke_ID[a] = 0

DeviceInv ==
  /\ TypeOK
  /\ UniqueInvokeIDs
  /\ AwaitingIsNamed
  /\ SlotsOwned
  /\ DoneMeansServed
  /\ RepliesServed
  /\ PollsKnow

\* DeviceInv speaks of these only.
protocolVars == <<tsmVars, appVars, net, served>>

\* The invariant holds before the first request.
LEMMA DeviceInitInv == Init => DeviceInv
<1> SUFFICES ASSUME Init
             PROVE  DeviceInv
  OBVIOUS
<1>1. TSMInv
  BY InitInv DEF Init
<1>2. \A i \in Slots : TSM_List[i].InvokeID = 0
  BY DEF Init, TSMInit, Inited, FreeSlot
<1>3. TypeOK
  BY <1>1, UsersAssumption
  DEF Init, DCCInit, TypeOK, TSMInv, DCCTypeOK, CommunicationStates
<1> QED
  BY <1>1, <1>2, <1>3
  DEF Init, DeviceInv, TSMInv, SlotsOwned, DoneMeansServed, RepliesServed, PollsKnow

-----------------------------------------------------------------------------
(***************************************************************************)
(* The actions, one lemma each.                                            *)
(***************************************************************************)

\* A request is a PDU of the model.
LEMMA RequestIsPdu ==
  ASSUME NEW u \in Users, NEW k \in 1 .. MaxRequests
  PROVE  <<u, k>> \in Pdus
BY UsersAssumption

\* Device communication control changes nothing that the invariant is about.
LEMMA ControlTypes == DCCTypeOK /\ DCCNext => DCCTypeOK'
<1> SUFFICES ASSUME DCCTypeOK, DCCNext
             PROVE  DCCTypeOK'
  OBVIOUS
<1> USE DurationAssumption DEF DCCTypeOK, CommunicationStates
<1>1. ASSUME NEW seconds \in Seconds, dcc_timer_seconds(seconds)
      PROVE  DCCTypeOK'
  BY <1>1 DEF dcc_timer_seconds
<1>2. ASSUME NEW status \in CommunicationStates, NEW minutes \in Nat,
             dcc_set_status_duration(status, minutes)
      PROVE  DCCTypeOK'
  <2>1. minutes * Minute \in Nat
    OBVIOUS
  <2> QED
    BY <1>2, <2>1 DEF dcc_set_status_duration
<1> QED
  BY <1>1, <1>2
  DEF DCCNext, handler_device_communication_control, handler_reinitialize_device

\* A step of communication control only.
LEMMA UnchangedInv ==
  DeviceInv /\ DCCTypeOK' /\ UNCHANGED protocolVars => DeviceInv'
BY DEF DeviceInv, protocolVars, tsmVars, appVars, TypeOK, TSMTypeOK,
       UniqueInvokeIDs, AwaitingIsNamed, SlotsOwned, DoneMeansServed,
       RepliesServed, PollsKnow

\* A request that goes out has a slot of its own, and its user knows the ID.
LEMMA SendInv ==
  ASSUME NEW u \in Users, DeviceInv, Send(u)
  PROVE  DeviceInv'
<1> DEFINE id == UnusedID(TSM_List, Current_Invoke_ID)
           pdu == <<u, issued[u] + 1>>
           msg == [kind |-> "request", id |-> id, pdu |-> pdu]
<1>1. /\ TSM_List \in [Slots -> BACNET_TSM_DATA]
      /\ Current_Invoke_ID \in InvokeIDs
      /\ issued \in [Users -> 0 .. MaxRequests]
  BY DEF DeviceInv, TypeOK, TSMTypeOK
<1>2. issued[u] + 1 \in 1 .. MaxRequests /\ pdu \in Pdus
  BY <1>1, UsersAssumption, RequestIsPdu DEF Send, MaySend
<1>3. tsm_transaction_available(TSM_List)
  BY DEF Send, MaySend
<1>4. /\ TSM_List' = tsm_set_confirmed_unsegmented_transaction(
                       Reserve(TSM_List, id), id, pdu)
      /\ Current_Invoke_ID' = Increment(id)
      /\ net' = net \cup {msg}
      /\ issued' = [issued EXCEPT ![u] = issued[u] + 1]
      /\ Request_Invoke_ID' = [a \in Apps |-> IF a = u THEN id
                                                      ELSE Request_Invoke_ID[a]]
      /\ outcome' = [a \in Apps |-> IF a = u THEN "pending" ELSE outcome[a]]
      /\ served' = served
      /\ UNCHANGED dccVars
  BY DEF Send
<1>5. /\ id \in InvokeIDs /\ Increment(id) \in InvokeIDs
      /\ \A i \in Slots : TSM_List[i].InvokeID # id
      /\ TSM_List' \in [Slots -> BACNET_TSM_DATA]
      /\ \E f \in Slots : TakenIn(TSM_List, f, id, pdu, TSM_List')
  BY <1>1, <1>2, <1>3, <1>4, StartTakesSlot
<1>6. PICK f \in Slots : TakenIn(TSM_List, f, id, pdu, TSM_List')
  BY <1>5
<1>7. /\ \A m \in net : m.id # id
      /\ \A a \in Apps : Request_Invoke_ID[a] # id
      /\ u \in Apps => outcome[u] # "pending"
  BY DEF Send, MaySend, Forgotten
<1>8. id # 0
  BY <1>5 DEF InvokeIDs
<1> HIDE DEF id, pdu
<1>9. TypeOK'
  <2>1. TSMTypeOK'
    BY <1>4, <1>5 DEF TSMTypeOK
  <2>2. issued' \in [Users -> 0 .. MaxRequests]
    BY <1>1, <1>2, <1>4
  <2>3. net' \subseteq Message
    BY <1>2, <1>4, <1>5 DEF DeviceInv, TypeOK, Message
  <2>4. /\ Request_Invoke_ID' \in [Apps -> {0} \cup InvokeIDs]
        /\ outcome' \in [Apps -> {"none", "pending", "done", "failed"}]
    BY <1>4, <1>5 DEF DeviceInv, TypeOK
  <2> QED
    BY <1>4, <2>1, <2>2, <2>3, <2>4
    DEF DeviceInv, TypeOK, DCCTypeOK, dccVars
<1>10. UniqueInvokeIDs' /\ AwaitingIsNamed'
  BY <1>5, <1>6, <1>8 DEF TakenIn, DeviceInv, UniqueInvokeIDs, AwaitingIsNamed
<1>11. \A a \in Apps : a # u => /\ issued'[a] = issued[a]
                                /\ outcome'[a] = outcome[a]
                                /\ Request_Invoke_ID'[a] = Request_Invoke_ID[a]
  BY <1>1, <1>4 DEF Users
<1>12. u \in Apps => /\ outcome'[u] = "pending"
                     /\ Request_Invoke_ID'[u] = id
  BY <1>4
<1>13. <<u, issued'[u]>> = pdu /\ issued'[u] > 0
  BY <1>1, <1>2, <1>4 DEF pdu
<1>14. SlotsOwned'
  <2> SUFFICES ASSUME NEW i \in Slots, TSM_List'[i].InvokeID # 0
               PROVE  \/ \E a \in Apps :
                           /\ outcome'[a] = "pending"
                           /\ Request_Invoke_ID'[a] = TSM_List'[i].InvokeID
                           /\ TSM_List'[i].pdu = <<a, issued'[a]>>
                      \/ TSM_List'[i].pdu \in Notifiers \X (1 .. MaxRequests)
    BY DEF SlotsOwned
  <2>1. CASE i = f /\ u \in Apps
    BY <1>6, <1>12, <1>13, <2>1 DEF TakenIn
  <2>2. CASE i = f /\ u \in Notifiers
    BY <1>2, <1>6, <2>2 DEF TakenIn, pdu
  <2>3. CASE i # f
    <3>1. TSM_List'[i] = TSM_List[i]
      BY <1>6, <2>3 DEF TakenIn
    <3>2. CASE TSM_List[i].pdu \in Notifiers \X (1 .. MaxRequests)
      BY <3>1, <3>2
    <3>3. ASSUME NEW a \in Apps,
                 outcome[a] = "pending",
                 Request_Invoke_ID[a] = TSM_List[i].InvokeID,
                 TSM_List[i].pdu = <<a, issued[a]>>
          PROVE  /\ outcome'[a] = "pending"
                 /\ Request_Invoke_ID'[a] = TSM_List'[i].InvokeID
                 /\ TSM_List'[i].pdu = <<a, issued'[a]>>
      BY <1>7, <1>11, <3>1, <3>3
    <3> QED
      BY <3>1, <3>2, <3>3 DEF DeviceInv, SlotsOwned
  <2> QED
    BY <2>1, <2>2, <2>3 DEF Users
<1>15. DoneMeansServed'
  BY <1>4, <1>11, <1>12 DEF DeviceInv, DoneMeansServed
<1>16. RepliesServed'
  BY <1>4 DEF DeviceInv, RepliesServed
<1>17. PollsKnow'
  <2> SUFFICES ASSUME NEW a \in Apps
               PROVE
    IF outcome'[a] = "pending"
      THEN /\ Request_Invoke_ID'[a] # 0
           /\ issued'[a] > 0
           /\ \A b \in Apps : Request_Invoke_ID'[b] = Request_Invoke_ID'[a] => a = b
           /\ \A m \in net' : m.id = Request_Invoke_ID'[a] => m.pdu = <<a, issued'[a]>>
           /\ \A i \in Slots : TSM_List'[i].InvokeID = Request_Invoke_ID'[a]
                                 => TSM_List'[i].pdu = <<a, issued'[a]>>
           /\ \/ <<a, issued'[a]>> \in served'
              \/ \E i \in Slots : TSM_List'[i].InvokeID = Request_Invoke_ID'[a]
      ELSE Request_Invoke_ID'[a] = 0
    BY DEF PollsKnow
  <2>1. CASE a = u
    <3>1. /\ \A b \in Apps : Request_Invoke_ID'[b] = id => a = b
          /\ \A m \in net' : m.id = id => m.pdu = pdu
      BY <1>4, <1>7, <1>11, <2>1
    <3>2. /\ TSM_List'[f].InvokeID = id
          /\ \A i \in Slots : TSM_List'[i].InvokeID = id => TSM_List'[i].pdu = pdu
      BY <1>5, <1>6 DEF TakenIn
    <3> QED
      BY <1>8, <1>12, <1>13, <2>1, <3>1, <3>2
  <2>2. CASE a # u /\ outcome[a] # "pending"
    BY <1>11, <2>2 DEF DeviceInv, PollsKnow
  <2>3. CASE a # u /\ outcome[a] = "pending"
    <3>1. /\ Request_Invoke_ID[a] # 0 /\ issued[a] > 0
          /\ \A b \in Apps : Request_Invoke_ID[b] = Request_Invoke_ID[a] => a = b
          /\ \A m \in net : m.id = Request_Invoke_ID[a] => m.pdu = <<a, issued[a]>>
          /\ \A i \in Slots : TSM_List[i].InvokeID = Request_Invoke_ID[a]
                                => TSM_List[i].pdu = <<a, issued[a]>>
          /\ \/ <<a, issued[a]>> \in served
             \/ \E i \in Slots : TSM_List[i].InvokeID = Request_Invoke_ID[a]
      BY <2>3 DEF DeviceInv, PollsKnow
    <3>2. \A b \in Apps : Request_Invoke_ID'[b] = Request_Invoke_ID[a] => a = b
      BY <1>7, <1>11, <1>12, <3>1
    <3>3. \A m \in net' : m.id = Request_Invoke_ID[a] => m.pdu = <<a, issued[a]>>
      BY <1>4, <1>7, <3>1
    <3>4. \A i \in Slots : /\ TSM_List'[i].InvokeID = Request_Invoke_ID[a]
                                => TSM_List[i].InvokeID = Request_Invoke_ID[a]
                           /\ TSM_List[i].InvokeID = Request_Invoke_ID[a]
                                => TSM_List'[i] = TSM_List[i]
      BY <1>6, <1>7, <3>1 DEF TakenIn
    <3> QED
      BY <1>4, <1>11, <2>3, <3>1, <3>2, <3>3, <3>4
  <2> QED
    BY <2>1, <2>2, <2>3
<1> QED
  BY <1>9, <1>10, <1>14, <1>15, <1>16, <1>17 DEF DeviceInv

(***************************************************************************)
(* A step that leaves every slot its ID and request, begins no waiting,    *)
(* and transmits only what slots hold.                                     *)
(***************************************************************************)
LEMMA SameIDsInv ==
  ASSUME DeviceInv, UNCHANGED <<dccVars, appVars, served>>,
         TSM_List' \in [Slots -> BACNET_TSM_DATA], Current_Invoke_ID' \in InvokeIDs,
         net' \subseteq Message,
         \A i \in Slots : /\ TSM_List'[i].InvokeID = TSM_List[i].InvokeID
                          /\ TSM_List'[i].pdu = TSM_List[i].pdu
                          /\ TSM_List'[i].state = "AWAIT_CONFIRMATION"
                               => TSM_List[i].state = "AWAIT_CONFIRMATION",
         \A m \in net' : \/ m \in net
                         \/ /\ m.kind = "request"
                            /\ \E i \in Slots : /\ m.id = TSM_List[i].InvokeID
                                                /\ m.pdu = TSM_List[i].pdu
  PROVE  DeviceInv'
<1>1. TypeOK'
  BY DEF DeviceInv, TypeOK, TSMTypeOK, DCCTypeOK, dccVars, appVars
<1>2. UniqueInvokeIDs' /\ AwaitingIsNamed'
  BY DEF DeviceInv, UniqueInvokeIDs, AwaitingIsNamed
<1>3. SlotsOwned'
  BY DEF DeviceInv, SlotsOwned, appVars
<1>4. DoneMeansServed' /\ RepliesServed'
  BY DEF DeviceInv, DoneMeansServed, RepliesServed, appVars
<1>5. PollsKnow'
  BY DEF DeviceInv, PollsKnow, appVars
<1> QED
  BY <1>1, <1>2, <1>3, <1>4, <1>5 DEF DeviceInv

\* A request that is too long gives its slot back.
LEMMA SendTooLongInv ==
  ASSUME NEW u \in Users, DeviceInv, SendTooLong(u)
  PROVE  DeviceInv'
<1> DEFINE id == UnusedID(TSM_List, Current_Invoke_ID)
<1>1. /\ TSM_List \in [Slots -> BACNET_TSM_DATA]
      /\ Current_Invoke_ID \in InvokeIDs
      /\ net \subseteq Message
  BY DEF DeviceInv, TypeOK, TSMTypeOK
<1>2. /\ tsm_transaction_available(TSM_List)
      /\ TSM_List' = tsm_free_invoke_id(Reserve(TSM_List, id), id)
      /\ Current_Invoke_ID' = Increment(id)
      /\ net' = net
      /\ UNCHANGED <<dccVars, appVars, served>>
  BY DEF SendTooLong, MaySend
<1>3. /\ id \in InvokeIDs /\ Increment(id) \in InvokeIDs
      /\ TSM_List' \in [Slots -> BACNET_TSM_DATA]
      /\ \A i \in Slots : /\ TSM_List'[i].InvokeID = TSM_List[i].InvokeID
                          /\ TSM_List'[i].pdu = TSM_List[i].pdu
                          /\ TSM_List'[i].state \in {TSM_List[i].state, "IDLE"}
  BY <1>1, <1>2, ReserveAndFree
<1> HIDE DEF id
<1>4. \A i \in Slots : TSM_List'[i].state = "AWAIT_CONFIRMATION"
                         => TSM_List[i].state = "AWAIT_CONFIRMATION"
  BY <1>3
<1> QED
  BY <1>1, <1>2, <1>3, <1>4, SameIDsInv

\* What a waiting slot holds can be transmitted.
LEMMA WaitingIsMessage ==
  ASSUME DeviceInv, NEW i \in Slots, TSM_List[i].state = "AWAIT_CONFIRMATION"
  PROVE  RequestOf(TSM_List[i]) \in Message
<1>1. TSM_List[i].InvokeID \in InvokeIDs /\ TSM_List[i].InvokeID # 0
  BY DEF DeviceInv, AwaitingIsNamed, TypeOK, TSMTypeOK, BACNET_TSM_DATA
<1>2. TSM_List[i].pdu \in Pdus
  <2>1. ASSUME NEW a \in Apps, outcome[a] = "pending",
               TSM_List[i].pdu = <<a, issued[a]>>
        PROVE  TSM_List[i].pdu \in Pdus
    <3>1. issued[a] \in 1 .. MaxRequests
      <4>1. issued[a] > 0
        BY <2>1 DEF DeviceInv, PollsKnow
      <4>2. issued[a] \in 0 .. MaxRequests
        BY DEF DeviceInv, TypeOK, Users
      <4> QED
        BY <4>1, <4>2, UsersAssumption
    <3> QED
      BY <2>1, <3>1, RequestIsPdu DEF Users
  <2>2. CASE TSM_List[i].pdu \in Notifiers \X (1 .. MaxRequests)
    BY <2>2, UsersAssumption DEF Users
  <2> QED
    BY <1>1, <2>1, <2>2 DEF DeviceInv, SlotsOwned
<1> QED
  BY <1>1, <1>2 DEF RequestOf, Message

\* The timer keeps IDs, so users and slots still agree.
LEMMA TransactionTimerInv ==
  ASSUME NEW milliseconds \in Elapsed, DeviceInv, TransactionTimer(milliseconds)
  PROVE  DeviceInv'
<1>1. /\ TSM_List \in [Slots -> BACNET_TSM_DATA]
      /\ Current_Invoke_ID \in InvokeIDs
      /\ net \subseteq Message
      /\ milliseconds \in Nat
  BY TimerAssumption DEF DeviceInv, TypeOK, TSMTypeOK
<1>2. /\ TSM_List' = tsm_timer_milliseconds(TSM_List, milliseconds)
      /\ Current_Invoke_ID' = Current_Invoke_ID
      /\ UNCHANGED <<dccVars, appVars, served>>
  BY DEF TransactionTimer, Timer
<1>3. \A m \in net' :
        \/ m \in net
        \/ \E i \in Slots : /\ TSM_List[i].state = "AWAIT_CONFIRMATION"
                            /\ m = RequestOf(TSM_List[i])
  BY DEF TransactionTimer, Retransmitted, TimedOut
<1>4. net' \subseteq Message
  BY <1>1, <1>3, WaitingIsMessage
<1>5. \A m \in net' : \/ m \in net
                      \/ /\ m.kind = "request"
                         /\ \E i \in Slots : /\ m.id = TSM_List[i].InvokeID
                                             /\ m.pdu = TSM_List[i].pdu
  BY <1>3 DEF RequestOf
<1>6. /\ TSM_List' \in [Slots -> BACNET_TSM_DATA]
      /\ \A i \in Slots : /\ TSM_List'[i].InvokeID = TSM_List[i].InvokeID
                          /\ TSM_List'[i].pdu = TSM_List[i].pdu
                          /\ TSM_List'[i].state = "AWAIT_CONFIRMATION"
                               => TSM_List[i].state = "AWAIT_CONFIRMATION"
  BY <1>1, <1>2, TimerKeepsIDs
<1> QED
  BY <1>1, <1>2, <1>4, <1>5, <1>6, SameIDsInv

\* What an application polling with id may rely on, as facts of their own.
LEMMA PollFacts ==
  ASSUME DeviceInv, NEW a \in Apps, outcome[a] = "pending"
  PROVE  /\ Request_Invoke_ID[a] \in InvokeIDs /\ Request_Invoke_ID[a] # 0
         /\ \A b \in Apps : Request_Invoke_ID[b] = Request_Invoke_ID[a] => a = b
         /\ \A m \in net : m.id = Request_Invoke_ID[a] => m.pdu = <<a, issued[a]>>
         /\ \A i \in Slots : TSM_List[i].InvokeID = Request_Invoke_ID[a]
                               => TSM_List[i].pdu = <<a, issued[a]>>
         /\ \/ <<a, issued[a]>> \in served
            \/ \E i \in Slots : TSM_List[i].InvokeID = Request_Invoke_ID[a]
BY DEF DeviceInv, PollsKnow, TypeOK

\* A poll reports success when its ID is free, and frees the slot that failed.
LEMMA PollInv ==
  ASSUME NEW a \in Apps, DeviceInv, Poll(a)
  PROVE  DeviceInv'
<1> DEFINE id == Request_Invoke_ID[a]
<1>1. /\ TSM_List \in [Slots -> BACNET_TSM_DATA]
      /\ Request_Invoke_ID \in [Apps -> {0} \cup InvokeIDs]
      /\ outcome \in [Apps -> {"none", "pending", "done", "failed"}]
      /\ UniqueIn(TSM_List)
  BY DEF DeviceInv, TypeOK, TSMTypeOK, UniqueInvokeIDs, UniqueIn
<1>2. /\ Request_Invoke_ID' = [Request_Invoke_ID EXCEPT ![a] = 0]
      /\ UNCHANGED <<Current_Invoke_ID, dccVars, issued, net, served>>
      /\ outcome[a] = "pending"
  BY DEF Poll
<1>3. PICK result \in {"done", "failed"} :
        /\ outcome' = [outcome EXCEPT ![a] = result]
        /\ result = "done" => <<a, issued[a]>> \in served
        /\ TSM_List' \in [Slots -> BACNET_TSM_DATA]
        /\ \A i \in Slots :
             IF TSM_List[i].InvokeID = id
               THEN TSM_List'[i].InvokeID = 0 /\ TSM_List'[i].state = "IDLE"
               ELSE TSM_List'[i] = TSM_List[i]
  <2>1. CASE /\ tsm_invoke_id_free(TSM_List, id)
             /\ outcome' = [outcome EXCEPT ![a] = "done"]
             /\ UNCHANGED TSM_List
    <3>1. \A i \in Slots : TSM_List[i].InvokeID # id
      BY <2>1 DEF tsm_invoke_id_free, Holders
    <3>2. <<a, issued[a]>> \in served
      BY <1>2, <3>1, PollFacts
    <3> QED
      BY <1>1, <2>1, <3>1, <3>2
  <2>2. CASE /\ TSM_List' = tsm_free_invoke_id(TSM_List, id)
             /\ outcome' = [outcome EXCEPT ![a] = "failed"]
    <3>1. id # 0
      BY <1>2, PollFacts
    <3> HIDE DEF id
    <3>2. /\ TSM_List' \in [Slots -> BACNET_TSM_DATA]
          /\ \A i \in Slots :
               IF TSM_List[i].InvokeID = id
                 THEN TSM_List'[i].InvokeID = 0 /\ TSM_List'[i].state = "IDLE"
                 ELSE TSM_List'[i] = TSM_List[i]
      BY <1>1, <2>2, <3>1, FreeClearsID
    <3> QED
      BY <2>2, <3>2
  <2> QED
    BY <2>1, <2>2 DEF Poll
<1>4. \A b \in Apps : IF b = a THEN outcome'[b] = result /\ Request_Invoke_ID'[b] = 0
                      ELSE /\ outcome'[b] = outcome[b]
                           /\ Request_Invoke_ID'[b] = Request_Invoke_ID[b]
                           /\ Request_Invoke_ID[b] # id
  BY <1>1, <1>2, <1>3, PollFacts
<1>5. TypeOK'
  BY <1>1, <1>2, <1>3 DEF DeviceInv, TypeOK, TSMTypeOK, DCCTypeOK, dccVars
<1>6. UniqueInvokeIDs' /\ AwaitingIsNamed'
  BY <1>3 DEF DeviceInv, UniqueInvokeIDs, AwaitingIsNamed
<1>7. SlotsOwned'
  BY <1>2, <1>3, <1>4 DEF DeviceInv, SlotsOwned
<1>8. DoneMeansServed' /\ RepliesServed'
  BY <1>2, <1>3, <1>4 DEF DeviceInv, DoneMeansServed, RepliesServed
<1>9. PollsKnow'
  <2> SUFFICES ASSUME NEW b \in Apps, b # a
               PROVE
    IF outcome'[b] = "pending"
      THEN /\ Request_Invoke_ID'[b] # 0
           /\ issued'[b] > 0
           /\ \A c \in Apps : Request_Invoke_ID'[c] = Request_Invoke_ID'[b] => b = c
           /\ \A m \in net' : m.id = Request_Invoke_ID'[b] => m.pdu = <<b, issued'[b]>>
           /\ \A i \in Slots : TSM_List'[i].InvokeID = Request_Invoke_ID'[b]
                                 => TSM_List'[i].pdu = <<b, issued'[b]>>
           /\ \/ <<b, issued'[b]>> \in served'
              \/ \E i \in Slots : TSM_List'[i].InvokeID = Request_Invoke_ID'[b]
      ELSE Request_Invoke_ID'[b] = 0
    BY <1>4 DEF PollsKnow
  <2>1. CASE outcome[b] # "pending"
    BY <1>4, <2>1 DEF DeviceInv, PollsKnow
  <2>2. CASE outcome[b] = "pending"
    <3>1. /\ issued'[b] > 0
          /\ \A c \in Apps : Request_Invoke_ID'[c] = Request_Invoke_ID[b] => b = c
      BY <1>2, <1>4, <2>2 DEF DeviceInv, PollsKnow
    <3>2. \A i \in Slots : /\ TSM_List'[i].InvokeID = Request_Invoke_ID[b]
                                => TSM_List'[i] = TSM_List[i]
                           /\ TSM_List[i].InvokeID = Request_Invoke_ID[b]
                                => TSM_List'[i] = TSM_List[i]
      BY <1>3, <1>4, <2>2, PollFacts
    <3> QED
      BY <1>2, <1>4, <2>2, <3>1, <3>2, PollFacts
  <2> QED
    BY <2>1, <2>2
<1> QED
  BY <1>5, <1>6, <1>7, <1>8, <1>9 DEF DeviceInv

\* A reply frees the slot with its ID only, and that request was executed.
LEMMA ReceiveReplyInv ==
  ASSUME NEW m \in net, DeviceInv, ReceiveReply(m)
  PROVE  DeviceInv'
<1>1. /\ TSM_List \in [Slots -> BACNET_TSM_DATA]
      /\ m.id # 0
      /\ UniqueIn(TSM_List)
  BY DEF DeviceInv, TypeOK, TSMTypeOK, UniqueInvokeIDs, UniqueIn, Message, InvokeIDs
<1>2. /\ TSM_List' = tsm_free_invoke_id(TSM_List, m.id)
      /\ UNCHANGED <<Current_Invoke_ID, dccVars, appVars, net, served>>
      /\ m.pdu \in served
  BY DEF ReceiveReply, Free, DeviceInv, RepliesServed
<1>3. /\ TSM_List' \in [Slots -> BACNET_TSM_DATA]
      /\ \A i \in Slots :
           IF TSM_List[i].InvokeID = m.id
             THEN TSM_List'[i].InvokeID = 0 /\ TSM_List'[i].state = "IDLE"
             ELSE TSM_List'[i] = TSM_List[i]
  BY <1>1, <1>2, FreeClearsID
<1>4. TypeOK'
  BY <1>2, <1>3 DEF DeviceInv, TypeOK, TSMTypeOK, DCCTypeOK, dccVars, appVars
<1>5. UniqueInvokeIDs' /\ AwaitingIsNamed'
  BY <1>3 DEF DeviceInv, UniqueInvokeIDs, AwaitingIsNamed
<1>6. SlotsOwned'
  BY <1>2, <1>3 DEF DeviceInv, SlotsOwned, appVars
<1>7. DoneMeansServed' /\ RepliesServed'
  BY <1>2 DEF DeviceInv, DoneMeansServed, RepliesServed, appVars
<1>8. PollsKnow'
  <2> SUFFICES ASSUME NEW a \in Apps, outcome[a] = "pending"
               PROVE
           /\ \A i \in Slots : TSM_List'[i].InvokeID = Request_Invoke_ID[a]
                                 => TSM_List'[i].pdu = <<a, issued[a]>>
           /\ \/ <<a, issued[a]>> \in served
              \/ \E i \in Slots : TSM_List'[i].InvokeID = Request_Invoke_ID[a]
    BY <1>2 DEF DeviceInv, PollsKnow, appVars
  <2>1. CASE Request_Invoke_ID[a] = m.id
    <3>1. <<a, issued[a]>> \in served
      BY <1>2, <2>1, PollFacts
    <3> QED
      BY <1>1, <1>3, <2>1, <3>1
  <2>2. CASE Request_Invoke_ID[a] # m.id
    BY <1>3, <2>2, PollFacts
  <2> QED
    BY <2>1, <2>2
<1> QED
  BY <1>4, <1>5, <1>6, <1>7, <1>8 DEF DeviceInv

\* A peer that executes a request replies to it.
LEMMA ServeInv ==
  ASSUME NEW m \in net, DeviceInv, Serve(m)
  PROVE  DeviceInv'
<1> DEFINE reply == [m EXCEPT !.kind = "reply"]
<1>1. /\ served' = served \cup {m.pdu}
      /\ net' = net \cup {reply}
      /\ UNCHANGED <<tsmVars, dccVars, appVars>>
  BY DEF Serve
<1>2. m \in Message
  BY DEF DeviceInv, TypeOK
<1>3. reply \in Message /\ reply.id = m.id /\ reply.pdu = m.pdu
  BY <1>2 DEF Message
<1> HIDE DEF reply
<1>4. TypeOK'
  BY <1>1, <1>2, <1>3
  DEF DeviceInv, TypeOK, TSMTypeOK, DCCTypeOK, tsmVars, dccVars, appVars, Message
<1>5. UniqueInvokeIDs' /\ AwaitingIsNamed' /\ SlotsOwned'
  BY <1>1 DEF DeviceInv, UniqueInvokeIDs, AwaitingIsNamed, SlotsOwned, tsmVars, appVars
<1>6. DoneMeansServed' /\ RepliesServed'
  BY <1>1, <1>3 DEF DeviceInv, DoneMeansServed, RepliesServed, appVars
<1>7. PollsKnow'
  BY <1>1, <1>3 DEF DeviceInv, PollsKnow, tsmVars, appVars
<1> QED
  BY <1>4, <1>5, <1>6, <1>7 DEF DeviceInv

\* A message lost takes nothing else along.
LEMMA LoseInv ==
  ASSUME NEW m \in net, DeviceInv, Lose(m)
  PROVE  DeviceInv'
<1>1. net' \subseteq net /\ UNCHANGED <<tsmVars, dccVars, appVars, served>>
  BY DEF Lose
<1>2. TypeOK'
  BY <1>1 DEF DeviceInv, TypeOK, TSMTypeOK, DCCTypeOK, tsmVars, dccVars, appVars
<1>3. UniqueInvokeIDs' /\ AwaitingIsNamed' /\ SlotsOwned' /\ DoneMeansServed'
  BY <1>1 DEF DeviceInv, UniqueInvokeIDs, AwaitingIsNamed, SlotsOwned,
              DoneMeansServed, tsmVars, appVars
<1>4. RepliesServed' /\ PollsKnow'
  BY <1>1 DEF DeviceInv, RepliesServed, PollsKnow, tsmVars, appVars
<1> QED
  BY <1>2, <1>3, <1>4 DEF DeviceInv

\* Every step keeps the invariant.
LEMMA DeviceNextInv == DeviceInv /\ [Next]_vars => DeviceInv'
<1> SUFFICES ASSUME DeviceInv, [Next]_vars
             PROVE  DeviceInv'
  OBVIOUS
<1>1. ASSUME NEW u \in Users, Send(u)
      PROVE  DeviceInv'
  BY <1>1, SendInv
<1>2. ASSUME NEW u \in Users, SendTooLong(u)
      PROVE  DeviceInv'
  BY <1>2, SendTooLongInv
<1>3. ASSUME NEW a \in Apps, Poll(a)
      PROVE  DeviceInv'
  BY <1>3, PollInv
<1>4. ASSUME NEW milliseconds \in Elapsed, TransactionTimer(milliseconds)
      PROVE  DeviceInv'
  BY <1>4, TransactionTimerInv
<1>5. CASE Control
  <2>1. DCCTypeOK' /\ UNCHANGED protocolVars
    BY <1>5, ControlTypes DEF Control, DeviceInv, TypeOK, protocolVars
  <2> QED
    BY <2>1, UnchangedInv
<1>6. ASSUME NEW m \in net, ReceiveReply(m)
      PROVE  DeviceInv'
  BY <1>6, ReceiveReplyInv
<1>7. ASSUME NEW m \in net, Serve(m)
      PROVE  DeviceInv'
  BY <1>7, ServeInv
<1>8. ASSUME NEW m \in net, Lose(m)
      PROVE  DeviceInv'
  BY <1>8, LoseInv
<1>9. CASE UNCHANGED vars
  <2>1. DCCTypeOK' /\ UNCHANGED protocolVars
    BY <1>9 DEF vars, protocolVars, dccVars, DeviceInv, TypeOK, DCCTypeOK
  <2> QED
    BY <2>1, UnchangedInv
<1> QED
  BY <1>1, <1>2, <1>3, <1>4, <1>5, <1>6, <1>7, <1>8, <1>9 DEF Next

-----------------------------------------------------------------------------
(***************************************************************************)
(* The inductive invariant holds in every reachable state.                 *)
(***************************************************************************)
THEOREM DeviceInvariant == Spec => []DeviceInv
<1> QED
  BY DeviceInitInv, DeviceNextInv, PTL DEF Spec

(***************************************************************************)
(* No transaction leaks: every invoke ID that TSM_List holds is the one an *)
(* application is polling with, for its latest request, or belongs to a    *)
(* notifier.  So every path of the Send functions and of the poll gives    *)
(* the slot back, with any number of applications over any table.          *)
(***************************************************************************)
THEOREM NoTransactionLeaks == Spec => []NoOrphans
<1>1. DeviceInv => NoOrphans
  BY DEF DeviceInv, SlotsOwned, NoOrphans
<1> QED
  BY <1>1, DeviceInvariant, PTL

(***************************************************************************)
(* An application that finds its invoke ID free (tsm_invoke_id_free in the *)
(* main loop of readprop) is right to take the request for done: a peer    *)
(* executed that very request.  Any number of losses, duplicates, late     *)
(* replies, retries and giving up lie in between; what the proof needs is  *)
(* that no ID is handed out while a message with it lives (Forgotten).     *)
(***************************************************************************)
THEOREM DoneWasServed == Spec => []DoneMeansServed
<1>1. DeviceInv => DoneMeansServed
  BY DEF DeviceInv
<1> QED
  BY <1>1, DeviceInvariant, PTL
=============================================================================
