------------------------ MODULE COVSubscriberProofs ------------------------
(***************************************************************************)
(* Proofs about whom the COV subscriptions of a server notify, and that no *)
(* change of value is lost, on top of the invariant of COVProofs.          *)
(***************************************************************************)
EXTENDS COVProofs

-----------------------------------------------------------------------------
(***************************************************************************)
(* Whom a subscription notifies.  cov_list_subscribe takes an entry that   *)
(* lost the race for an address as the caller's, so what follows needs one *)
(* of two things of the installation: every client has room in the address *)
(* list, or no two subscriptions of an object have the same process ID.    *)
(***************************************************************************)
RoomForAll ==
  IsFiniteSet(Sources) /\ Cardinality(Sources) <= MAX_COV_ADDRESSES

IdentifiersDiffer ==
  \A r, s \in Requests : r.obj = s.obj /\ r.pid = s.pid => r = s

Addressed(addresses, subscriptions) ==
  \A i \in Entries : subscriptions[i].valid =>
    cov_address_get(addresses, subscriptions[i].dest_index)
      \in {NoAddress, subscriptions[i].request.src}

Distinct(subscriptions) ==
  \A i, j \in Entries :
    /\ subscriptions[i].valid /\ subscriptions[j].valid
    /\ subscriptions[i].request = subscriptions[j].request
    => i = j

Placed(subscriptions) ==
  \A i \in Entries : subscriptions[i].valid =>
    subscriptions[i].dest_index \in AddressSlots

SubscriberInv ==
  /\ Addressed(COV_Addresses, COV_Subscriptions)
  /\ Distinct(COV_Subscriptions)
  /\ RoomForAll => Placed(COV_Subscriptions)

\* With room for all, cov_address_add finds a slot.
LEMMA RoomFound ==
  ASSUME RoomForAll, NEW addresses \in AddressList, Once(addresses), NEW src \in Sources
  PROVE  \E a \in AddressSlots : addresses[a] \in {src, NoAddress}
<1> SUFFICES ASSUME \A a \in AddressSlots : addresses[a] \notin {src, NoAddress}
             PROVE  FALSE
  OBVIOUS
<1>1. addresses \in [AddressSlots -> Sources \ {src}]
  BY DEF AddressList
<1>2. IsFiniteSet(AddressSlots) /\ Cardinality(AddressSlots) = MAX_COV_ADDRESSES
  BY FS_Interval, COVAssumption DEF AddressSlots
<1>3. /\ IsFiniteSet(Sources \ {src})
      /\ Cardinality(Sources \ {src}) = Cardinality(Sources) - 1
  BY FS_RemoveElement DEF RoomForAll
<1>4. Cardinality(Sources \ {src}) < Cardinality(AddressSlots)
  <2>1. Cardinality(Sources) \in Nat
    BY FS_CardinalityType DEF RoomForAll
  <2> QED
    BY <1>2, <1>3, <2>1, COVAssumption DEF RoomForAll
<1>5. \E x, y \in AddressSlots : x # y /\ addresses[x] = addresses[y]
  BY <1>1, <1>2, <1>3, <1>4, FS_PigeonHole
<1> QED
  BY <1>5 DEF Once

\* An entry that cov_list_subscribe takes for the request's is the request's.
LEMMA MatchIsRequest ==
  ASSUME RoomForAll \/ IdentifiersDiffer, COVInv, SubscriberInv,
         NEW r \in Requests, NEW i \in Entries, Matches(i, r)
  PROVE  COV_Subscriptions[i].request = r
<1> DEFINE q == COV_Subscriptions[i].request
           a == COV_Subscriptions[i].dest_index
<1>1. q \in Requests
  BY COVTypes DEF COVInv, TablesOK, Table, COVSubscription
<1>2. /\ COV_Subscriptions[i].valid
      /\ q.obj = r.obj /\ q.pid = r.pid
      /\ cov_address_get(COV_Addresses, a) \in {r.src, NoAddress}
  BY DEF Matches
<1>3. CASE IdentifiersDiffer
  BY <1>1, <1>2, <1>3 DEF IdentifiersDiffer
<1>4. CASE RoomForAll
  <2>1. a \in AddressSlots
    BY <1>2, <1>4 DEF SubscriberInv, Placed
  <2>2. cov_address_get(COV_Addresses, a) # NoAddress
    BY <1>2, <2>1 DEF COVInv, Kept, Refers, cov_address_get
  <2>3. cov_address_get(COV_Addresses, a) = q.src
    BY <1>2, <2>2 DEF SubscriberInv, Addressed
  <2> QED
    BY <1>1, <1>2, <2>2, <2>3, COVAssumption
<1> QED
  BY <1>3, <1>4

\* Entering a request gives its entry the address of its client and takes no
\* other entry's.
LEMMA EnteredSubscriber ==
  ASSUME COVInv, SubscriberInv, NEW r \in Requests, NEW i \in Entries, NEW k,
         Entered(r, i, k), COV_Subscriptions'[i].request = r
  PROVE  /\ Addressed(COV_Addresses', COV_Subscriptions')
         /\ RoomForAll => Placed(COV_Subscriptions')
<1>1. ASSUME NEW j \in Entries, j # i, COV_Subscriptions'[j].valid
      PROVE  cov_address_get(COV_Addresses', COV_Subscriptions'[j].dest_index)
               \in {NoAddress, COV_Subscriptions'[j].request.src}
  <2> DEFINE a == COV_Subscriptions[j].dest_index
  <2>1. COV_Subscriptions'[j] = COV_Subscriptions[j]
    BY <1>1 DEF Entered
  <2>2. cov_address_get(COV_Addresses, a) \in {NoAddress, COV_Subscriptions[j].request.src}
    BY <1>1, <2>1 DEF SubscriberInv, Addressed
  <2>3. ASSUME a \in AddressSlots
        PROVE  COV_Addresses'[a] = COV_Addresses[a]
    <3>1. COV_Addresses[a] # NoAddress
      BY <1>1, <2>1, <2>3 DEF COVInv, Kept, Refers
    <3> QED
      BY <2>3, <3>1 DEF Entered
  <2> QED
    BY <2>1, <2>2, <2>3 DEF cov_address_get
<1>2. cov_address_get(COV_Addresses', COV_Subscriptions'[i].dest_index) \in {NoAddress, r.src}
  BY DEF Entered, cov_address_get
<1>3. ASSUME RoomForAll
      PROVE  k \in AddressSlots
  <2>1. COV_Addresses \in AddressList /\ Once(COV_Addresses) /\ r.src \in Sources
    BY COVTypes DEF COVInv, TablesOK, Sources
  <2>2. \E a \in AddressSlots : COV_Addresses[a] \in {r.src, NoAddress}
    BY <1>3, <2>1, RoomFound
  <2> QED
    BY <2>2 DEF Entered
<1>4. RoomForAll => Placed(COV_Subscriptions')
  BY <1>3 DEF Entered, SubscriberInv, Placed
<1> QED
  BY <1>1, <1>2, <1>4 DEF Addressed

\* A renewal keeps the subscriber's address with its subscription.
LEMMA RenewSubscriber ==
  ASSUME RoomForAll \/ IdentifiersDiffer, COVInv, SubscriberInv,
         NEW r \in Requests, NEW confirmed \in BOOLEAN, NEW lifetime \in Lifetimes,
         Renew(r, confirmed, lifetime)
  PROVE  SubscriberInv'
<1>1. PICK i \in Entries, k \in AddressSlots \cup {NoRoom} :
        /\ Matches(i, r) /\ Entered(r, i, k)
        /\ COV_Subscriptions'[i].request = COV_Subscriptions[i].request
  BY RenewEffect, Zenon
<1>2. COV_Subscriptions'[i].request = r
  BY <1>1, MatchIsRequest, Zenon
<1>3. /\ Addressed(COV_Addresses', COV_Subscriptions')
      /\ RoomForAll => Placed(COV_Subscriptions')
  BY <1>1, <1>2, EnteredSubscriber, Zenon
<1>4. \A j \in Entries : /\ COV_Subscriptions'[j].valid => COV_Subscriptions[j].valid
                         /\ COV_Subscriptions'[j].request = COV_Subscriptions[j].request
  BY <1>1, Zenon DEF Entered, Matches
<1>5. Distinct(COV_Subscriptions')
  BY <1>4 DEF SubscriberInv, Distinct
<1> QED
  BY <1>3, <1>5, Zenon DEF SubscriberInv

\* A new subscription gets the address of who asked, and no double.
LEMMA AddSubscriber ==
  ASSUME COVInv, SubscriberInv,
         NEW r \in Requests, NEW confirmed \in BOOLEAN, NEW lifetime \in Lifetimes,
         Add(r, confirmed, lifetime)
  PROVE  SubscriberInv'
<1>1. PICK i \in Entries, k \in AddressSlots \cup {NoRoom} :
        /\ ~ COV_Subscriptions[i].valid /\ Entered(r, i, k)
        /\ COV_Subscriptions'[i].request = r
  BY AddEffect, Zenon
<1>2. /\ Addressed(COV_Addresses', COV_Subscriptions')
      /\ RoomForAll => Placed(COV_Subscriptions')
  BY <1>1, EnteredSubscriber, Zenon
<1>3. ASSUME NEW j \in Entries, COV_Subscriptions[j].valid
      PROVE  COV_Subscriptions[j].request # r
  <2> SUFFICES ASSUME COV_Subscriptions[j].request = r
               PROVE  FALSE
    OBVIOUS
  <2>1. j \in Existing(r)
    BY <1>3 DEF Existing, Matches, SubscriberInv, Addressed
  <2> QED
    BY <2>1 DEF Add
<1>4. /\ COV_Subscriptions'[i].request = r
      /\ \A j \in Entries \ {i} : COV_Subscriptions'[j] = COV_Subscriptions[j]
  BY <1>1, Zenon DEF Entered
<1>5. Distinct(COV_Subscriptions')
  BY <1>3, <1>4, Zenon DEF SubscriberInv, Distinct
<1> QED
  BY <1>2, <1>5, Zenon DEF SubscriberInv

\* So does every step that only takes subscriptions and addresses away.
LEMMA ThinnedSubscriber ==
  ASSUME SubscriberInv, Thinned
  PROVE  SubscriberInv'
<1>1. Addressed(COV_Addresses', COV_Subscriptions')
  BY DEF SubscriberInv, Addressed, Thinned, cov_address_get
<1>2. Distinct(COV_Subscriptions')
  BY DEF SubscriberInv, Distinct, Thinned
<1>3. RoomForAll => Placed(COV_Subscriptions')
  BY DEF SubscriberInv, Placed, Thinned
<1> QED
  BY <1>1, <1>2, <1>3, Zenon DEF SubscriberInv

\* The empty table has no subscriber to get wrong.
LEMMA SubscriberInit == Init => SubscriberInv
BY DEF Init, Unused, SubscriberInv, Addressed, Distinct, Placed

\* With room for every address, or identifiers that tell all subscriptions
\* apart, every subscription has its subscriber's address or none.
LEMMA SubscriberInvariant ==
  ASSUME RoomForAll \/ IdentifiersDiffer
  PROVE  Spec => [](COVInv /\ SubscriberInv)
<1>1. Init => COVInv /\ SubscriberInv
  BY COVInitInv, SubscriberInit
<1>2. COVInv /\ SubscriberInv /\ [Next]_vars => (COVInv /\ SubscriberInv)'
  BY StepInv, RenewSubscriber, AddSubscriber, ThinnedSubscriber
<1> QED
  BY <1>1, <1>2, PTL DEF Spec

(***************************************************************************)
(* A subscription notifies the device that made it or nobody, and is in    *)
(* the table once, however renewals, cancellations and expiries reuse the  *)
(* entries and the addresses (cov_list_subscribe), when one of the two     *)
(* conditions above holds.  Without them it fails: a renewal by one client *)
(* may take over an entry of another that got no address.                  *)
(***************************************************************************)
THEOREM SubscriberNotified ==
  ASSUME RoomForAll \/ IdentifiersDiffer
  PROVE  Spec => []NotifiesSubscriber
<1>1. COVInv /\ SubscriberInv => NotifiesSubscriber
  BY DEF SubscriberInv, Addressed, Distinct, NotifiesSubscriber, Valid, Destination
<1> QED
  BY <1>1, SubscriberInvariant, PTL

-----------------------------------------------------------------------------
(***************************************************************************)
(* No change of value is lost, when no two subscriptions watch one object: *)
(* with two, the passes of handler_cov_fsm lose one, as the run cov_shared *)
(* shows.                                                                  *)
(***************************************************************************)
ObjectsDiffer == \A r, s \in Requests : r.obj = s.obj => r = s

\* A step that sends nothing, changes no value and forgets no request.
LEMMA QuietStep ==
  ASSUME NoLostChange, Thinned, KeepsRequests, UNCHANGED <<objVars, notified>>
  PROVE  NoLostChange'
BY DEF NoLostChange, Thinned, KeepsRequests, UpToDate, Valid, objVars

\* A new or renewed subscription asks for a notification at once.
LEMMA SubscribeKeepsChange ==
  ASSUME COVInv, NoLostChange, UNCHANGED objVars,
         NEW r \in Requests, NEW confirmed \in BOOLEAN, NEW lifetime \in Lifetimes,
         Renew(r, confirmed, lifetime) \/ Add(r, confirmed, lifetime)
  PROVE  NoLostChange'
<1>1. PICK i \in Entries : /\ COV_Subscriptions'[i].send_requested
                           /\ \A j \in Entries \ {i} :
                                /\ COV_Subscriptions'[j] = COV_Subscriptions[j]
                                /\ notified'[j] = notified[j]
  <2>1. CASE Renew(r, confirmed, lifetime)
    <3>1. PICK i \in Entries, k \in AddressSlots \cup {NoRoom} : Entered(r, i, k)
      BY <2>1, RenewEffect, Zenon
    <3> QED
      BY <2>1, <3>1 DEF Entered, Renew
  <2>2. CASE Add(r, confirmed, lifetime)
    <3>1. PICK i \in Entries, k \in AddressSlots \cup {NoRoom} :
            Entered(r, i, k) /\ notified' = [notified EXCEPT ![i] = None]
      BY <2>2, AddEffect
    <3>2. notified \in [Entries -> Values \cup {None}]
      BY DEF COVInv, COVTypeOK
    <3> QED
      BY <3>1, <3>2, Zenon DEF Entered
  <2> QED
    BY <2>1, <2>2
<1> QED
  BY <1>1, Zenon DEF NoLostChange, UpToDate, Valid, objVars

\* The flag goes down only when the one subscription of the object has its
\* notification requested.
LEMMA ClearKeepsChange ==
  ASSUME ObjectsDiffer, COVInv, SubscriberInv, NoLostChange, Clear
  PROVE  NoLostChange'
<1> DEFINE sub == COV_Subscriptions[index]
           o == sub.request.obj
           b == Change_Of_Value[o] /\ ~ (sub.valid /\ sub.send_requested)
<1>1. COV_Subscriptions \in Table /\ index \in Entries /\ ObjectsOK
  BY COVTypes DEF COVInv, TablesOK, TaskOK
<1>2. UNCHANGED <<covVars, Present_Value, notified>>
  BY DEF Clear
<1>3. \A p \in Objects : Change_Of_Value[p] /\ ~ Change_Of_Value'[p] =>
        p = o /\ sub.valid /\ sub.send_requested
  <2>1. Change_Of_Value' = [Change_Of_Value EXCEPT ![o] = b]
    BY <1>1 DEF Clear, ObjectsOK
  <2>2. b \/ ~ Change_Of_Value[o] \/ (sub.valid /\ sub.send_requested)
    OBVIOUS
  <2> HIDE DEF o, b
  <2> QED
    BY <1>1, <2>1, <2>2 DEF ObjectsOK
<1>4. \A i \in Entries : COV_Subscriptions[i].request \in Requests
  BY <1>1 DEF Table, COVSubscription
<1> SUFFICES ASSUME NEW i \in Valid
             PROVE  \/ UpToDate(i)
                    \/ COV_Subscriptions[i].send_requested
                    \/ Change_Of_Value'[COV_Subscriptions[i].request.obj]
  BY <1>2 DEF NoLostChange, UpToDate, Valid, covVars
<1>5. CASE Change_Of_Value[COV_Subscriptions[i].request.obj]
           /\ ~ Change_Of_Value'[COV_Subscriptions[i].request.obj]
  <2>1. /\ COV_Subscriptions[i].request.obj = o
        /\ sub.valid /\ sub.send_requested
    BY <1>3, <1>4, <1>5 DEF Valid, Objects
  <2>2. COV_Subscriptions[i].request = sub.request
    BY <1>1, <1>4, <2>1 DEF ObjectsDiffer, Valid
  <2>3. i = index
    BY <1>1, <2>1, <2>2 DEF SubscriberInv, Distinct, Valid
  <2> QED
    BY <2>1, <2>3
<1>6. CASE ~ (Change_Of_Value[COV_Subscriptions[i].request.obj]
              /\ ~ Change_Of_Value'[COV_Subscriptions[i].request.obj])
  BY <1>6 DEF NoLostChange
<1> QED
  BY <1>5, <1>6

\* A notification that was sent has the present value; one that was not stays
\* requested.
LEMMA NotifyKeepsChange ==
  ASSUME NEW sent \in BOOLEAN, COVInv, NoLostChange, Notify(sent)
  PROVE  NoLostChange'
<1> DEFINE sub == COV_Subscriptions[index]
           value == Present_Value[sub.request.obj]
           newID == IF sub.confirmed THEN UnusedID(TSM_List, Current_Invoke_ID)
                                     ELSE sub.invokeID
           e == [sub EXCEPT !.invokeID = newID, !.send_requested = ~ sent]
<1>1. /\ COV_Subscriptions \in Table /\ index \in Entries
      /\ notified \in [Entries -> Values \cup {None}]
  BY COVTypes DEF COVInv, TablesOK, TaskOK, ObjectsOK
<1>2. /\ UNCHANGED objVars
      /\ notified' = IF sent THEN [notified EXCEPT ![index] = value] ELSE notified
      /\ COV_Subscriptions' = [COV_Subscriptions EXCEPT ![index] = e]
  BY DEF Notify
<1>3. e.send_requested = ~ sent /\ e.request = sub.request /\ e.valid = sub.valid
  <2>1. sub \in COVSubscription
    BY <1>1 DEF Table
  <2> HIDE DEF newID
  <2> QED
    BY <2>1 DEF COVSubscription
<1> HIDE DEF e
<1>4. COV_Subscriptions'[index] = e
  BY <1>1, <1>2 DEF Table
<1>5. \A j \in Entries \ {index} : /\ COV_Subscriptions'[j] = COV_Subscriptions[j]
                                   /\ notified'[j] = notified[j]
  BY <1>1, <1>2 DEF Table
<1>6. sent => notified'[index] = value
  BY <1>1, <1>2
<1> SUFFICES ASSUME NEW i \in Entries, COV_Subscriptions'[i].valid
             PROVE  \/ notified'[i] = Present_Value[COV_Subscriptions'[i].request.obj]
                    \/ COV_Subscriptions'[i].send_requested
                    \/ Change_Of_Value[COV_Subscriptions'[i].request.obj]
  BY <1>2 DEF NoLostChange, UpToDate, Valid, objVars
<1>7. CASE i = index
  BY <1>3, <1>4, <1>6, <1>7, Zenon
<1>8. CASE i # index
  BY <1>5, <1>8 DEF NoLostChange, UpToDate, Valid
<1> QED
  BY <1>7, <1>8

\* A write sets the object's flag for the next MARK pass.
LEMMA ChangeKeepsChange ==
  ASSUME NEW obj \in Objects, NEW value \in Values, COVInv, NoLostChange,
         Change(obj, value)
  PROVE  NoLostChange'
<1>1. ObjectsOK /\ COV_Subscriptions \in Table
  BY COVTypes DEF COVInv, TablesOK
<1>2. \A i \in Entries : COV_Subscriptions[i].request.obj \in Objects
  BY <1>1 DEF Table, COVSubscription, Objects
<1> QED
  BY <1>1, <1>2 DEF Change, ObjectsOK, NoLostChange, UpToDate, Valid, covVars

\* No step loses a change, where each object has one subscription.
LEMMA NoLostChangeStep ==
  ASSUME ObjectsDiffer, COVInv, SubscriberInv, NoLostChange, [Next]_vars
  PROVE  NoLostChange'
<1>1. ASSUME NEW r \in Requests, NEW confirmed \in BOOLEAN, NEW lifetime \in Lifetimes,
             handler_cov_subscribe(r, confirmed, lifetime)
      PROVE  NoLostChange'
  BY <1>1, SubscribeKeepsChange DEF handler_cov_subscribe
<1>2. ASSUME NEW r \in Requests, handler_cov_cancel(r)
      PROVE  NoLostChange'
  BY <1>2, CancelInv, QuietStep, Zenon DEF handler_cov_cancel
<1>3. CASE Idle \/ Skip
  BY <1>3, IdleInv, QuietStep DEF Idle, Skip
<1>4. CASE Mark
  BY <1>4, MarkInv, QuietStep DEF Mark
<1>5. CASE Housekeep
  BY <1>5, HousekeepInv, QuietStep DEF Housekeep
<1>6. ASSUME NEW seconds \in Seconds, handler_cov_timer_seconds(seconds)
      PROVE  NoLostChange'
  BY <1>6, ExpiryInv, QuietStep, Zenon DEF handler_cov_timer_seconds
<1>7. ASSUME NEW milliseconds \in Elapsed, TransactionTimer(milliseconds)
      PROVE  NoLostChange'
  BY <1>7, TransactionTimerInv, QuietStep DEF TransactionTimer
<1>8. ASSUME NEW id \in InvokeIDs, Acknowledge(id)
      PROVE  NoLostChange'
  BY <1>8, AcknowledgeInv, QuietStep DEF Acknowledge
<1>9. CASE Control
  BY <1>9, ControlInv, QuietStep DEF Control
<1>10. CASE UNCHANGED vars
  BY <1>10 DEF vars, covVars, objVars, NoLostChange, UpToDate, Valid
<1> QED
  BY <1>1, <1>2, <1>3, <1>4, <1>5, <1>6, <1>7, <1>8, <1>9, <1>10,
     ClearKeepsChange, NotifyKeepsChange, ChangeKeepsChange
  DEF Next, handler_cov_fsm

(***************************************************************************)
(* A change of value is never forgotten, whatever the main loop does       *)
(* between the MARK, CLEAR, FREE and SEND passes of handler_cov_fsm, as    *)
(* long as no two subscriptions watch the same object.                     *)
(***************************************************************************)
THEOREM ChangesKept ==
  ASSUME ObjectsDiffer
  PROVE  Spec => []NoLostChange
<1>1. RoomForAll \/ IdentifiersDiffer
  BY DEF ObjectsDiffer, IdentifiersDiffer
<1>2. Init => NoLostChange
  BY DEF Init, Unused, NoLostChange, Valid
<1>3. COVInv /\ SubscriberInv /\ NoLostChange /\ [Next]_vars => NoLostChange'
  BY NoLostChangeStep
<1>4. Spec => [](COVInv /\ SubscriberInv)
  BY <1>1, SubscriberInvariant
<1> QED
  BY <1>2, <1>3, <1>4, PTL DEF Spec
=============================================================================
