----------------------------- MODULE COVProofs -----------------------------
(***************************************************************************)
(* Proofs about the COV subscriptions of a server, for any number of       *)
(* subscriptions, addresses, clients, objects, values, slots and invoke    *)
(* IDs.                                                                    *)
(***************************************************************************)
EXTENDS COV, TSMProofs

-----------------------------------------------------------------------------
(***************************************************************************)
(* The address list.  What is said of the two tables is said of values, so *)
(* that the lemmas speak of cov_address_add and cov_address_remove_unused  *)
(* and not of the steps that call them.                                    *)
(***************************************************************************)
AddressList == [AddressSlots -> Sources \cup {NoAddress}]
Table == [Entries -> COVSubscription]

Once(addresses) ==
  \A a, b \in AddressSlots :
    addresses[a] = addresses[b] /\ addresses[a] # NoAddress => a = b

Refers(subscriptions, a) ==
  \E i \in Entries : subscriptions[i].valid /\ subscriptions[i].dest_index = a

Kept(addresses, subscriptions) ==
  \A a \in AddressSlots : addresses[a] # NoAddress <=> Refers(subscriptions, a)

\* Entries and address slots are numbers, and the task begins at entry 0.
LEMMA EntriesAreNat == Entries \subseteq Nat /\ AddressSlots \subseteq Nat /\ 0 \in Entries
BY COVAssumption DEF Entries, AddressSlots

(***************************************************************************)
(* Where cov_address_add puts an address: at the slot that has it, or at a *)
(* free one, or nowhere because every slot has another.                    *)
(***************************************************************************)
LEMMA AddressIndexFacts ==
  ASSUME NEW addresses \in AddressList, NEW src \in Sources,
         NEW k, k = AddressIndex(addresses, src)
  PROVE  \/ /\ k = NoRoom
            /\ \A a \in AddressSlots : addresses[a] \notin {src, NoAddress}
         \/ k \in AddressSlots /\ addresses[k] = src
         \/ /\ k \in AddressSlots /\ addresses[k] = NoAddress
            /\ \A a \in AddressSlots : addresses[a] # src
<1> DEFINE same == {a \in AddressSlots : addresses[a] = src}
           free == {a \in AddressSlots : addresses[a] = NoAddress}
<1>1. k = CASE same # {} -> First(same)
            [] same = {} /\ free # {} -> First(free)
            [] OTHER -> NoRoom
  BY DEF AddressIndex
<1>2. same \in SUBSET Nat /\ free \in SUBSET Nat
  BY EntriesAreNat, Zenon
<1>3. CASE same # {}
  <2>1. First(same) \in same
    BY <1>2, <1>3, FirstIsLeast
  <2>2. k = First(same)
    BY <1>1, <1>3
  <2> QED
    BY <2>1, <2>2
<1>4. CASE same = {} /\ free # {}
  <2>1. First(free) \in free
    BY <1>2, <1>4, FirstIsLeast
  <2>2. k = First(free)
    BY <1>1, <1>4
  <2> QED
    BY <1>4, <2>1, <2>2
<1>5. CASE same = {} /\ free = {}
  BY <1>1, <1>5
<1> QED
  BY <1>3, <1>4, <1>5

\* What cov_address_add returns when the list is full is no slot of it.
LEMMA NoRoomIsNoSlot == NoRoom \notin AddressSlots
BY COVAssumption DEF NoRoom, AddressSlots

(***************************************************************************)
(* cov_address_add changes at most the slot it chose, and never has an     *)
(* address twice.                                                          *)
(***************************************************************************)
LEMMA AddressAdd ==
  ASSUME NEW addresses \in AddressList, NEW src \in Sources, Once(addresses),
         NEW k, k = AddressIndex(addresses, src),
         NEW addresses2, addresses2 = cov_address_add(addresses, src)
  PROVE  /\ addresses2 \in AddressList
         /\ Once(addresses2)
         /\ k \in AddressSlots \cup {NoRoom}
         /\ \A a \in AddressSlots : addresses2[a] = IF a = k THEN src ELSE addresses[a]
         /\ k \in AddressSlots => addresses[k] \in {src, NoAddress}
<1>1. \/ /\ k = NoRoom
         /\ \A a \in AddressSlots : addresses[a] \notin {src, NoAddress}
      \/ k \in AddressSlots /\ addresses[k] = src
      \/ /\ k \in AddressSlots /\ addresses[k] = NoAddress
         /\ \A a \in AddressSlots : addresses[a] # src
  BY AddressIndexFacts
<1>2. addresses2 = IF k = NoRoom THEN addresses ELSE [addresses EXCEPT ![k] = src]
  BY DEF cov_address_add
<1>3. src # NoAddress
  BY COVAssumption
<1>4. addresses2 \in AddressList
  BY <1>1, <1>2 DEF AddressList
<1>5. \A a \in AddressSlots : addresses2[a] = IF a = k THEN src ELSE addresses[a]
  BY <1>1, <1>2, NoRoomIsNoSlot DEF AddressList
<1>6. Once(addresses2)
  BY <1>1, <1>3, <1>5 DEF Once
<1> QED
  BY <1>1, <1>4, <1>5, <1>6, NoRoomIsNoSlot

\* cov_address_add finds an address that is in the list; it gives up only when
\* the list is full of others.
LEMMA AddressHere ==
  ASSUME NEW addresses \in AddressList, NEW src \in Sources, Once(addresses),
         NEW k, k = AddressIndex(addresses, src)
  PROVE  /\ k = NoRoom => \A a \in AddressSlots : addresses[a] \notin {src, NoAddress}
         /\ \A a \in AddressSlots : addresses[a] = src => k = a
<1>1. src # NoAddress
  BY COVAssumption
<1> QED
  BY <1>1, AddressIndexFacts, NoRoomIsNoSlot DEF Once

(***************************************************************************)
(* cov_address_remove_unused keeps what is referred to, when subscriptions *)
(* have gone and none has come or changed its address.                     *)
(***************************************************************************)
LEMMA AddressRemove ==
  ASSUME NEW addresses \in AddressList, NEW subs \in Table, NEW subs2 \in Table,
         Once(addresses), Kept(addresses, subs),
         \A i \in Entries : subs2[i].valid =>
           subs[i].valid /\ subs[i].dest_index = subs2[i].dest_index,
         NEW addresses2, addresses2 = cov_address_remove_unused(addresses, subs2)
  PROVE  /\ addresses2 \in AddressList
         /\ Once(addresses2)
         /\ Kept(addresses2, subs2)
         /\ \A a \in AddressSlots :
              addresses2[a] = IF Refers(subs2, a) THEN addresses[a] ELSE NoAddress
<1>1. \A a \in AddressSlots :
        addresses2[a] = IF Refers(subs2, a) THEN addresses[a] ELSE NoAddress
  BY DEF cov_address_remove_unused, Refers
<1>2. addresses2 \in AddressList
  BY DEF cov_address_remove_unused, AddressList
<1>3. \A a \in AddressSlots : Refers(subs2, a) => Refers(subs, a)
  BY DEF Refers
<1>4. Kept(addresses2, subs2)
  BY <1>1, <1>3 DEF Kept
<1>5. Once(addresses2)
  BY <1>1 DEF Once
<1> QED
  BY <1>1, <1>2, <1>4, <1>5

-----------------------------------------------------------------------------
(***************************************************************************)
(* The inductive invariant.  TransactionsOwned needs UniqueInvokeIDs: a    *)
(* free by a subscription clears every slot that has its ID only if no two *)
(* have it.  AddressesReferenced is Kept and Once, with the types.         *)
(***************************************************************************)
COVInv ==
  /\ COVTypeOK
  /\ UniqueInvokeIDs
  /\ TransactionsOwned
  /\ Once(COV_Addresses)
  /\ Kept(COV_Addresses, COV_Subscriptions)

\* The parts of the state that h_cov.c has, and the rest of COVTypeOK.
TablesOK ==
  /\ COV_Subscriptions \in Table
  /\ COV_Addresses \in AddressList

TaskOK ==
  /\ index \in Entries
  /\ cov_task_state \in {"IDLE", "MARK", "CLEAR", "FREE", "SEND"}

ObjectsOK ==
  /\ Present_Value \in [Objects -> Values]
  /\ Change_Of_Value \in [Objects -> BOOLEAN]
  /\ changes \in 0 .. MaxChanges
  /\ notified \in [Entries -> Values \cup {None}]

\* The type invariant by tables, the form the steps below use.
LEMMA COVTypes ==
  COVTypeOK <=> TSMTypeOK /\ DCCTypeOK /\ TablesOK /\ TaskOK /\ ObjectsOK
BY DEF COVTypeOK, TablesOK, TaskOK, ObjectsOK, Table, AddressList

\* The same of the next state.
LEMMA COVTypesNext ==
  TSMTypeOK' /\ DCCTypeOK' /\ TablesOK' /\ TaskOK' /\ ObjectsOK' => COVTypeOK'
BY DEF COVTypeOK, TablesOK, TaskOK, ObjectsOK, Table, AddressList

\* handler_cov_init writes entries of the table's type.
LEMMA UnusedIsEntry == Unused \in COVSubscription
<1>1. (CHOOSE r \in Requests : TRUE) \in Requests
  BY COVAssumption
<1> QED
  BY <1>1, COVAssumption DEF Unused, COVSubscription

\* The invariant holds after handler_cov_init.
LEMMA COVInitInv == Init => COVInv
<1> SUFFICES ASSUME Init
             PROVE  COVInv
  OBVIOUS
<1>1. TSMTypeOK /\ UniqueInvokeIDs
  BY InitInv DEF Init, TSMInv
<1>2. DCCTypeOK
  BY DEF Init, DCCInit, DCCTypeOK, CommunicationStates
<1>3. TablesOK
  BY UnusedIsEntry DEF Init, TablesOK, Table, AddressList
<1>4. TaskOK
  BY EntriesAreNat DEF Init, TaskOK
<1>5. ObjectsOK
  BY COVAssumption DEF Init, ObjectsOK
<1>6. \A i \in Entries : /\ ~ COV_Subscriptions[i].valid
                         /\ COV_Subscriptions[i].invokeID = 0
  BY DEF Init, Unused
<1>7. \A i \in Slots : TSM_List[i].InvokeID = 0
  BY DEF Init, TSMInit, Inited, FreeSlot
<1>8. TransactionsOwned
  BY <1>6, <1>7 DEF TransactionsOwned
<1>9. Once(COV_Addresses) /\ Kept(COV_Addresses, COV_Subscriptions)
  BY <1>6 DEF Init, Once, Kept, Refers
<1> QED
  BY <1>1, <1>2, <1>3, <1>4, <1>5, <1>8, <1>9, COVTypes DEF COVInv

-----------------------------------------------------------------------------
(***************************************************************************)
(* Facts that several actions need.                                        *)
(***************************************************************************)

\* The first entry that matches is one that matches.
LEMMA FirstEntry ==
  ASSUME NEW S \in SUBSET Entries, S # {}
  PROVE  First(S) \in S
<1>1. S \in SUBSET Nat
  BY EntriesAreNat
<1> QED
  BY <1>1, FirstIsLeast

\* handler_cov_fsm goes round the table.
LEMMA AdvanceTask ==
  ASSUME TaskOK, NEW next \in {"IDLE", "MARK", "CLEAR", "FREE", "SEND"}, Advance(next)
  PROVE  TaskOK'
<1>1. (index + 1) % MAX_COV_SUBCRIPTIONS \in Entries
  BY COVAssumption DEF TaskOK, Entries
<1> QED
  BY <1>1 DEF TaskOK, Advance

\* A step that is neither the task's nor dcc.c's keeps their types.
LEMMA ControlAndTask ==
  ASSUME COVInv
  PROVE  /\ UNCHANGED dccVars => DCCTypeOK'
         /\ UNCHANGED fsmVars => TaskOK'
         /\ UNCHANGED objVars /\ UNCHANGED notified => ObjectsOK'
<1>1. DCCTypeOK /\ TaskOK /\ ObjectsOK
  BY COVTypes DEF COVInv
<1>2. UNCHANGED dccVars => DCCTypeOK'
  BY <1>1 DEF DCCTypeOK, dccVars
<1>3. UNCHANGED fsmVars => TaskOK'
  BY <1>1 DEF TaskOK, fsmVars
<1>4. UNCHANGED objVars /\ UNCHANGED notified => ObjectsOK'
  BY <1>1 DEF ObjectsOK, objVars
<1> QED
  BY <1>2, <1>3, <1>4

\* A step that changes no entry's validity or address leaves the address list
\* in order.
SameEntries ==
  /\ COV_Addresses' = COV_Addresses
  /\ \A i \in Entries :
       /\ COV_Subscriptions'[i].valid = COV_Subscriptions[i].valid
       /\ COV_Subscriptions'[i].confirmed = COV_Subscriptions[i].confirmed
       /\ COV_Subscriptions'[i].dest_index = COV_Subscriptions[i].dest_index
       /\ COV_Subscriptions'[i].request = COV_Subscriptions[i].request

\* A step that leaves the two tables leaves what relates them.
LEMMA SameAddresses ==
  ASSUME COVInv, SameEntries
  PROVE  Once(COV_Addresses)' /\ Kept(COV_Addresses, COV_Subscriptions)'
BY DEF COVInv, SameEntries, Once, Kept, Refers

\* The TSM gives back the transaction that entry i remembers, if any.
FreesTransaction(i) ==
  TSM_List' = IF COV_Subscriptions[i].invokeID # 0
                THEN tsm_free_invoke_id(TSM_List, COV_Subscriptions[i].invokeID)
                ELSE TSM_List

\* After tsm_free_invoke_id for entry i no slot has the ID that i remembered.
LEMMA FreesTransactionOf ==
  ASSUME COVInv, NEW i \in Entries, FreesTransaction(i), UNCHANGED Current_Invoke_ID
  PROVE  /\ TSMTypeOK' /\ UniqueInvokeIDs'
         /\ \A s \in Slots : TSM_List'[s].InvokeID # 0 =>
              /\ TSM_List'[s].InvokeID = TSM_List[s].InvokeID
              /\ TSM_List[s].InvokeID # COV_Subscriptions[i].invokeID
<1> DEFINE id == COV_Subscriptions[i].invokeID
<1>1. /\ TSM_List \in [Slots -> BACNET_TSM_DATA]
      /\ Current_Invoke_ID \in InvokeIDs
      /\ UniqueIn(TSM_List)
  BY DEF COVInv, COVTypeOK, TSMTypeOK, UniqueInvokeIDs, UniqueIn
<1>2. CASE id = 0
  BY <1>1, <1>2 DEF FreesTransaction, COVInv, TSMTypeOK, UniqueInvokeIDs
<1>3. CASE id # 0
  <2>1. TSM_List' = tsm_free_invoke_id(TSM_List, id)
    BY <1>3 DEF FreesTransaction
  <2> HIDE DEF id
  <2>2. /\ TSM_List' \in [Slots -> BACNET_TSM_DATA]
        /\ \A s \in Slots :
             IF TSM_List[s].InvokeID = id
               THEN TSM_List'[s].InvokeID = 0 /\ TSM_List'[s].state = "IDLE"
               ELSE TSM_List'[s] = TSM_List[s]
    BY <1>1, <1>3, <2>1, FreeClearsID
  <2>3. UniqueInvokeIDs'
    BY <1>1, <2>2 DEF UniqueInvokeIDs, UniqueIn
  <2> QED
    BY <1>1, <2>2, <2>3 DEF TSMTypeOK, id
<1> QED
  BY <1>2, <1>3

\* When entry i forgets its transaction and the TSM frees it, the others keep
\* theirs.
LEMMA ForgetsTransaction ==
  ASSUME COVInv, NEW i \in Entries, COV_Subscriptions'[i].invokeID = 0,
         \A j \in Entries \ {i} : COV_Subscriptions'[j] = COV_Subscriptions[j],
         \A s \in Slots : TSM_List'[s].InvokeID # 0 =>
           /\ TSM_List'[s].InvokeID = TSM_List[s].InvokeID
           /\ TSM_List[s].InvokeID # COV_Subscriptions[i].invokeID
  PROVE  TransactionsOwned'
<1>1. ASSUME NEW s \in Slots, TSM_List'[s].InvokeID # 0
      PROVE  \E j \in Entries : /\ COV_Subscriptions'[j].valid
                                /\ COV_Subscriptions'[j].invokeID = TSM_List'[s].InvokeID
  <2>1. PICK j \in Valid : COV_Subscriptions[j].invokeID = TSM_List[s].InvokeID
    BY <1>1 DEF COVInv, TransactionsOwned
  <2>2. j \in Entries /\ j # i
    BY <1>1, <2>1 DEF Valid
  <2> QED
    BY <1>1, <2>1, <2>2 DEF Valid
<1>2. ASSUME NEW j \in Entries, COV_Subscriptions'[j].invokeID # 0
      PROVE  COV_Subscriptions'[j].valid /\ COV_Subscriptions'[j].confirmed
  BY <1>2 DEF COVInv, TransactionsOwned
<1> QED
  BY <1>1, <1>2 DEF TransactionsOwned, Valid

-----------------------------------------------------------------------------
(***************************************************************************)
(* SubscribeCOV.                                                           *)
(***************************************************************************)
\* What cov_list_subscribe makes of the tables when it finds entry i for the
\* request, or takes it, and has its address at k.
Entered(r, i, k) ==
  /\ k \in AddressSlots \cup {NoRoom}
  /\ k \in AddressSlots => COV_Addresses[k] \in {r.src, NoAddress}
  /\ k = NoRoom => \A a \in AddressSlots : COV_Addresses[a] \notin {r.src, NoAddress}
  /\ \A a \in AddressSlots : COV_Addresses[a] = r.src => k = a
  /\ TablesOK' /\ Once(COV_Addresses')
  /\ \A a \in AddressSlots :
       COV_Addresses'[a] = IF a = k THEN r.src ELSE COV_Addresses[a]
  /\ COV_Subscriptions'[i].valid
  /\ COV_Subscriptions'[i].dest_index = k
  /\ COV_Subscriptions'[i].invokeID = 0
  /\ COV_Subscriptions'[i].send_requested
  /\ \A j \in Entries \ {i} : COV_Subscriptions'[j] = COV_Subscriptions[j]

\* cov_list_subscribe on a subscription that is there already.
LEMMA RenewEffect ==
  ASSUME NEW r \in Requests, NEW confirmed \in BOOLEAN, NEW lifetime \in Lifetimes,
         COVInv, Renew(r, confirmed, lifetime)
  PROVE  \E i \in Entries, k \in AddressSlots \cup {NoRoom} :
           /\ Matches(i, r) /\ Entered(r, i, k) /\ FreesTransaction(i)
           /\ COV_Subscriptions'[i].request = COV_Subscriptions[i].request
<1> DEFINE i == First(Existing(r))
           k == AddressIndex(COV_Addresses, r.src)
           e == [COV_Subscriptions[i] EXCEPT !.dest_index = k,
                                             !.confirmed = confirmed,
                                             !.lifetime = lifetime,
                                             !.send_requested = TRUE,
                                             !.invokeID = 0]
<1>1. /\ COV_Subscriptions \in Table /\ COV_Addresses \in AddressList
      /\ Once(COV_Addresses)
      /\ r.src \in Sources /\ lifetime \in Nat
  BY COVTypes, COVAssumption DEF COVInv, TablesOK, Sources
<1>2. i \in Entries /\ Matches(i, r)
  <2>1. Existing(r) \in SUBSET Entries /\ Existing(r) # {}
    BY DEF Existing, Renew
  <2> QED
    BY <2>1, FirstEntry DEF Existing
<1>3. /\ COV_Addresses' = cov_address_add(COV_Addresses, r.src)
      /\ COV_Subscriptions' = [COV_Subscriptions EXCEPT ![i] = e]
      /\ FreesTransaction(i)
  BY DEF Renew, FreesTransaction
<1>4. /\ COV_Addresses' \in AddressList
      /\ Once(COV_Addresses')
      /\ k \in AddressSlots \cup {NoRoom}
      /\ \A a \in AddressSlots :
           COV_Addresses'[a] = IF a = k THEN r.src ELSE COV_Addresses[a]
      /\ k \in AddressSlots => COV_Addresses[k] \in {r.src, NoAddress}
  BY <1>1, <1>3, AddressAdd
<1>5. /\ k = NoRoom => \A a \in AddressSlots : COV_Addresses[a] \notin {r.src, NoAddress}
      /\ \A a \in AddressSlots : COV_Addresses[a] = r.src => k = a
  BY <1>1, AddressHere
<1> HIDE DEF i, k
<1>6. /\ e \in COVSubscription
      /\ e.valid /\ e.dest_index = k /\ e.invokeID = 0 /\ e.send_requested
      /\ e.request = COV_Subscriptions[i].request
  <2>1. COV_Subscriptions[i] \in COVSubscription /\ COV_Subscriptions[i].valid
    BY <1>1, <1>2 DEF Table, Matches
  <2> QED
    BY <1>1, <1>4, <2>1, Zenon DEF COVSubscription
<1> HIDE DEF e
<1>7. /\ COV_Subscriptions' \in Table
      /\ COV_Subscriptions'[i] = e
      /\ \A j \in Entries \ {i} : COV_Subscriptions'[j] = COV_Subscriptions[j]
  BY <1>1, <1>2, <1>3, <1>6 DEF Table
<1>8. Entered(r, i, k)
  BY <1>4, <1>5, <1>6, <1>7 DEF Entered, TablesOK
<1> QED
  BY <1>2, <1>3, <1>4, <1>6, <1>7, <1>8

\* cov_list_subscribe on a new subscription.
LEMMA AddEffect ==
  ASSUME NEW r \in Requests, NEW confirmed \in BOOLEAN, NEW lifetime \in Lifetimes,
         COVInv, Add(r, confirmed, lifetime)
  PROVE  \E i \in Entries, k \in AddressSlots \cup {NoRoom} :
           /\ ~ COV_Subscriptions[i].valid /\ Entered(r, i, k)
           /\ COV_Subscriptions'[i].request = r
           /\ notified' = [notified EXCEPT ![i] = None]
<1> DEFINE i == First(Invalid)
           k == AddressIndex(COV_Addresses, r.src)
           e == [valid |-> TRUE, confirmed |-> confirmed, send_requested |-> TRUE,
                 dest_index |-> k, invokeID |-> 0, lifetime |-> lifetime, request |-> r]
<1>1. /\ COV_Subscriptions \in Table /\ COV_Addresses \in AddressList
      /\ Once(COV_Addresses)
      /\ r.src \in Sources /\ lifetime \in Nat
  BY COVTypes, COVAssumption DEF COVInv, TablesOK, Sources
<1>2. i \in Entries /\ ~ COV_Subscriptions[i].valid
  <2>1. Invalid \in SUBSET Entries /\ Invalid # {}
    BY DEF Invalid, Add
  <2> QED
    BY <2>1, FirstEntry DEF Invalid
<1>3. /\ COV_Addresses' = cov_address_add(COV_Addresses, r.src)
      /\ COV_Subscriptions' = [COV_Subscriptions EXCEPT ![i] = e]
      /\ notified' = [notified EXCEPT ![i] = None]
  BY DEF Add
<1>4. /\ COV_Addresses' \in AddressList
      /\ Once(COV_Addresses')
      /\ k \in AddressSlots \cup {NoRoom}
      /\ \A a \in AddressSlots :
           COV_Addresses'[a] = IF a = k THEN r.src ELSE COV_Addresses[a]
      /\ k \in AddressSlots => COV_Addresses[k] \in {r.src, NoAddress}
  BY <1>1, <1>3, AddressAdd
<1>5. /\ k = NoRoom => \A a \in AddressSlots : COV_Addresses[a] \notin {r.src, NoAddress}
      /\ \A a \in AddressSlots : COV_Addresses[a] = r.src => k = a
  BY <1>1, AddressHere
<1> HIDE DEF i, k
<1>6. /\ e \in COVSubscription
      /\ e.valid /\ e.dest_index = k /\ e.invokeID = 0 /\ e.send_requested
      /\ e.request = r
  BY <1>1, <1>4 DEF COVSubscription
<1> HIDE DEF e
<1>7. /\ COV_Subscriptions' \in Table
      /\ COV_Subscriptions'[i] = e
      /\ \A j \in Entries \ {i} : COV_Subscriptions'[j] = COV_Subscriptions[j]
  BY <1>1, <1>2, <1>3, <1>6 DEF Table
<1>8. Entered(r, i, k)
  BY <1>4, <1>5, <1>6, <1>7 DEF Entered, TablesOK
<1> QED
  BY <1>2, <1>3, <1>4, <1>6, <1>7, <1>8, Zenon

\* The address list stays in order when an entry that had no address, or the
\* one it gets, is entered.
LEMMA EnteredKept ==
  ASSUME NEW r \in Requests, NEW i \in Entries, NEW k, COVInv, Entered(r, i, k),
         \/ ~ COV_Subscriptions[i].valid
         \/ Matches(i, r)
  PROVE  Kept(COV_Addresses, COV_Subscriptions)'
<1> SUFFICES ASSUME NEW a \in AddressSlots
             PROVE  COV_Addresses'[a] # NoAddress <=> Refers(COV_Subscriptions', a)
  BY DEF Kept
<1>1. r.src # NoAddress
  BY COVAssumption DEF Sources
<1>2. CASE a = k
  BY <1>1, <1>2 DEF Entered, Refers
<1>3. CASE a # k
  <2>1. ~ (COV_Subscriptions[i].valid /\ COV_Subscriptions[i].dest_index = a)
    <3> SUFFICES ASSUME COV_Subscriptions[i].valid, COV_Subscriptions[i].dest_index = a
                 PROVE  FALSE
      OBVIOUS
    <3>1. COV_Addresses[a] # NoAddress
      BY DEF COVInv, Kept, Refers
    <3>2. COV_Addresses[a] = r.src
      BY <3>1 DEF Matches, cov_address_get
    <3> QED
      BY <1>3, <3>2 DEF Entered
  <2>2. Refers(COV_Subscriptions', a) <=> Refers(COV_Subscriptions, a)
    BY <1>3, <2>1 DEF Entered, Refers
  <2> QED
    BY <1>3, <2>2 DEF Entered, COVInv, Kept
<1> QED
  BY <1>2, <1>3

\* handler_cov_subscribe keeps the invariant, also when the table is full.
LEMMA SubscribeInv ==
  ASSUME NEW r \in Requests, NEW confirmed \in BOOLEAN, NEW lifetime \in Lifetimes,
         COVInv, handler_cov_subscribe(r, confirmed, lifetime)
  PROVE  COVInv'
<1>1. UNCHANGED <<Current_Invoke_ID, dccVars, fsmVars, objVars>>
  BY DEF handler_cov_subscribe
<1>2. CASE Renew(r, confirmed, lifetime)
  <2>1. PICK i \in Entries, k \in AddressSlots \cup {NoRoom} :
          Matches(i, r) /\ Entered(r, i, k) /\ FreesTransaction(i)
    BY <1>2, RenewEffect
  <2>2. /\ TSMTypeOK' /\ UniqueInvokeIDs'
        /\ \A s \in Slots : TSM_List'[s].InvokeID # 0 =>
             /\ TSM_List'[s].InvokeID = TSM_List[s].InvokeID
             /\ TSM_List[s].InvokeID # COV_Subscriptions[i].invokeID
    BY <1>1, <2>1, FreesTransactionOf
  <2>3. COVTypeOK'
    BY <1>1, <1>2, <2>1, <2>2, ControlAndTask, COVTypesNext DEF Entered, Renew
  <2>4. TransactionsOwned'
    BY <2>1, <2>2, ForgetsTransaction, Zenon DEF Entered
  <2>5. Kept(COV_Addresses, COV_Subscriptions)'
    BY <2>1, EnteredKept
  <2> QED
    BY <2>1, <2>2, <2>3, <2>4, <2>5 DEF COVInv, Entered
<1>3. CASE Add(r, confirmed, lifetime)
  <2>1. PICK i \in Entries, k \in AddressSlots \cup {NoRoom} :
          /\ ~ COV_Subscriptions[i].valid /\ Entered(r, i, k)
          /\ notified' = [notified EXCEPT ![i] = None]
    BY <1>3, AddEffect
  <2>2. TSMTypeOK' /\ UniqueInvokeIDs' /\ TSM_List' = TSM_List
    BY <1>1, <1>3 DEF Add, COVInv, COVTypeOK, TSMTypeOK, UniqueInvokeIDs
  <2>3. ObjectsOK'
    BY <1>1, <2>1, COVTypes DEF COVInv, ObjectsOK, objVars
  <2>4. COVTypeOK'
    BY <1>1, <2>1, <2>2, <2>3, ControlAndTask, COVTypesNext DEF Entered
  <2>5. COV_Subscriptions[i].invokeID = 0
    BY <2>1 DEF COVInv, TransactionsOwned
  <2>6. TransactionsOwned'
    BY <2>1, <2>2, <2>5, ForgetsTransaction DEF Entered
  <2>7. Kept(COV_Addresses, COV_Subscriptions)'
    BY <2>1, EnteredKept
  <2> QED
    BY <2>1, <2>2, <2>4, <2>6, <2>7 DEF COVInv, Entered
<1> QED
  BY <1>2, <1>3 DEF handler_cov_subscribe

-----------------------------------------------------------------------------
(***************************************************************************)
(* Every other step keeps the request and the address of the subscriptions *)
(* that stay, and adds no address.                                         *)
(***************************************************************************)
Thinned ==
  /\ \A i \in Entries : COV_Subscriptions'[i].valid =>
       /\ COV_Subscriptions[i].valid
       /\ COV_Subscriptions'[i].dest_index = COV_Subscriptions[i].dest_index
       /\ COV_Subscriptions'[i].request = COV_Subscriptions[i].request
  /\ \A a \in AddressSlots : COV_Addresses'[a] \in {COV_Addresses[a], NoAddress}

\* A step other than a notification forgets no requested notification of a
\* subscription that stays.
KeepsRequests ==
  \A i \in Entries :
    COV_Subscriptions'[i].valid /\ COV_Subscriptions[i].send_requested
      => COV_Subscriptions'[i].send_requested

\* In particular a step that leaves the tables.
LEMMA SameThinned == SameEntries => Thinned
BY DEF SameEntries, Thinned

\* cov_address_remove_unused drops only addresses no subscription refers to.
LEMMA RemoveThinned ==
  ASSUME COVInv, COV_Subscriptions' \in Table,
         \A i \in Entries : COV_Subscriptions'[i].valid =>
           /\ COV_Subscriptions[i].valid
           /\ COV_Subscriptions'[i].dest_index = COV_Subscriptions[i].dest_index
           /\ COV_Subscriptions'[i].request = COV_Subscriptions[i].request,
         COV_Addresses' = cov_address_remove_unused(COV_Addresses, COV_Subscriptions')
  PROVE  /\ Thinned /\ TablesOK' /\ Once(COV_Addresses)'
         /\ Kept(COV_Addresses, COV_Subscriptions)'
<1>1. /\ COV_Addresses \in AddressList /\ COV_Subscriptions \in Table
      /\ Once(COV_Addresses) /\ Kept(COV_Addresses, COV_Subscriptions)
  BY COVTypes DEF COVInv, TablesOK
<1>2. /\ COV_Addresses' \in AddressList
      /\ Once(COV_Addresses')
      /\ Kept(COV_Addresses', COV_Subscriptions')
      /\ \A a \in AddressSlots :
           COV_Addresses'[a] = IF Refers(COV_Subscriptions', a) THEN COV_Addresses[a]
                                                                ELSE NoAddress
  BY <1>1, AddressRemove
<1> QED
  BY <1>2 DEF Thinned, TablesOK, Once, Kept, Refers

\* A cancellation gives back the transaction and keeps the invariant.
LEMMA CancelInv ==
  ASSUME NEW r \in Requests, COVInv, handler_cov_cancel(r)
  PROVE  COVInv' /\ Thinned /\ KeepsRequests
<1> DEFINE i == First(Existing(r))
           e == [Invalidated(COV_Subscriptions[i]) EXCEPT !.invokeID = 0]
<1>1. COV_Subscriptions \in Table
  BY COVTypes DEF COVInv, TablesOK
<1>2. i \in Entries
  <2>1. Existing(r) \in SUBSET Entries /\ Existing(r) # {}
    BY DEF Existing, handler_cov_cancel
  <2> QED
    BY <2>1, FirstEntry DEF Existing
<1>3. /\ COV_Subscriptions' = [COV_Subscriptions EXCEPT ![i] = e]
      /\ COV_Addresses' = cov_address_remove_unused(COV_Addresses, COV_Subscriptions')
      /\ FreesTransaction(i)
      /\ UNCHANGED <<Current_Invoke_ID, dccVars, fsmVars, objVars, notified>>
  BY DEF handler_cov_cancel, FreesTransaction
<1> HIDE DEF i
<1>4. e \in COVSubscription /\ ~ e.valid /\ e.invokeID = 0
  BY <1>2, UnusedIsEntry, Zenon DEF Invalidated, COVSubscription, Unused
<1> HIDE DEF e
<1>5. /\ COV_Subscriptions' \in Table
      /\ COV_Subscriptions'[i] = e
      /\ \A j \in Entries \ {i} : COV_Subscriptions'[j] = COV_Subscriptions[j]
  BY <1>1, <1>2, <1>3, <1>4 DEF Table
<1>6. /\ Thinned /\ TablesOK' /\ Once(COV_Addresses)'
      /\ Kept(COV_Addresses, COV_Subscriptions)'
  BY <1>3, <1>4, <1>5, RemoveThinned
<1>7. /\ TSMTypeOK' /\ UniqueInvokeIDs'
      /\ \A s \in Slots : TSM_List'[s].InvokeID # 0 =>
           /\ TSM_List'[s].InvokeID = TSM_List[s].InvokeID
           /\ TSM_List[s].InvokeID # COV_Subscriptions[i].invokeID
  BY <1>2, <1>3, FreesTransactionOf
<1>8. TransactionsOwned'
  BY <1>2, <1>4, <1>5, <1>7, ForgetsTransaction
<1>9. COVTypeOK'
  BY <1>3, <1>6, <1>7, ControlAndTask, COVTypesNext
<1>10. KeepsRequests
  BY <1>4, <1>5 DEF KeepsRequests
<1> QED
  BY <1>6, <1>7, <1>8, <1>9, <1>10 DEF COVInv

-----------------------------------------------------------------------------
(***************************************************************************)
(* The task.                                                               *)
(***************************************************************************)

\* Of the passes over the table that change one field of the entry at index.
LEMMA EntryChange ==
  ASSUME COVInv, NEW e \in COVSubscription,
         COV_Subscriptions' = [COV_Subscriptions EXCEPT ![index] = e],
         COV_Addresses' = COV_Addresses,
         e.valid = COV_Subscriptions[index].valid,
         e.confirmed = COV_Subscriptions[index].confirmed,
         e.dest_index = COV_Subscriptions[index].dest_index,
         e.request = COV_Subscriptions[index].request
  PROVE  /\ index \in Entries
         /\ TablesOK' /\ SameEntries
         /\ COV_Subscriptions'[index] = e
         /\ \A j \in Entries \ {index} : COV_Subscriptions'[j] = COV_Subscriptions[j]
<1>1. /\ COV_Subscriptions \in Table /\ COV_Addresses \in AddressList
      /\ index \in Entries
  BY COVTypes DEF COVInv, TablesOK, TaskOK
<1>2. /\ COV_Subscriptions' \in Table
      /\ COV_Subscriptions'[index] = e
      /\ \A j \in Entries \ {index} : COV_Subscriptions'[j] = COV_Subscriptions[j]
  BY <1>1 DEF Table
<1> QED
  BY <1>1, <1>2 DEF TablesOK, SameEntries

\* COV_STATE_MARK keeps the invariant.
LEMMA MarkInv ==
  ASSUME COVInv, Mark
  PROVE  COVInv' /\ Thinned /\ KeepsRequests
<1> DEFINE flag == /\ COV_Subscriptions[index].valid
                   /\ Change_Of_Value[COV_Subscriptions[index].request.obj]
           requested == COV_Subscriptions[index].send_requested \/ flag
           e == [COV_Subscriptions[index] EXCEPT !.send_requested = requested]
<1>1. COV_Subscriptions \in Table /\ index \in Entries /\ TaskOK
  BY COVTypes DEF COVInv, TablesOK, TaskOK
<1>2. COV_Subscriptions[index] \in COVSubscription
  BY <1>1 DEF Table
<1>3. /\ COV_Subscriptions' = [COV_Subscriptions EXCEPT ![index] = e]
      /\ Advance("CLEAR")
      /\ UNCHANGED <<tsmVars, dccVars, COV_Addresses, objVars, notified>>
  BY <1>1 DEF Mark, Table
<1>4. requested \in BOOLEAN /\ (COV_Subscriptions[index].send_requested => requested)
  BY <1>2 DEF COVSubscription
<1> HIDE DEF requested
<1>5. /\ e \in COVSubscription
      /\ e.valid = COV_Subscriptions[index].valid
      /\ e.confirmed = COV_Subscriptions[index].confirmed
      /\ e.dest_index = COV_Subscriptions[index].dest_index
      /\ e.request = COV_Subscriptions[index].request
      /\ e.invokeID = COV_Subscriptions[index].invokeID
      /\ e.send_requested = requested
  BY <1>2, <1>4 DEF COVSubscription
<1> HIDE DEF e
<1>6. /\ TablesOK' /\ SameEntries
      /\ COV_Subscriptions'[index] = e
      /\ \A j \in Entries \ {index} : COV_Subscriptions'[j] = COV_Subscriptions[j]
  BY <1>3, <1>5, EntryChange, Zenon
<1>7. TSMTypeOK' /\ UniqueInvokeIDs' /\ TSM_List' = TSM_List
  BY <1>3 DEF COVInv, COVTypeOK, TSMTypeOK, UniqueInvokeIDs, tsmVars
<1>8. \A i \in Entries : COV_Subscriptions'[i].invokeID = COV_Subscriptions[i].invokeID
  BY <1>5, <1>6
<1>9. TransactionsOwned'
  BY <1>6, <1>7, <1>8 DEF COVInv, TransactionsOwned, SameEntries, Valid
<1>10. COVTypeOK'
  BY <1>1, <1>3, <1>6, <1>7, AdvanceTask, ControlAndTask, COVTypesNext
<1>11. KeepsRequests
  BY <1>4, <1>5, <1>6 DEF KeepsRequests
<1> QED
  BY <1>6, <1>7, <1>9, <1>10, <1>11, SameAddresses, SameThinned DEF COVInv

\* COV_STATE_CLEAR keeps the invariant.
LEMMA ClearInv ==
  ASSUME COVInv, Clear
  PROVE  COVInv' /\ Thinned
<1>1. COV_Subscriptions \in Table /\ index \in Entries /\ TaskOK
  BY COVTypes DEF COVInv, TablesOK, TaskOK
<1>2. /\ Advance("FREE")
      /\ UNCHANGED <<tsmVars, dccVars, covVars, Present_Value, changes, notified>>
  BY DEF Clear
<1>3. ObjectsOK'
  <2>1. ObjectsOK
    BY COVTypes DEF COVInv
  <2> DEFINE o == COV_Subscriptions[index].request.obj
             b == Change_Of_Value[o] /\ ~ (/\ COV_Subscriptions[index].valid
                                           /\ COV_Subscriptions[index].send_requested)
  <2>2. Change_Of_Value' = [Change_Of_Value EXCEPT ![o] = b]
    BY <2>1 DEF Clear, ObjectsOK
  <2>3. o \in Objects
    BY <1>1 DEF Table, COVSubscription, Objects
  <2>4. b \in BOOLEAN
    OBVIOUS
  <2> HIDE DEF o, b
  <2> QED
    BY <1>2, <2>1, <2>2, <2>3, <2>4 DEF ObjectsOK
<1>4. TSMTypeOK' /\ UniqueInvokeIDs' /\ TransactionsOwned'
  BY <1>2 DEF COVInv, COVTypeOK, TSMTypeOK, UniqueInvokeIDs, TransactionsOwned, Valid,
              tsmVars, covVars
<1>5. TablesOK' /\ SameEntries
  BY <1>2, COVTypes DEF COVInv, TablesOK, SameEntries, covVars
<1>6. COVTypeOK'
  BY <1>1, <1>2, <1>3, <1>4, <1>5, AdvanceTask, ControlAndTask, COVTypesNext
<1> QED
  BY <1>4, <1>5, <1>6, SameAddresses, SameThinned DEF COVInv

\* COV_STATE_FREE frees a transaction that failed, and forgets its ID or that of
\* one that is over.
LEMMA HousekeepInv ==
  ASSUME COVInv, Housekeep
  PROVE  COVInv' /\ Thinned /\ KeepsRequests
<1> DEFINE sub == COV_Subscriptions[index]
           e == [sub EXCEPT !.invokeID = 0]
<1>1. COV_Subscriptions \in Table /\ index \in Entries /\ TaskOK
  BY COVTypes DEF COVInv, TablesOK, TaskOK
<1>2. sub \in COVSubscription
  BY <1>1 DEF Table
<1>3. /\ Advance("SEND")
      /\ UNCHANGED <<Current_Invoke_ID, dccVars, COV_Addresses, objVars, notified>>
  BY DEF Housekeep
<1>4. TaskOK' /\ DCCTypeOK' /\ ObjectsOK'
  BY <1>1, <1>3, AdvanceTask, ControlAndTask
<1>5. CASE ~ Over(sub)
  <2>1. UNCHANGED <<TSM_List, COV_Subscriptions>>
    BY <1>5 DEF Housekeep
  <2>2. TSMTypeOK' /\ UniqueInvokeIDs' /\ TransactionsOwned'
    BY <1>3, <2>1 DEF COVInv, COVTypeOK, TSMTypeOK, UniqueInvokeIDs, TransactionsOwned,
                      Valid
  <2>3. TablesOK' /\ SameEntries /\ KeepsRequests
    BY <1>3, <2>1, COVTypes DEF COVInv, TablesOK, SameEntries, KeepsRequests
  <2> QED
    BY <1>4, <2>2, <2>3, COVTypesNext, SameAddresses, SameThinned DEF COVInv
<1>6. CASE Over(sub)
  <2>1. COV_Subscriptions' = [COV_Subscriptions EXCEPT ![index] = e]
    BY <1>1, <1>6 DEF Housekeep, Table
  <2>2. /\ e \in COVSubscription
        /\ e.valid = sub.valid /\ e.confirmed = sub.confirmed
        /\ e.dest_index = sub.dest_index /\ e.request = sub.request
        /\ e.invokeID = 0 /\ e.send_requested = sub.send_requested
    BY <1>2 DEF COVSubscription
  <2> HIDE DEF e
  <2>3. /\ TablesOK' /\ SameEntries
        /\ COV_Subscriptions'[index] = e
        /\ \A j \in Entries \ {index} : COV_Subscriptions'[j] = COV_Subscriptions[j]
    BY <1>3, <2>1, <2>2, EntryChange, Zenon
  <2>4. /\ TSMTypeOK' /\ UniqueInvokeIDs'
        /\ \A s \in Slots : TSM_List'[s].InvokeID # 0 =>
             /\ TSM_List'[s].InvokeID = TSM_List[s].InvokeID
             /\ TSM_List[s].InvokeID # sub.invokeID
    <3>1. CASE tsm_invoke_id_failed(TSM_List, sub.invokeID)
      <4>1. FreesTransaction(index)
        BY <1>6, <3>1 DEF Housekeep, FreesTransaction, Over
      <4> QED
        BY <1>1, <1>3, <4>1, FreesTransactionOf
    <3>2. CASE ~ tsm_invoke_id_failed(TSM_List, sub.invokeID)
      <4>1. TSM_List' = TSM_List
        BY <3>2 DEF Housekeep
      <4>2. \A s \in Slots : TSM_List[s].InvokeID # sub.invokeID
        BY <1>6, <3>2 DEF Over, tsm_invoke_id_free, Holders
      <4> QED
        BY <1>3, <4>1, <4>2 DEF COVInv, COVTypeOK, TSMTypeOK, UniqueInvokeIDs
    <3> QED
      BY <3>1, <3>2
  <2>5. TransactionsOwned'
    BY <1>1, <2>2, <2>3, <2>4, ForgetsTransaction
  <2>6. KeepsRequests
    BY <2>2, <2>3 DEF KeepsRequests
  <2> QED
    BY <1>4, <2>3, <2>4, <2>5, <2>6, COVTypesNext, SameAddresses, SameThinned DEF COVInv
<1> QED
  BY <1>5, <1>6

\* A confirmed notification takes a slot of the TSM, and the entry, which had
\* no transaction, remembers its ID.
LEMMA NotifyInv ==
  ASSUME NEW sent \in BOOLEAN, COVInv, Notify(sent)
  PROVE  COVInv' /\ Thinned
<1> DEFINE sub == COV_Subscriptions[index]
           value == Present_Value[sub.request.obj]
           id == UnusedID(TSM_List, Current_Invoke_ID)
           newID == IF sub.confirmed THEN id ELSE sub.invokeID
           e == [sub EXCEPT !.invokeID = newID, !.send_requested = ~ sent]
<1>1. COV_Subscriptions \in Table /\ index \in Entries /\ TaskOK /\ ObjectsOK
  BY COVTypes DEF COVInv, TablesOK, TaskOK
<1>2. sub \in COVSubscription
  BY <1>1 DEF Table
<1>3. value \in Values /\ value \in Pdus
  BY <1>1, <1>2, COVAssumption DEF ObjectsOK, Objects, COVSubscription
<1>4. /\ Advance("IDLE")
      /\ UNCHANGED <<dccVars, COV_Addresses, objVars>>
      /\ notified' = IF sent THEN [notified EXCEPT ![index] = value] ELSE notified
      /\ Sendable(sub)
      /\ IF sub.confirmed
           THEN /\ TSM_List' = tsm_set_confirmed_unsegmented_transaction(
                                 Reserve(TSM_List, id), id, value)
                /\ Current_Invoke_ID' = Increment(id)
           ELSE UNCHANGED tsmVars
      /\ COV_Subscriptions' = [COV_Subscriptions EXCEPT ![index] = e]
  BY DEF Notify
<1>5. /\ TSM_List \in [Slots -> BACNET_TSM_DATA] /\ Current_Invoke_ID \in InvokeIDs
      /\ UniqueInvokeIDs
  BY DEF COVInv, COVTypeOK, TSMTypeOK
<1>6. TaskOK' /\ DCCTypeOK' /\ ObjectsOK'
  <2> HIDE DEF value
  <2>1. ObjectsOK'
    BY <1>1, <1>3, <1>4 DEF ObjectsOK, objVars
  <2> QED
    BY <1>1, <1>4, <2>1, AdvanceTask, ControlAndTask
<1>7. sub.valid
  BY <1>4 DEF Sendable
<1>8. CASE ~ sub.confirmed
  <2>1. newID = sub.invokeID /\ UNCHANGED tsmVars
    BY <1>4, <1>8
  <2> HIDE DEF newID
  <2>2. /\ e \in COVSubscription
        /\ e.valid = sub.valid /\ e.confirmed = sub.confirmed
        /\ e.dest_index = sub.dest_index /\ e.request = sub.request
        /\ e.invokeID = sub.invokeID
    BY <1>2, <2>1, Zenon DEF COVSubscription
  <2> HIDE DEF e
  <2>3. /\ TablesOK' /\ SameEntries
        /\ COV_Subscriptions'[index] = e
        /\ \A j \in Entries \ {index} : COV_Subscriptions'[j] = COV_Subscriptions[j]
    BY <1>4, <2>2, EntryChange, Zenon
  <2>4. \A i \in Entries : COV_Subscriptions'[i].invokeID = COV_Subscriptions[i].invokeID
    BY <2>2, <2>3
  <2>5. TSMTypeOK' /\ UniqueInvokeIDs' /\ TSM_List' = TSM_List
    BY <2>1 DEF COVInv, COVTypeOK, TSMTypeOK, UniqueInvokeIDs, tsmVars
  <2>6. TransactionsOwned'
    BY <2>3, <2>4, <2>5, Zenon DEF COVInv, TransactionsOwned, SameEntries, Valid
  <2> QED
    BY <1>6, <2>3, <2>5, <2>6, COVTypesNext, SameAddresses, SameThinned DEF COVInv
<1>9. CASE sub.confirmed
  <2>1. /\ newID = id /\ sub.invokeID = 0
        /\ tsm_transaction_available(TSM_List)
        /\ TSM_List' = tsm_set_confirmed_unsegmented_transaction(
                         Reserve(TSM_List, id), id, value)
        /\ Current_Invoke_ID' = Increment(id)
    BY <1>4, <1>9 DEF Sendable
  <2>2. /\ id \in InvokeIDs /\ Increment(id) \in InvokeIDs
        /\ \A i \in Slots : TSM_List[i].InvokeID # id
        /\ TSM_List' \in [Slots -> BACNET_TSM_DATA]
        /\ \E f \in Slots : TakenIn(TSM_List, f, id, value, TSM_List')
    BY <1>3, <1>5, <2>1, StartTakesSlot, Zenon
  <2> HIDE DEF newID, id, value
  <2>3. PICK f \in Slots : TakenIn(TSM_List, f, id, value, TSM_List')
    BY <2>2
  <2>4. /\ TSM_List[f].InvokeID = 0 /\ TSM_List'[f].InvokeID = id
        /\ \A s \in Slots \ {f} : TSM_List'[s] = TSM_List[s]
    BY <2>3 DEF TakenIn
  <2>5. TSMTypeOK' /\ UniqueInvokeIDs'
    BY <1>5, <2>1, <2>2, <2>4 DEF TSMTypeOK, UniqueInvokeIDs
  <2>6. /\ e \in COVSubscription
        /\ e.valid = sub.valid /\ e.confirmed = sub.confirmed
        /\ e.dest_index = sub.dest_index /\ e.request = sub.request
        /\ e.invokeID = id
    BY <1>2, <2>1, <2>2, Zenon DEF COVSubscription
  <2> HIDE DEF e
  <2>7. /\ TablesOK' /\ SameEntries
        /\ COV_Subscriptions'[index] = e
        /\ \A j \in Entries \ {index} : COV_Subscriptions'[j] = COV_Subscriptions[j]
    BY <1>4, <2>6, EntryChange, Zenon
  <2>8. ASSUME NEW s \in Slots, TSM_List'[s].InvokeID # 0
        PROVE  \E i \in Entries : /\ COV_Subscriptions'[i].valid
                                  /\ COV_Subscriptions'[i].invokeID = TSM_List'[s].InvokeID
    <3>1. CASE s = f
      BY <1>1, <1>7, <2>4, <2>6, <2>7, <3>1, Zenon
    <3>2. CASE s # f
      <4>1. TSM_List'[s] = TSM_List[s]
        BY <2>4, <3>2
      <4>2. PICK i \in Entries : /\ COV_Subscriptions[i].valid
                                 /\ COV_Subscriptions[i].invokeID = TSM_List[s].InvokeID
        BY <2>8, <4>1 DEF COVInv, TransactionsOwned, Valid
      <4>3. i # index
        BY <2>1, <2>8, <4>1, <4>2
      <4> QED
        BY <2>7, <4>1, <4>2, <4>3
    <3> QED
      BY <3>1, <3>2
  <2>9. ASSUME NEW i \in Entries, COV_Subscriptions'[i].invokeID # 0
        PROVE  COV_Subscriptions'[i].valid /\ COV_Subscriptions'[i].confirmed
    BY <1>7, <1>9, <2>6, <2>7, <2>9, Zenon DEF COVInv, TransactionsOwned
  <2>10. TransactionsOwned'
    BY <2>8, <2>9 DEF TransactionsOwned, Valid
  <2> QED
    BY <1>6, <2>5, <2>7, <2>10, COVTypesNext, SameAddresses, SameThinned, Zenon DEF COVInv
<1> QED
  BY <1>8, <1>9

\* A step that leaves the subscriptions and the TSM alone.
LEMMA UntouchedInv ==
  ASSUME COVInv, UNCHANGED <<tsmVars, covVars>>, DCCTypeOK', TaskOK', ObjectsOK'
  PROVE  COVInv' /\ Thinned /\ KeepsRequests
<1>1. TSMTypeOK' /\ UniqueInvokeIDs' /\ TransactionsOwned'
  BY DEF COVInv, COVTypeOK, TSMTypeOK, UniqueInvokeIDs, TransactionsOwned, Valid,
         tsmVars, covVars
<1>2. TablesOK' /\ SameEntries /\ KeepsRequests
  BY COVTypes DEF COVInv, TablesOK, SameEntries, KeepsRequests, covVars
<1> QED
  BY <1>1, <1>2, COVTypesNext, SameAddresses, SameThinned DEF COVInv

\* The two calls of the task that do nothing but move on.
LEMMA IdleInv ==
  ASSUME COVInv, Idle \/ Skip
  PROVE  COVInv' /\ Thinned /\ KeepsRequests
<1>1. TaskOK
  BY COVTypes DEF COVInv
<1>2. CASE Idle
  <2>1. TaskOK'
    BY <1>2, EntriesAreNat DEF Idle, TaskOK
  <2> QED
    BY <1>2, <2>1, ControlAndTask, UntouchedInv DEF Idle
<1>3. CASE Skip
  <2>1. TaskOK'
    BY <1>1, <1>3, AdvanceTask DEF Skip
  <2> QED
    BY <1>3, <2>1, ControlAndTask, UntouchedInv DEF Skip
<1> QED
  BY <1>2, <1>3

-----------------------------------------------------------------------------
(***************************************************************************)
(* The timers, the values and the acknowledgements.                        *)
(***************************************************************************)

\* What handler_cov_timer_seconds makes of one entry.
Aged(sub, seconds) ==
  CASE Expires(sub, seconds) /\ sub.confirmed -> [Invalidated(sub) EXCEPT !.invokeID = 0]
    [] Expires(sub, seconds) /\ ~ sub.confirmed -> Invalidated(sub)
    [] sub.valid /\ sub.lifetime > seconds -> [sub EXCEPT !.lifetime = @ - seconds]
    [] OTHER -> sub

\* A subscription that expires forgets its ID; another one keeps what it is.
LEMMA AgedEntry ==
  ASSUME NEW sub \in COVSubscription, NEW seconds \in Seconds,
         sub.invokeID # 0 => sub.confirmed,
         NEW e, e = Aged(sub, seconds)
  PROVE  /\ e \in COVSubscription
         /\ Expires(sub, seconds) => ~ e.valid /\ e.invokeID = 0
         /\ ~ Expires(sub, seconds) =>
              /\ e.valid = sub.valid /\ e.dest_index = sub.dest_index
              /\ e.request = sub.request /\ e.invokeID = sub.invokeID
              /\ e.confirmed = sub.confirmed
              /\ e.send_requested = sub.send_requested
<1>1. seconds \in Nat
  BY DurationAssumption
<1>2. CASE Expires(sub, seconds) /\ sub.confirmed
  <2>1. e = [Invalidated(sub) EXCEPT !.invokeID = 0]
    BY <1>1, <1>2 DEF Aged, Expires, COVSubscription
  <2> QED
    BY <1>2, <2>1, UnusedIsEntry, Zenon DEF Invalidated, COVSubscription, Unused
<1>3. CASE Expires(sub, seconds) /\ ~ sub.confirmed
  <2>1. e = Invalidated(sub)
    BY <1>1, <1>3 DEF Aged, Expires, COVSubscription
  <2>2. sub.invokeID = 0
    BY <1>3
  <2> QED
    BY <1>3, <2>1, <2>2, UnusedIsEntry, Zenon DEF Invalidated, COVSubscription, Unused
<1>4. CASE ~ Expires(sub, seconds) /\ sub.valid /\ sub.lifetime > seconds
  <2>1. e = [sub EXCEPT !.lifetime = sub.lifetime - seconds]
    BY <1>4 DEF Aged, COVSubscription
  <2>2. sub.lifetime - seconds \in Nat
    BY <1>1, <1>4 DEF COVSubscription
  <2> QED
    BY <1>4, <2>1, <2>2, Zenon DEF COVSubscription
<1>5. CASE ~ Expires(sub, seconds) /\ ~ (sub.valid /\ sub.lifetime > seconds)
  BY <1>5 DEF Aged
<1> QED
  BY <1>2, <1>3, <1>4, <1>5

\* handler_cov_timer_seconds keeps the invariant, several expiries in one call
\* included.
LEMMA ExpiryInv ==
  ASSUME NEW seconds \in Seconds, COVInv, handler_cov_timer_seconds(seconds)
  PROVE  COVInv' /\ Thinned /\ KeepsRequests
<1> DEFINE expired == {i \in Entries : Expires(COV_Subscriptions[i], seconds)}
           ids == {COV_Subscriptions[i].invokeID :
                     i \in {j \in expired : COV_Subscriptions[j].confirmed}} \ {0}
<1>1. COV_Subscriptions \in Table /\ COV_Addresses \in AddressList
  BY COVTypes DEF COVInv, TablesOK
<1>2. /\ COV_Subscriptions' = [i \in Entries |-> Aged(COV_Subscriptions[i], seconds)]
      /\ COV_Addresses' =
           IF expired = {} THEN COV_Addresses
           ELSE cov_address_remove_unused(COV_Addresses, COV_Subscriptions')
      /\ TSM_List' = FreeAll(TSM_List, ids)
      /\ UNCHANGED <<Current_Invoke_ID, dccVars, fsmVars, objVars, notified>>
  BY DEF handler_cov_timer_seconds, Aged
<1>3. \A i \in Entries :
        /\ COV_Subscriptions[i] \in COVSubscription
        /\ COV_Subscriptions[i].invokeID # 0 =>
             COV_Subscriptions[i].valid /\ COV_Subscriptions[i].confirmed
  BY <1>1 DEF Table, COVInv, TransactionsOwned
<1>4. \A i \in Entries :
        /\ COV_Subscriptions'[i] \in COVSubscription
        /\ i \in expired => /\ ~ COV_Subscriptions'[i].valid
                            /\ COV_Subscriptions'[i].invokeID = 0
        /\ i \notin expired =>
             /\ COV_Subscriptions'[i].valid = COV_Subscriptions[i].valid
             /\ COV_Subscriptions'[i].dest_index = COV_Subscriptions[i].dest_index
             /\ COV_Subscriptions'[i].request = COV_Subscriptions[i].request
             /\ COV_Subscriptions'[i].invokeID = COV_Subscriptions[i].invokeID
             /\ COV_Subscriptions'[i].confirmed = COV_Subscriptions[i].confirmed
             /\ COV_Subscriptions'[i].send_requested = COV_Subscriptions[i].send_requested
  <2> DEFINE Goal(i) ==
        /\ COV_Subscriptions'[i] \in COVSubscription
        /\ Expires(COV_Subscriptions[i], seconds) =>
             ~ COV_Subscriptions'[i].valid /\ COV_Subscriptions'[i].invokeID = 0
        /\ ~ Expires(COV_Subscriptions[i], seconds) =>
             /\ COV_Subscriptions'[i].valid = COV_Subscriptions[i].valid
             /\ COV_Subscriptions'[i].dest_index = COV_Subscriptions[i].dest_index
             /\ COV_Subscriptions'[i].request = COV_Subscriptions[i].request
             /\ COV_Subscriptions'[i].invokeID = COV_Subscriptions[i].invokeID
             /\ COV_Subscriptions'[i].confirmed = COV_Subscriptions[i].confirmed
             /\ COV_Subscriptions'[i].send_requested = COV_Subscriptions[i].send_requested
  <2> SUFFICES ASSUME NEW i \in Entries
               PROVE  Goal(i)
    OBVIOUS
  <2>1. COV_Subscriptions'[i] = Aged(COV_Subscriptions[i], seconds)
    BY <1>2
  <2> QED
    BY <1>3, <2>1, AgedEntry
<1>5. COV_Subscriptions' \in Table
  BY <1>2, <1>4 DEF Table
<1>6. /\ Thinned /\ TablesOK' /\ Once(COV_Addresses)'
      /\ Kept(COV_Addresses, COV_Subscriptions)'
  <2>1. CASE expired = {}
    <3>1. COV_Addresses' = COV_Addresses /\ SameEntries
      BY <1>2, <1>4, <2>1, Zenon DEF SameEntries
    <3> QED
      BY <1>1, <1>5, <3>1, SameAddresses, SameThinned DEF TablesOK
  <2>2. CASE expired # {}
    <3>1. COV_Addresses' = cov_address_remove_unused(COV_Addresses, COV_Subscriptions')
      BY <1>2, <2>2
    <3>2. \A i \in Entries : COV_Subscriptions'[i].valid =>
            /\ COV_Subscriptions[i].valid
            /\ COV_Subscriptions'[i].dest_index = COV_Subscriptions[i].dest_index
            /\ COV_Subscriptions'[i].request = COV_Subscriptions[i].request
      BY <1>4
    <3> QED
      BY <1>5, <3>1, <3>2, RemoveThinned
  <2> QED
    BY <2>1, <2>2
<1>7. /\ TSM_List \in [Slots -> BACNET_TSM_DATA] /\ Current_Invoke_ID \in InvokeIDs
      /\ UniqueInvokeIDs
  BY DEF COVInv, COVTypeOK, TSMTypeOK
<1>8. \A s \in Slots :
        /\ TSM_List'[s] \in BACNET_TSM_DATA
        /\ TSM_List'[s].InvokeID # 0 =>
             /\ TSM_List'[s].InvokeID = TSM_List[s].InvokeID
             /\ TSM_List[s].InvokeID \notin ids
  <2> SUFFICES ASSUME NEW s \in Slots
               PROVE  /\ TSM_List'[s] \in BACNET_TSM_DATA
                      /\ TSM_List'[s].InvokeID # 0 =>
                           /\ TSM_List'[s].InvokeID = TSM_List[s].InvokeID
                           /\ TSM_List[s].InvokeID \notin ids
    OBVIOUS
  <2> HIDE DEF ids
  <2>1. TSM_List'[s] = IF TSM_List[s].InvokeID \in ids
                         THEN [TSM_List[s] EXCEPT !.state = "IDLE", !.InvokeID = 0]
                         ELSE TSM_List[s]
    BY <1>2, Zenon DEF FreeAll
  <2>2. TSM_List[s] \in BACNET_TSM_DATA
    BY <1>7
  <2> QED
    BY <2>1, <2>2, Zenon DEF BACNET_TSM_DATA
<1>9. TSMTypeOK' /\ UniqueInvokeIDs'
  <2> HIDE DEF ids
  <2>1. TSM_List' \in [Slots -> BACNET_TSM_DATA]
    BY <1>2, <1>8, Zenon DEF FreeAll
  <2> QED
    BY <1>2, <1>7, <1>8, <2>1 DEF TSMTypeOK, UniqueInvokeIDs
<1>10. ASSUME NEW s \in Slots, TSM_List'[s].InvokeID # 0
       PROVE  \E i \in Entries : /\ COV_Subscriptions'[i].valid
                                 /\ COV_Subscriptions'[i].invokeID = TSM_List'[s].InvokeID
  <2>1. /\ TSM_List'[s].InvokeID = TSM_List[s].InvokeID
        /\ TSM_List[s].InvokeID \notin ids
    BY <1>8, <1>10
  <2>2. PICK i \in Entries : /\ COV_Subscriptions[i].valid
                             /\ COV_Subscriptions[i].invokeID = TSM_List[s].InvokeID
    BY <1>10, <2>1 DEF COVInv, TransactionsOwned, Valid
  <2>3. i \notin expired
    BY <1>3, <1>10, <2>1, <2>2
  <2> QED
    BY <1>4, <2>1, <2>2, <2>3
<1>11. ASSUME NEW i \in Entries, COV_Subscriptions'[i].invokeID # 0
       PROVE  COV_Subscriptions'[i].valid /\ COV_Subscriptions'[i].confirmed
  BY <1>3, <1>4, <1>11
<1>12. TransactionsOwned'
  BY <1>10, <1>11 DEF TransactionsOwned, Valid
<1>13. COVTypeOK'
  BY <1>2, <1>6, <1>9, ControlAndTask, COVTypesNext
<1>14. KeepsRequests
  BY <1>4 DEF KeepsRequests
<1> QED
  BY <1>6, <1>9, <1>12, <1>13, <1>14 DEF COVInv

\* A step of the TSM that takes no slot: a timer call or an acknowledgement.
LEMMA ReleaseInv ==
  ASSUME COVInv, UNCHANGED <<Current_Invoke_ID, dccVars, covVars, fsmVars, objVars, notified>>,
         TSM_List' \in [Slots -> BACNET_TSM_DATA],
         \A s \in Slots : TSM_List'[s].InvokeID \in {0, TSM_List[s].InvokeID}
  PROVE  COVInv' /\ Thinned /\ KeepsRequests
<1>1. TSMTypeOK' /\ UniqueInvokeIDs'
  BY DEF COVInv, COVTypeOK, TSMTypeOK, UniqueInvokeIDs
<1>2. TransactionsOwned'
  BY DEF COVInv, TransactionsOwned, Valid, covVars
<1>3. TablesOK' /\ SameEntries /\ KeepsRequests
  BY COVTypes DEF COVInv, TablesOK, SameEntries, KeepsRequests, covVars
<1> QED
  BY <1>1, <1>2, <1>3, ControlAndTask, COVTypesNext, SameAddresses, SameThinned, Zenon DEF COVInv

\* tsm_timer_milliseconds keeps every ID, so no transaction loses its owner.
LEMMA TransactionTimerInv ==
  ASSUME NEW milliseconds \in Elapsed, COVInv, TransactionTimer(milliseconds)
  PROVE  COVInv' /\ Thinned /\ KeepsRequests
<1>1. TSM_List \in [Slots -> BACNET_TSM_DATA] /\ milliseconds \in Nat
  BY TimerAssumption DEF COVInv, COVTypeOK, TSMTypeOK
<1>2. TSM_List' = tsm_timer_milliseconds(TSM_List, milliseconds)
  BY DEF TransactionTimer, Timer
<1>3. /\ TSM_List' \in [Slots -> BACNET_TSM_DATA]
      /\ \A s \in Slots : TSM_List'[s].InvokeID = TSM_List[s].InvokeID
  BY <1>1, <1>2, TimerKeepsIDs
<1> QED
  BY <1>3, ReleaseInv DEF TransactionTimer, Timer

\* An acknowledgement takes the transaction with its ID away and no other.
LEMMA AcknowledgeInv ==
  ASSUME NEW id \in InvokeIDs, COVInv, Acknowledge(id)
  PROVE  COVInv' /\ Thinned /\ KeepsRequests
<1>1. TSM_List \in [Slots -> BACNET_TSM_DATA] /\ UniqueIn(TSM_List) /\ id # 0
  BY SizeAssumption DEF COVInv, COVTypeOK, TSMTypeOK, UniqueInvokeIDs, UniqueIn, InvokeIDs
<1>2. TSM_List' = tsm_free_invoke_id(TSM_List, id)
  BY DEF Acknowledge, Free
<1>3. /\ TSM_List' \in [Slots -> BACNET_TSM_DATA]
      /\ \A s \in Slots :
           IF TSM_List[s].InvokeID = id
             THEN TSM_List'[s].InvokeID = 0 /\ TSM_List'[s].state = "IDLE"
             ELSE TSM_List'[s] = TSM_List[s]
  BY <1>1, <1>2, FreeClearsID
<1> QED
  BY <1>3, ReleaseInv DEF Acknowledge, Free

\* A write to an object touches no subscription.
LEMMA ChangeInv ==
  ASSUME NEW obj \in Objects, NEW value \in Values, COVInv, Change(obj, value)
  PROVE  COVInv' /\ Thinned /\ KeepsRequests
<1>1. ObjectsOK'
  BY COVTypes, COVAssumption DEF COVInv, ObjectsOK, Change
<1> QED
  BY <1>1, ControlAndTask, UntouchedInv DEF Change

\* Communication control touches no subscription.
LEMMA ControlInv ==
  ASSUME COVInv, Control
  PROVE  COVInv' /\ Thinned /\ KeepsRequests
<1> USE DurationAssumption DEF DCCTypeOK, CommunicationStates
<1>1. DCCTypeOK
  BY COVTypes DEF COVInv
<1>2. ASSUME NEW seconds \in Seconds, dcc_timer_seconds(seconds)
      PROVE  DCCTypeOK'
  BY <1>1, <1>2 DEF dcc_timer_seconds
<1>3. ASSUME NEW status \in CommunicationStates, NEW minutes \in Nat,
             dcc_set_status_duration(status, minutes)
      PROVE  DCCTypeOK'
  <2>1. minutes * Minute \in Nat
    OBVIOUS
  <2> QED
    BY <1>3, <2>1 DEF dcc_set_status_duration
<1>4. DCCTypeOK'
  BY <1>2, <1>3
  DEF Control, DCCNext, handler_device_communication_control, handler_reinitialize_device
<1> QED
  BY <1>4, ControlAndTask, UntouchedInv DEF Control

\* Every step but a subscription thins the tables.
LEMMA StepInv ==
  ASSUME COVInv, [Next]_vars
  PROVE  /\ COVInv'
         /\ \/ Thinned
            \/ \E r \in Requests, confirmed \in BOOLEAN, lifetime \in Lifetimes :
                 Renew(r, confirmed, lifetime) \/ Add(r, confirmed, lifetime)
<1>1. ASSUME NEW r \in Requests, NEW confirmed \in BOOLEAN, NEW lifetime \in Lifetimes,
             handler_cov_subscribe(r, confirmed, lifetime)
      PROVE  COVInv' /\ (Renew(r, confirmed, lifetime) \/ Add(r, confirmed, lifetime))
  <2>1. COVInv'
    BY <1>1, SubscribeInv
  <2> QED
    BY <1>1, <2>1 DEF handler_cov_subscribe
<1>2. ASSUME NEW r \in Requests, handler_cov_cancel(r)
      PROVE  COVInv' /\ Thinned
  BY <1>2, CancelInv
<1>3. CASE handler_cov_fsm
  BY <1>3, IdleInv, MarkInv, ClearInv, HousekeepInv, NotifyInv DEF handler_cov_fsm
<1>4. ASSUME NEW seconds \in Seconds, handler_cov_timer_seconds(seconds)
      PROVE  COVInv' /\ Thinned
  BY <1>4, ExpiryInv
<1>5. ASSUME NEW milliseconds \in Elapsed, TransactionTimer(milliseconds)
      PROVE  COVInv' /\ Thinned
  BY <1>5, TransactionTimerInv
<1>6. ASSUME NEW obj \in Objects, NEW value \in Values, Change(obj, value)
      PROVE  COVInv' /\ Thinned
  BY <1>6, ChangeInv
<1>7. ASSUME NEW id \in InvokeIDs, Acknowledge(id)
      PROVE  COVInv' /\ Thinned
  BY <1>7, AcknowledgeInv
<1>8. CASE Control
  BY <1>8, ControlInv
<1>9. CASE UNCHANGED vars
  <2>1. UNCHANGED <<tsmVars, covVars>> /\ DCCTypeOK' /\ TaskOK' /\ ObjectsOK'
    BY <1>9, ControlAndTask DEF vars
  <2> QED
    BY <2>1, UntouchedInv
<1> QED
  BY <1>1, <1>2, <1>3, <1>4, <1>5, <1>6, <1>7, <1>8, <1>9 DEF Next

(***************************************************************************)
(* The inductive invariant holds in every reachable state.                 *)
(***************************************************************************)
THEOREM COVInvariant == Spec => []COVInv
<1>1. COVInv /\ [Next]_vars => COVInv'
  BY StepInv
<1> QED
  BY <1>1, COVInitInv, PTL DEF Spec

(***************************************************************************)
(* No transaction of a confirmed notification leaks: renewing, cancelling  *)
(* and expiring a subscription (cov_list_subscribe and                     *)
(* cov_lifetime_expiration_handler) and the housekeeping of                *)
(* handler_cov_fsm leave in the TSM only what a valid subscription still   *)
(* remembers.                                                              *)
(***************************************************************************)
THEOREM NotificationsOwned == Spec => []TransactionsOwned
<1>1. COVInv => TransactionsOwned
  BY DEF COVInv
<1> QED
  BY <1>1, COVInvariant, PTL

(***************************************************************************)
(* cov_address_add and cov_address_remove_unused keep exactly the          *)
(* addresses that a valid subscription refers to, each of them once.       *)
(***************************************************************************)
THEOREM AddressesKept == Spec => []AddressesReferenced
<1>1. COVInv => AddressesReferenced
  BY DEF COVInv, AddressesReferenced, Kept, Refers, Once, Valid
<1> QED
  BY <1>1, COVInvariant, PTL
=============================================================================
