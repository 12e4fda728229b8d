-------------------------- MODULE MSTPQueueProofs --------------------------
(***************************************************************************)
(* Proofs about the queues between an application and the MS/TP state      *)
(* machine: for every ring length and word width, at whatever count the    *)
(* free-running indices stand, also where they wrap, neither thread of     *)
(* either Linux port reads what the other is writing.                      *)
(***************************************************************************)
EXTENDS MSTPQueue, Integers, WellFoundedInduction, TLAPS

\* The state machine's thread is at work on the ring.
AtRing == fsm.at \in {"compare", "create", "pop", "find", "shift"}

\* The types of the two threads' own variables, and what bounds them.
ThreadsOK ==
  /\ driver \in Ports
  /\ app \in [at : {"loop", "fill", "put", "copy", "release"}, pkt : 0 .. Count - 1,
              pdu : Pdu \cup {NoPdu}, owed : 0 .. MaxFrames]
  /\ fsm \in [at : {"idle", "store", "ready", "post", "compare", "create", "pop",
                    "find", "shift"},
              pkt : 0 .. Count - 1, frame : Pdu \cup {NoPdu}, der : Nat, index : Nat]
  /\ puts \in 0 .. MaxPuts[driver]

RingOK ==
  /\ head \in 0 .. Word - 1 /\ tail \in 0 .. Word - 1
  /\ Ringbuf_Count \in 0 .. Count /\ depth \in 0 .. Count
  /\ buffer \in [0 .. Count - 1 -> Pdu \cup {NoPdu, Torn}]

\* Between Ringbuf_Data_Peek and Ringbuf_Data_Put the application has the
\* element at the head, there is room for it, and no other is half written.
Filling ==
  /\ app.at \in {"fill", "put"} => app.pkt = Element(head) /\ Ringbuf_Count < Count
  /\ \A e \in 0 .. Count - 1 : buffer[e] = Torn => app.at = "fill" /\ e = app.pkt

\* The state machine works on elements between the tail and the head.
Taking ==
  /\ AtRing => Ringbuf_Count > 0
  /\ fsm.at \in {"compare", "create"}
       => \E k \in 0 .. Count - 1 : k < Ringbuf_Count /\ fsm.pkt = Element(tail + k)
  /\ fsm.at = "shift" => tail <= fsm.index /\ fsm.index < tail + Ringbuf_Count

ReceiveOK ==
  /\ frames \in 0 .. MaxFrames
  /\ Receive_Packet \in [ready : BOOLEAN, frame : 0 .. frames]
  /\ Receive_Packet_Flag \in 0 .. 1
  /\ got \in Seq(1 .. frames)

\* Who may touch Receive_Packet: the state machine until it has set ready, the
\* application once it has taken the semaphore.
Handover ==
  /\ fsm.at = "post" => Receive_Packet.ready /\ Receive_Packet_Flag = 0
  /\ Receive_Packet_Flag = 1 => Receive_Packet.ready
  /\ app.at \in {"copy", "release"}
       => Receive_Packet.ready /\ Receive_Packet_Flag = 0 /\ fsm.at # "post"
  /\ fsm.at \in {"store", "ready"} => ~ Receive_Packet.ready
  /\ driver = "dlmstp" => /\ app.at \notin {"copy", "release"}
                          /\ fsm.at \notin {"store", "ready", "post"}
                          /\ Receive_Packet_Flag = 0

\* The requests handed over are in order, and what is there or about to be is
\* later than all of them.
InOrder ==
  /\ \A i, j \in 1 .. Len(got) : i < j => got[i] < got[j]
  /\ Receive_Packet.ready => Receive_Packet.frame # 0
  /\ Receive_Packet.ready /\ app.at # "release"
       => \A i \in 1 .. Len(got) : got[i] < Receive_Packet.frame
  /\ fsm.at \in {"store", "ready"} => \A i \in 1 .. Len(got) : got[i] < frames
  /\ fsm.at \in {"store", "ready"} => frames > 0
  /\ fsm.at = "ready" => Receive_Packet.frame = frames

MQInv == ThreadsOK /\ RingOK /\ Filling /\ Taking /\ ReceiveOK /\ Handover /\ InOrder

-----------------------------------------------------------------------------
(* Remainders *)

(***************************************************************************)
(* Division with remainder, for the index arithmetic of ringbuf.c.         *)
(***************************************************************************)
LEMMA Quotient ==
  ASSUME NEW m \in Nat \ {0}, NEW x \in Nat
  PROVE  x % m \in 0 .. m - 1 /\ \E q \in Nat : x = m * q + (x % m)
<1>1. x = m * (x \div m) + (x % m)
  BY SMT
<1>2. x \div m \in Nat /\ x % m \in 0 .. m - 1
  BY SMT
<1> QED
  BY <1>1, <1>2, Zenon

(***************************************************************************)
(* The remainder is the only number below m that differs from it by a      *)
(* multiple of m.                                                          *)
(***************************************************************************)
LEMMA Remainder ==
  ASSUME NEW m \in Nat \ {0}, NEW q \in Nat, NEW r \in 0 .. m - 1
  PROVE  (m * q + r) % m = r
BY SMTT(30)

(***************************************************************************)
(* Multiples of m lie m apart.                                             *)
(***************************************************************************)
LEMMA MultiplesApart ==
  ASSUME NEW m \in Nat \ {0}, NEW q \in Nat, NEW p \in Nat, q < p
  PROVE  m * q + m <= m * p
<1> DEFINE d == p - q - 1
<1>1. d \in Nat /\ p = q + 1 + d
  OBVIOUS
<1> HIDE DEF d
<1>2. m * p = m * q + m + m * d
  BY <1>1
<1>3. m * d \in Nat /\ m * q \in Nat
  BY <1>1
<1> QED
  BY <1>2, <1>3

(***************************************************************************)
(* A multiple of the ring's length added to an index leaves the element:   *)
(* why Ringbuf_Init wants a power of two, which divides the word.          *)
(***************************************************************************)
LEMMA AddMultiple ==
  ASSUME NEW m \in Nat \ {0}, NEW w \in Nat, w % m = 0, NEW x \in Nat
  PROVE  (x + w) % m = x % m
<1> DEFINE r == x % m
<1>1. r \in 0 .. m - 1 /\ \E p \in Nat : x = m * p + r
  BY Quotient, Zenon
<1>2. PICK p \in Nat : x = m * p + r
  BY <1>1, Zenon
<1>3. PICK q \in Nat : w = m * q + (w % m)
  BY Quotient, Zenon
<1>4. w = m * q
  BY <1>3
<1> HIDE DEF r
<1>5. x + w = m * (p + q) + r
  BY <1>1, <1>2, <1>4
<1>6. (m * (p + q) + r) % m = r
  BY <1>1, Remainder
<1>7. (x + w) % m = r
  BY <1>5, <1>6
<1> QED
  BY <1>7 DEF r

(***************************************************************************)
(* Indices less than the ring's length apart have different elements.      *)
(***************************************************************************)
LEMMA DifferentElements ==
  ASSUME NEW m \in Nat \ {0}, NEW a \in Nat, NEW b \in Nat, a < b, b - a < m
  PROVE  a % m # b % m
<1> DEFINE r == a % m
<1> SUFFICES ASSUME r = b % m PROVE FALSE
  OBVIOUS
<1>1. r \in 0 .. m - 1 /\ \E p \in Nat : a = m * p + r
  BY Quotient, Zenon
<1>2. PICK p \in Nat : a = m * p + r
  BY <1>1, Zenon
<1>3. PICK q \in Nat : b = m * q + r
  BY Quotient, Zenon
<1> HIDE DEF r
<1>4. m * p \in Nat /\ m * q \in Nat
  OBVIOUS
<1>5. ~ p < q
  BY <1>1, <1>2, <1>3, <1>4, MultiplesApart
<1>6. ~ q < p
  BY <1>1, <1>2, <1>3, <1>4, MultiplesApart
<1> QED
  BY <1>1, <1>2, <1>3, <1>4, <1>5, <1>6

-----------------------------------------------------------------------------
(* The ring *)

(***************************************************************************)
(* The indices' arithmetic modulo Word, without remainders: Ringbuf_Count, *)
(* and what advancing an index does.                                       *)
(***************************************************************************)
LEMMA IndexArithmetic ==
  ASSUME NEW i \in 0 .. Word - 1, NEW j \in 0 .. Word - 1
  PROVE  /\ Minus(i, j) = IF j <= i THEN i - j ELSE i + Word - j
         /\ Plus(i, 1) = IF i + 1 < Word THEN i + 1 ELSE 0
         /\ Minus(i, 1) = IF i = 0 THEN Word - 1 ELSE i - 1
         /\ Plus(i, 1) \in 0 .. Word - 1
<1>1. Word \in Nat /\ Word > 1
  BY RingAssumption
<1>2. \A x \in 0 .. Word - 1 : x % Word = x
  BY <1>1
<1>3. \A x \in Word .. 2 * Word - 1 : x % Word = x - Word
  BY <1>1
<1>4. Minus(i, j) = IF j <= i THEN i - j ELSE i + Word - j
  <2>1. CASE j <= i
    <3>1. i + Word - j \in Word .. 2 * Word - 1
      BY <1>1, <2>1
    <3> QED
      BY <1>1, <1>3, <2>1, <3>1 DEF Minus
  <2>2. CASE ~ (j <= i)
    <3>1. i + Word - j \in 0 .. Word - 1
      BY <1>1, <2>2
    <3> QED
      BY <1>1, <1>2, <2>2, <3>1 DEF Minus
  <2> QED
    BY <2>1, <2>2
<1>5. Plus(i, 1) = IF i + 1 < Word THEN i + 1 ELSE 0
  <2>1. CASE i + 1 < Word
    BY <1>1, <1>2, <2>1 DEF Plus
  <2>2. CASE i + 1 = Word
    <3>1. i + 1 \in Word .. 2 * Word - 1
      BY <1>1, <2>2
    <3> QED
      BY <1>1, <1>3, <2>2, <3>1 DEF Plus
  <2> QED
    BY <1>1, <2>1, <2>2
<1>6. Minus(i, 1) = IF i = 0 THEN Word - 1 ELSE i - 1
  <2>1. CASE i = 0
    <3>1. i + Word - 1 \in 0 .. Word - 1
      BY <1>1, <2>1
    <3> QED
      BY <1>1, <1>2, <2>1, <3>1 DEF Minus
  <2>2. CASE i # 0
    <3>1. i + Word - 1 \in Word .. 2 * Word - 1
      BY <1>1, <2>2
    <3> QED
      BY <1>1, <1>3, <2>2, <3>1 DEF Minus
  <2> QED
    BY <2>1, <2>2
<1> QED
  BY <1>1, <1>4, <1>5, <1>6

(***************************************************************************)
(* Ringbuf_Count follows the two indices over the wrap of either.          *)
(***************************************************************************)
LEMMA CountFollows ==
  ASSUME NEW h \in 0 .. Word - 1, NEW t \in 0 .. Word - 1
  PROVE  /\ Minus(h, t) \in 0 .. Word - 1
         /\ Minus(h, t) < Count => Minus(Plus(h, 1), t) = Minus(h, t) + 1
         /\ Minus(h, t) > 0 => Minus(h, Plus(t, 1)) = Minus(h, t) - 1
         /\ Minus(h, h) = 0
<1>1. Word \in Nat /\ Count \in Nat /\ Word > Count
  BY RingAssumption
<1> DEFINE h1 == Plus(h, 1)
           t1 == Plus(t, 1)
<1>2. /\ Minus(h, t) = IF t <= h THEN h - t ELSE h + Word - t
      /\ h1 = IF h + 1 < Word THEN h + 1 ELSE 0
      /\ t1 = IF t + 1 < Word THEN t + 1 ELSE 0
      /\ h1 \in 0 .. Word - 1 /\ t1 \in 0 .. Word - 1
      /\ Minus(h, h) = 0
  BY <1>1, IndexArithmetic
<1> HIDE DEF h1, t1
<1>3. /\ Minus(h1, t) = IF t <= h1 THEN h1 - t ELSE h1 + Word - t
      /\ Minus(h, t1) = IF t1 <= h THEN h - t1 ELSE h + Word - t1
  BY <1>2, IndexArithmetic
<1> QED
  BY <1>1, <1>2, <1>3 DEF h1, t1

(***************************************************************************)
(* The element at the head is the one that many places after the tail,     *)
(* and none of the elements in between while the ring is not full.         *)
(***************************************************************************)
LEMMA HeadElement ==
  ASSUME NEW h \in 0 .. Word - 1, NEW t \in 0 .. Word - 1, Minus(h, t) < Count,
         NEW k \in Nat, k < Minus(h, t)
  PROVE  Element(t + k) # Element(h)
<1>1. /\ Word \in Nat /\ Count \in Nat \ {0} /\ Word % Count = 0
      /\ Minus(h, t) = IF t <= h THEN h - t ELSE h + Word - t
  BY RingAssumption, IndexArithmetic
<1>2. Element(h) = Element(t + Minus(h, t))
  <2>1. CASE t <= h
    BY <1>1, <2>1
  <2>2. CASE ~ (t <= h)
    <3>1. t + Minus(h, t) = h + Word
      BY <1>1, <2>2
    <3>2. h \in Nat
      BY <1>1
    <3>3. (h + Word) % Count = h % Count
      BY <1>1, <3>2, AddMultiple, Zenon
    <3> QED
      BY <3>1, <3>3 DEF Element
  <2> QED
    BY <2>1, <2>2
<1> DEFINE a == t + k
           b == t + Minus(h, t)
<1>3. a \in Nat /\ b \in Nat /\ a < b /\ b - a < Count
  <2>1. Minus(h, t) \in Nat /\ t \in Nat
    BY <1>1
  <2> QED
    BY <1>1, <2>1
<1>4. (t + k) % Count # (t + Minus(h, t)) % Count
  BY <1>1, <1>3, DifferentElements, Zenon
<1> QED
  BY <1>2, <1>4 DEF Element

\* An element's address is within the buffer.
LEMMA ElementInBuffer ==
  ASSUME NEW i \in Nat
  PROVE  Element(i) \in 0 .. Count - 1
BY RingAssumption, Quotient DEF Element

\* The element of an advanced index is the next one.
LEMMA ElementAfter ==
  ASSUME NEW i \in 0 .. Word - 1
  PROVE  Element(Plus(i, 1)) = Element(i + 1)
<1>1. /\ Word \in Nat /\ Count \in Nat \ {0} /\ Word % Count = 0
      /\ Plus(i, 1) = IF i + 1 < Word THEN i + 1 ELSE 0
  BY RingAssumption, IndexArithmetic
<1>2. CASE i + 1 < Word
  BY <1>1, <1>2
<1>3. CASE ~ (i + 1 < Word)
  <2>1. i + 1 = Word
    BY <1>1, <1>3
  <2>2. 0 % Count = 0
    BY <1>1
  <2> QED
    BY <1>1, <1>3, <2>1, <2>2 DEF Element
<1> QED
  BY <1>2, <1>3

\* A nonempty set of numbers has a least one, where a loop over it stops.
LEMMA MinFound ==
  ASSUME NEW S \in SUBSET Nat, S # {}
  PROVE  Min(S) \in S
<1> DEFINE R == OpToRel(<, Nat)
<1>1. \E x \in S : \A y \in S : ~ (<<y, x>> \in R)
  BY WFMin, NatLessThanWellFounded, Zenon
<1>2. \A x, y \in S : y < x => <<y, x>> \in R
  BY DEF OpToRel
<1> HIDE DEF R
<1>3. PICK x \in S : \A y \in S : ~ (<<y, x>> \in R)
  BY <1>1
<1>4. \A y \in S : ~ (y < x)
  BY <1>2, <1>3, Zenon
<1>5. \A y \in S : x <= y
  BY <1>4
<1> QED
  BY <1>5, Zenon DEF Min

(***************************************************************************)
(* The indices that the loops of Ringbuf_Peek_Next and Ringbuf_Pop_Element *)
(* stop at: from the tail on and before the end they compare with.  When   *)
(* the head has wrapped and the tail has not, the comparison of unsigned   *)
(* numbers fails at once and there is none.                                *)
(***************************************************************************)
LEMMA FoundIndex ==
  ASSUME NEW element, NEW end, tail \in 0 .. Word - 1, Found(element, end) # {},
         NEW i, i = Min(Found(element, end))
  PROVE  i \in 0 .. Word - 1 /\ tail <= i /\ i < end /\ Element(i) = element
<1>1. Found(element, end) \in SUBSET Nat
  BY RingAssumption DEF Found, Loop
<1>2. i \in Found(element, end)
  BY <1>1, MinFound
<1> QED
  BY <1>2 DEF Found, Loop

(***************************************************************************)
(* Ringbuf_Peek_Next returns NULL or an element that is in the ring.       *)
(***************************************************************************)
LEMMA PeekNextInRing ==
  ASSUME RingOK, Ringbuf_Count > 0, NEW element,
         Ringbuf_Peek_Next(element) # Count
  PROVE  \E k \in 0 .. Count - 1 :
           k < Ringbuf_Count /\ Ringbuf_Peek_Next(element) = Element(tail + k)
<1> DEFINE end == Minus(head, 1)
           i == Min(Found(element, end))
<1>1. Word \in Nat /\ Count \in Nat \ {0} /\ Word > Count
  BY RingAssumption
<1>2. head \in 0 .. Word - 1 /\ tail \in 0 .. Word - 1 /\ Ringbuf_Count \in 0 .. Count
  BY DEF RingOK
<1>3. Found(element, end) # {} /\ Ringbuf_Peek_Next(element) = Element(Plus(i, 1))
  BY DEF Ringbuf_Peek_Next
<1> HIDE DEF i
<1>4. i \in 0 .. Word - 1 /\ tail <= i /\ i < end
  BY <1>2, <1>3, FoundIndex DEF i
<1>5. /\ end = IF head = 0 THEN Word - 1 ELSE head - 1
      /\ Ringbuf_Count = IF tail <= head THEN head - tail ELSE head + Word - tail
  BY <1>2, IndexArithmetic DEF Ringbuf_Count
<1> HIDE DEF end
<1> DEFINE k == i + 1 - tail
<1>6. k \in 0 .. Count - 1 /\ k < Ringbuf_Count /\ tail + k = i + 1
  BY <1>1, <1>2, <1>4, <1>5
<1>7. Element(Plus(i, 1)) = Element(i + 1)
  BY <1>4, ElementAfter
<1> HIDE DEF k
<1> QED
  BY <1>3, <1>6, <1>7

(***************************************************************************)
(* Ringbuf_Pop_Element begins to move elements at one that is in the ring. *)
(***************************************************************************)
LEMMA PopIndexInRing ==
  ASSUME RingOK, Ringbuf_Count > 0, NEW element, NEW i,
         i = IF this_index(element) < head THEN this_index(element) ELSE tail
  PROVE  i \in Nat /\ tail <= i /\ i < tail + Ringbuf_Count
<1>1. Word \in Nat /\ Count \in Nat \ {0} /\ Word > Count
  BY RingAssumption
<1>2. head \in 0 .. Word - 1 /\ tail \in 0 .. Word - 1 /\ Ringbuf_Count \in 0 .. Count
  BY DEF RingOK
<1>3. Ringbuf_Count = IF tail <= head THEN head - tail ELSE head + Word - tail
  BY <1>2, IndexArithmetic DEF Ringbuf_Count
<1>4. CASE Found(element, head) = {}
  <2>1. i = tail
    BY <1>1, <1>2, <1>4 DEF this_index
  <2> QED
    BY <1>1, <1>2, <2>1
<1>5. CASE Found(element, head) # {}
  <2> DEFINE j == Min(Found(element, head))
  <2>1. j \in 0 .. Word - 1 /\ tail <= j /\ j < head
    BY <1>2, <1>5, FoundIndex
  <2>2. this_index(element) = j
    BY <1>5 DEF this_index
  <2> HIDE DEF j
  <2>3. i = j
    BY <2>1, <2>2
  <2> QED
    BY <1>1, <1>2, <1>3, <2>1, <2>3
<1> QED
  BY <1>4, <1>5

\* The number of a PDU that dlmstp_send_pdu may still queue is one of Pdu's.
LEMMA PutsBound ==
  ASSUME driver \in Ports, NEW n \in Nat, n <= MaxPuts[driver]
  PROVE  n \in 0 .. Max({MaxPuts[p] : p \in Ports})
<1> DEFINE S == {MaxPuts[p] : p \in Ports}
<1>1. MaxPuts \in [Ports -> Nat] /\ Ports \subseteq {"dlmstp", "dlmstp_linux"}
  BY RingAssumption
<1>2. \E x \in S : \A y \in S : x >= y
  <2>1. CASE \A p \in Ports : MaxPuts[driver] >= MaxPuts[p]
    BY <2>1
  <2>2. CASE ~ \A p \in Ports : MaxPuts[driver] >= MaxPuts[p]
    <3>1. PICK q \in Ports : ~ (MaxPuts[driver] >= MaxPuts[q])
      BY <2>2
    <3>2. \A p \in Ports : p \in {driver, q}
      BY <1>1, <3>1
    <3>3. \A p \in Ports : MaxPuts[q] >= MaxPuts[p]
      BY <1>1, <3>1, <3>2
    <3> QED
      BY <3>3
  <2> QED
    BY <2>1, <2>2
<1>3. Max(S) \in S /\ \A y \in S : Max(S) >= y
  BY <1>2 DEF Max
<1>4. MaxPuts[driver] \in S /\ S \in SUBSET Nat
  BY <1>1
<1> HIDE DEF S
<1>5. Max(S) \in Nat /\ MaxPuts[driver] \in Nat /\ Max(S) >= MaxPuts[driver]
  BY <1>3, <1>4, Zenon
<1>6. n \in 0 .. Max(S)
  BY <1>5
<1> QED
  BY <1>6 DEF S

-----------------------------------------------------------------------------
(* The inductive invariant *)

\* It holds when the datalink has been initialised.
LEMMA MQInitInv == MQInit => MQInv
<1> SUFFICES ASSUME MQInit PROVE MQInv
  OBVIOUS
<1> USE DEF MQInit
<1>1. /\ Word \in Nat /\ Count \in Nat \ {0} /\ Word > Count
      /\ MaxPuts \in [Ports -> Nat] /\ MaxFrames \in Nat /\ Earlier \in [Ports -> SUBSET Nat]
  BY RingAssumption
<1>2. ThreadsOK
  BY <1>1 DEF ThreadsOK
<1>3. head \in 0 .. Word - 1 /\ tail = head /\ Ringbuf_Count = 0
  <2>1. PICK n \in Nat : head = n % Word /\ tail = n % Word
    BY <1>1
  <2>2. Word \in Nat \ {0}
    BY <1>1
  <2>3. n % Word \in 0 .. Word - 1
    BY <2>2, Quotient, Zenon
  <2> QED
    BY <2>1, <2>3, CountFollows DEF Ringbuf_Count
<1>4. RingOK
  BY <1>1, <1>3 DEF RingOK
<1>5. Filling
  BY TornAssumption DEF Filling
<1>6. Taking
  BY DEF Taking, AtRing
<1>7. ReceiveOK /\ Handover /\ InOrder
  BY <1>1 DEF ReceiveOK, Handover, InOrder
<1> QED
  BY <1>2, <1>4, <1>5, <1>6, <1>7 DEF MQInv

\* The element at the head is not one that the state machine works on.
LEMMA HeadIsApart ==
  ASSUME RingOK, Ringbuf_Count < Count, NEW k \in Nat, k < Ringbuf_Count
  PROVE  Element(tail + k) # Element(head)
BY HeadElement DEF RingOK, Ringbuf_Count

\* So the state machine never reads an element that is being filled.
LEMMA InRingIsWhole ==
  ASSUME MQInv, NEW k \in Nat, k < Ringbuf_Count
  PROVE  buffer[Element(tail + k)] # Torn
<1>1. Element(tail + k) \in 0 .. Count - 1
  BY ElementInBuffer, RingAssumption DEF MQInv, RingOK
<1>2. ~ (app.at = "fill" /\ Element(tail + k) = app.pkt)
  BY HeadIsApart DEF MQInv, Filling
<1> QED
  BY <1>1, <1>2 DEF MQInv, Filling

-----------------------------------------------------------------------------
(* The application's steps *)

(***************************************************************************)
(* dlmstp_send_pdu takes the element at the head, which is free.           *)
(***************************************************************************)
LEMMA PeekInv ==
  ASSUME MQInv, NEW re \in {0, app.owed}, Ringbuf_Data_Peek(re)
  PROVE  MQInv'
<1> USE DEF MQInv, Ringbuf_Data_Peek, receiveVars
<1>1. /\ Word \in Nat /\ Count \in Nat \ {0} /\ MaxPuts \in [Ports -> Nat]
      /\ MaxFrames \in Nat
  BY RingAssumption
<1>2. Ringbuf_Count' = Ringbuf_Count
  BY DEF Ringbuf_Count
<1>3. Element(head) \in 0 .. Count - 1 /\ Element(head)' = Element(head)
  BY <1>1, ElementInBuffer DEF RingOK, Element
<1>4. puts + 1 \in 1 .. Max({MaxPuts[p] : p \in Ports}) /\ puts' \in 0 .. MaxPuts[driver]
  <2>1. puts + 1 \in Nat /\ puts + 1 <= MaxPuts[driver]
    BY <1>1 DEF ThreadsOK
  <2>2. puts + 1 \in 0 .. Max({MaxPuts[p] : p \in Ports})
    BY <2>1, PutsBound DEF ThreadsOK
  <2> QED
    BY <1>1, <2>1, <2>2 DEF ThreadsOK
<1>5. [id |-> puts + 1, re |-> re] \in Pdu
  BY <1>1, <1>4 DEF ThreadsOK, Pdu
<1>6. ThreadsOK'
  BY <1>1, <1>3, <1>4, <1>5 DEF ThreadsOK
<1>7. RingOK'
  BY <1>2, <1>3 DEF RingOK
<1>8. Filling'
  <2>1. CASE Ringbuf_Full
    BY <2>1, <1>2, <1>3 DEF Filling, ThreadsOK
  <2>2. CASE ~ Ringbuf_Full
    <3>1. Ringbuf_Count < Count
      BY <1>1, <2>2 DEF Ringbuf_Full, RingOK
    <3> QED
      BY <2>2, <3>1, <1>2, <1>3 DEF Filling, ThreadsOK, RingOK
  <2> QED
    BY <2>1, <2>2
<1>9. Taking'
  BY <1>2 DEF Taking, AtRing, Element
<1>10. ReceiveOK' /\ Handover' /\ InOrder'
  BY DEF ReceiveOK, Handover, InOrder, ThreadsOK
<1> QED
  BY <1>6, <1>7, <1>8, <1>9, <1>10

\* The element is filled.
LEMMA FillInv ==
  ASSUME MQInv, Fill
  PROVE  MQInv'
<1> USE DEF MQInv, Fill, receiveVars
<1>1. Ringbuf_Count' = Ringbuf_Count /\ Element(head)' = Element(head)
  BY DEF Ringbuf_Count, Element
<1>2. app.pdu \in Pdu \cup {NoPdu} /\ app.pdu # Torn
  BY TornAssumption DEF ThreadsOK
<1>3. ThreadsOK'
  BY DEF ThreadsOK
<1>4. RingOK'
  BY <1>1, <1>2, Zenon DEF RingOK
<1>5. Filling'
  BY <1>1, <1>2 DEF Filling, ThreadsOK, RingOK
<1>6. Taking'
  BY <1>1 DEF Taking, AtRing, Element
<1>7. ReceiveOK' /\ Handover' /\ InOrder'
  BY DEF ReceiveOK, Handover, InOrder, ThreadsOK
<1> QED
  BY <1>3, <1>4, <1>5, <1>6, <1>7

(***************************************************************************)
(* Ringbuf_Data_Put advances the head: the ring has one more element, and  *)
(* those of before are where they were.                                    *)
(***************************************************************************)
LEMMA PutInv ==
  ASSUME MQInv, Ringbuf_Data_Put
  PROVE  MQInv'
<1> USE DEF MQInv, receiveVars
<1>1. Word \in Nat /\ Count \in Nat \ {0} /\ Word > Count
  BY RingAssumption
<1>2. app.at = "put" /\ app.pkt = Element(head) /\ Ringbuf_Count < Count
  BY DEF Filling, Ringbuf_Data_Put
<1>3. head \in 0 .. Word - 1 /\ tail \in 0 .. Word - 1 /\ Ringbuf_Count \in Nat
  BY DEF RingOK
<1>4. ~ Ringbuf_Full
  BY <1>1, <1>2, <1>3 DEF Ringbuf_Full
<1>5. /\ head' = Plus(head, 1) /\ depth' = Max({depth, Minus(Plus(head, 1), tail)})
      /\ app' = [app EXCEPT !.at = "loop"]
      /\ UNCHANGED <<driver, tail, buffer, fsm, receiveVars, puts, sent>>
  BY <1>2, <1>4 DEF Ringbuf_Data_Put
<1>6. /\ head' \in 0 .. Word - 1
      /\ Minus(Plus(head, 1), tail) = Ringbuf_Count + 1
      /\ Ringbuf_Count' = Ringbuf_Count + 1
  BY <1>2, <1>3, <1>5, CountFollows, IndexArithmetic DEF Ringbuf_Count
<1>7. depth' \in 0 .. Count
  <2> DEFINE n == Ringbuf_Count + 1
  <2>1. depth' = Max({depth, n})
    BY <1>5, <1>6, Zenon
  <2>4. n \in 0 .. Count /\ depth \in 0 .. Count
    BY <1>1, <1>2, <1>3 DEF RingOK
  <2> HIDE DEF n
  <2>2. \E x \in {depth, n} : \A y \in {depth, n} : x >= y
    BY <2>4
  <2>3. Max({depth, n}) \in {depth, n}
    BY <2>2 DEF Max
  <2> QED
    BY <2>1, <2>3, <2>4
<1>8. ThreadsOK'
  BY <1>5 DEF ThreadsOK
<1>9. RingOK'
  BY <1>1, <1>2, <1>3, <1>5, <1>6, <1>7 DEF RingOK
<1>10. Filling'
  BY <1>2, <1>5 DEF Filling, ThreadsOK
<1>11. Taking'
  BY <1>1, <1>3, <1>5, <1>6 DEF Taking, AtRing, Element, ThreadsOK
<1>12. ReceiveOK' /\ Handover' /\ InOrder'
  BY <1>2, <1>5 DEF ReceiveOK, Handover, InOrder, ThreadsOK
<1> QED
  BY <1>8, <1>9, <1>10, <1>11, <1>12

(***************************************************************************)
(* dlmstp_receive leaves the ring alone and is not between peek and put.   *)
(***************************************************************************)
LEMMA ReceiveRing ==
  ASSUME MQInv, UNCHANGED <<ringVars, fsm>>, app.at \notin {"fill", "put"},
         app'.at \notin {"fill", "put"}
  PROVE  RingOK' /\ Filling' /\ Taking'
BY DEF MQInv, ringVars, RingOK, Filling, Taking, AtRing, Ringbuf_Count, Element, ThreadsOK

\* dlmstp_receive of ports/linux/dlmstp.c, under the mutex.
LEMMA ReceiveLockedInv ==
  ASSUME MQInv, ReceiveLocked
  PROVE  MQInv'
<1> USE DEF MQInv
<1>1. /\ MaxFrames \in Nat
      /\ driver = "dlmstp" /\ app.at = "loop" /\ Receive_Packet.ready
      /\ got' = Append(got, Receive_Packet.frame)
      /\ app' = [app EXCEPT !.owed = Receive_Packet.frame]
      /\ Receive_Packet' = [Receive_Packet EXCEPT !.ready = FALSE]
      /\ UNCHANGED <<driver, ringVars, fsm, Receive_Packet_Flag, frames, puts>>
  BY RingAssumption DEF ReceiveLocked
<1>2. /\ Receive_Packet.frame \in 1 .. frames /\ frames \in 0 .. MaxFrames
      /\ Receive_Packet.frame \in 0 .. MaxFrames
  BY <1>1 DEF ReceiveOK, InOrder
<1>3. ThreadsOK'
  BY <1>1, <1>2 DEF ThreadsOK
<1>4. RingOK' /\ Filling' /\ Taking'
  BY <1>1, ReceiveRing DEF ThreadsOK
<1>5. ReceiveOK'
  <2>1. got' \in Seq(1 .. frames)
    BY <1>1, <1>2 DEF ReceiveOK
  <2> QED
    BY <1>1, <1>2, <2>1, Zenon DEF ReceiveOK
<1>6. Handover'
  BY <1>1 DEF Handover, ThreadsOK, ReceiveOK
<1>7. InOrder'
  <2>1. \A i \in 1 .. Len(got) : got[i] < Receive_Packet.frame
    BY <1>1 DEF InOrder
  <2>2. ~ Receive_Packet'.ready /\ fsm.at \notin {"store", "ready"}
    BY <1>1 DEF Handover, ReceiveOK
  <2> QED
    BY <1>1, <1>2, <2>1, <2>2 DEF InOrder, ReceiveOK
<1> QED
  BY <1>3, <1>4, <1>5, <1>6, <1>7

(***************************************************************************)
(* dlmstp_receive of dlmstp_linux.c: the semaphore is taken only when the  *)
(* packet is ready, and then nobody else touches the packet until the      *)
(* application has copied and released it.                                 *)
(***************************************************************************)
LEMMA ReceiveWaitInv ==
  ASSUME MQInv, ReceiveWait
  PROVE  MQInv'
<1> USE DEF MQInv
<1>1. /\ driver = "dlmstp_linux" /\ app.at = "loop"
      /\ Receive_Packet_Flag = 1 /\ Receive_Packet_Flag' = 0 /\ Receive_Packet.ready
      /\ app' = [app EXCEPT !.at = "copy"]
      /\ UNCHANGED <<driver, ringVars, fsm, Receive_Packet, frames, got, puts>>
  BY DEF ReceiveWait, Handover, ReceiveOK
<1>2. fsm.at # "post" /\ fsm.at \notin {"store", "ready"}
  BY <1>1 DEF Handover
<1>3. ThreadsOK'
  BY <1>1 DEF ThreadsOK
<1>4. RingOK' /\ Filling' /\ Taking'
  BY <1>1, ReceiveRing DEF ThreadsOK
<1>5. ReceiveOK' /\ Handover' /\ InOrder'
  BY <1>1, <1>2 DEF ReceiveOK, Handover, InOrder, ThreadsOK
<1> QED
  BY <1>3, <1>4, <1>5

\* The packet that is copied is whole and later than those before.
LEMMA ReceiveCopyInv ==
  ASSUME MQInv, ReceiveCopy
  PROVE  MQInv'
<1> USE DEF MQInv
<1>1. /\ MaxFrames \in Nat /\ app.at = "copy"
      /\ got' = Append(got, Receive_Packet.frame)
      /\ app' = [app EXCEPT !.at = "release", !.owed = Receive_Packet.frame]
      /\ UNCHANGED <<driver, ringVars, fsm, Receive_Packet, Receive_Packet_Flag, frames, puts>>
  BY RingAssumption DEF ReceiveCopy
<1>2. /\ Receive_Packet.ready /\ Receive_Packet_Flag = 0
      /\ fsm.at \notin {"store", "ready", "post"} /\ driver # "dlmstp"
  BY <1>1 DEF Handover
<1>3. /\ Receive_Packet.frame \in 1 .. frames /\ frames \in 0 .. MaxFrames
      /\ Receive_Packet.frame \in 0 .. MaxFrames
  BY <1>1, <1>2 DEF ReceiveOK, InOrder
<1>4. ThreadsOK'
  BY <1>1, <1>3, Zenon DEF ThreadsOK
<1>5. RingOK' /\ Filling' /\ Taking'
  BY <1>1, ReceiveRing DEF ThreadsOK
<1>6. ReceiveOK' /\ Handover'
  BY <1>1, <1>2, <1>3 DEF ReceiveOK, Handover, ThreadsOK
<1>7. InOrder'
  <2>1. \A i \in 1 .. Len(got) : got[i] < Receive_Packet.frame
    BY <1>1, <1>2 DEF InOrder
  <2> QED
    BY <1>1, <1>2, <1>3, <2>1 DEF InOrder, ReceiveOK, ThreadsOK
<1> QED
  BY <1>4, <1>5, <1>6, <1>7

\* Clearing ready gives the packet back to the state machine.
LEMMA ReceiveReleaseInv ==
  ASSUME MQInv, ReceiveRelease
  PROVE  MQInv'
<1> USE DEF MQInv
<1>1. /\ app.at = "release" /\ app' = [app EXCEPT !.at = "loop"]
      /\ Receive_Packet' = [Receive_Packet EXCEPT !.ready = FALSE]
      /\ UNCHANGED <<driver, ringVars, fsm, Receive_Packet_Flag, frames, got, puts>>
  BY DEF ReceiveRelease
<1>2. /\ Receive_Packet_Flag = 0 /\ fsm.at \notin {"store", "ready", "post"}
  BY <1>1 DEF Handover
<1>3. ThreadsOK'
  BY <1>1 DEF ThreadsOK
<1>4. RingOK' /\ Filling' /\ Taking'
  BY <1>1, ReceiveRing DEF ThreadsOK
<1>5. ReceiveOK'
  BY <1>1, Zenon DEF ReceiveOK
<1>6. Handover'
  BY <1>1, <1>2 DEF ReceiveOK, Handover, ThreadsOK
<1>7. InOrder'
  BY <1>1, <1>2 DEF ReceiveOK, InOrder, ThreadsOK
<1> QED
  BY <1>3, <1>4, <1>5, <1>6, <1>7

-----------------------------------------------------------------------------
(* The state machine's steps *)

(***************************************************************************)
(* MSTP_Put_Receive leaves the ring alone and is not at work on it.        *)
(***************************************************************************)
LEMMA PutReceiveRing ==
  ASSUME MQInv, UNCHANGED <<ringVars, app>>, ~ AtRing'
  PROVE  RingOK' /\ Filling' /\ Taking'
BY DEF MQInv, ringVars, RingOK, Filling, Taking, AtRing, Ringbuf_Count, Element

\* MSTP_Put_Receive of ports/linux/dlmstp.c, under the mutex.
LEMMA PutLockedInv ==
  ASSUME MQInv, PutLocked
  PROVE  MQInv'
<1> USE DEF MQInv
<1>1. /\ MaxFrames \in Nat /\ frames < MaxFrames /\ frames' = frames + 1
      /\ driver = "dlmstp" /\ fsm.at = "idle" /\ fsm' = [fsm EXCEPT !.der = frames + 1]
      /\ Receive_Packet' = IF Receive_Packet.ready THEN Receive_Packet
                           ELSE [ready |-> TRUE, frame |-> frames + 1]
      /\ UNCHANGED <<driver, ringVars, app, Receive_Packet_Flag, got, puts>>
  BY RingAssumption DEF PutLocked
<1>2. frames \in Nat /\ frames + 1 \in 1 .. MaxFrames
  BY <1>1 DEF ReceiveOK
<1>3. ThreadsOK'
  BY <1>1, <1>2 DEF ThreadsOK
<1>4. RingOK' /\ Filling' /\ Taking'
  BY <1>1, PutReceiveRing DEF ThreadsOK, AtRing
<1>5. got \in Seq(1 .. frames) /\ got' \in Seq(1 .. frames')
  BY <1>1, <1>2 DEF ReceiveOK
<1>6. ReceiveOK'
  BY <1>1, <1>2, <1>5 DEF ReceiveOK
<1>7. Handover'
  BY <1>1 DEF Handover, ThreadsOK
<1>8. InOrder'
  <2>1. \A i \in 1 .. Len(got) : got[i] \in 1 .. frames
    BY <1>2, <1>5
  <2> QED
    BY <1>1, <1>2, <2>1 DEF InOrder, ThreadsOK
<1> QED
  BY <1>3, <1>4, <1>6, <1>7, <1>8

(***************************************************************************)
(* MSTP_Put_Receive of dlmstp_linux.c: a packet that is not ready is the   *)
(* state machine's alone.                                                  *)
(***************************************************************************)
LEMMA PutBeginInv ==
  ASSUME MQInv, PutBegin
  PROVE  MQInv'
<1> USE DEF MQInv
<1>1. /\ MaxFrames \in Nat /\ frames < MaxFrames /\ frames' = frames + 1
      /\ driver = "dlmstp_linux" /\ fsm.at = "idle"
      /\ fsm' = [fsm EXCEPT !.der = frames + 1,
                            !.at = IF Receive_Packet.ready THEN "idle" ELSE "store"]
      /\ Receive_Packet' = IF Receive_Packet.ready THEN Receive_Packet
                           ELSE [Receive_Packet EXCEPT !.frame = 0]
      /\ UNCHANGED <<driver, ringVars, app, Receive_Packet_Flag, got, puts>>
  BY RingAssumption DEF PutBegin
<1>2. frames \in Nat /\ frames + 1 \in 1 .. MaxFrames
  BY <1>1 DEF ReceiveOK
<1>3. ThreadsOK'
  <2>1. CASE Receive_Packet.ready
    <3>1. fsm' = [fsm EXCEPT !.der = frames + 1, !.at = "idle"]
      BY <1>1, <2>1
    <3>2. UNCHANGED <<driver, app, puts>> /\ frames + 1 \in Nat
      BY <1>1, <1>2
    <3> QED
      BY <3>1, <3>2, Zenon DEF ThreadsOK
  <2>2. CASE ~ Receive_Packet.ready
    <3>1. fsm' = [fsm EXCEPT !.der = frames + 1, !.at = "store"]
      BY <1>1, <2>2
    <3>2. UNCHANGED <<driver, app, puts>> /\ frames + 1 \in Nat
      BY <1>1, <1>2
    <3> QED
      BY <3>1, <3>2, Zenon DEF ThreadsOK
  <2> QED
    BY <2>1, <2>2
<1>4. RingOK' /\ Filling' /\ Taking'
  BY <1>1, <1>3, PutReceiveRing DEF ThreadsOK, AtRing
<1>5. got \in Seq(1 .. frames) /\ got' \in Seq(1 .. frames')
  BY <1>1, <1>2 DEF ReceiveOK
<1>6. ReceiveOK'
  BY <1>1, <1>2, <1>5 DEF ReceiveOK
<1>7. Handover'
  BY <1>1 DEF Handover, ThreadsOK, ReceiveOK
<1>8. InOrder'
  <2>1. \A i \in 1 .. Len(got) : got[i] \in 1 .. frames
    BY <1>2, <1>5
  <2> QED
    BY <1>1, <1>2, <2>1 DEF InOrder, ThreadsOK, ReceiveOK
<1> QED
  BY <1>3, <1>4, <1>6, <1>7, <1>8

\* The packet is stored while ready is not set.
LEMMA PutStoreInv ==
  ASSUME MQInv, PutStore
  PROVE  MQInv'
<1> USE DEF MQInv
<1>1. /\ fsm.at = "store" /\ fsm' = [fsm EXCEPT !.at = "ready"]
      /\ Receive_Packet' = [Receive_Packet EXCEPT !.frame = frames]
      /\ UNCHANGED <<driver, ringVars, app, Receive_Packet_Flag, frames, got, puts>>
  BY DEF PutStore
<1>2. ThreadsOK'
  BY <1>1 DEF ThreadsOK
<1>3. RingOK' /\ Filling' /\ Taking'
  BY <1>1, PutReceiveRing DEF ThreadsOK, AtRing
<1>4. ReceiveOK'
  <2>1. frames \in Nat
    BY RingAssumption DEF ReceiveOK
  <2>2. Receive_Packet' \in [ready : BOOLEAN, frame : 0 .. frames]
    BY <1>1, <2>1 DEF ReceiveOK
  <2> QED
    BY <1>1, <2>2 DEF ReceiveOK
<1>5. Handover'
  BY <1>1 DEF ReceiveOK, Handover, ThreadsOK
<1>6. InOrder'
  BY <1>1 DEF ReceiveOK, InOrder, ThreadsOK, Handover
<1> QED
  BY <1>2, <1>3, <1>4, <1>5, <1>6

\* Only a packet stored whole is made ready.
LEMMA PutReadyInv ==
  ASSUME MQInv, PutReady
  PROVE  MQInv'
<1> USE DEF MQInv
<1>1. /\ fsm.at = "ready" /\ fsm' = [fsm EXCEPT !.at = "post"]
      /\ Receive_Packet' = [Receive_Packet EXCEPT !.ready = TRUE]
      /\ UNCHANGED <<driver, ringVars, app, Receive_Packet_Flag, frames, got, puts>>
  BY DEF PutReady
<1>2. /\ ~ Receive_Packet.ready /\ app.at \notin {"copy", "release"}
      /\ Receive_Packet_Flag = 0
  BY <1>1 DEF Handover, ReceiveOK
<1>3. ThreadsOK'
  BY <1>1 DEF ThreadsOK
<1>4. RingOK' /\ Filling' /\ Taking'
  BY <1>1, PutReceiveRing DEF ThreadsOK, AtRing
<1>5. ReceiveOK'
  BY <1>1, Zenon DEF ReceiveOK
<1>6. Handover'
  BY <1>1, <1>2 DEF ReceiveOK, Handover, ThreadsOK
<1>7. InOrder'
  BY <1>1, <1>2 DEF ReceiveOK, InOrder, ThreadsOK
<1> QED
  BY <1>3, <1>4, <1>5, <1>6, <1>7

\* The semaphore is posted once for a packet, after ready is set.
LEMMA PutPostInv ==
  ASSUME MQInv, PutPost
  PROVE  MQInv'
<1> USE DEF MQInv
<1>1. /\ fsm.at = "post" /\ fsm' = [fsm EXCEPT !.at = "idle"]
      /\ Receive_Packet_Flag = 0 /\ Receive_Packet_Flag' = 1
      /\ Receive_Packet.ready /\ app.at \notin {"copy", "release"}
      /\ UNCHANGED <<driver, ringVars, app, Receive_Packet, frames, got, puts>>
  BY DEF PutPost, Handover
<1>2. ThreadsOK'
  BY <1>1 DEF ThreadsOK
<1>3. RingOK' /\ Filling' /\ Taking'
  BY <1>1, PutReceiveRing DEF ThreadsOK, AtRing
<1>4. ReceiveOK' /\ Handover' /\ InOrder'
  BY <1>1 DEF ReceiveOK, Handover, InOrder, ThreadsOK
<1> QED
  BY <1>2, <1>3, <1>4

(***************************************************************************)
(* A step within MSTP_Get_Send or MSTP_Get_Reply touches neither the       *)
(* packet received nor the application, and is not part of                 *)
(* MSTP_Put_Receive.                                                       *)
(***************************************************************************)
LEMMA RingReceive ==
  ASSUME MQInv, UNCHANGED <<driver, app, receiveVars>>,
         fsm'.at \notin {"store", "ready", "post"}
  PROVE  ReceiveOK' /\ Handover' /\ InOrder'
BY DEF MQInv, receiveVars, ReceiveOK, Handover, InOrder

\* ... and when it writes no element and moves no index, it leaves the
\* application's element alone.
LEMMA RingUnmoved ==
  ASSUME MQInv, UNCHANGED <<ringVars, app>>
  PROVE  /\ RingOK' /\ Filling'
         /\ Ringbuf_Count' = Ringbuf_Count /\ \A i : Element(i)' = Element(i)
BY DEF MQInv, ringVars, RingOK, Filling, Ringbuf_Count, Element

\* The first element is in the ring unless that is empty.
LEMMA PeekInRing ==
  ASSUME MQInv, ~ Ringbuf_Empty
  PROVE  /\ Ringbuf_Peek \in 0 .. Count - 1 /\ Ringbuf_Count > 0
         /\ \E k \in 0 .. Count - 1 : k < Ringbuf_Count /\ Ringbuf_Peek = Element(tail + k)
<1>1. Count \in Nat \ {0} /\ Word \in Nat
  BY RingAssumption
<1>2. tail \in Nat /\ tail = tail + 0 /\ Ringbuf_Count \in 0 .. Count
  BY <1>1 DEF MQInv, RingOK
<1>3. Ringbuf_Count > 0
  BY <1>1, <1>2 DEF Ringbuf_Empty
<1> QED
  BY <1>1, <1>2, <1>3, ElementInBuffer DEF Ringbuf_Peek

\* MSTP_Get_Send and MSTP_Get_Reply begin with the first element.
LEMMA GetInv ==
  ASSUME MQInv, MSTP_Get_Send \/ MSTP_Get_Reply
  PROVE  MQInv'
<1> PICK at \in {"create", "compare"} :
      /\ fsm' = [fsm EXCEPT !.at = at, !.pkt = Ringbuf_Peek] /\ ~ Ringbuf_Empty
      /\ UNCHANGED <<driver, ringVars, app, receiveVars, puts>>
  BY DEF MSTP_Get_Send, MSTP_Get_Reply
<1>1. /\ Ringbuf_Peek \in 0 .. Count - 1 /\ Ringbuf_Count > 0
      /\ \E k \in 0 .. Count - 1 : k < Ringbuf_Count /\ Ringbuf_Peek = Element(tail + k)
  BY PeekInRing
<1>2. ThreadsOK'
  BY <1>1, Zenon DEF MQInv, ThreadsOK
<1>3. /\ RingOK' /\ Filling' /\ tail' = tail
      /\ Ringbuf_Count' = Ringbuf_Count /\ \A i : Element(i)' = Element(i)
  BY RingUnmoved DEF ringVars
<1>4. fsm'.at = at /\ fsm'.pkt = Ringbuf_Peek
  BY DEF MQInv, ThreadsOK
<1>5. Taking'
  BY <1>1, <1>3, <1>4 DEF Taking, AtRing, Element
<1>6. ReceiveOK' /\ Handover' /\ InOrder'
  BY <1>4, RingReceive
<1> QED
  BY <1>2, <1>3, <1>5, <1>6 DEF MQInv

\* Treply_delay is over, and nothing but the data request is forgotten.
LEMMA ReplyPostponedInv ==
  ASSUME MQInv, ReplyPostponed
  PROVE  MQInv'
<1>1. /\ fsm.at = "idle" /\ fsm' = [fsm EXCEPT !.der = 0]
      /\ UNCHANGED <<driver, ringVars, app, receiveVars, puts>>
  BY DEF ReplyPostponed
<1>2. ThreadsOK' /\ fsm'.at = "idle"
  BY <1>1 DEF MQInv, ThreadsOK
<1>3. RingOK' /\ Filling'
  BY <1>1, RingUnmoved
<1>4. Taking'
  BY <1>2 DEF Taking, AtRing
<1>5. ReceiveOK' /\ Handover' /\ InOrder'
  BY <1>1, <1>2, RingReceive
<1> QED
  BY <1>2, <1>3, <1>4, <1>5 DEF MQInv

(***************************************************************************)
(* The walk of MSTP_Get_Reply goes from an element in the ring to another, *)
(* though the application may have put more in since the step before.      *)
(***************************************************************************)
LEMMA CompareInv ==
  ASSUME MQInv, Compare
  PROVE  MQInv'
<1> DEFINE next == Ringbuf_Peek_Next(fsm.pkt)
<1>1. /\ fsm.at = "compare"
      /\ \/ fsm' = [fsm EXCEPT !.at = "create"]
         \/ fsm' = [fsm EXCEPT !.at = "idle"]
         \/ next # Count /\ fsm' = [fsm EXCEPT !.pkt = next]
      /\ UNCHANGED <<driver, ringVars, app, receiveVars, puts>>
  BY DEF Compare
<1>2. /\ Ringbuf_Count > 0 /\ RingOK
      /\ \E k \in 0 .. Count - 1 : k < Ringbuf_Count /\ fsm.pkt = Element(tail + k)
  BY <1>1 DEF MQInv, Taking, AtRing
<1>3. next # Count => \E k \in 0 .. Count - 1 : k < Ringbuf_Count /\ next = Element(tail + k)
  BY <1>2, PeekNextInRing
<1> HIDE DEF next
<1>4. next # Count => next \in 0 .. Count - 1
  BY <1>2, <1>3, ElementInBuffer, RingAssumption DEF RingOK
<1>5. ThreadsOK'
  BY <1>1, <1>4 DEF MQInv, ThreadsOK
<1>6. /\ RingOK' /\ Filling' /\ tail' = tail
      /\ Ringbuf_Count' = Ringbuf_Count /\ \A i : Element(i)' = Element(i)
  BY <1>1, RingUnmoved DEF ringVars
<1>7. /\ fsm'.at \in {"create", "compare", "idle"}
      /\ fsm'.pkt = fsm.pkt \/ (next # Count /\ fsm'.pkt = next)
  BY <1>1 DEF MQInv, ThreadsOK
<1>8. Taking'
  BY <1>2, <1>3, <1>6, <1>7 DEF Taking, AtRing, Element
<1>9. ReceiveOK' /\ Handover' /\ InOrder'
  BY <1>1, <1>7, RingReceive
<1> QED
  BY <1>5, <1>6, <1>8, <1>9 DEF MQInv

\* MSTP_Create_Frame reads an element in the ring, which is whole.
LEMMA CreateInv ==
  ASSUME MQInv, Create
  PROVE  MQInv'
<1>1. /\ fsm.at = "create"
      /\ \E at \in {"find", "pop"} : fsm' = [fsm EXCEPT !.frame = buffer[fsm.pkt], !.at = at]
      /\ UNCHANGED <<driver, ringVars, app, receiveVars, puts>>
  BY Zenon DEF Create
<1>2. PICK at \in {"find", "pop"} : fsm' = [fsm EXCEPT !.frame = buffer[fsm.pkt], !.at = at]
  BY <1>1, Zenon
<1>3. PICK k \in 0 .. Count - 1 : k < Ringbuf_Count /\ fsm.pkt = Element(tail + k)
  BY <1>1 DEF MQInv, Taking
<1>4. buffer[fsm.pkt] \in Pdu \cup {NoPdu}
  <2>1. k \in Nat
    BY RingAssumption
  <2>2. buffer[fsm.pkt] # Torn
    BY <1>3, <2>1, InRingIsWhole
  <2> QED
    BY <2>2 DEF MQInv, ThreadsOK, RingOK
<1>5. ThreadsOK' /\ fsm'.at = at
  BY <1>1, <1>2, <1>4, Zenon DEF MQInv, ThreadsOK
<1>6. RingOK' /\ Filling' /\ Ringbuf_Count' = Ringbuf_Count
  BY <1>1, RingUnmoved
<1>7. Taking'
  BY <1>1, <1>5, <1>6 DEF MQInv, Taking, AtRing
<1>8. ReceiveOK' /\ Handover' /\ InOrder'
  BY <1>1, <1>5, RingReceive
<1> QED
  BY <1>5, <1>6, <1>7, <1>8 DEF MQInv

(***************************************************************************)
(* Advancing the tail takes one element out of the ring and leaves the     *)
(* application's, which is at the head.                                    *)
(***************************************************************************)
LEMMA TailAdvances ==
  ASSUME MQInv, Ringbuf_Count > 0, tail' = Plus(tail, 1),
         UNCHANGED <<head, depth, buffer, app>>
  PROVE  RingOK' /\ Filling'
<1>1. Count \in Nat /\ Word \in Nat
  BY RingAssumption
<1>2. head \in 0 .. Word - 1 /\ tail \in 0 .. Word - 1 /\ Ringbuf_Count \in 0 .. Count
  BY DEF MQInv, RingOK
<1>3. tail' \in 0 .. Word - 1 /\ Ringbuf_Count' = Ringbuf_Count - 1
  BY <1>2, CountFollows, IndexArithmetic DEF Ringbuf_Count
<1>4. Ringbuf_Count' \in 0 .. Count /\ Ringbuf_Count' < Count
  BY <1>1, <1>2, <1>3
<1>5. RingOK'
  BY <1>3, <1>4 DEF MQInv, RingOK
<1>6. Filling'
  BY <1>4 DEF MQInv, Filling, Element
<1> QED
  BY <1>5, <1>6

\* The state machine has put its frame on the line: MSTP_Get_Send and the
\* MSTP_Get_Reply of ports/linux/dlmstp.c pop the first element,
\* Ringbuf_Pop_Element the gap that its moves have left there.
LEMMA PopInv ==
  ASSUME MQInv, Ringbuf_Pop \/ PopAdvance
  PROVE  MQInv'
<1>1. AtRing
  BY DEF Ringbuf_Pop, PopAdvance, AtRing
<1>2. Ringbuf_Count > 0
  BY <1>1 DEF MQInv, Taking
<1>3. ~ Ringbuf_Empty
  BY <1>2, RingAssumption DEF Ringbuf_Empty
<1>4. /\ tail' = Plus(tail, 1) /\ fsm' = [fsm EXCEPT !.at = "idle", !.der = 0]
      /\ UNCHANGED <<driver, head, depth, buffer, app, receiveVars, puts>>
  BY <1>3 DEF Ringbuf_Pop, PopAdvance
<1>5. ThreadsOK' /\ fsm'.at = "idle"
  BY <1>4, Zenon DEF MQInv, ThreadsOK
<1>6. RingOK' /\ Filling'
  BY <1>2, <1>4, TailAdvances
<1>7. Taking'
  BY <1>5 DEF Taking, AtRing
<1>8. ReceiveOK' /\ Handover' /\ InOrder'
  BY <1>4, <1>5, RingReceive
<1> QED
  BY <1>5, <1>6, <1>7, <1>8 DEF MQInv

\* Ringbuf_Pop_Element looks for its element.
LEMMA PopFindInv ==
  ASSUME MQInv, PopFind
  PROVE  MQInv'
<1> DEFINE i == IF this_index(fsm.pkt) < head THEN this_index(fsm.pkt) ELSE tail
<1>1. /\ fsm.at = "find" /\ fsm' = [fsm EXCEPT !.index = i, !.at = "shift"]
      /\ UNCHANGED <<driver, ringVars, app, receiveVars, puts>>
  BY DEF PopFind
<1>2. Ringbuf_Count > 0 /\ RingOK
  BY <1>1 DEF MQInv, Taking, AtRing
<1>3. i \in Nat /\ tail <= i /\ i < tail + Ringbuf_Count
  BY <1>2, PopIndexInRing
<1> HIDE DEF i
<1>4. ThreadsOK' /\ fsm'.at = "shift" /\ fsm'.index = i
  BY <1>1, <1>3, Zenon DEF MQInv, ThreadsOK
<1>5. RingOK' /\ Filling' /\ Ringbuf_Count' = Ringbuf_Count /\ tail' = tail
  BY <1>1, RingUnmoved DEF ringVars
<1>6. Taking'
  BY <1>2, <1>3, <1>4, <1>5 DEF Taking
<1>7. ReceiveOK' /\ Handover' /\ InOrder'
  BY <1>1, <1>4, RingReceive
<1> QED
  BY <1>4, <1>5, <1>6, <1>7 DEF MQInv

(***************************************************************************)
(* Moving an element up: both places are in the ring, so what is moved is  *)
(* whole and the application's element is not overwritten.                 *)
(***************************************************************************)
LEMMA PopShiftInv ==
  ASSUME MQInv, PopShift
  PROVE  MQInv'
<1> DEFINE i == fsm.index
           from == Element(i - 1)
           to == Element(i)
<1>1. /\ fsm.at = "shift" /\ i > tail /\ fsm' = [fsm EXCEPT !.index = i - 1]
      /\ buffer' = [buffer EXCEPT ![to] = buffer[from]]
      /\ UNCHANGED <<driver, head, tail, depth, app, receiveVars, puts>>
  BY DEF PopShift
<1>2. /\ tail \in Nat /\ i \in Nat /\ Count \in Nat /\ Ringbuf_Count \in Nat
      /\ Ringbuf_Count > 0 /\ i < tail + Ringbuf_Count
  BY <1>1, RingAssumption DEF MQInv, Taking, AtRing, ThreadsOK, RingOK
<1>3. /\ i - 1 \in Nat /\ tail <= i - 1 /\ i - 1 < tail + Ringbuf_Count
      /\ i - 1 - tail \in Nat /\ i - 1 - tail < Ringbuf_Count
      /\ i - 1 = tail + (i - 1 - tail)
  BY <1>1, <1>2
<1>4. from \in 0 .. Count - 1 /\ to \in 0 .. Count - 1
  BY <1>2, <1>3, ElementInBuffer
<1>5. buffer[from] # Torn
  <2>1. buffer[Element(tail + (i - 1 - tail))] # Torn
    BY <1>3, InRingIsWhole
  <2> QED
    BY <1>3, <2>1
<1>6. ThreadsOK' /\ fsm'.at = "shift" /\ fsm'.index = i - 1
  BY <1>1, <1>3 DEF MQInv, ThreadsOK
<1> HIDE DEF i, from, to
<1>7. Ringbuf_Count' = Ringbuf_Count
  BY <1>1 DEF Ringbuf_Count
<1>8. RingOK'
  BY <1>1, <1>4, <1>7 DEF MQInv, RingOK
<1>9. Filling'
  BY <1>1, <1>4, <1>5, <1>7 DEF MQInv, Filling, RingOK, Element
<1>10. Taking'
  BY <1>1, <1>2, <1>3, <1>6, <1>7 DEF Taking, AtRing
<1>11. ReceiveOK' /\ Handover' /\ InOrder'
  BY <1>1, <1>6, RingReceive
<1> QED
  BY <1>6, <1>8, <1>9, <1>10, <1>11 DEF MQInv

-----------------------------------------------------------------------------
\* Steps that change nothing.
LEMMA MQStutters ==
  ASSUME MQInv, UNCHANGED mqVars
  PROVE  MQInv'
BY DEF mqVars, MQInv, ThreadsOK, RingOK, Filling, Taking, ReceiveOK, Handover, InOrder,
       AtRing, Ringbuf_Count, Element

\* The invariant implies the property.
LEMMA InvIsUntorn == MQInv => NoTornRead
<1> SUFFICES ASSUME MQInv PROVE NoTornRead
  OBVIOUS
<1>1. MQTypeOK
  BY DEF MQInv, ThreadsOK, RingOK, ReceiveOK, MQTypeOK
<1>2. fsm.at \in {"compare", "create"} => buffer[fsm.pkt] # Torn
  <2> SUFFICES ASSUME fsm.at \in {"compare", "create"} PROVE buffer[fsm.pkt] # Torn
    OBVIOUS
  <2>1. PICK k \in 0 .. Count - 1 : k < Ringbuf_Count /\ fsm.pkt = Element(tail + k)
    BY DEF MQInv, Taking
  <2>2. k \in Nat
    BY RingAssumption
  <2> QED
    BY <2>1, <2>2, InRingIsWhole
<1>3. fsm.frame # Torn
  BY TornAssumption DEF MQInv, ThreadsOK
<1>4. \A i \in DOMAIN got : got[i] # 0
  BY RingAssumption DEF MQInv, ReceiveOK
<1>5. \A i, j \in DOMAIN got : i < j => got[i] < got[j]
  BY DEF MQInv, ReceiveOK, InOrder
<1> QED
  BY <1>1, <1>2, <1>3, <1>4, <1>5 DEF NoTornRead

(***************************************************************************)
(* The invariant of the two threads, inductive.                            *)
(***************************************************************************)
THEOREM QueuesInvariant == MQSpec => []MQInv
<1>1. ASSUME MQInv, [MQNext]_mqVars PROVE MQInv'
  <2>1. CASE ApplicationTask
    BY <1>1, <2>1, PeekInv, FillInv, PutInv, ReceiveLockedInv, ReceiveWaitInv,
       ReceiveCopyInv, ReceiveReleaseInv, MQStutters DEF ApplicationTask, ReceiveTimeout
  <2>2. CASE StateMachine
    BY <1>1, <2>2, PutLockedInv, PutBeginInv, PutStoreInv, PutReadyInv, PutPostInv,
       GetInv, ReplyPostponedInv, CompareInv, CreateInv, PopInv, PopFindInv, PopShiftInv
       DEF StateMachine
  <2> QED
    BY <1>1, <2>1, <2>2, MQStutters DEF MQNext
<1> QED
  BY <1>1, MQInitInv, PTL DEF MQSpec

(***************************************************************************)
(* The queues of both Linux ports need no lock: whatever the order of the  *)
(* two threads' accesses, dlmstp_send_pdu never writes the element that    *)
(* MSTP_Get_Send, MSTP_Get_Reply or the moves of Ringbuf_Pop_Element are   *)
(* at, and dlmstp_receive hands over whole requests, each once and in      *)
(* order.  For every ring length that divides the word, every number of    *)
(* PDUs, and wherever the indices start, so also where they wrap.          *)
(***************************************************************************)
THEOREM QueuesUntorn == MQSpec => []NoTornRead
BY QueuesInvariant, InvIsUntorn, PTL
=============================================================================
