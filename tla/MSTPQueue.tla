----------------------------- MODULE MSTPQueue -----------------------------
(***************************************************************************)
(* The queues between an application and the MS/TP state machine on Linux: *)
(* PDU_Queue, a ring buffer without a lock (ringbuf.c), and the one-place  *)
(* Receive_Packet.  Two threads: the application calls dlmstp_send_pdu and *)
(* dlmstp_receive, the state machine calls MSTP_Put_Receive, MSTP_Get_Send *)
(* and MSTP_Get_Reply.                                                     *)
(*                                                                         *)
(* There are two ports.  "dlmstp" (ports/linux/dlmstp.c) looks for a reply *)
(* at the front of the ring only and passes packets under a mutex;         *)
(* "dlmstp_linux" (dlmstp_linux.c, used by the router) walks the ring,     *)
(* takes an element out of its middle, and passes packets by a semaphore.  *)
(*                                                                         *)
(* A step is one access to what the threads share.  Accesses are taken in  *)
(* program order: the elements are filled before an external call that     *)
(* advances the volatile head, and x86 keeps stores in order.              *)
(***************************************************************************)
EXTENDS Naturals, Sequences, FiniteSetsExt

CONSTANTS
  Ports,       \* a subset of {"dlmstp", "dlmstp_linux"}
  Word,        \* 2^w for an unsigned of w bits
  Count,       \* element_count, MSTP_PDU_PACKET_COUNT
  Earlier,     \* numbers of PDUs that may have gone through before, for each port
  MaxPuts,     \* bound on the PDUs queued from then on, for each port
  MaxFrames,   \* bound on the requests received
  Torn         \* an element that is being written

ASSUME RingAssumption ==
  /\ Ports \subseteq {"dlmstp", "dlmstp_linux"}
  /\ Word \in Nat /\ Count \in Nat \ {0}
  /\ Word > Count /\ Word % Count = 0      \* isPowerOfTwo(element_count)
  /\ Earlier \in [Ports -> SUBSET Nat]
  /\ MaxPuts \in [Ports -> Nat] /\ MaxFrames \in Nat

VARIABLES
  driver,          \* which of the ports this is
  head, tail,      \* free-running, modulo Word
  depth,
  buffer,          \* the elements
  app,             \* the application's thread: where it is, its packet
  fsm,             \* the state machine's thread: where it is, its packet
  Receive_Packet,
  Receive_Packet_Flag,  \* the semaphore
  frames,          \* requests received from the line
  got,             \* history: the requests the application was handed
  puts,            \* PDUs the application has tried to queue
  sent             \* history: PDUs put on the line

mqVars == <<driver, head, tail, depth, buffer, app, fsm, Receive_Packet,
            Receive_Packet_Flag, frames, got, puts, sent>>
ringVars == <<head, tail, depth, buffer>>
receiveVars == <<Receive_Packet, Receive_Packet_Flag, frames, got>>

\* A PDU, and the request it replies to; 0 is none.
Pdu == [id : 1 .. Max({MaxPuts[p] : p \in Ports}), re : 0 .. MaxFrames]
NoPdu == [id |-> 0, re |-> 0]
IsReply(p) == p.re # 0

ASSUME TornAssumption == Torn \notin Pdu \cup {NoPdu}

----------------------------------------------------------------------------
(* ringbuf.c *)

Plus(i, n) == (i + n) % Word
Minus(i, n) == (i + Word - n) % Word

Ringbuf_Count == Minus(head, tail)
Ringbuf_Full == Ringbuf_Count = Count
Ringbuf_Empty == Ringbuf_Count = 0

\* The address of the element with an index.
Element(i) == i % Count

Ringbuf_Peek == Element(tail)

\* for (index = b->tail; index < end; index++), the comparison unsigned.
Loop(end) == {i \in 0 .. Word - 1 : tail <= i /\ i < end}
Found(element, end) == {i \in Loop(end) : Element(i) = element}

\* The element after this one; Count is NULL.
Ringbuf_Peek_Next(element) ==
  LET found == Found(element, Minus(head, 1))
  IN  IF Ringbuf_Empty \/ found = {} THEN Count ELSE Element(Plus(Min(found), 1))

\* Mutant: whatever the element, the first one is removed.
this_first(element) == tail

\* The index of the element to remove, head when it is not found.
this_index(element) ==
  IF Found(element, head) = {} THEN head ELSE Min(Found(element, head))

----------------------------------------------------------------------------
MQInit ==
  /\ driver \in Ports
  /\ \E n \in Earlier[driver] : head = n % Word /\ tail = n % Word
  /\ depth = 0
  /\ buffer = [e \in 0 .. Count - 1 |-> NoPdu]
  /\ app = [at |-> "loop", pkt |-> 0, pdu |-> NoPdu, owed |-> 0]
  /\ fsm = [at |-> "idle", pkt |-> 0, frame |-> NoPdu, der |-> 0, index |-> 0]
  /\ Receive_Packet = [ready |-> FALSE, frame |-> 0]
  /\ Receive_Packet_Flag = 0
  /\ frames = 0 /\ got = <<>> /\ puts = 0 /\ sent = <<>>

(* The application's thread. *)

\* dlmstp_send_pdu: the application queues a PDU of its own or a reply to the
\* last request.  Ringbuf_Data_Peek, then the element is filled in place.
Ringbuf_Data_Peek(re) ==
  /\ app.at = "loop" /\ puts < MaxPuts[driver]
  /\ puts' = puts + 1
  /\ app' = IF Ringbuf_Full
              THEN [app EXCEPT !.owed = IF re = 0 THEN @ ELSE 0]
              ELSE [at |-> "fill", pkt |-> Element(head),
                    pdu |-> [id |-> puts + 1, re |-> re],
                    owed |-> IF re = 0 THEN app.owed ELSE 0]
  /\ buffer' = IF Ringbuf_Full THEN buffer ELSE [buffer EXCEPT ![Element(head)] = Torn]
  /\ UNCHANGED <<driver, head, tail, depth, fsm, receiveVars, sent>>

Fill ==
  /\ app.at = "fill"
  /\ buffer' = [buffer EXCEPT ![app.pkt] = app.pdu]
  /\ app' = [app EXCEPT !.at = "put"]
  /\ UNCHANGED <<driver, head, tail, depth, fsm, receiveVars, puts, sent>>

Ringbuf_Data_Put ==
  LET ok == ~Ringbuf_Full /\ Element(head) = app.pkt
  IN  /\ app.at = "put"
      /\ head' = IF ok THEN Plus(head, 1) ELSE head
      /\ depth' = IF ok THEN Max({depth, Minus(Plus(head, 1), tail)}) ELSE depth
      /\ app' = [app EXCEPT !.at = "loop"]
      /\ UNCHANGED <<driver, tail, buffer, fsm, receiveVars, puts, sent>>

\* dlmstp_receive: wait for the packet, copy it, free its place.  In "dlmstp"
\* that is done under the mutex; a signal that nobody waited for costs the
\* timeout only, since ready is looked at after it as well.
ReceiveLocked ==
  /\ driver = "dlmstp" /\ app.at = "loop" /\ Receive_Packet.ready
  /\ got' = Append(got, Receive_Packet.frame)
  /\ app' = [app EXCEPT !.owed = Receive_Packet.frame]
  /\ Receive_Packet' = [Receive_Packet EXCEPT !.ready = FALSE]
  /\ UNCHANGED <<driver, ringVars, fsm, Receive_Packet_Flag, frames, puts, sent>>

ReceiveWait ==
  /\ driver = "dlmstp_linux" /\ app.at = "loop" /\ Receive_Packet_Flag > 0
  /\ Receive_Packet_Flag' = Receive_Packet_Flag - 1
  /\ app' = [app EXCEPT !.at = IF Receive_Packet.ready THEN "copy" ELSE "loop"]
  /\ UNCHANGED <<driver, ringVars, fsm, Receive_Packet, frames, got, puts, sent>>

ReceiveCopy ==
  /\ app.at = "copy"
  /\ got' = Append(got, Receive_Packet.frame)
  /\ app' = [app EXCEPT !.at = "release", !.owed = Receive_Packet.frame]
  /\ UNCHANGED <<driver, ringVars, fsm, Receive_Packet, Receive_Packet_Flag, frames, puts, sent>>

ReceiveRelease ==
  /\ app.at = "release"
  /\ Receive_Packet' = [Receive_Packet EXCEPT !.ready = FALSE]
  /\ app' = [app EXCEPT !.at = "loop"]
  /\ UNCHANGED <<driver, ringVars, fsm, Receive_Packet_Flag, frames, got, puts, sent>>

ReceiveTimeout ==
  /\ app.at = "loop"
  /\ IF driver = "dlmstp" THEN ~Receive_Packet.ready ELSE Receive_Packet_Flag = 0
  /\ UNCHANGED mqVars

----------------------------------------------------------------------------
(* The state machine's thread. *)

\* A request that expects a reply comes in: MSTP_Put_Receive, which drops it
\* when the last one is still there, and ANSWER_DATA_REQUEST in any case.
PutLocked ==
  /\ driver = "dlmstp" /\ fsm.at = "idle" /\ fsm.der = 0 /\ frames < MaxFrames
  /\ frames' = frames + 1
  /\ fsm' = [fsm EXCEPT !.der = frames + 1]
  /\ Receive_Packet' = IF Receive_Packet.ready THEN Receive_Packet
                       ELSE [ready |-> TRUE, frame |-> frames + 1]
  /\ UNCHANGED <<driver, ringVars, app, Receive_Packet_Flag, got, puts, sent>>

PutBegin ==
  /\ driver = "dlmstp_linux" /\ fsm.at = "idle" /\ fsm.der = 0 /\ frames < MaxFrames
  /\ frames' = frames + 1
  /\ fsm' = [fsm EXCEPT !.der = frames + 1,
                        !.at = IF Receive_Packet.ready THEN "idle" ELSE "store"]
  /\ Receive_Packet' = IF Receive_Packet.ready THEN Receive_Packet
                       ELSE [Receive_Packet EXCEPT !.frame = 0]   \* half copied
  /\ UNCHANGED <<driver, ringVars, app, Receive_Packet_Flag, got, puts, sent>>

PutStore ==
  /\ fsm.at = "store"
  /\ Receive_Packet' = [Receive_Packet EXCEPT !.frame = frames]
  /\ fsm' = [fsm EXCEPT !.at = "ready"]
  /\ UNCHANGED <<driver, ringVars, app, Receive_Packet_Flag, frames, got, puts, sent>>

PutReady ==
  /\ fsm.at = "ready"
  /\ Receive_Packet' = [Receive_Packet EXCEPT !.ready = TRUE]
  /\ fsm' = [fsm EXCEPT !.at = "post"]
  /\ UNCHANGED <<driver, ringVars, app, Receive_Packet_Flag, frames, got, puts, sent>>

PutPost ==
  /\ fsm.at = "post"
  /\ Receive_Packet_Flag' = Receive_Packet_Flag + 1
  /\ fsm' = [fsm EXCEPT !.at = "idle"]
  /\ UNCHANGED <<driver, ringVars, app, Receive_Packet, frames, got, puts, sent>>

\* Mutant: the first element is taken although the ring is empty.
Send_Unchecked ==
  /\ fsm.at = "idle" /\ fsm.der = 0
  /\ fsm' = [fsm EXCEPT !.at = "create", !.pkt = Ringbuf_Peek]
  /\ UNCHANGED <<driver, ringVars, app, receiveVars, puts, sent>>

\* MSTP_Get_Send, with the token: the first element becomes a frame and is
\* popped.
MSTP_Get_Send ==
  /\ fsm.at = "idle" /\ fsm.der = 0 /\ ~Ringbuf_Empty
  /\ fsm' = [fsm EXCEPT !.at = "create", !.pkt = Ringbuf_Peek]
  /\ UNCHANGED <<driver, ringVars, app, receiveVars, puts, sent>>

\* MSTP_Get_Reply, in ANSWER_DATA_REQUEST.
MSTP_Get_Reply ==
  /\ fsm.at = "idle" /\ fsm.der # 0 /\ ~Ringbuf_Empty
  /\ fsm' = [fsm EXCEPT !.at = "compare", !.pkt = Ringbuf_Peek]
  /\ UNCHANGED <<driver, ringVars, app, receiveVars, puts, sent>>

\* Mutant: as long as PDUs are queued the machine goes on looking for the reply.
Postponed_Empty ==
  /\ fsm.at = "idle" /\ fsm.der # 0 /\ Ringbuf_Empty
  /\ fsm' = [fsm EXCEPT !.der = 0]
  /\ UNCHANGED <<driver, ringVars, app, receiveVars, puts, sent>>

\* Treply_delay is over: the reply is postponed and will be sent with the token.
ReplyPostponed ==
  /\ fsm.at = "idle" /\ fsm.der # 0
  /\ fsm' = [fsm EXCEPT !.der = 0]
  /\ UNCHANGED <<driver, ringVars, app, receiveVars, puts, sent>>

dlmstp_compare_data_expecting_reply(p) == p.re = fsm.der

Compare ==
  LET pkt == buffer[fsm.pkt]
      next == IF driver = "dlmstp" THEN Count ELSE Ringbuf_Peek_Next(fsm.pkt)
  IN  /\ fsm.at = "compare"
      /\ fsm' = IF pkt # Torn /\ dlmstp_compare_data_expecting_reply(pkt)
                  THEN [fsm EXCEPT !.at = "create"]
                  ELSE IF next = Count THEN [fsm EXCEPT !.at = "idle"]
                  ELSE [fsm EXCEPT !.pkt = next]
      /\ UNCHANGED <<driver, ringVars, app, receiveVars, puts, sent>>

\* MSTP_Create_Frame reads the element.
Create ==
  /\ fsm.at = "create"
  /\ fsm' = [fsm EXCEPT !.frame = buffer[fsm.pkt],
                        !.at = IF driver = "dlmstp_linux" /\ fsm.der # 0 THEN "find" ELSE "pop"]
  /\ UNCHANGED <<driver, ringVars, app, receiveVars, puts, sent>>

\* Ringbuf_Pop, then the frame goes out.
Ringbuf_Pop ==
  /\ fsm.at = "pop"
  /\ tail' = IF Ringbuf_Empty THEN tail ELSE Plus(tail, 1)
  /\ sent' = Append(sent, fsm.frame)
  /\ fsm' = [fsm EXCEPT !.at = "idle", !.der = 0]
  /\ UNCHANGED <<driver, head, depth, buffer, app, receiveVars, puts>>

\* Ringbuf_Pop_Element: find the element, move those before it up the list one
\* at a time, advance the tail.  The frame counts as sent from here on.
PopFind ==
  LET this == this_index(fsm.pkt)
  IN  /\ fsm.at = "find"
      /\ sent' = Append(sent, fsm.frame)
      /\ fsm' = [fsm EXCEPT !.index = IF this < head THEN this ELSE tail, !.at = "shift"]
      /\ UNCHANGED <<driver, ringVars, app, receiveVars, puts>>

PopShift ==
  /\ fsm.at = "shift" /\ fsm.index > tail
  /\ buffer' = [buffer EXCEPT ![Element(fsm.index)] = buffer[Element(fsm.index - 1)]]
  /\ fsm' = [fsm EXCEPT !.index = @ - 1]
  /\ UNCHANGED <<driver, head, tail, depth, app, receiveVars, puts, sent>>

PopAdvance ==
  /\ fsm.at = "shift" /\ fsm.index <= tail
  /\ tail' = Plus(tail, 1)
  /\ fsm' = [fsm EXCEPT !.at = "idle", !.der = 0]
  /\ UNCHANGED <<driver, head, depth, buffer, app, receiveVars, puts, sent>>

----------------------------------------------------------------------------
ApplicationTask ==
  \/ \E re \in {0, app.owed} : Ringbuf_Data_Peek(re)
  \/ Fill \/ Ringbuf_Data_Put
  \/ ReceiveLocked \/ ReceiveWait \/ ReceiveCopy \/ ReceiveRelease \/ ReceiveTimeout

StateMachine ==
  \/ PutLocked \/ PutBegin \/ PutStore \/ PutReady \/ PutPost
  \/ MSTP_Get_Send \/ MSTP_Get_Reply \/ ReplyPostponed
  \/ Compare \/ Create \/ Ringbuf_Pop \/ PopFind \/ PopShift \/ PopAdvance

MQNext == ApplicationTask \/ StateMachine

MQSpec == MQInit /\ [][MQNext]_mqVars

\* The state machine's thread goes on, it gets the token again and again, and
\* the silence after a request outlasts Treply_delay.
MQFairness ==
  /\ WF_mqVars(MSTP_Get_Send) /\ SF_mqVars(ReplyPostponed)
  /\ WF_mqVars(PutStore \/ PutReady \/ PutPost)
  /\ WF_mqVars(Compare \/ Create \/ Ringbuf_Pop)
  /\ WF_mqVars(PopFind \/ PopShift \/ PopAdvance)

MQFairSpec == MQSpec /\ MQFairness

----------------------------------------------------------------------------
(* Properties *)

\* The PDUs in the ring, oldest first.  While elements are moved up the one
\* at index is the gap.
View ==
  LET at(k) == Plus(tail, k - 1)
      all == [k \in 1 .. Ringbuf_Count |-> buffer[Element(at(k))]]
      gap == {k \in DOMAIN all : at(k) = fsm.index}
  IN  IF fsm.at = "shift" /\ gap # {}
        THEN SubSeq(all, 1, Min(gap) - 1) \o SubSeq(all, Min(gap) + 1, Len(all))
        ELSE all

\* Types, indices within their word and never further apart than the ring is
\* long.
MQTypeOK ==
  /\ head \in 0 .. Word - 1 /\ tail \in 0 .. Word - 1
  /\ Ringbuf_Count \in 0 .. Count /\ depth \in 0 .. Count
  /\ buffer \in [0 .. Count - 1 -> Pdu \cup {NoPdu, Torn}]
  /\ app.at \in {"loop", "fill", "put", "copy", "release"}
  /\ fsm.at \in {"idle", "store", "ready", "post", "compare", "create", "pop", "find", "shift"}
  /\ fsm.pkt \in 0 .. Count - 1 /\ app.pkt \in 0 .. Count - 1
  /\ Receive_Packet_Flag \in 0 .. 1

\* Neither thread ever looks at what the other is writing: an element that
\* dlmstp_send_pdu is filling is not peeked, compared or made into a frame, and
\* the indices of the ring stay in step.  Receive_Packet hands over whole
\* requests, each at most once and in order, although nothing but ready and the
\* semaphore guards it in dlmstp_linux.
NoTornRead ==
  /\ MQTypeOK
  /\ fsm.at \in {"compare", "create"} => buffer[fsm.pkt] # Torn
  /\ fsm.frame # Torn
  /\ \A i \in DOMAIN got : got[i] # 0
  /\ \A i, j \in DOMAIN got : i < j => got[i] < got[j]

\* The ring without a lock is a queue: what is accepted leaves once, in order,
\* replies possibly before the rest.
Abstract == INSTANCE PduQueue
  WITH Pdus <- Pdu, Capacity <- Count, queue <- View

ImplementsQueue == Abstract!QSpec

\* What dlmstp_send_pdu accepted is sent in the end: the queue, which nothing
\* leaves but to be sent (ImplementsQueue), is emptied when no more is put in.
AcceptedIsSent == View # <<>> ~> View = <<>>
=============================================================================
