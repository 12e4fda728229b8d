-------------------------- MODULE RouterPortsProofs --------------------------
(***************************************************************************)
(* The messages of the threaded router, for any number of ports, box size  *)
(* and number of blocks: a block is counted by the ports that have it or   *)
(* will get it, and nothing refers to a block that was freed.              *)
(***************************************************************************)
EXTENDS RouterPorts, FiniteSetTheorems, WellFoundedInduction, TLAPS

-----------------------------------------------------------------------------
\* Boxes.  In a box without duplicates no block is twice; SHUTDOWN may be.

Distinct(box) ==
  \A i, j \in DOMAIN box : box[i] = box[j] /\ box[i] # SHUTDOWN => i = j

\* What is in a box after msgsnd.
LEMMA AppendBox ==
  ASSUME NEW S, NEW box \in Seq(S), NEW e \in S
  PROVE  /\ Append(box, e) \in Seq(S) /\ Len(Append(box, e)) = Len(box) + 1
         /\ \A b : InBox(Append(box, e), b) <=> InBox(box, b) \/ b = e
         /\ Distinct(box) /\ (e = SHUTDOWN \/ ~InBox(box, e)) => Distinct(Append(box, e))
<1> DEFINE A == Append(box, e)
<1>1. A \in Seq(S) /\ Len(A) = Len(box) + 1 /\ Len(box) \in Nat
  OBVIOUS
<1>2. DOMAIN box = 1 .. Len(box) /\ DOMAIN A = 1 .. Len(box) + 1
  BY <1>1
<1>3. A[Len(box) + 1] = e /\ \A i \in 1 .. Len(box) : A[i] = box[i]
  OBVIOUS
<1> HIDE DEF A
<1>4. \A b : InBox(A, b) <=> InBox(box, b) \/ b = e
  <2> TAKE b
  <2>1. InBox(A, b) => InBox(box, b) \/ b = e
    BY <1>1, <1>2, <1>3 DEF InBox
  <2>2. InBox(box, b) => InBox(A, b)
    BY <1>1, <1>2, <1>3 DEF InBox
  <2>3. b = e => InBox(A, b)
    <3>1. Len(box) + 1 \in DOMAIN A
      BY <1>1, <1>2
    <3> QED BY <3>1, <1>3 DEF InBox
  <2> QED BY <2>1, <2>2, <2>3
<1>5. ASSUME Distinct(box), e = SHUTDOWN \/ ~InBox(box, e) PROVE Distinct(A)
  BY <1>1, <1>2, <1>3, <1>5 DEF InBox, Distinct
<1> QED BY <1>1, <1>4, <1>5 DEF A

\* What is in a box after msgrcv took its head.
LEMMA TailBox ==
  ASSUME NEW S, NEW box \in Seq(S), box # <<>>
  PROVE  /\ Head(box) \in S /\ Tail(box) \in Seq(S) /\ Len(Tail(box)) = Len(box) - 1
         /\ \A b : InBox(box, b) <=> InBox(Tail(box), b) \/ b = Head(box)
         /\ Distinct(box) => Distinct(Tail(box))
         /\ Distinct(box) /\ Head(box) # SHUTDOWN => ~InBox(Tail(box), Head(box))
<1> DEFINE T == Tail(box)
<1>1. /\ T \in Seq(S) /\ Len(T) = Len(box) - 1 /\ Len(box) \in Nat /\ Len(box) > 0
      /\ Head(box) = box[1] /\ Head(box) \in S
  OBVIOUS
<1>2. DOMAIN box = 1 .. Len(box) /\ DOMAIN T = 1 .. Len(box) - 1
  BY <1>1
<1>3. \A i \in 1 .. Len(box) - 1 : T[i] = box[i + 1]
  OBVIOUS
<1> HIDE DEF T
<1>4. \A b : InBox(box, b) <=> InBox(T, b) \/ b = Head(box)
  <2> TAKE b
  <2>1. ASSUME InBox(box, b) PROVE InBox(T, b) \/ b = Head(box)
    <3>1. PICK i \in 1 .. Len(box) : box[i] = b
      BY <2>1, <1>2 DEF InBox
    <3>2. CASE i = 1
      BY <3>1, <3>2, <1>1
    <3>3. CASE i # 1
      <4>1. i - 1 \in DOMAIN T /\ T[i - 1] = b
        BY <3>1, <3>3, <1>1, <1>2, <1>3
      <4> QED BY <4>1 DEF InBox
    <3> QED BY <3>2, <3>3
  <2>2. ASSUME InBox(T, b) PROVE InBox(box, b)
    <3>1. PICK i \in 1 .. Len(box) - 1 : T[i] = b
      BY <2>2, <1>2 DEF InBox
    <3>2. i + 1 \in DOMAIN box /\ box[i + 1] = b
      BY <3>1, <1>1, <1>2, <1>3
    <3> QED BY <3>2 DEF InBox
  <2>3. b = Head(box) => InBox(box, b)
    BY <1>1, <1>2 DEF InBox
  <2> QED BY <2>1, <2>2, <2>3
<1>5. ASSUME Distinct(box) PROVE Distinct(T)
  <2> SUFFICES ASSUME NEW i \in 1 .. Len(box) - 1, NEW j \in 1 .. Len(box) - 1,
                      T[i] = T[j], T[i] # SHUTDOWN
               PROVE  i = j
    BY <1>2 DEF Distinct
  <2>1. i + 1 \in DOMAIN box /\ j + 1 \in DOMAIN box
    BY <1>1, <1>2
  <2>2. i + 1 = j + 1
    BY <2>1, <1>3, <1>5 DEF Distinct
  <2> QED BY <2>2
<1>6. ASSUME Distinct(box), Head(box) # SHUTDOWN, InBox(T, Head(box)) PROVE FALSE
  <2>1. PICK i \in 1 .. Len(box) - 1 : T[i] = Head(box)
    BY <1>6, <1>2 DEF InBox
  <2>2. i + 1 \in DOMAIN box /\ 1 \in DOMAIN box /\ box[i + 1] = box[1] /\ box[1] # SHUTDOWN
    BY <2>1, <1>1, <1>2, <1>3, <1>6
  <2>3. i + 1 = 1
    BY <2>2, <1>6 DEF Distinct
  <2> QED BY <2>3
<1> QED BY <1>1, <1>4, <1>5, <1>6 DEF T

-----------------------------------------------------------------------------
\* The inductive invariant

Places == {"waits", "sends", "loop", "stops", "shuts", "joins", "exited"}

Messages ==
  [ref_count : 0 .. port_count, origin : 0 .. port_count, packet : Packets \cup {NoBlock.packet}]

Types ==
  /\ state \in [Port -> {"INIT", "INIT_FAILED", "RUNNING", "FINISHED"}]
  /\ port_id \in [Port -> Seq(Blocks \cup {SHUTDOWN})]
  /\ \A p \in Port : Len(port_id[p]) <= BoxSize
  /\ main_id \in Seq(Blocks) /\ Len(main_id) <= BoxSize /\ main_open \in BOOLEAN
  /\ holds \in [Port -> {<<>>} \cup ({"send", "post"} \X Blocks)]
  /\ main \in [at : Places, block : Blocks \cup {0}, to : Seq(Port)]
  /\ data \in [Blocks -> Messages \cup {NoBlock}]
  /\ dnets \in [Port -> SUBSET (Port \cup RemoteNets)]

\* No box has a block twice, and main does not have a port twice before it.
BoxesOK ==
  /\ \A p \in Port : Distinct(port_id[p])
  /\ Distinct(main_id)
  /\ main.at = "sends" => Distinct(main.to) /\ main.block \in Blocks
  /\ main.at \in {"sends", "shuts", "joins"} => main.to # <<>>

\* How a port, or main, refers to a block.
Waits(p, b) == InBox(port_id[p], b)
Sends(p, b) == holds[p] = <<"send", b>>
Posts(p, b) == holds[p] = <<"post", b>>
WillGet(p, b) == main.at = "sends" /\ main.block = b /\ InBox(main.to, p)
Received(b) == (\E p \in Port : Posts(p, b)) \/ InBox(main_id, b)

\* The ports that have a block or will get it.
Sharers(b) == {p \in Port : Waits(p, b) \/ Sends(p, b) \/ WillGet(p, b)}

\* A port has a block once, and a block that was received is in one place only
\* and shared by nobody; what is referred to is allocated, and counted.
BlockOK(b) ==
  /\ \A p \in Port : /\ ~(Waits(p, b) /\ Sends(p, b))
                     /\ ~(Waits(p, b) /\ WillGet(p, b))
                     /\ ~(Sends(p, b) /\ WillGet(p, b))
  /\ \A p, q \in Port : Posts(p, b) /\ Posts(q, b) => p = q
  /\ \A p \in Port : ~(Posts(p, b) /\ InBox(main_id, b))
  /\ Received(b) => b \in Allocated /\ data[b].origin \in Port /\ data[b].packet \in Packets
  /\ Sharers(b) # {} => b \in Allocated /\ ~Received(b)
  /\ b \in Allocated /\ ~Received(b) => data[b].ref_count = Cardinality(Sharers(b))

RPInv == Types /\ BoxesOK /\ \A b \in Blocks : BlockOK(b)

\* Nothing and something in hand are told apart.
LEMMA HandsDiffer ==
  \A b, c : /\ <<"send", b>> # <<>> /\ <<"post", b>> # <<>> /\ <<"send", b>> # <<"post", c>>
            /\ (<<"send", b>> = <<"send", c>> <=> b = c)
            /\ (<<"post", b>> = <<"post", c>> <=> b = c)
  OBVIOUS

\* What the properties say in terms of the ways to refer to a block.
LEMMA UsesAre ==
  ASSUME Types, NEW b \in Blocks
  PROVE  /\ Uses(b).received <=> Received(b)
         /\ Uses(b).ports \cup StillToSend(b) = Sharers(b)
<1>1. Uses(b).received <=> Received(b)
  BY Zenon DEF Uses, Received, Posts
<1>2. Uses(b).ports = {p \in Port : Waits(p, b) \/ Sends(p, b)}
  BY DEF Uses, Waits, Sends
<1>3. StillToSend(b) = {p \in Port : WillGet(p, b)}
  <2>1. main.to \in Seq(Port)
    BY DEF Types
  <2>2. \A i \in DOMAIN main.to : main.to[i] \in Port
    BY <2>1
  <2> QED BY <2>2 DEF StillToSend, WillGet, InBox
<1> QED BY <1>1, <1>2, <1>3 DEF Sharers

\* Few are the sharers of a block.
LEMMA SharersFinite ==
  \A b : /\ IsFiniteSet(Sharers(b)) /\ Sharers(b) \subseteq Port
         /\ Cardinality(Sharers(b)) \in 0 .. port_count
<1> TAKE b
<1>1. IsFiniteSet(Port) /\ Cardinality(Port) = port_count
  BY FS_Interval, PortsAssumption DEF Port
<1>2. Sharers(b) \subseteq Port
  BY DEF Sharers
<1>3. IsFiniteSet(Sharers(b)) /\ Cardinality(Sharers(b)) <= port_count
  BY <1>1, <1>2, FS_Subset
<1>4. Cardinality(Sharers(b)) \in Nat
  BY <1>3, FS_CardinalityType
<1> QED BY <1>2, <1>3, <1>4, PortsAssumption

\* A block that a step leaves alone stays as it should be.
LEMMA BlockKept ==
  ASSUME NEW b \in Blocks, BlockOK(b), data'[b] = data[b],
         \A p \in Port : /\ Waits(p, b)' <=> Waits(p, b)
                         /\ Sends(p, b)' <=> Sends(p, b)
                         /\ Posts(p, b)' <=> Posts(p, b)
                         /\ WillGet(p, b)' <=> WillGet(p, b),
         InBox(main_id, b)' <=> InBox(main_id, b)
  PROVE  BlockOK(b)'
<1>1. Sharers(b)' = Sharers(b)
  BY DEF Sharers
<1>2. Received(b)' <=> Received(b)
  BY DEF Received
<1>3. b \in Allocated' <=> b \in Allocated
  BY DEF Allocated
<1> QED BY <1>1, <1>2, <1>3 DEF BlockOK

\* The properties follow from the invariant.
LEMMA InvImplies ==
  RPInv => RPTypeOK /\ CountsReferences /\ NoDanglingMessage
<1> SUFFICES ASSUME RPInv PROVE RPTypeOK /\ CountsReferences /\ NoDanglingMessage
  OBVIOUS
<1> USE DEF RPInv
<1>1. RPTypeOK
  <2>1. \A b \in Blocks : data[b].ref_count \in -1 .. port_count
    BY PortsAssumption DEF Types, Messages, NoBlock
  <2> QED BY <2>1 DEF RPTypeOK, Types
<1>2. NoDanglingMessage
  BY UsesAre DEF NoDanglingMessage, BlockOK, Allocated
<1>3. CountsReferences
  BY <1>2, UsesAre, Zenon DEF CountsReferences, BlockOK, Allocated
<1> QED BY <1>1, <1>2, <1>3

\* Initially there is no block.
LEMMA InitInv == RPInit => RPInv
<1> SUFFICES ASSUME RPInit PROVE RPInv
  OBVIOUS
<1>1. Types
  BY PortsAssumption DEF RPInit, Types, Places
<1>2. BoxesOK
  BY DEF RPInit, BoxesOK, Distinct
<1>3. ASSUME NEW b \in Blocks PROVE BlockOK(b)
  <2>1. \A p \in Port : ~Waits(p, b) /\ ~WillGet(p, b) /\ holds[p] = <<>>
    BY DEF RPInit, Waits, WillGet, InBox
  <2>2. \A p \in Port : ~Sends(p, b) /\ ~Posts(p, b)
    BY <2>1, HandsDiffer DEF Sends, Posts
  <2>3. ~InBox(main_id, b) /\ b \notin Allocated
    BY DEF RPInit, InBox, Allocated
  <2> QED BY <2>1, <2>2, <2>3 DEF BlockOK, Received, Sharers
<1> QED BY <1>1, <1>2, <1>3 DEF RPInv

-----------------------------------------------------------------------------
\* The steps of a port

\* Starting a port touches no block.
LEMMA PortStartsInv ==
  ASSUME RPInv, NEW p \in Port, PortStarts(p)
  PROVE  RPInv'
<1> USE DEF PortStarts, mailVars
<1>t. Types
  BY DEF RPInv
<1>x. BoxesOK
  BY DEF RPInv
<1>b. \A b \in Blocks : BlockOK(b)
  BY DEF RPInv
<1>1. Types'
  BY <1>t DEF Types
<1>2. BoxesOK'
  BY <1>x DEF BoxesOK
<1>3. ASSUME NEW b \in Blocks PROVE BlockOK(b)'
  BY <1>b, BlockKept DEF Waits, Sends, Posts, WillGet
<1> QED BY <1>1, <1>2, <1>3 DEF RPInv

\* The message a port takes leaves its box for its hand.
LEMMA PortTakesInv ==
  ASSUME RPInv, NEW p \in Port, PortTakes(p)
  PROVE  RPInv'
<1> DEFINE box == port_id[p]
<1>t. Types
  BY DEF RPInv
<1>x. BoxesOK
  BY DEF RPInv
<1>b. \A b \in Blocks : BlockOK(b)
  BY DEF RPInv
<1>1. box \in Seq(Blocks \cup {SHUTDOWN}) /\ box # <<>> /\ Distinct(box) /\ Len(box) \in Nat
  BY <1>t, <1>x DEF Types, BoxesOK, PortTakes
<1>0. PICK c \in Blocks \cup {SHUTDOWN} : c = Head(box)
  BY <1>1, TailBox
<1>2. /\ Tail(box) \in Seq(Blocks \cup {SHUTDOWN})
      /\ Len(Tail(box)) = Len(box) - 1 /\ Distinct(Tail(box))
      /\ \A b : InBox(box, b) <=> InBox(Tail(box), b) \/ b = c
      /\ c # SHUTDOWN => ~InBox(Tail(box), c)
  BY <1>0, <1>1, TailBox
<1>3. /\ port_id' = [port_id EXCEPT ![p] = Tail(box)] /\ holds[p] = <<>>
      /\ UNCHANGED <<main_id, main_open, main, data, dnets>>
      /\ holds' = IF c = SHUTDOWN THEN holds ELSE [holds EXCEPT ![p] = <<"send", c>>]
      /\ state' \in [Port -> {"INIT", "INIT_FAILED", "RUNNING", "FINISHED"}]
  BY <1>t, <1>0, Zenon DEF PortTakes, mailVars, Running, Types
<1>4. Types'
  <2>1. port_id' \in [Port -> Seq(Blocks \cup {SHUTDOWN})]
    BY <1>t, <1>2, <1>3 DEF Types
  <2>2. \A q \in Port : Len(port_id'[q]) <= BoxSize
    BY <1>t, <1>1, <1>2, <1>3, PortsAssumption DEF Types
  <2>3. holds' \in [Port -> {<<>>} \cup ({"send", "post"} \X Blocks)]
    BY <1>t, <1>2, <1>3 DEF Types
  <2> QED BY <1>t, <2>1, <2>2, <2>3, <1>3 DEF Types
<1>5. BoxesOK'
  BY <1>t, <1>x, <1>2, <1>3 DEF BoxesOK, Types
<1>6. \A b \in Blocks : InBox(main_id, b)' = InBox(main_id, b)
  BY <1>3
<1>7. \A q \in Port, b \in Blocks : WillGet(q, b)' = WillGet(q, b)
  BY <1>3 DEF WillGet
<1>8. \A q \in Port, b \in Blocks : q # p => /\ Waits(q, b)' = Waits(q, b)
                                            /\ Sends(q, b)' = Sends(q, b)
                                            /\ Posts(q, b)' = Posts(q, b)
  BY <1>t, <1>3 DEF Waits, Sends, Posts, Types
<1>9. \A b \in Blocks : ~Posts(p, b) /\ ~Sends(p, b) /\ ~Posts(p, b)'
                        /\ (Sends(p, b)' <=> b = c)
  <2>1. SHUTDOWN \notin Blocks
    BY PortsAssumption DEF SHUTDOWN, Blocks
  <2> QED BY <1>t, <2>1, <1>3, HandsDiffer DEF Posts, Sends, Types
<1>10. \A b \in Blocks : b # c => (Waits(p, b)' <=> Waits(p, b))
  BY <1>t, <1>2, <1>3 DEF Waits, Types
<1>11. ASSUME NEW b \in Blocks, b # c PROVE BlockOK(b)'
  BY <1>b, <1>3, <1>6, <1>7, <1>8, <1>9, <1>10, <1>11, BlockKept
<1>12. ASSUME c \in Blocks PROVE BlockOK(c)'
  <2>1. c # SHUTDOWN
    BY <1>12, PortsAssumption DEF SHUTDOWN, Blocks
  <2>2. Waits(p, c) /\ ~Waits(p, c)' /\ Sends(p, c)'
    BY <1>t, <2>1, <1>2, <1>3, <1>9, <1>12 DEF Waits, Types
  <2>3. Sharers(c)' = Sharers(c)
    BY <2>2, <1>7, <1>8, <1>12 DEF Sharers
  <2>4. Received(c)' <=> Received(c)
    BY <1>6, <1>8, <1>9, <1>12 DEF Received
  <2>5. c \in Allocated' <=> c \in Allocated
    BY <1>3 DEF Allocated
  <2>6. BlockOK(c)
    BY <1>12, <1>b
  <2> QED BY <1>b, <1>3, <1>6, <1>7, <1>8, <1>9, <1>12, <2>2, <2>3, <2>4, <2>5, <2>6 DEF BlockOK
<1> QED BY <1>4, <1>5, <1>11, <1>12 DEF RPInv

\* The last port that sends a block frees it.
LEMMA PortSendsInv ==
  ASSUME RPInv, NEW p \in Port, PortSends(p)
  PROVE  RPInv'
<1>t. Types
  BY DEF RPInv
<1>x. BoxesOK
  BY DEF RPInv
<1>b. \A b \in Blocks : BlockOK(b)
  BY DEF RPInv
<1>1. PICK c \in Blocks : holds[p] = <<"send", c>>
  BY <1>t DEF Types, PortSends
<1>2. /\ holds' = [holds EXCEPT ![p] = <<>>] /\ check_data(c)
      /\ UNCHANGED <<state, port_id, main_id, main_open, main, dnets>>
  BY <1>1 DEF PortSends, mailVars
<1>3. Sends(p, c) /\ \A b \in Blocks : ~Sends(p, b)' /\ ~Posts(p, b) /\ ~Posts(p, b)'
                                       /\ (b # c => ~Sends(p, b))
  BY <1>t, <1>1, <1>2, HandsDiffer DEF Sends, Posts, Types
<1>4. \A q \in Port, b \in Blocks : q # p => Sends(q, b)' = Sends(q, b) /\ Posts(q, b)' = Posts(q, b)
  BY <1>t, <1>2 DEF Sends, Posts, Types
<1>5. \A q \in Port, b \in Blocks : Waits(q, b)' = Waits(q, b) /\ WillGet(q, b)' = WillGet(q, b)
                                    /\ InBox(main_id, b)' = InBox(main_id, b)
  BY <1>2 DEF Waits, WillGet
<1>6. p \in Sharers(c) /\ c \in Allocated /\ ~Received(c) /\ ~Received(c)'
      /\ data[c].ref_count = Cardinality(Sharers(c))
  BY <1>b, <1>1, <1>3, <1>4, <1>5 DEF BlockOK, Sharers, Received
<1>7. data[c] \in Messages /\ data[c].ref_count >= 1
  <2>1. data[c] \in Messages
    BY <1>t, <1>1, <1>6 DEF Types, Allocated
  <2>2. Cardinality(Sharers(c)) # 0
    BY <1>6, SharersFinite, FS_EmptySet
  <2> QED BY <2>1, <2>2, <1>6, PortsAssumption DEF Messages
<1>8. Sharers(c)' = Sharers(c) \ {p}
  <2>1. ~Waits(p, c) /\ ~WillGet(p, c)
    BY <1>b, <1>1, <1>3 DEF BlockOK
  <2> QED BY <2>1, <1>1, <1>3, <1>4, <1>5 DEF Sharers
<1>9. Cardinality(Sharers(c)') = data[c].ref_count - 1
  BY <1>6, <1>8, SharersFinite, FS_RemoveElement, Zenon
<1>10. CASE data[c].ref_count = 1
  <2>1. data' = [data EXCEPT ![c] = NoBlock]
    BY <1>t, <1>2, <1>10, <1>1 DEF check_data, Types
  <2>2. Sharers(c)' = {}
    <3>1. IsFiniteSet(Sharers(c)')
      BY <1>8, SharersFinite, FS_RemoveElement
    <3> QED BY <3>1, <1>9, <1>10, FS_EmptySet
  <2>3. Types'
    BY <1>t, <2>1, <1>1, <1>2 DEF Types
  <2>4. BoxesOK'
    BY <1>x, <1>2 DEF BoxesOK
  <2>5. ASSUME NEW b \in Blocks, b # c PROVE BlockOK(b)'
    <3>1. data'[b] = data[b]
      BY <1>t, <2>1, <2>5 DEF Types
    <3> QED BY <1>b, <3>1, <1>3, <1>4, <1>5, <2>5, BlockKept
  <2>6. c \notin Allocated'
    BY <1>t, <2>1, <1>1 DEF Allocated, Types
  <2>7. BlockOK(c)
    BY <1>1, <1>b
  <2>8. BlockOK(c)'
    BY <1>b, <2>2, <2>6, <2>7, <1>1, <1>3, <1>4, <1>5, <1>6 DEF BlockOK
  <2> QED BY <2>3, <2>4, <2>5, <2>8 DEF RPInv
<1>11. CASE data[c].ref_count # 1
  <2> DEFINE d == [data[c] EXCEPT !.ref_count = data[c].ref_count - 1]
  <2>1. data' = [data EXCEPT ![c] = d]
    BY <1>t, <1>2, <1>11, <1>1 DEF check_data, Types
  <2>2. d \in Messages /\ d.ref_count = data[c].ref_count - 1
    BY <1>7, <1>11, PortsAssumption DEF Messages
  <2> HIDE DEF d
  <2>3. Types'
    BY <1>t, <2>1, <2>2, <1>1, <1>2 DEF Types
  <2>4. BoxesOK'
    BY <1>x, <1>2 DEF BoxesOK
  <2>5. ASSUME NEW b \in Blocks, b # c PROVE BlockOK(b)'
    <3>1. data'[b] = data[b]
      BY <1>t, <2>1, <2>5 DEF Types
    <3> QED BY <1>b, <3>1, <1>3, <1>4, <1>5, <2>5, BlockKept
  <2>6. data'[c] = d /\ c \in Allocated'
    BY <1>t, <2>1, <2>2, <1>1, PortsAssumption DEF Allocated, Types, Messages, NoBlock
  <2>7. BlockOK(c)
    BY <1>1, <1>b
  <2>8. BlockOK(c)'
    BY <1>b, <2>2, <2>6, <2>7, <1>1, <1>3, <1>4, <1>5, <1>6, <1>9 DEF BlockOK
  <2> QED BY <2>3, <2>4, <2>5, <2>8 DEF RPInv
<1> QED BY <1>10, <1>11

\* malloc returns a block that nothing refers to.
LEMMA NewBlockIsFree ==
  ASSUME CanAllocate
  PROVE  NewBlock \in Blocks \ Allocated
<1>1. \E b \in Blocks \ Allocated : TRUE
  BY DEF CanAllocate, Allocated
<1> QED BY <1>1 DEF NewBlock

\* A block that is not allocated is nowhere.
LEMMA FreeIsUnused ==
  ASSUME RPInv, NEW b \in Blocks \ Allocated
  PROVE  /\ Sharers(b) = {} /\ ~Received(b) /\ ~InBox(main_id, b)
         /\ \A p \in Port : ~Waits(p, b) /\ ~Sends(p, b) /\ ~Posts(p, b) /\ ~WillGet(p, b)
  BY Zenon DEF RPInv, BlockOK, Sharers, Received

\* A received packet is in the hand of one port.
LEMMA PortReceivesInv ==
  ASSUME RPInv, NEW p \in Port, PortReceives(p)
  PROVE  RPInv'
<1>t. Types
  BY DEF RPInv
<1>x. BoxesOK
  BY DEF RPInv
<1>b. \A b \in Blocks : BlockOK(b)
  BY DEF RPInv
<1>1. PICK c \in Blocks \ Allocated : c = NewBlock
  BY NewBlockIsFree DEF PortReceives
<1>2. PICK packet \in Packets :
        data' = [data EXCEPT ![c] = [ref_count |-> 0, origin |-> p, packet |-> packet]]
  BY <1>1, Zenon DEF PortReceives
<1>3. /\ holds[p] = <<>> /\ holds' = [holds EXCEPT ![p] = <<"post", c>>]
      /\ UNCHANGED <<state, port_id, main_id, main_open, main, dnets>>
  BY <1>1 DEF PortReceives, Running, mailVars
<1>4. [ref_count |-> 0, origin |-> p, packet |-> packet] \in Messages
  BY PortsAssumption DEF Messages, Port
<1>5. Types'
  BY <1>t, <1>1, <1>2, <1>3, <1>4 DEF Types
<1>6. BoxesOK'
  BY <1>x, <1>3 DEF BoxesOK
<1>7. \A q \in Port, b \in Blocks :
        /\ Waits(q, b)' = Waits(q, b) /\ WillGet(q, b)' = WillGet(q, b)
        /\ InBox(main_id, b)' = InBox(main_id, b)
        /\ q # p => Sends(q, b)' = Sends(q, b) /\ Posts(q, b)' = Posts(q, b)
  BY <1>t, <1>3 DEF Waits, WillGet, Sends, Posts, Types
<1>8. \A b \in Blocks : ~Sends(p, b) /\ ~Posts(p, b) /\ ~Sends(p, b)' /\ (Posts(p, b)' <=> b = c)
  BY <1>t, <1>3, HandsDiffer DEF Sends, Posts, Types
<1>9. ASSUME NEW b \in Blocks, b # c PROVE BlockOK(b)'
  <2>1. data'[b] = data[b]
    BY <1>t, <1>1, <1>2, <1>9 DEF Types
  <2> QED BY <1>b, <2>1, <1>7, <1>8, <1>9, BlockKept
<1>10. BlockOK(c)'
  <2>1. data'[c].origin = p /\ data'[c].packet = packet /\ data'[c].ref_count = 0
    BY <1>t, <1>1, <1>2 DEF Types
  <2>2. c \in Allocated'
    BY <2>1, <1>1 DEF Allocated, NoBlock
  <2>3. /\ ~InBox(main_id, c)
        /\ \A q \in Port : ~Waits(q, c) /\ ~Sends(q, c) /\ ~Posts(q, c) /\ ~WillGet(q, c)
    BY <1>1, FreeIsUnused
  <2>4. Sharers(c)' = {}
    BY <2>3, <1>1, <1>7, <1>8 DEF Sharers
  <2>5. Received(c)'
    BY <1>1, <1>8 DEF Received
  <2> QED BY <1>b, <2>1, <2>2, <2>3, <2>4, <2>5, <1>1, <1>7, <1>8 DEF BlockOK
<1> QED BY <1>5, <1>6, <1>9, <1>10 DEF RPInv

\* The message goes from the hand to main's box, or is freed.
LEMMA PortPostsInv ==
  ASSUME RPInv, NEW p \in Port, PortPosts(p)
  PROVE  RPInv'
<1>t. Types
  BY DEF RPInv
<1>x. BoxesOK
  BY DEF RPInv
<1>b. \A b \in Blocks : BlockOK(b)
  BY DEF RPInv
<1>1. PICK c \in Blocks : holds[p] = <<"post", c>>
  BY <1>t DEF Types, PortPosts
<1>2. /\ holds' = [holds EXCEPT ![p] = <<>>]
      /\ UNCHANGED <<state, port_id, main_open, main, dnets>>
  BY DEF PortPosts
<1>3. \A q \in Port, b \in Blocks :
        /\ Waits(q, b)' = Waits(q, b) /\ WillGet(q, b)' = WillGet(q, b)
        /\ q # p => Sends(q, b)' = Sends(q, b) /\ Posts(q, b)' = Posts(q, b)
  BY <1>t, <1>2 DEF Waits, WillGet, Sends, Posts, Types
<1>4. Posts(p, c) /\ \A b \in Blocks : ~Sends(p, b) /\ ~Sends(p, b)' /\ ~Posts(p, b)'
                                       /\ (b # c => ~Posts(p, b))
  BY <1>t, <1>1, <1>2, HandsDiffer DEF Sends, Posts, Types
<1>5. /\ ~InBox(main_id, c) /\ c \in Allocated /\ Sharers(c) = {} /\ Received(c)
      /\ data[c].origin \in Port /\ data[c].packet \in Packets
      /\ \A q \in Port : ~Waits(q, c) /\ ~Sends(q, c) /\ ~WillGet(q, c) /\ ~Posts(q, c)'
  BY <1>b, <1>1, <1>3, <1>4, ZenonT(60) DEF BlockOK, Sharers, Received
<1>6. Sharers(c)' = {}
  BY <1>1, <1>3, <1>4, <1>5 DEF Sharers
<1>7. CASE main_open /\ Len(main_id) < BoxSize /\ main_id' = Append(main_id, c) /\ UNCHANGED data
  <2>1. /\ main_id' \in Seq(Blocks) /\ Len(main_id') = Len(main_id) + 1 /\ Distinct(main_id')
        /\ \A b : InBox(main_id', b) <=> InBox(main_id, b) \/ b = c
    BY <1>t, <1>x, <1>5, <1>7, AppendBox DEF Types, BoxesOK
  <2>2. Types'
    <3>1. Len(main_id') <= BoxSize
      BY <1>t, <2>1, <1>7, PortsAssumption DEF Types
    <3> QED BY <1>t, <3>1, <2>1, <1>2, <1>7 DEF Types
  <2>3. BoxesOK'
    BY <1>x, <2>1, <1>2 DEF BoxesOK
  <2>4. ASSUME NEW b \in Blocks, b # c PROVE BlockOK(b)'
    BY <1>b, <2>1, <2>4, <1>3, <1>4, <1>7, BlockKept
  <2>5. c \in Allocated' /\ Received(c)' /\ data'[c] = data[c]
    BY <2>1, <1>5, <1>7, Zenon DEF Allocated, Received
  <2>6. BlockOK(c)'
    BY <1>b, <2>1, <2>5, <1>1, <1>3, <1>4, <1>5, <1>6 DEF BlockOK
  <2> QED BY <2>2, <2>3, <2>4, <2>6 DEF RPInv
<1>8. CASE ~main_open /\ data' = [data EXCEPT ![c] = NoBlock] /\ UNCHANGED main_id
  <2>1. Types'
    BY <1>t, <1>1, <1>2, <1>8 DEF Types
  <2>2. BoxesOK'
    BY <1>x, <1>2, <1>8 DEF BoxesOK
  <2>3. ASSUME NEW b \in Blocks, b # c PROVE BlockOK(b)'
    <3>1. data'[b] = data[b]
      BY <1>t, <1>8, <2>3 DEF Types
    <3> QED BY <1>b, <3>1, <2>3, <1>3, <1>4, <1>8, BlockKept
  <2>4. c \notin Allocated' /\ ~Received(c)'
    BY <1>t, <1>1, <1>5, <1>8, SMTT(30) DEF Allocated, Received, Types
  <2>5. BlockOK(c)'
    BY <1>b, <2>4, <1>1, <1>3, <1>4, <1>5, <1>6, <1>8 DEF BlockOK
  <2> QED BY <2>1, <2>2, <2>3, <2>5 DEF RPInv
<1> QED BY <1>1, <1>7, <1>8 DEF PortPosts

-----------------------------------------------------------------------------
\* The ports that main sends to

Reached(to) == {p \in Port : InBox(to, p)}

\* All ports, each once.
LEMMA AllPorts ==
  LET to == [p \in Port |-> p]
  IN /\ to \in Seq(Port) /\ to # <<>> /\ Distinct(to) /\ Cardinality(Reached(to)) = port_count
<1> DEFINE to == [p \in Port |-> p]
<1>1. to \in Seq(Port) /\ Len(to) = port_count
  BY PortsAssumption DEF Port
<1>2. to # <<>>
  BY <1>1, PortsAssumption
<1>3. Distinct(to)
  BY DEF Distinct
<1>4. Reached(to) = Port
  BY DEF Reached, InBox
<1>5. Cardinality(Port) = port_count
  BY FS_Interval, PortsAssumption DEF Port
<1> QED BY <1>1, <1>2, <1>3, <1>4, <1>5

\* One port.
LEMMA OnePort ==
  ASSUME NEW p \in Port
  PROVE  /\ <<p>> \in Seq(Port) /\ <<p>> # <<>> /\ Distinct(<<p>>)
         /\ Cardinality(Reached(<<p>>)) = 1
<1>1. <<p>> \in Seq(Port) /\ Len(<<p>>) = 1 /\ <<p>>[1] = p /\ DOMAIN <<p>> = {1}
  OBVIOUS
<1>2. <<p>> # <<>> /\ Distinct(<<p>>)
  BY <1>1 DEF Distinct
<1>3. Reached(<<p>>) = {p}
  BY <1>1 DEF Reached, InBox
<1>4. Cardinality({p}) = 1
  BY FS_Singleton
<1> QED BY <1>1, <1>2, <1>3, <1>4

\* The ports other than the one a broadcast came from, as many as the code counts.
LEMMA OtherPorts ==
  ASSUME NEW src \in Port
  PROVE  /\ Others(src) \in Seq(Port) /\ Others(src) # <<>> /\ Distinct(Others(src))
         /\ Cardinality(Reached(Others(src))) = References(src)
<1> DEFINE to == Others(src)
<1>1. /\ port_count \in Nat /\ port_count >= 2 /\ src \in Nat /\ src >= 1 /\ src <= port_count
      /\ DOMAIN to = 1 .. port_count - 1
      /\ \A i \in 1 .. port_count - 1 : to[i] = IF i < src THEN i ELSE i + 1
  BY PortsAssumption DEF Port, Others
<1>2. \A i \in 1 .. port_count - 1 : to[i] \in Port /\ to[i] # src
  BY <1>1 DEF Port
<1>3. to \in Seq(Port) /\ Len(to) = port_count - 1
  <2>1. to \in [1 .. port_count - 1 -> Port]
    BY <1>1, <1>2 DEF Others
  <2>2. port_count - 1 \in Nat
    BY <1>1
  <2> HIDE DEF to
  <2> QED BY <2>1, <2>2
<1> HIDE DEF to
<1>4. to # <<>>
  BY <1>1, <1>3
<1>5. Distinct(to)
  BY <1>1 DEF Distinct
<1>6. Reached(to) = Port \ {src}
  <2>1. Reached(to) \subseteq Port \ {src}
    BY <1>1, <1>2 DEF Reached, InBox
  <2>2. ASSUME NEW p \in Port, p # src PROVE p \in Reached(to)
    <3>1. CASE p < src
      <4>1. p \in DOMAIN to /\ to[p] = p
        BY <3>1, <1>1 DEF Port
      <4> QED BY <4>1 DEF Reached, InBox
    <3>2. CASE p > src
      <4>1. p - 1 \in DOMAIN to /\ to[p - 1] = p
        BY <3>2, <1>1 DEF Port
      <4> QED BY <4>1 DEF Reached, InBox
    <3> QED BY <3>1, <3>2, <2>2, <1>1 DEF Port
  <2> QED BY <2>1, <2>2
<1>7. Cardinality(Port \ {src}) = port_count - 1
  <2>1. IsFiniteSet(Port) /\ Cardinality(Port) = port_count
    BY FS_Interval, <1>1 DEF Port
  <2> QED BY <2>1, FS_RemoveElement
<1> QED BY <1>3, <1>4, <1>5, <1>6, <1>7 DEF to, References

-----------------------------------------------------------------------------
\* The steps of main

\* A step of main that only changes where it is, and sends nothing.
LEMMA MainMoves ==
  ASSUME RPInv, main.at # "sends", main'.at # "sends",
         main' \in [at : Places, block : Blocks \cup {0}, to : Seq(Port)],
         main'.at \in {"shuts", "joins"} => main'.to # <<>>,
         UNCHANGED <<state, port_id, mailVars, holds, data, dnets>>
  PROVE  RPInv'
<1> USE DEF mailVars
<1>t. Types
  BY DEF RPInv
<1>x. BoxesOK
  BY DEF RPInv
<1>b. \A b \in Blocks : BlockOK(b)
  BY DEF RPInv
<1>1. Types'
  BY <1>t DEF Types
<1>2. BoxesOK'
  BY <1>x DEF BoxesOK
<1>3. ASSUME NEW b \in Blocks PROVE BlockOK(b)'
  BY <1>b, BlockKept DEF Waits, Sends, Posts, WillGet
<1> QED BY <1>1, <1>2, <1>3 DEF RPInv

\* main allocates a block for the ports it is about to send to, and is rid of
\* the blocks in gone, which it had received.
LEMMA MulticastInv ==
  ASSUME RPInv, main.at # "sends",
         NEW n \in 1 .. port_count, NEW to \in Seq(Port), to # <<>>, Distinct(to),
         Cardinality(Reached(to)) = n,
         NEW gone \in SUBSET Blocks,
         \A b \in gone : b \in Allocated /\ Sharers(b) = {} /\ ~InBox(main_id, b)'
                         /\ \A p \in Port : ~Posts(p, b),
         \A b \in Blocks \ gone : InBox(main_id, b)' <=> InBox(main_id, b),
         NEW except, except = [b \in Blocks |-> IF b \in gone THEN NoBlock ELSE data[b]],
         Multicast(n, to, except),
         main_id' \in Seq(Blocks), Len(main_id') <= BoxSize, Distinct(main_id'),
         dnets' \in [Port -> SUBSET (Port \cup RemoteNets)],
         UNCHANGED <<state, port_id, main_open, holds>>
  PROVE  RPInv'
<1>t. Types
  BY DEF RPInv
<1>x. BoxesOK
  BY DEF RPInv
<1>b. \A b \in Blocks : BlockOK(b)
  BY DEF RPInv
<1>1. PICK c \in Blocks \ Allocated : c = NewBlock
  BY NewBlockIsFree DEF Multicast
<1>2. PICK d \in Messages : d = [NoBlock EXCEPT !.ref_count = n]
  <2> DEFINE e == [ref_count |-> n, origin |-> 0, packet |-> NoBlock.packet]
  <2>1. [NoBlock EXCEPT !.ref_count = n] = e
    BY DEF NoBlock
  <2>2. n \in 0 .. port_count /\ 0 \in 0 .. port_count
    BY PortsAssumption
  <2>3. e \in Messages
    BY <2>2 DEF Messages
  <2> QED BY <2>1, <2>3
<1>3. data' = [except EXCEPT ![c] = d] /\ main' = [at |-> "sends", block |-> c, to |-> to]
  BY <1>1, <1>2 DEF Multicast, At
<1>4. c \notin gone /\ data'[c] = d /\ d.ref_count = n /\ c \in Allocated'
  <2>1. c \notin gone
    BY <1>1
  <2>2. data'[c] = d
    BY <1>1, <1>3
  <2>3. d.ref_count = n /\ d # NoBlock
    BY <1>2, PortsAssumption DEF Messages, NoBlock
  <2> QED BY <2>1, <2>2, <2>3, <1>1 DEF Allocated
<1>5. \A b \in Blocks : b # c => data'[b] = IF b \in gone THEN NoBlock ELSE data[b]
  BY <1>1, <1>3
<1>6. Types'
  <2>1. data' \in [Blocks -> Messages \cup {NoBlock}]
    BY <1>t, <1>1, <1>2, <1>3 DEF Types
  <2>2. main' \in [at : Places, block : Blocks \cup {0}, to : Seq(Port)]
    BY <1>1, <1>3 DEF Places
  <2> QED BY <1>t, <2>1, <2>2 DEF Types
<1>7. BoxesOK'
  BY <1>x, <1>1, <1>3 DEF BoxesOK
<1>8. \A p \in Port, b \in Blocks :
        /\ Waits(p, b)' = Waits(p, b) /\ Sends(p, b)' = Sends(p, b) /\ Posts(p, b)' = Posts(p, b)
        /\ ~WillGet(p, b) /\ (WillGet(p, b)' <=> b = c /\ InBox(to, p))
  BY <1>3, SMTT(30) DEF Waits, Sends, Posts, WillGet
<1>9. ASSUME NEW b \in Blocks, b # c, b \notin gone PROVE BlockOK(b)'
  BY <1>b, <1>5, <1>8, <1>9, BlockKept, Zenon
<1>10. ASSUME NEW b \in gone PROVE BlockOK(b)'
  <2>1. b \in Blocks /\ b # c
    BY <1>1, Zenon
  <2>2. b \notin Allocated'
    BY <2>1, <1>5, Zenon DEF Allocated
  <2>3. ~Received(b)' /\ \A p \in Port : ~Posts(p, b)'
    BY <2>1, <1>8 DEF Received
  <2>4. Sharers(b)' = {} /\ \A p \in Port : ~Waits(p, b)' /\ ~Sends(p, b)' /\ ~WillGet(p, b)'
    BY <2>1, <1>8 DEF Sharers
  <2> QED BY <1>b, <2>1, <2>2, <2>3, <2>4, Zenon DEF BlockOK
<1>11. BlockOK(c)'
  <2>1. /\ ~InBox(main_id, c) 
        /\ \A p \in Port : ~Waits(p, c) /\ ~Sends(p, c) /\ ~Posts(p, c)
    BY <1>1, FreeIsUnused
  <2>2. Sharers(c)' = Reached(to)
    BY <2>1, <1>1, <1>8 DEF Sharers, Reached
  <2>3. ~Received(c)' /\ ~InBox(main_id, c)'
    BY <2>1, <1>1, <1>4, <1>8, Zenon DEF Received
  <2> QED BY <1>b, <2>1, <2>2, <2>3, <1>1, <1>4, <1>8, Zenon DEF BlockOK
<1> QED BY <1>6, <1>7, <1>9, <1>10, <1>11 DEF RPInv

\* main waits for the ports, then announces the networks on all of them.
LEMMA init_routerInv ==
  ASSUME RPInv, init_router
  PROVE  RPInv'
<1> DEFINE port == Len(main.to) + 1
<1>t. Types
  BY DEF RPInv
<1>x. BoxesOK
  BY DEF RPInv
<1>b. \A b \in Blocks : BlockOK(b)
  BY DEF RPInv
<1>1. main.at = "waits" /\ main.to \in Seq(Port) /\ Len(main.to) \in Nat
  BY <1>t DEF init_router, Types
<1>2. UNCHANGED <<state, port_id, main_id, main_open, holds, dnets>>
  BY DEF init_router, mailVars
<1>3. CASE Multicast(port_count, [p \in Port |-> p], data)
  <2> DEFINE to == [p \in Port |-> p]
  <2>1. to \in Seq(Port) /\ to # <<>> /\ Distinct(to) /\ Cardinality(Reached(to)) = port_count
    BY AllPorts
  <2>2. port_count \in 1 .. port_count
    BY PortsAssumption
  <2>3. data = [b \in Blocks |-> IF b \in {} THEN NoBlock ELSE data[b]]
    BY <1>t DEF Types
  <2> HIDE DEF to
  <2>4. Multicast(port_count, to, data)
    BY <1>3 DEF to
  <2>5. /\ main_id' \in Seq(Blocks) /\ Len(main_id') <= BoxSize /\ Distinct(main_id')
        /\ dnets' \in [Port -> SUBSET (Port \cup RemoteNets)]
        /\ \A b \in Blocks : InBox(main_id, b)' <=> InBox(main_id, b)
    BY <1>t, <1>x, <1>2 DEF Types, BoxesOK
  <2>6. {} \in SUBSET Blocks /\ main.at # "sends"
    BY <1>1
  <2>7. /\ \A b \in {} : b \in Allocated /\ Sharers(b) = {} /\ ~InBox(main_id, b)'
                         /\ \A p \in Port : ~Posts(p, b)
        /\ \A b \in Blocks \ {} : InBox(main_id, b)' <=> InBox(main_id, b)
    BY <2>5
  <2> QED BY <2>1, <2>2, <2>3, <2>4, <2>5, <2>6, <2>7, <1>2, MulticastInv, Zenon
<1>4. CASE port <= port_count /\ At("waits", 0, Append(main.to, port)) /\ UNCHANGED data
  <2>1. port \in Port
    BY <1>1, <1>4 DEF Port
  <2>2. Append(main.to, port) \in Seq(Port)
    BY <2>1, <1>1
  <2> HIDE DEF port
  <2>3. main' \in [at : Places, block : Blocks \cup {0}, to : Seq(Port)] /\ main'.at = "waits"
    BY <2>2, <1>4 DEF At, Places
  <2> QED BY <2>3, <1>1, <1>2, <1>4, MainMoves DEF mailVars
<1>5. CASE At("stops", 0, <<>>) /\ UNCHANGED data
  <2>1. main' \in [at : Places, block : Blocks \cup {0}, to : Seq(Port)] /\ main'.at = "stops"
    BY <1>5 DEF At, Places
  <2> QED BY <2>1, <1>1, <1>2, <1>5, MainMoves DEF mailVars
<1> QED BY <1>3, <1>4, <1>5 DEF init_router

\* The operator's key only moves main.
LEMMA MainEscapesInv ==
  ASSUME RPInv, MainEscapes
  PROVE  RPInv'
<1>1. main' \in [at : Places, block : Blocks \cup {0}, to : Seq(Port)] /\ main'.at = "stops"
  BY DEF MainEscapes, At, Places
<1>2. main.at = "loop" /\ UNCHANGED <<state, port_id, mailVars, holds, data, dnets>>
  BY DEF MainEscapes
<1> QED BY <1>1, <1>2, MainMoves

\* Joining a thread only moves main.
LEMMA CleanupJoinsInv ==
  ASSUME RPInv, CleanupJoins
  PROVE  RPInv'
<1>1. /\ main.at = "joins" /\ UNCHANGED <<state, port_id, mailVars, holds, data, dnets>>
      /\ main \in [at : Places, block : Blocks \cup {0}, to : Seq(Port)] /\ main.to # <<>>
  BY DEF CleanupJoins, RPInv, Types, BoxesOK
<1>2. main.to \in Seq(Port) /\ Tail(main.to) \in Seq(Port)
  BY <1>1
<1>3. CASE UNCHANGED main
  BY <1>1, <1>3, MainMoves
<1>4. CASE At("exited", 0, <<>>)
  <2>1. main' \in [at : Places, block : Blocks \cup {0}, to : Seq(Port)] /\ main'.at = "exited"
    BY <1>4 DEF At, Places
  <2> QED BY <2>1, <1>1, MainMoves
<1>5. CASE Tail(main.to) # <<>> /\ At("joins", 0, Tail(main.to))
  <2>1. /\ main' \in [at : Places, block : Blocks \cup {0}, to : Seq(Port)]
        /\ main'.at = "joins" /\ main'.to # <<>>
    BY <1>2, <1>5 DEF At, Places
  <2> QED BY <2>1, <1>1, MainMoves
<1> QED BY <1>3, <1>4, <1>5 DEF CleanupJoins

\* find_dnet returns a port or 0.
LEMMA FindDnetType == \A net : find_dnet(net) \in Port \cup {0}
<1> TAKE net
<1> DEFINE with == {p \in Port : net = p \/ net \in dnets[p]}
<1>1. CASE with = {}
  BY <1>1 DEF find_dnet
<1>2. CASE with # {}
  <2>1. with \subseteq Nat
    BY PortsAssumption DEF Port
  <2> DEFINE Less == {r \in Nat \X Nat : r[1] < r[2]}
  <2>2. IsWellFoundedOn(Less, Nat)
    BY NatLessThanWellFounded, Zenon DEF OpToRel
  <2> HIDE DEF Less, with
  <2>3. PICK p \in with : \A q \in with : ~(<<q, p>> \in Less)
    BY <2>1, <2>2, <1>2, WFMin, Zenon
  <2>4. ASSUME NEW q \in with PROVE p <= q
    <3>1. p \in Nat /\ q \in Nat
      BY <2>1
    <3>2. q < p => <<q, p>> \in Less
      BY <3>1 DEF Less
    <3> QED BY <3>1, <3>2, <2>3
  <2>5. (CHOOSE m \in with : \A q \in with : m <= q) \in with
    BY <2>4
  <2> QED BY <2>5, <1>2 DEF find_dnet, with
<1> QED BY <1>1, <1>2

\* main takes a received block: it is gone, and what follows is sent in a new one.
LEMMA MainTakesInv ==
  ASSUME RPInv, MainTakes
  PROVE  RPInv'
<1>t. Types
  BY DEF RPInv
<1>x. BoxesOK
  BY DEF RPInv
<1>b. \A b \in Blocks : BlockOK(b)
  BY DEF RPInv
<1>1. main.at = "loop" /\ main_id \in Seq(Blocks) /\ main_id # <<>> /\ Distinct(main_id)
      /\ Len(main_id) \in Nat
  BY <1>t, <1>x DEF MainTakes, Types, BoxesOK
<1>2. PICK h \in Blocks : h = Head(main_id)
  BY <1>1, TailBox
<1>3. /\ main_id' = Tail(main_id) /\ UNCHANGED <<state, port_id, main_open, holds>>
  BY DEF MainTakes
<1>4. /\ main_id' \in Seq(Blocks) /\ Len(main_id') <= BoxSize /\ Distinct(main_id')
      /\ \A b : InBox(main_id, b) <=> InBox(main_id', b) \/ b = h
      /\ ~InBox(main_id', h)
  <2>1. h # SHUTDOWN
    BY PortsAssumption DEF SHUTDOWN, Blocks
  <2>2. /\ Tail(main_id) \in Seq(Blocks) /\ Len(Tail(main_id)) = Len(main_id) - 1
        /\ Distinct(Tail(main_id)) /\ ~InBox(Tail(main_id), h)
        /\ \A b : InBox(main_id, b) <=> InBox(Tail(main_id), b) \/ b = h
    BY <2>1, <1>1, <1>2, TailBox
  <2>3. Len(main_id) - 1 <= BoxSize
    BY <1>t, <1>1, PortsAssumption DEF Types
  <2> QED BY <2>2, <2>3, <1>3
<1>5. /\ h \in Allocated /\ Sharers(h) = {} /\ data[h].origin \in Port /\ data[h].packet \in Packets
      /\ \A p \in Port : ~Posts(p, h)
  BY <1>b, <1>2, <1>4 DEF BlockOK, Received
<1> DEFINE src == data[h].origin
           packet == data[h].packet
           rest == [data EXCEPT ![h] = NoBlock]
           todo == IF packet.kind = "apdu" THEN process_msg(src, packet)
                                           ELSE process_network_message(src, packet)
<1>6. /\ dnets' = Learned(src, packet)
      /\ CASE todo = "nothing" -> data' = rest /\ UNCHANGED main
           [] todo = "answer" -> Multicast(1, <<src>>, rest)
           [] todo = "forward" -> Multicast(1, <<find_dnet(packet.net)>>, rest)
           [] todo = "broadcast" -> Multicast(References(src), Others(src), rest)
           [] todo = "search" -> Multicast(port_count, [p \in Port |-> p], rest)
  BY <1>2, Zenon DEF MainTakes
<1>7. dnets' \in [Port -> SUBSET (Port \cup RemoteNets)]
  <2>1. packet.kind \in {"i-am", "init-table", "table-ack"} => packet.net \in Port \cup RemoteNets \cup {0}
    BY <1>5, PortsAssumption
  <2> QED BY <1>t, <2>1, <1>5, <1>6 DEF Learned, Types
<1>8. todo \in {"nothing", "answer", "forward", "broadcast", "search"}
  BY DEF process_msg, process_network_message
<1>9. todo = "forward" => find_dnet(packet.net) \in Port
  <2>1. todo = "forward" => find_dnet(packet.net) # 0
    BY DEF process_msg, process_network_message
  <2> QED BY <2>1, FindDnetType
<1> HIDE DEF todo
<1>10. rest = [b \in Blocks |-> IF b \in {h} THEN NoBlock ELSE data[b]]
  BY <1>t, Zenon DEF Types
<1>11. ASSUME NEW n \in 1 .. port_count, NEW to \in Seq(Port), to # <<>>, Distinct(to),
              Cardinality(Reached(to)) = n, Multicast(n, to, rest)
       PROVE  RPInv'
  <2>1. \A b \in {h} : b \in Allocated /\ Sharers(b) = {} /\ ~InBox(main_id, b)'
                       /\ \A p \in Port : ~Posts(p, b)
    BY <1>4, <1>5
  <2>2. \A b \in Blocks \ {h} : InBox(main_id, b)' <=> InBox(main_id, b)
    BY <1>4
  <2>3. {h} \in SUBSET Blocks /\ main.at # "sends"
    BY <1>1
  <2> HIDE DEF rest
  <2> QED BY <1>3, <1>4, <1>7, <1>10, <1>11, <2>1, <2>2, <2>3, MulticastInv, Zenon
<1>12. CASE todo = "nothing"
  <2>1. data' = rest /\ main' = main
    BY <1>6, <1>12, SMTT(30)
  <2>2. Types'
    BY <1>t, <2>1, <1>3, <1>4, <1>7 DEF Types
  <2>3. BoxesOK'
    BY <1>x, <2>1, <1>3, <1>4 DEF BoxesOK
  <2>4. \A p \in Port, b \in Blocks :
          /\ Waits(p, b)' = Waits(p, b) /\ Sends(p, b)' = Sends(p, b)
          /\ Posts(p, b)' = Posts(p, b) /\ WillGet(p, b)' = WillGet(p, b)
    BY <2>1, <1>3, Zenon DEF Waits, Sends, Posts, WillGet
  <2>5. ASSUME NEW b \in Blocks, b # h PROVE BlockOK(b)'
    <3>1. data'[b] = data[b]
      BY <1>t, <2>1, <2>5 DEF Types
    <3> QED BY <1>b, <3>1, <2>4, <2>5, <1>4, BlockKept
  <2>6. BlockOK(h)'
    <3>1. h \notin Allocated'
      BY <1>t, <2>1 DEF Allocated, Types
    <3>2. Sharers(h)' = {} /\ \A p \in Port : ~Waits(p, h)' /\ ~Sends(p, h)' /\ ~WillGet(p, h)'
      BY <2>4, <1>5 DEF Sharers
    <3>3. ~Received(h)' /\ \A p \in Port : ~Posts(p, h)'
      BY <2>4, <1>4, <1>5 DEF Received
    <3> QED BY <1>b, <3>1, <3>2, <3>3, Zenon DEF BlockOK
  <2> QED BY <2>2, <2>3, <2>5, <2>6 DEF RPInv
<1>13. 1 \in 1 .. port_count /\ port_count \in 1 .. port_count /\ References(src) \in 1 .. port_count
  BY PortsAssumption DEF References
<1>14. CASE todo = "answer"
  <2>1. Multicast(1, <<src>>, rest)
    BY <1>6, <1>14
  <2> QED BY <2>1, <1>5, <1>11, <1>13, OnePort, Zenon
<1>15. CASE todo = "forward"
  <2>1. Multicast(1, <<find_dnet(packet.net)>>, rest)
    BY <1>6, <1>15
  <2> QED BY <2>1, <1>9, <1>11, <1>13, <1>15, OnePort, Zenon
<1>16. CASE todo = "broadcast"
  <2>1. Multicast(References(src), Others(src), rest)
    BY <1>6, <1>16
  <2> QED BY <2>1, <1>5, <1>11, <1>13, OtherPorts, Zenon
<1>17. CASE todo = "search"
  <2>1. Multicast(port_count, [p \in Port |-> p], rest)
    BY <1>6, <1>17
  <2> QED BY <2>1, <1>11, <1>13, AllPorts, Zenon
<1> QED BY <1>8, <1>12, <1>14, <1>15, <1>16, <1>17, Zenon

\* One msgsnd of main: the port has the block that it was to get.
LEMMA MainSendsInv ==
  ASSUME RPInv, MainSends
  PROVE  RPInv'
<1>t. Types
  BY DEF RPInv
<1>x. BoxesOK
  BY DEF RPInv
<1>b. \A b \in Blocks : BlockOK(b)
  BY DEF RPInv
<1>1. /\ main.at = "sends" /\ main.to \in Seq(Port) /\ main.to # <<>> /\ Distinct(main.to)
      /\ main.block \in Blocks
  BY <1>t, <1>x DEF MainSends, Types, BoxesOK
<1>2. PICK t \in Port : t = Head(main.to)
  BY <1>1, TailBox
<1>3. PICK c \in Blocks : c = main.block
  BY <1>1
<1>4. /\ Tail(main.to) \in Seq(Port) /\ Distinct(Tail(main.to)) /\ ~InBox(Tail(main.to), t)
      /\ \A p : InBox(main.to, p) <=> InBox(Tail(main.to), p) \/ p = t
  <2>1. t # SHUTDOWN
    BY PortsAssumption DEF SHUTDOWN, Port
  <2> QED BY <2>1, <1>1, <1>2, TailBox
<1>5. /\ Len(port_id[t]) < BoxSize /\ port_id' = [port_id EXCEPT ![t] = Append(port_id[t], c)]
      /\ UNCHANGED <<state, main_id, main_open, holds, data, dnets>>
      /\ main' = IF Tail(main.to) = <<>> THEN [at |-> "loop", block |-> 0, to |-> <<>>]
                 ELSE [at |-> "sends", block |-> c, to |-> Tail(main.to)]
  BY <1>2, <1>3 DEF MainSends, At, mailVars
<1>6. WillGet(t, c) /\ ~Waits(t, c) /\ ~Sends(t, c)
  <2>1. WillGet(t, c)
    BY <1>1, <1>3, <1>4 DEF WillGet
  <2> QED BY <1>b, <2>1, <1>3 DEF BlockOK
<1>7. /\ Append(port_id[t], c) \in Seq(Blocks \cup {SHUTDOWN})
      /\ Len(Append(port_id[t], c)) = Len(port_id[t]) + 1
      /\ Distinct(Append(port_id[t], c))
      /\ \A b : InBox(Append(port_id[t], c), b) <=> InBox(port_id[t], b) \/ b = c
  <2>1. port_id[t] \in Seq(Blocks \cup {SHUTDOWN}) /\ Distinct(port_id[t]) /\ ~InBox(port_id[t], c)
    BY <1>t, <1>x, <1>6 DEF Types, BoxesOK, Waits
  <2> QED BY <2>1, <1>3, AppendBox
<1>8. Types'
  <2>1. port_id' \in [Port -> Seq(Blocks \cup {SHUTDOWN})]
    BY <1>t, <1>5, <1>7, ZenonT(60) DEF Types
  <2>2. Len(port_id[t]) \in Nat
    BY <1>t DEF Types
  <2>3. \A p \in Port : Len(port_id'[p]) <= BoxSize
    BY <1>t, <2>2, <1>5, <1>7, PortsAssumption DEF Types
  <2>4. main' \in [at : Places, block : Blocks \cup {0}, to : Seq(Port)]
    <3>1. <<>> \in Seq(Port)
      OBVIOUS
    <3> QED BY <3>1, <1>4, <1>5 DEF Places
  <2> QED BY <1>t, <2>1, <2>3, <2>4, <1>5, ZenonT(60) DEF Types
<1>9. BoxesOK'
  <2>1. \A p \in Port : Distinct(port_id'[p])
    BY <1>t, <1>x, <1>5, <1>7 DEF BoxesOK, Types
  <2>2. /\ main'.at = "sends" => Distinct(main'.to) /\ main'.block \in Blocks
        /\ main'.at \in {"sends", "shuts", "joins"} => main'.to # <<>>
    BY <1>3, <1>4, <1>5
  <2> QED BY <1>x, <2>1, <2>2, <1>5 DEF BoxesOK
<1>10. \A p \in Port, b \in Blocks :
         /\ Sends(p, b)' = Sends(p, b) /\ Posts(p, b)' = Posts(p, b)
         /\ InBox(main_id, b)' = InBox(main_id, b)
         /\ ~(p = t /\ b = c) => /\ Waits(p, b)' <=> Waits(p, b)
                                 /\ WillGet(p, b)' <=> WillGet(p, b)
  <2>1. \A p \in Port, b \in Blocks : ~(p = t /\ b = c) => (Waits(p, b)' <=> Waits(p, b))
    BY <1>t, <1>5, <1>7 DEF Waits, Types
  <2>2. \A p \in Port, b \in Blocks : ~(p = t /\ b = c) => (WillGet(p, b)' <=> WillGet(p, b))
    <3>1. CASE Tail(main.to) = <<>>
      <4>1. \A p : ~InBox(Tail(main.to), p)
        BY <3>1 DEF InBox
      <4> QED BY <4>1, <3>1, <1>1, <1>3, <1>4, <1>5 DEF WillGet
    <3>2. CASE Tail(main.to) # <<>>
      BY <3>2, <1>1, <1>3, <1>4, <1>5 DEF WillGet
    <3> QED BY <3>1, <3>2
  <2> QED BY <2>1, <2>2, <1>5 DEF Sends, Posts
<1>11. Waits(t, c)' /\ ~WillGet(t, c)'
  BY <1>t, <1>4, <1>5, <1>7 DEF Waits, WillGet, Types
<1>12. ASSUME NEW b \in Blocks, b # c PROVE BlockOK(b)'
  BY <1>b, <1>5, <1>10, <1>12, BlockKept, ZenonT(60)
<1>13. BlockOK(c)'
  <2>1. Sharers(c)' = Sharers(c)
    BY <1>6, <1>10, <1>11 DEF Sharers
  <2>2. Received(c)' <=> Received(c)
    BY <1>10 DEF Received
  <2>3. c \in Allocated' <=> c \in Allocated
    BY <1>5 DEF Allocated
  <2>4. BlockOK(c)
    BY <1>b
  <2> QED BY <1>b, <2>1, <2>2, <2>3, <2>4, <1>5, <1>6, <1>10, <1>11, ZenonT(60) DEF BlockOK
<1> QED BY <1>8, <1>9, <1>12, <1>13 DEF RPInv

\* The messages in main's box are gone with it.
LEMMA CleanupBeginsInv ==
  ASSUME RPInv, CleanupBegins
  PROVE  RPInv'
<1>t. Types
  BY DEF RPInv
<1>x. BoxesOK
  BY DEF RPInv
<1>b. \A b \in Blocks : BlockOK(b)
  BY DEF RPInv
<1>1. /\ main.at = "stops" /\ main_open' = FALSE /\ main_id' = <<>>
      /\ main' = [at |-> "shuts", block |-> 0, to |-> [p \in Port |-> p]]
      /\ data' = [b \in Blocks |-> IF InBox(main_id, b) THEN NoBlock ELSE data[b]]
      /\ UNCHANGED <<state, port_id, holds, dnets>>
  BY DEF CleanupBegins, At, InBox
<1>2. [p \in Port |-> p] \in Seq(Port) /\ [p \in Port |-> p] # <<>>
  BY AllPorts
<1>3. main_id' \in Seq(Blocks) /\ Len(main_id') = 0 /\ Distinct(main_id')
      /\ \A b : ~InBox(main_id', b)
  BY <1>1 DEF Distinct, InBox
<1>4. Types'
  <2>1. data' \in [Blocks -> Messages \cup {NoBlock}]
    BY <1>t, <1>1 DEF Types
  <2>2. main' \in [at : Places, block : Blocks \cup {0}, to : Seq(Port)]
    BY <1>1, <1>2, Zenon DEF Places
  <2>3. Len(main_id') <= BoxSize
    BY <1>3, PortsAssumption
  <2> QED BY <1>t, <2>1, <2>2, <2>3, <1>1, <1>3, Zenon DEF Types
<1>5. BoxesOK'
  BY <1>x, <1>1, <1>2, <1>3 DEF BoxesOK
<1>6. \A p \in Port, b \in Blocks :
        /\ Waits(p, b)' = Waits(p, b) /\ Sends(p, b)' = Sends(p, b) /\ Posts(p, b)' = Posts(p, b)
        /\ ~WillGet(p, b) /\ ~WillGet(p, b)'
  BY <1>1 DEF Waits, Sends, Posts, WillGet
<1>7. ASSUME NEW b \in Blocks, ~InBox(main_id, b) PROVE BlockOK(b)'
  <2>1. data'[b] = data[b]
    BY <1>1, <1>7
  <2> QED BY <1>b, <2>1, <1>3, <1>6, <1>7, BlockKept
<1>8. ASSUME NEW b \in Blocks, InBox(main_id, b) PROVE BlockOK(b)'
  <2>1. b \notin Allocated'
    BY <1>1, <1>8 DEF Allocated
  <2>2. Sharers(b) = {} /\ \A p \in Port : ~Posts(p, b)
    BY <1>b, <1>8 DEF BlockOK, Received
  <2>3. Sharers(b)' = {} /\ \A p \in Port : ~Waits(p, b)' /\ ~Sends(p, b)'
    BY <2>2, <1>6 DEF Sharers
  <2>4. ~Received(b)'
    BY <2>2, <1>3, <1>6 DEF Received
  <2> QED BY <1>b, <2>1, <2>2, <2>3, <2>4, <1>3, <1>6, ZenonT(60) DEF BlockOK
<1> QED BY <1>4, <1>5, <1>7, <1>8 DEF RPInv

\* SHUTDOWN is no block.
LEMMA CleanupShutsInv ==
  ASSUME RPInv, CleanupShuts
  PROVE  RPInv'
<1>t. Types
  BY DEF RPInv
<1>x. BoxesOK
  BY DEF RPInv
<1>b. \A b \in Blocks : BlockOK(b)
  BY DEF RPInv
<1>1. main.at = "shuts" /\ main.to \in Seq(Port) /\ main.to # <<>>
  BY <1>t, <1>x DEF CleanupShuts, Types, BoxesOK
<1>2. PICK t \in Port : t = Head(main.to)
  BY <1>1, TailBox
<1>3. UNCHANGED <<state, main_id, main_open, holds, data, dnets>>
  BY DEF CleanupShuts, mailVars
<1>4. /\ main' \in [at : Places, block : Blocks \cup {0}, to : Seq(Port)]
      /\ main'.at \in {"shuts", "joins"} /\ main'.to # <<>>
  <2>1. Tail(main.to) \in Seq(Port)
    BY <1>1
  <2>2. [p \in Port |-> p] \in Seq(Port) /\ [p \in Port |-> p] # <<>>
    BY AllPorts
  <2>3. main' = IF Tail(main.to) = <<>> THEN [at |-> "joins", block |-> 0, to |-> [p \in Port |-> p]]
                ELSE [at |-> "shuts", block |-> 0, to |-> Tail(main.to)]
    BY DEF CleanupShuts, At
  <2> QED BY <2>1, <2>2, <2>3 DEF Places
<1>5. /\ port_id' \in [Port -> Seq(Blocks \cup {SHUTDOWN})]
      /\ \A p \in Port : Len(port_id'[p]) <= BoxSize /\ Distinct(port_id'[p])
      /\ \A p \in Port, b \in Blocks : InBox(port_id'[p], b) <=> InBox(port_id[p], b)
  <2>1. CASE UNCHANGED port_id
    BY <1>t, <1>x, <2>1 DEF Types, BoxesOK
  <2>2. CASE Len(port_id[t]) < BoxSize /\ port_id' = [port_id EXCEPT ![t] = Append(port_id[t], SHUTDOWN)]
    <3> DEFINE box == port_id[t]
               longer == Append(port_id[t], SHUTDOWN)
    <3>1. box \in Seq(Blocks \cup {SHUTDOWN}) /\ Distinct(box) /\ Len(box) \in Nat
      BY <1>t, <1>x DEF Types, BoxesOK
    <3>2. /\ longer \in Seq(Blocks \cup {SHUTDOWN}) /\ Len(longer) = Len(box) + 1 /\ Distinct(longer)
          /\ \A b : InBox(longer, b) <=> InBox(box, b) \/ b = SHUTDOWN
      BY <3>1, AppendBox
    <3>3. SHUTDOWN \notin Blocks /\ Len(box) + 1 <= BoxSize
      BY <2>2, <3>1, PortsAssumption DEF SHUTDOWN, Blocks
    <3>4. port_id'[t] = longer /\ \A p \in Port : p # t => port_id'[p] = port_id[p]
      BY <1>t, <2>2 DEF Types
    <3>5. port_id' \in [Port -> Seq(Blocks \cup {SHUTDOWN})]
      BY <1>t, <2>2, <3>2 DEF Types
    <3> HIDE DEF box, longer
    <3>6. ASSUME NEW p \in Port
          PROVE  /\ Len(port_id'[p]) <= BoxSize /\ Distinct(port_id'[p])
                 /\ \A b \in Blocks : InBox(port_id'[p], b) <=> InBox(port_id[p], b)
      <4>1. CASE p = t
        BY <4>1, <3>2, <3>3, <3>4 DEF box
      <4>2. CASE p # t
        BY <1>t, <1>x, <4>2, <3>4 DEF Types, BoxesOK
      <4> QED BY <4>1, <4>2
    <3> QED BY <3>5, <3>6
  <2> QED BY <1>2, <2>1, <2>2 DEF CleanupShuts
<1>6. Types'
  BY <1>t, <1>3, <1>4, <1>5 DEF Types
<1>7. BoxesOK'
  BY <1>x, <1>3, <1>4, <1>5 DEF BoxesOK
<1>8. ASSUME NEW b \in Blocks PROVE BlockOK(b)'
  <2>1. \A p \in Port : /\ Waits(p, b)' <=> Waits(p, b)
                        /\ Sends(p, b)' <=> Sends(p, b)
                        /\ Posts(p, b)' <=> Posts(p, b)
                        /\ WillGet(p, b)' <=> WillGet(p, b)
    BY <1>1, <1>3, <1>4, <1>5 DEF Waits, Sends, Posts, WillGet
  <2> QED BY <1>b, <2>1, <1>3, BlockKept
<1> QED BY <1>6, <1>7, <1>8 DEF RPInv

-----------------------------------------------------------------------------
\* The invariant holds in every state the router reaches.
THEOREM RouterInvariant == RPSpec => []RPInv
<1>1. RPInv /\ [RPNext]_rpVars => RPInv'
  <2> SUFFICES ASSUME RPInv, [RPNext]_rpVars PROVE RPInv'
    OBVIOUS
  <2>1. ASSUME UNCHANGED rpVars PROVE RPInv'
    <3> USE <2>1 DEF rpVars, RPInv
    <3>1. Types'
      BY DEF Types
    <3>2. BoxesOK'
      BY DEF BoxesOK
    <3>3. ASSUME NEW b \in Blocks PROVE BlockOK(b)'
      BY BlockKept, Zenon DEF Waits, Sends, Posts, WillGet
    <3> QED BY <3>1, <3>2, <3>3
  <2>2. CASE RPNext
    <3>1. ASSUME NEW p \in Port, PortSteps(p) \/ PortReceives(p) PROVE RPInv'
      BY <3>1, PortStartsInv, PortTakesInv, PortSendsInv, PortPostsInv, PortReceivesInv
      DEF PortSteps
    <3>2. CASE MainSteps \/ MainEscapes
      BY <3>2, init_routerInv, MainTakesInv, MainSendsInv, CleanupBeginsInv, CleanupShutsInv,
         CleanupJoinsInv, MainEscapesInv
      DEF MainSteps
    <3> QED BY <2>1, <2>2, <3>1, <3>2 DEF RPNext, Exited
  <2> QED BY <2>1, <2>2
<1> QED BY <1>1, InitInv, PTL DEF RPSpec

\* Boxes, blocks and counts stay in range.
THEOREM RouterTypeCorrect == RPSpec => []RPTypeOK
  BY RouterInvariant, InvImplies, PTL

\* A block that main shares among ports is counted by just the ports that have
\* it or will get it, at every point of main's loop over them.
THEOREM ReferencesCounted == RPSpec => []CountsReferences
  BY RouterInvariant, InvImplies, PTL

\* check_data never frees a block that a message still points to.
THEOREM NothingDangles == RPSpec => []NoDanglingMessage
  BY RouterInvariant, InvImplies, PTL
=============================================================================
