----------------------------- MODULE RouterPorts -----------------------------
(***************************************************************************)
(* The router of apps/router: a thread for each port and the main thread,  *)
(* joined by message boxes (System V message queues, which block a sender  *)
(* while they are full).  A message is a pointer to a MSG_DATA that was    *)
(* allocated by its sender.  What main sends to several ports is one block *)
(* with a count of the ports that have still to send it; the last frees it.*)
(*                                                                         *)
(* A block that main drops without freeing it (the received one when it    *)
(* answers or searches, its own when there is nothing to send) is not in   *)
(* data any more: nothing refers to it.                                    *)
(***************************************************************************)
EXTENDS Integers, Sequences, FiniteSets

CONSTANTS
  port_count,      \* the ports are 1 .. port_count, and port n is on network n
  RemoteNets,      \* networks behind other routers
  BroadcastNet,    \* BACNET_BROADCAST_NETWORK
  Packets,         \* what is received: [kind, net]
  Busy,            \* the ports whose networks send anything
  Failing,         \* the ports that may fail to start
  BoxSize,         \* messages that fit in a message box
  MaxPackets,      \* packets received in all
  MaxBlocks        \* blocks allocated at a time

VARIABLES
  state,       \* of each port
  port_id,     \* the message box of each port: blocks, and SHUTDOWN
  main_id,     \* main's message box
  main_open,   \* it has not been deleted
  holds,       \* what each port has in hand: <<>>, <<"send", block>> or <<"post", block>>
  main,        \* where main is, the block it sends, and the ports it has before it
  data,        \* block |-> its reference count, and who received what it holds
  dnets,       \* for each port, the networks reachable through it
  packets

rpVars == <<state, port_id, main_id, main_open, holds, main, data, dnets, packets>>
mailVars == <<main_id, main_open>>

Port == 1 .. port_count
Blocks == 1 .. MaxBlocks

\* A router has two ports at least.
ASSUME PortsAssumption ==
  /\ port_count \in Nat \ {0, 1} /\ BoxSize \in Nat \ {0} /\ MaxBlocks \in Nat
  /\ MaxPackets \in Nat
  /\ \A packet \in Packets :
       packet.kind # "apdu" => packet.net \in Port \cup RemoteNets \cup {0}
  /\ BroadcastNet \notin Port \cup RemoteNets \cup {0}

SHUTDOWN == 0

NoBlock == [ref_count |-> -1, origin |-> 0, packet |-> [kind |-> "none", net |-> 0]]

Allocated == {b \in Blocks : data[b] # NoBlock}

\* malloc: whether there is a block to be had, and which.
CanAllocate == Allocated # Blocks
NewBlock == CHOOSE b \in Blocks \ Allocated : TRUE

-----------------------------------------------------------------------------
\* The routing table

\* Port 0: there is none.  The first port that has the network is taken.
find_dnet(net) ==
  LET with == {p \in Port : net = p \/ net \in dnets[p]}
  IN IF with = {} THEN 0 ELSE CHOOSE p \in with : \A q \in with : p <= q

-----------------------------------------------------------------------------
\* A port: dl_ip_thread and dl_mstp_thread

\* The data link is initialised, and the message box created.
PortStarts(p) ==
  /\ state[p] = "INIT"
  /\ \E s \in {"RUNNING"} \cup (IF p \in Failing THEN {"INIT_FAILED"} ELSE {}) :
       state' = [state EXCEPT ![p] = s]
  /\ UNCHANGED <<port_id, mailVars, holds, main, data, dnets, packets>>

Running(p) == state[p] = "RUNNING" /\ holds[p] = <<>>

\* A message is taken from the box; on SHUTDOWN the thread ends.
PortTakes(p) ==
  /\ Running(p) /\ port_id[p] # <<>>
  /\ port_id' = [port_id EXCEPT ![p] = Tail(@)]
  /\ IF Head(port_id[p]) = SHUTDOWN
       THEN state' = [state EXCEPT ![p] = "FINISHED"] /\ UNCHANGED holds
       ELSE holds' = [holds EXCEPT ![p] = <<"send", Head(port_id[p])>>] /\ UNCHANGED state
  /\ UNCHANGED <<mailVars, main, data, dnets, packets>>

\* The last port frees the block.
check_data(b) ==
  data' = IF data[b].ref_count = 1 THEN [data EXCEPT ![b] = NoBlock]
                                   ELSE [data EXCEPT ![b].ref_count = @ - 1]

\* The block is sent on the network, and the port is done with it.
PortSends(p) ==
  /\ holds[p] # <<>> /\ holds[p][1] = "send"
  /\ check_data(holds[p][2])
  /\ holds' = [holds EXCEPT ![p] = <<>>]
  /\ UNCHANGED <<state, port_id, mailVars, main, dnets, packets>>

\* With no message waiting, a packet is received into a new block.
PortReceives(p) ==
  /\ Running(p) /\ port_id[p] = <<>> /\ p \in Busy
  /\ packets < MaxPackets /\ packets' = packets + 1
  /\ CanAllocate
  /\ \E packet \in Packets :
       data' = [data EXCEPT ![NewBlock] = [ref_count |-> 0, origin |-> p, packet |-> packet]]
  /\ holds' = [holds EXCEPT ![p] = <<"post", NewBlock>>]
  /\ UNCHANGED <<state, port_id, mailVars, main, dnets>>

\* send_to_msgbox waits for room, and fails once the box is gone.
PortPosts(p) ==
  /\ holds[p] # <<>> /\ holds[p][1] = "post"
  /\ \/ /\ main_open /\ Len(main_id) < BoxSize
        /\ main_id' = Append(main_id, holds[p][2])
        /\ UNCHANGED data
     \/ /\ ~main_open
        /\ data' = [data EXCEPT ![holds[p][2]] = NoBlock]
        /\ UNCHANGED main_id
  /\ holds' = [holds EXCEPT ![p] = <<>>]
  /\ UNCHANGED <<state, port_id, main_open, main, dnets, packets>>

-----------------------------------------------------------------------------
\* main

At(place, block, to) == main' = [at |-> place, block |-> block, to |-> to]

\* What main sends to ports (in their order), in a new block that counts them.
Multicast(ref_count, to, except) ==
  /\ CanAllocate
  /\ data' = [except EXCEPT ![NewBlock] =
                [NoBlock EXCEPT !.ref_count = ref_count]]
  /\ At("sends", NewBlock, to)

\* init_router waits for one port after the other, and main announces the
\* networks; if a port failed, main returns, and exit calls cleanup.
init_router ==
  /\ main.at = "waits"
  /\ LET port == Len(main.to) + 1
     IN \/ /\ port > port_count
           /\ Multicast(port_count, [p \in Port |-> p], data)
        \/ /\ port <= port_count /\ state[port] = "RUNNING"
           /\ At("waits", 0, Append(main.to, port)) /\ UNCHANGED data
        \/ /\ port <= port_count /\ state[port] = "INIT_FAILED"
           /\ At("stops", 0, <<>>) /\ UNCHANGED data
  /\ UNCHANGED <<state, port_id, mailVars, holds, dnets, packets>>

\* The ports to which a broadcast that port src received is forwarded, in their
\* order.  None of them has finished while main is in its loop.
Others(src) == [i \in 1 .. port_count - 1 |-> IF i < src THEN i ELSE i + 1]

References_All(src) == port_count

\* The ports other than the one it came from.
References(src) == port_count - 1

\* What follows from a packet: the answer goes back, the APDU to the port of
\* its network or to all others, a network that is not known is sought on all
\* ports, or nothing is sent.
process_network_message(src, packet) ==
  CASE packet.kind = "who-is" /\ packet.net = src -> "nothing"
    [] packet.kind = "who-is" /\ packet.net # 0 /\ find_dnet(packet.net) = 0 -> "search"
    [] packet.kind \in {"who-is", "init-table", "what-is-number"} -> "answer"
    [] OTHER -> "nothing"

process_msg(src, packet) ==
  IF packet.net = BroadcastNet THEN "broadcast"
  ELSE IF find_dnet(packet.net) = 0 THEN "search" ELSE "forward"

Learned(src, packet) ==
  [dnets EXCEPT ![src] = IF packet.kind \in {"i-am", "init-table", "table-ack"}
                           THEN @ \cup ({packet.net} \ {0}) ELSE @]

\* A message is taken from main's box; its block is freed or dropped.
MainTakes ==
  /\ main.at = "loop" /\ main_id # <<>>
  /\ main_id' = Tail(main_id)
  /\ LET received == data[Head(main_id)]
         rest == [data EXCEPT ![Head(main_id)] = NoBlock]
         todo == IF received.packet.kind = "apdu"
                   THEN process_msg(received.origin, received.packet)
                   ELSE process_network_message(received.origin, received.packet)
     IN /\ dnets' = Learned(received.origin, received.packet)
        /\ CASE todo = "nothing" -> data' = rest /\ UNCHANGED main
             [] todo = "answer" -> Multicast(1, <<received.origin>>, rest)
             [] todo = "forward" -> Multicast(1, <<find_dnet(received.packet.net)>>, rest)
             [] todo = "broadcast" -> Multicast(References(received.origin), Others(received.origin), rest)
             [] todo = "search" -> Multicast(port_count, [p \in Port |-> p], rest)
  /\ UNCHANGED <<state, port_id, main_open, holds, packets>>

\* One send_to_msgbox, which waits while the box of the port is full.
MainSends ==
  /\ main.at = "sends"
  /\ LET port == Head(main.to)
     IN /\ Len(port_id[port]) < BoxSize
        /\ port_id' = [port_id EXCEPT ![port] = Append(@, main.block)]
  /\ IF Tail(main.to) = <<>> THEN At("loop", 0, <<>>) ELSE At("sends", main.block, Tail(main.to))
  /\ UNCHANGED <<state, mailVars, holds, data, dnets, packets>>

\* The operator ends the router.
MainEscapes ==
  /\ main.at = "loop" /\ At("stops", 0, <<>>)
  /\ UNCHANGED <<state, port_id, mailVars, holds, data, dnets, packets>>

\* cleanup deletes main's box, sends SHUTDOWN to the ports that run ...
CleanupBegins ==
  /\ main.at = "stops"
  /\ main_open' = FALSE /\ main_id' = <<>>
  /\ data' = [b \in Blocks |-> IF \E i \in DOMAIN main_id : main_id[i] = b THEN NoBlock ELSE data[b]]
  /\ At("shuts", 0, [p \in Port |-> p])
  /\ UNCHANGED <<state, port_id, holds, dnets, packets>>

CleanupShuts_NoWait ==
  /\ main.at = "shuts"
  /\ LET port == Head(main.to)
     IN port_id' = [port_id EXCEPT ![port] =
          IF state[port] = "RUNNING" /\ Len(@) < BoxSize THEN Append(@, SHUTDOWN) ELSE @]
  /\ IF Tail(main.to) = <<>> THEN At("joins", 0, [p \in Port |-> p])
                              ELSE At("shuts", 0, Tail(main.to))
  /\ UNCHANGED <<state, mailVars, holds, data, dnets, packets>>

CleanupShuts ==
  /\ main.at = "shuts"
  /\ LET port == Head(main.to)
     IN IF state[port] = "RUNNING"
          THEN /\ Len(port_id[port]) < BoxSize
               /\ port_id' = [port_id EXCEPT ![port] = Append(@, SHUTDOWN)]
          ELSE UNCHANGED port_id
  /\ IF Tail(main.to) = <<>> THEN At("joins", 0, [p \in Port |-> p])
                              ELSE At("shuts", 0, Tail(main.to))
  /\ UNCHANGED <<state, mailVars, holds, data, dnets, packets>>

\* ... and waits, spinning, until one after the other has finished.
CleanupJoins ==
  /\ main.at = "joins"
  /\ IF state[Head(main.to)] # "FINISHED" THEN UNCHANGED main
     ELSE IF Tail(main.to) = <<>> THEN At("exited", 0, <<>>)
     ELSE At("joins", 0, Tail(main.to))
  /\ UNCHANGED <<state, port_id, mailVars, holds, data, dnets, packets>>

Exited == main.at = "exited" /\ UNCHANGED rpVars

-----------------------------------------------------------------------------
RPInit ==
  /\ state = [p \in Port |-> "INIT"]
  /\ port_id = [p \in Port |-> <<>>]
  /\ main_id = <<>> /\ main_open = TRUE
  /\ holds = [p \in Port |-> <<>>]
  /\ main = [at |-> "waits", block |-> 0, to |-> <<>>]
  /\ data = [b \in Blocks |-> NoBlock]
  /\ dnets = [p \in Port |-> {}]
  /\ packets = 0

PortSteps(p) == PortStarts(p) \/ PortTakes(p) \/ PortSends(p) \/ PortPosts(p)

MainSteps ==
  init_router \/ MainTakes \/ MainSends \/ CleanupBegins \/ CleanupShuts \/ CleanupJoins

RPNext ==
  \/ \E p \in Port : PortSteps(p) \/ PortReceives(p)
  \/ MainSteps \/ MainEscapes \/ Exited

RPSpec == RPInit /\ [][RPNext]_rpVars

\* Every thread runs; nothing need be received, nor the router be ended.
RPFairness == WF_rpVars(MainSteps) /\ \A p \in Port : WF_rpVars(PortSteps(p))

-----------------------------------------------------------------------------
InBox(box, b) == \E i \in DOMAIN box : box[i] = b

\* What refers to a block.
Uses(b) ==
  [ports |-> {p \in Port : InBox(port_id[p], b) \/ holds[p] = <<"send", b>>},
   received |-> (\E p \in Port : holds[p] = <<"post", b>>) \/ InBox(main_id, b)]

\* The ports main has still to send its block to.
StillToSend(b) == IF main.at = "sends" /\ main.block = b THEN {main.to[i] : i \in DOMAIN main.to} ELSE {}

\* Type correctness: no box holds more than fits, and blocks and reference
\* counts stay in range.
RPTypeOK ==
  /\ state \in [Port -> {"INIT", "INIT_FAILED", "RUNNING", "FINISHED"}]
  /\ \A p \in Port : port_id[p] \in Seq(Blocks \cup {SHUTDOWN}) /\ Len(port_id[p]) <= BoxSize
  /\ main_id \in Seq(Blocks) /\ Len(main_id) <= BoxSize /\ main_open \in BOOLEAN
  /\ \A p \in Port : holds[p] = <<>> \/ holds[p] \in {"send", "post"} \X Blocks
  /\ \A b \in Blocks : data[b].ref_count \in -1 .. port_count
  /\ dnets \in [Port -> SUBSET (Port \cup RemoteNets)]

\* No message points to a block that was freed.
NoDanglingMessage ==
  \A b \in Blocks : Uses(b).received \/ Uses(b).ports # {} => b \in Allocated

\* The count of a block that main sent is the number of ports that have it or
\* will get it: while main is half-way through its loop a port that is done
\* cannot free the block under the others, and the last one always does
\* (main.c and send_network_message set ref_count before the first send).
\* Nor does a message outlive its block.
CountsReferences ==
  /\ NoDanglingMessage
  /\ \A b \in Allocated : ~Uses(b).received =>
       data[b].ref_count = Cardinality(Uses(b).ports \cup StillToSend(b))

\* A router all of whose ports ran comes to its end once it is told to: no
\* thread is left waiting for room in a box whose reader has gone.
Exits ==
  (main.at = "stops" /\ \A p \in Port : state[p] = "RUNNING") ~> (main.at = "exited")
=============================================================================
