---------------------------- MODULE NetworkRouter ----------------------------
(***************************************************************************)
(* A BACnet internetwork of routers that run apps/router-mstp (the same    *)
(* code routes for apps/router-ipv6): each joins a BACnet/IP and an MS/TP  *)
(* network.  A router keeps, for each port, the networks reachable through *)
(* it and the next router on the way.  It learns them from I-Am-Router-To- *)
(* Network messages and from the source network of what it forwards; it    *)
(* never ages or replaces one.  The table is lost when the router stops.   *)
(*                                                                         *)
(* The handlers run to completion one received PDU at a time, from either  *)
(* port.  One device stands on each network; it asks for routes, remembers *)
(* who answered, and sends APDUs.                                          *)
(***************************************************************************)
EXTENDS Integers, Sequences, FiniteSets, SequencesExt, Relation

CONSTANTS
  Routers, Nets,
  BIP_Net, MSTP_Net,        \* the networks of a router, two different ones
  BROADCAST,                \* the DNET of a global broadcast, 0xFFFF
  HopCountSize,             \* hop counts are below it, 256
  OctetSize,                \* 256
  Hops,                     \* the hop counts devices send with
  Asked,                    \* what devices ask for: <<network of the device, network or 0>>
  Talks,                    \* who sends APDUs: <<network of the device, another network>>
  MaxFrames,                \* devices speak while fewer PDUs are under way
  MaxFaults,                \* PDUs lost and routers stopped
  All, Device, Nobody       \* a broadcast MAC, the device's, and one nobody has

VARIABLES
  Router_Table,   \* for each router, port |-> the routes through it
  up,             \* the routers that run
  inbox,          \* for each router and port, the PDUs received and not handled
  known,          \* for each of Talks, the router that said it leads there
  apdu,           \* the latest APDU: who should hear it, how often each has, and
                  \* whether a fault struck while it was under way
  faults

nrVars == <<Router_Table, up, inbox, known, apdu, faults>>

Ports(r) == {BIP_Net[r], MSTP_Net[r]}

ASSUME RouterAssumption ==
  /\ Nets \subseteq 1 .. BROADCAST - 1
  /\ \A r \in Routers : Ports(r) \subseteq Nets /\ BIP_Net[r] # MSTP_Net[r]
  /\ Hops \subseteq 1 .. HopCountSize - 1

-----------------------------------------------------------------------------
\* The router table

\* 0: there is no route.
dnet_find(table, net) ==
  IF net \in DOMAIN table THEN net
  ELSE LET through == {p \in DOMAIN table : \E d \in table[p] : d.net = net}
       IN IF through = {} THEN 0 ELSE CHOOSE p \in through : TRUE

NextRouter(table, net) ==
  (CHOOSE d \in table[dnet_find(table, net)] : d.net = net).mac

\* The routes to those of nets that are not in the table yet, through mac.
dnet_add(table, snet, nets, mac) ==
  [table EXCEPT ![snet] = @ \cup
     {[net |-> n, mac |-> mac] : n \in {m \in nets : dnet_find(table, m) = 0}}]

EmptyTable(r) == [p \in Ports(r) |-> {}]

-----------------------------------------------------------------------------
\* What a router sends.  A PDU names the nets of a network layer message, and
\* has dnet = 0 (and then no hop count) or snet = 0 when they are absent.

NetworkMessage(type, nets) ==
  [type |-> type, nets |-> nets, dnet |-> BROADCAST, dadr |-> All, snet |-> 0,
   hop |-> HopCountSize - 1]

datalink_send_pdu(r, snet, to, npdu) ==
  {[net |-> p, from |-> r, to |-> to, npdu |-> npdu] :
     p \in {q \in Ports(r) : snet \in {0, q}}}

Accessible(table, snet) ==
  LET others == DOMAIN table \ {snet}
  IN others \cup UNION {{d.net : d \in table[p]} : p \in others}

send_i_am_router_to_network(r, table, snet, nets) ==
  datalink_send_pdu(r, snet, All,
    NetworkMessage("I-Am-Router",
      IF nets = {} THEN Accessible(table, snet) ELSE nets))

\* The port it goes out of is passed in one octet.
send_initialize_routing_table_ack(r, snet) ==
  datalink_send_pdu(r, snet % OctetSize, All, NetworkMessage("Table-Ack", Ports(r)))

send_reject_message_to_network(r, snet, to) ==
  datalink_send_pdu(r, snet, to, [NetworkMessage("Reject", {}) EXCEPT !.dnet = 0])

send_who_is_router_to_network(r, snet, nets) ==
  datalink_send_pdu(r, snet, All, NetworkMessage("Who-Is-Router", nets))

-----------------------------------------------------------------------------
\* The handlers: what becomes of the router's table and what it sends

Result(table, frames) == [table |-> table, frames |-> frames, runs |-> TRUE]

Discover_Nothing(r, snet, nets) == {}

\* Asks on every other port.
DiscoverNext(r, snet, nets) ==
  UNION {send_who_is_router_to_network(r, p, nets) : p \in Ports(r) \ {snet}}

who_is_router_to_network_handler(r, table, snet, nets) ==
  LET port == dnet_find(table, CHOOSE n \in nets : TRUE)
  IN CASE nets = {} -> send_i_am_router_to_network(r, table, snet, nets)
       [] nets # {} /\ port = 0 -> DiscoverNext(r, snet, nets)
       [] nets # {} /\ port = snet -> {}
       [] OTHER -> send_i_am_router_to_network(r, table, snet, nets)

\* Of a routing table that is sent to the router only the first network is
\* read, as often as there are networks: nets has no other.
network_control_handler(r, table, snet, f) ==
  CASE f.npdu.type = "Who-Is-Router" ->
         Result(table, who_is_router_to_network_handler(r, table, snet, f.npdu.nets))
    [] f.npdu.type = "I-Am-Router" ->
         Result(dnet_add(table, snet, f.npdu.nets, f.from), {})
    [] f.npdu.type = "Initialize-Table" ->
         Result(dnet_add(table, snet, f.npdu.nets, f.from),
                send_initialize_routing_table_ack(r, snet))
    [] f.npdu.type \in {"Table-Ack", "Reject"} -> Result(table, {})
    [] OTHER -> Result(table, send_reject_message_to_network(r, snet, f.from))

routed_src_behind(table, snet, f) ==
  LET other == CHOOSE p \in DOMAIN table : p # snet
  IN IF f.npdu.snet = 0 THEN [table |-> table, snet |-> snet]
     ELSE [table |-> dnet_add(table, other, {f.npdu.snet}, f.from), snet |-> f.npdu.snet]

\* The table has the network of a routed source, and what is forwarded names it.
routed_src_address(table, snet, f) ==
  IF f.npdu.snet = 0 THEN [table |-> table, snet |-> snet]
  ELSE [table |-> dnet_add(table, snet, {f.npdu.snet}, f.from), snet |-> f.npdu.snet]

\* hop_count has eight bits, and 0 is followed by 255.
OneHopLess(hop) == (hop - 1) % HopCountSize

BroadcastPorts_All(r, snet) == Ports(r)

BroadcastPorts(r, snet) == Ports(r) \ {snet}

DirectPort(dnet, snet) == dnet

\* The DNET and address in what goes to the next router are those of
\* remote_dest, of which only the MAC has been set.
remote_dest == (Nets \cup {0, BROADCAST}) \X {Device, Nobody}

\* The set of results: the content of remote_dest is anything.  With no route
\* the port that dnet_find did not return is dereferenced, and the router stops.
routed_apdu_handler(r, table, snet, f) ==
  LET src == routed_src_address(table, snet, f)
      port == dnet_find(table, f.npdu.dnet)
      routed == [f.npdu EXCEPT !.snet = src.snet, !.hop = OneHopLess(@)]
  IN CASE f.npdu.dnet = BROADCAST ->
            {Result(src.table,
               UNION {datalink_send_pdu(r, p, All, [routed EXCEPT !.dadr = All]) :
                        p \in BroadcastPorts(r, snet)})}
       [] f.npdu.dnet = 0 -> {Result(table, {})}
       [] f.npdu.dnet \in Nets /\ port = 0 ->
            {[table |-> src.table, frames |-> {}, runs |-> FALSE]}
       [] f.npdu.dnet \in Nets /\ port = f.npdu.dnet ->
            {Result(src.table,
               datalink_send_pdu(r, DirectPort(f.npdu.dnet, snet), f.npdu.dadr,
                 [routed EXCEPT !.dnet = 0, !.hop = 0]))}
       [] OTHER ->
            {Result(src.table,
               datalink_send_pdu(r, port,
                 IF d[1] = BROADCAST /\ port = BIP_Net[r]
                   THEN All ELSE NextRouter(table, f.npdu.dnet),
                 [routed EXCEPT !.dnet = d[1], !.dadr = d[2],
                                !.hop = IF d[1] = 0 THEN 0 ELSE @])) :
                d \in remote_dest}

IsApdu(npdu) == npdu.type \in {"Unconfirmed", "Confirmed"}

\* A confirmed request that is broadcast is ignored.
my_routing_npdu_handler(r, table, snet, f) ==
  IF ~IsApdu(f.npdu)
    THEN {IF f.npdu.dnet \in {0, BROADCAST}
            THEN network_control_handler(r, table, snet, f) ELSE Result(table, {})}
    ELSE IF \/ f.npdu.dnet \notin {0, BROADCAST} /\ f.npdu.hop <= 1
            \/ f.npdu.dnet = BROADCAST /\ f.npdu.type = "Confirmed"
           THEN {Result(table, {})}
           ELSE routed_apdu_handler(r, table, snet, f)
-----------------------------------------------------------------------------
\* The networks: a PDU reaches the routers and the device it is addressed to

\* At most one of frames is on each network.
Delivered(frames, boxes) ==
  [x \in Routers |-> [p \in Ports(x) |->
     LET for == {f \in frames : f.net = p /\ f.from # x /\ f.to \in {All, x} /\ x \in up'}
     IN IF for = {} THEN boxes[x][p] ELSE Append(boxes[x][p], CHOOSE f \in for : TRUE)]]

\* What the device on network n hears.
Hears(frames, n) ==
  {f \in frames : f.net = n /\ f.from # Device /\ f.to \in {All, Device}}

\* A device believes the latest I-Am-Router it hears, and counts the APDUs.
Transmit(frames, boxes) ==
  /\ inbox' = Delivered(frames, boxes)
  /\ known' = [t \in Talks |->
       LET iam == {f \in Hears(frames, t[1]) : f.npdu.type = "I-Am-Router" /\ t[2] \in f.npdu.nets}
       IN IF iam = {} THEN known[t] ELSE (CHOOSE f \in iam : TRUE).from]

Counted(frames, heard) ==
  [n \in Nets |-> IF heard[n] < 2 /\ \E f \in Hears(frames, n) : IsApdu(f.npdu)
                    THEN heard[n] + 1 ELSE heard[n]]

UnderWay == UNION {UNION {{<<r, p, i>> : i \in DOMAIN inbox[r][p]} : p \in Ports(r)} : r \in Routers}

ApduUnderWay ==
  \E r \in Routers : \E p \in Ports(r) : \E i \in DOMAIN inbox[r][p] : IsApdu(inbox[r][p][i].npdu)

-----------------------------------------------------------------------------
\* The routers

\* One turn of the loop in main: the oldest PDU of port p is handled.
Receive(r, p) ==
  /\ r \in up /\ inbox[r][p] # <<>>
  /\ \E res \in my_routing_npdu_handler(r, Router_Table[r], p, Head(inbox[r][p])) :
       /\ Router_Table' = [Router_Table EXCEPT ![r] = IF res.runs THEN res.table ELSE EmptyTable(r)]
       /\ up' = IF res.runs THEN up ELSE up \ {r}
       /\ Transmit(res.frames,
            [inbox EXCEPT ![r] = IF res.runs THEN [@ EXCEPT ![p] = Tail(@)]
                                 ELSE [q \in Ports(r) |-> <<>>]])
       /\ apdu' = [apdu EXCEPT !.heard = Counted(res.frames, @), !.lost = @ \/ ~res.runs]
  /\ UNCHANGED faults

\* main announces the networks of one port on the other, then waits for PDUs.
Start(r) ==
  /\ r \notin up
  /\ up' = up \cup {r}
  /\ Transmit(UNION {send_i_am_router_to_network(r, EmptyTable(r), p, {}) : p \in Ports(r)},
              inbox)
  /\ UNCHANGED <<Router_Table, apdu, faults>>

\* The router is stopped, and its table is gone.
cleanup(r) ==
  /\ r \in up /\ faults < MaxFaults
  /\ faults' = faults + 1
  /\ up' = up \ {r}
  /\ Router_Table' = [Router_Table EXCEPT ![r] = EmptyTable(r)]
  /\ inbox' = [inbox EXCEPT ![r] = [q \in Ports(r) |-> <<>>]]
  /\ apdu' = [apdu EXCEPT !.lost = TRUE]
  /\ UNCHANGED known

\* A datagram is dropped, or a frame while the MS/TP receive buffer is full.
LosePdu(r, p) ==
  /\ faults < MaxFaults /\ inbox[r][p] # <<>>
  /\ faults' = faults + 1
  /\ inbox' = [inbox EXCEPT ![r][p] = Tail(@)]
  /\ apdu' = [apdu EXCEPT !.lost = TRUE]
  /\ UNCHANGED <<Router_Table, up, known>>

-----------------------------------------------------------------------------
\* The devices

NoApdu == [should |-> {}, heard |-> [n \in Nets |-> 0], lost |-> FALSE]

\* What became of an APDU is kept until a device asks something else.
Forget == IF ApduUnderWay THEN apdu ELSE NoApdu

FromDevice(n, to, npdu) == {[net |-> n, from |-> Device, to |-> to, npdu |-> npdu]}

Speaks == Cardinality(UnderWay) < MaxFrames /\ UNCHANGED <<Router_Table, up, faults>>

AskForRoute(q) ==
  /\ Speaks
  /\ Transmit(FromDevice(q[1], All,
       [NetworkMessage("Who-Is-Router", {q[2]} \ {0}) EXCEPT !.dnet = 0]), inbox)
  /\ apdu' = Forget

\* A tool asks for the table, or sends the ports the router has anyway; or the
\* message is of a type the router does not know.
Configure(n, r) ==
  /\ Speaks /\ UnderWay = {} /\ n \in Ports(r)
  /\ \E npdu \in {NetworkMessage("Initialize-Table", {}),
                  NetworkMessage("Initialize-Table", {BIP_Net[r]}),
                  NetworkMessage("Proprietary", {})} :
       Transmit(FromDevice(n, r, [npdu EXCEPT !.dnet = 0]), inbox)
  /\ apdu' = Forget

SendApdu(n, type, dnet, to, hop, should) ==
  /\ Speaks /\ ~ApduUnderWay
  /\ Transmit(FromDevice(n, to, [type |-> type, nets |-> {}, dnet |-> dnet,
       dadr |-> IF dnet = BROADCAST THEN All ELSE Device, snet |-> 0, hop |-> hop]), inbox)
  /\ apdu' = [should |-> should, heard |-> [m \in Nets |-> 0],
             lost |-> up # Routers]

BroadcastApdu(n) ==
  \E type \in {"Unconfirmed", "Confirmed"}, hop \in Hops :
    SendApdu(n, type, BROADCAST, All, hop, IF type = "Confirmed" THEN {} ELSE Nets \ {n})

\* To the device on the other network, through the router that said it leads
\* there; with a hop count of 1 it is not routed.
UnicastApdu(t) ==
  /\ known[t] \in Routers
  /\ \E hop \in Hops :
       SendApdu(t[1], "Unconfirmed", t[2], known[t], hop,
                IF hop > 1 THEN Ports(known[t]) \cap {t[2]} ELSE {})

-----------------------------------------------------------------------------
NRInit ==
  /\ Router_Table = [r \in Routers |-> EmptyTable(r)]
  /\ up = {}
  /\ inbox = [r \in Routers |-> [p \in Ports(r) |-> <<>>]]
  /\ known = [t \in Talks |-> Nobody]
  /\ apdu = NoApdu
  /\ faults = 0

NRNext ==
  \/ \E r \in Routers : Start(r) \/ cleanup(r)
  \/ \E r \in Routers : \E p \in Ports(r) : Receive(r, p) \/ LosePdu(r, p)
  \/ \E q \in Asked : AskForRoute(q)
  \/ \E n \in Nets, r \in Routers : Configure(n, r)
  \/ \E t \in Talks : BroadcastApdu(t[1]) \/ UnicastApdu(t)

NRSpec == NRInit /\ [][NRNext]_nrVars

\* A running router polls both ports in turn, and a device repeats its question.
NRFairness ==
  /\ \A r \in Routers : \A p \in Ports(r) : WF_nrVars(Receive(r, p))
  /\ \A q \in Asked : SF_nrVars(AskForRoute(q))

-----------------------------------------------------------------------------
NPDU == [type : {"Who-Is-Router", "I-Am-Router", "Initialize-Table", "Table-Ack", "Reject",
                 "Proprietary", "Unconfirmed", "Confirmed"},
         nets : SUBSET Nets, dnet : Nets \cup {0, BROADCAST}, dadr : {All, Device, Nobody},
         snet : Nets \cup {0}, hop : 0 .. HopCountSize - 1]

\* Type correctness: routes are kept for the two ports of a router, and the hop
\* count of what is under way fits its octet whatever the routers subtract.
NRTypeOK ==
  /\ up \subseteq Routers
  /\ \A r \in Routers :
       /\ Router_Table[r] \in [Ports(r) -> SUBSET [net : Nets, mac : Routers \cup {Device}]]
       /\ inbox[r] \in [Ports(r) -> Seq([net : Ports(r), from : Routers \cup {Device},
                                         to : Routers \cup {All}, npdu : NPDU])]
  /\ known \in [Talks -> Routers \cup {Nobody}]
  /\ apdu \in [should : SUBSET Nets, heard : [Nets -> 0 .. 2], lost : BOOLEAN]
  /\ faults \in 0 .. MaxFaults

\* The networks that lie beyond port p of router m: those joined to the other
\* port of m without network p.
Beyond ==
  [m \in Routers |-> [p \in Ports(m) |->
     LET joined == [e \in Nets \X Nets |-> p \notin {e[1], e[2]} /\
                      \E x \in Routers : {e[1], e[2]} \subseteq Ports(x)]
         first == CHOOSE q \in Ports(m) : q # p
     IN {q \in Nets : TransitiveClosure(joined, Nets)[first, q]}]]

\* In a network without cycles every route a router has leads to its network:
\* the next router stands on the port the route is kept for, and the network
\* lies on its other side.  So no two routers send a PDU back and forth, however
\* announcements, questions, losses and restarts were interleaved
\* (dnet_add, send_i_am_router_to_network).
RoutesLead ==
  /\ \A r \in Routers : \A p \in Ports(r) : \A d \in Router_Table[r][p] :
       /\ d.mac \in Routers \ {r} /\ p \in Ports(d.mac)
       /\ d.net \in Beyond[d.mac][p]
  \* The router a device turns to for a network leads there, too.
  /\ \A t \in Talks : known[t] # Nobody =>
       t[1] \in Ports(known[t]) /\ t[2] \in Beyond[known[t]][t[1]]

\* What is under way is well formed, hop count included.  Without cycles no device
\* hears an APDU twice, and once it is no longer under way a global broadcast has
\* been heard on every network, and an APDU for a network of the router it was
\* sent to by the device there, unless a PDU was lost or a router stopped meanwhile
\* (routed_apdu_handler, cases 1 and broadcast).
ApduArrives ==
  /\ NRTypeOK
  /\ \A n \in Nets : apdu.heard[n] <= 1
  /\ ~ApduUnderWay /\ ~apdu.lost => \A n \in apdu.should : apdu.heard[n] > 0

\* If from some time on every router runs, every router next to a device that
\* keeps asking for a network has a route to it from some time on: a router that
\* does not know it asks on its other port and learns from the answer, so that
\* the next question gets one step further (who_is_router_to_network_handler).
\* Routers further away may be without: once the first router knows the network
\* it answers by itself, and a router that was started anew is not asked.
RoutesConverge ==
  <>[](up = Routers) =>
    <>[](\A q \in Asked, r \in Routers :
           q[1] \in Ports(r) /\ q[2] # 0 => dnet_find(Router_Table[r], q[2]) # 0)

\* A router that has no route for a PDU asks for one on its ports.
UnknownRouteIsSought ==
  [][\A r \in up : \A p \in Ports(r) :
       LET f == Head(inbox[r][p])
       IN /\ inbox[r][p] # <<>> /\ inbox'[r][p] = Tail(inbox[r][p]) /\ faults' = faults
          /\ IsApdu(f.npdu) /\ f.npdu.hop > 1
          /\ f.npdu.dnet \in Nets /\ dnet_find(Router_Table[r], f.npdu.dnet) = 0
          => \A x \in up \ {r} : \A q \in Ports(x) \cap Ports(r) :
               \E g \in ToSet(inbox'[x][q]) :
                 g.npdu.type = "Who-Is-Router" /\ g.npdu.nets = {f.npdu.dnet}]_nrVars
=============================================================================
