-------------------------------- MODULE BBMD --------------------------------
(***************************************************************************)
(* BACnet/IP broadcast distribution: h_bbmd.c (the BVLL handlers), the     *)
(* foreign device table of bvlc.c, and the registration client of dlenv.c. *)
(*                                                                         *)
(* A BBMD and the plain devices of its subnet hear each other's local      *)
(* broadcasts, the sender included (the sockets are bound to INADDR_ANY).  *)
(* A foreign device is alone on its subnet and registers with its home.    *)
(* A datagram sent to a broadcast address is one datagram per listener.    *)
(* An NPDU is a name, with the number of BVLL messages still around it:    *)
(* the network layer only understands one with none.                       *)
(* Messages are short enough to be forwarded; NAT handling is off.  Read-  *)
(* BDT and Read-FDT change no state, and of a BVLC-Result nothing depends  *)
(* but what is reported to the user: they are left out.                    *)
(***************************************************************************)
EXTENDS Integers, FiniteSets, Bags

CONSTANTS
    BBMDs, Devices, Foreign,  \* the nodes; a node's name is its B/IP address
    Subnet,        \* [Devices -> BBMDs], the subnet a plain device is on
    Slots,         \* [BBMDs -> Nat], MAX_FD_ENTRIES of each build
    TTL,           \* [Foreign -> Nat], BBMD_TTL_Seconds
    Grace,         \* the 30 seconds of bvlc_foreign_device_table_entry_add
    TTLMax,        \* UINT16_MAX
    MaxLate,       \* how many seconds a main loop may be behind
    Scenarios      \* where a behaviour starts and what the world may do, see BInit

Nodes == BBMDs \cup Devices \cup Foreign

None == "none"

BDTEntry == [addr : BBMDs, mask : {"unicast", "directed"}]

ASSUME BBMDAssumption ==
    /\ IsFiniteSet(Nodes)
    /\ Subnet \in [Devices -> BBMDs]
    /\ Slots \in [BBMDs -> Nat \ {0}]
    /\ TTL \in [Foreign -> Nat \ {0}]
    /\ Grace \in Nat /\ TTLMax \in Nat /\ MaxLate \in Nat
    /\ \A s \in Scenarios :
          /\ s.bdt \in [BBMDs -> SUBSET BDTEntry]
          /\ s.home \in [Foreign -> BBMDs \cup Devices]
          /\ s.sends \in Nat /\ s.faults \in Nat /\ s.clock \in BOOLEAN

VARIABLES
    world,         \* the scenario, its sends and faults counting down
    BBMD_Table,    \* [BBMDs -> SUBSET BDTEntry], the valid entries
    FD_Table,      \* [BBMDs -> [slot -> entry]]
    Remote_BBMD,   \* [Foreign -> the BBMD it registered with, or None]
    timer,         \* [Foreign -> Nat], BBMD_Timer_Seconds
    due,           \* [Nodes -> Nat], seconds the main loop has not yet counted
    net,           \* a bag of datagrams in flight
    heard,         \* [Nodes -> bag of the NPDUs handed to the network layer]
    broadcasts,    \* the global broadcasts made: records [from, npdu]
    lease,         \* [Foreign -> BOOLEAN], history: accepted and not revoked since
    disturbed      \* history: a fault of the world has happened

bbmdVars == <<world, BBMD_Table, FD_Table, Remote_BBMD, timer, due, net, heard,
              broadcasts, lease, disturbed>>

Running == {f \in Foreign : Remote_BBMD[f] # None}

-----------------------------------------------------------------------------
(* Datagrams.                                                              *)

OnSubnet(b) == {b} \cup {d \in Devices : Subnet[d] = b}

\* Who receives what node n sends to its local broadcast address.
LocalBroadcast(n) ==
    IF n \in Foreign THEN {n}
    ELSE OnSubnet(IF n \in BBMDs THEN n ELSE Subnet[n])

\* A Forwarded-NPDU sent by b to each node of a set of destinations.
Forwarded(b, dests, origin, npdu, wraps) ==
    {[fn |-> "forwarded", src |-> b, dst |-> d, origin |-> origin,
      npdu |-> npdu, wraps |-> wraps] : d \in dests}

Original(fn, n, dests, npdu) ==
    {[fn |-> fn, src |-> n, dst |-> d, npdu |-> npdu] : d \in dests}

SendAll(datagrams) == net' = net (+) SetToBag(datagrams)

Answer(m, datagrams) == net' = (net (-) SetToBag({m})) (+) SetToBag(datagrams)

\* What bip_receive hands up: the network layer drops an NPDU that begins with
\* a BVLL header.
Hear(n, npdu, wraps) ==
    heard' = IF wraps = 0 THEN [heard EXCEPT ![n] = @ (+) SetToBag({npdu})] ELSE heard

-----------------------------------------------------------------------------
(* The foreign device table.                                               *)

Free == [valid |-> FALSE, addr |-> None, ttl |-> 0, remaining |-> 0]

SlotOf(table, f) == {i \in DOMAIN table : table[i].valid /\ table[i].addr = f}

FirstOf(S) == CHOOSE i \in S : \A j \in S : i <= j

Lifetime_NoGrace(ttl) == ttl

Lifetime(ttl) == IF ttl < TTLMax - Grace THEN ttl + Grace ELSE TTLMax

\* bvlc_foreign_device_table_entry_add: renew, or take the first free slot.
CanAdd(table, f) ==
    SlotOf(table, f) # {} \/ \E i \in DOMAIN table : ~table[i].valid

entry_add(table, f, ttl) ==
    LET i == IF SlotOf(table, f) # {} THEN FirstOf(SlotOf(table, f))
             ELSE FirstOf({j \in DOMAIN table : ~table[j].valid})
    IN  [table EXCEPT ![i] =
           [valid |-> TRUE, addr |-> f, ttl |-> ttl, remaining |-> Lifetime(ttl)]]

entry_delete(table, f) ==
    [table EXCEPT ![FirstOf(SlotOf(table, f))] =
       [@ EXCEPT !.valid = FALSE, !.remaining = 0]]

\* Only the last, partial subtraction is made.
Timer_Frozen(table, seconds) ==
    [i \in DOMAIN table |->
        IF table[i].valid /\ table[i].remaining < seconds THEN Free ELSE table[i]]

fdt_maintenance_timer(table, seconds) ==
    [i \in DOMAIN table |->
        LET e == table[i]
            left == IF e.remaining < seconds THEN 0 ELSE e.remaining - seconds
        IN  IF e.valid /\ e.remaining # 0
            THEN [e EXCEPT !.remaining = left, !.valid = (left # 0)] ELSE e]

-----------------------------------------------------------------------------
(* Forwarding.                                                             *)

\* bvlc_broadcast_distribution_table_entry_forward_address: the BBMD itself, or
\* everyone on its subnet.
ForwardTo(e) == IF e.mask = "unicast" THEN {e.addr} ELSE OnSubnet(e.addr)

\* An entry's forward address is the BBMD's own address only with a unicast mask.
bbmd_bdt_forward_npdu(b, origin, npdu) ==
    LET skip(e) == e.mask = "unicast" /\ e.addr \in {b, origin}
    IN  Forwarded(b, UNION {ForwardTo(e) : e \in {x \in BBMD_Table[b] : ~skip(x)}},
                  origin, npdu, 0)

bbmd_fdt_forward_npdu(b, origin, npdu, wraps) ==
    Forwarded(b, {FD_Table[b][i].addr : i \in {j \in DOMAIN FD_Table[b] :
                    /\ FD_Table[b][j].valid
                    /\ FD_Table[b][j].remaining # 0
                    /\ FD_Table[b][j].addr \notin {b, origin}}}, origin, npdu, wraps)

Member_Self(b, n) == \E e \in BBMD_Table[b] : e.addr = n /\ e.mask = "unicast"

bbmd_bdt_member_mask_is_unicast(b, n) ==
    \E e \in BBMD_Table[b] : e.addr # b /\ e.addr = n /\ e.mask = "unicast"

-----------------------------------------------------------------------------
(* Sending.                                                                *)

\* What one call of bvlc_send_pdu puts on the wire for a global broadcast.
GlobalBroadcast(n, npdu) ==
    IF n \in Running
    THEN Original("distribute", n, {Remote_BBMD[n]}, npdu)
    ELSE Original("broadcast", n, LocalBroadcast(n), npdu)
         \cup IF n \in BBMDs
              THEN bbmd_fdt_forward_npdu(n, n, npdu, 0) \cup bbmd_bdt_forward_npdu(n, n, npdu)
              ELSE {}

\* bvlc_send_pdu: to every network, to one network (no BBMD forwards it for the
\* sender), or to one node.  The n-th PDU sent is named n.
bvlc_send_pdu(n) ==
    LET npdu == world.sends
    IN  /\ world.sends > 0
        /\ world' = [world EXCEPT !.sends = @ - 1]
        /\ \/ /\ SendAll(GlobalBroadcast(n, npdu))
              /\ broadcasts' = broadcasts \cup {[from |-> n, npdu |-> npdu]}
           \/ /\ SendAll(Original("broadcast", n, LocalBroadcast(n), npdu))
              /\ UNCHANGED broadcasts
           \/ /\ \E d \in Nodes : SendAll(Original("unicast", n, {d}, npdu))
              /\ UNCHANGED broadcasts
        /\ UNCHANGED <<BBMD_Table, FD_Table, Remote_BBMD, timer, due, heard, lease, disturbed>>

-----------------------------------------------------------------------------
(* What the world does to the nodes uses up one of the scenario's faults.  *)

NetworkFault ==
    /\ world.faults > 0
    /\ world' = [world EXCEPT !.faults = @ - 1]
    /\ disturbed' = TRUE
    /\ UNCHANGED <<heard, broadcasts>>

-----------------------------------------------------------------------------
(* bvlc_handler: one action per kind of message a node receives.           *)

InFlight(fn) == {m \in BagToSet(net) : m.fn = fn}

original_npdu(m) ==
    LET n == m.dst
    IN  \/ /\ m.src = n
           /\ Answer(m, {})
           /\ UNCHANGED heard
        \/ /\ m.src # n
           /\ Answer(m, IF m.fn = "broadcast" /\ n \in BBMDs
                       THEN bbmd_fdt_forward_npdu(n, m.src, m.npdu, 0)
                            \cup bbmd_bdt_forward_npdu(n, m.src, m.npdu)
                       ELSE {})
           /\ Hear(n, m.npdu, 0)

\* What a BBMD sends on when it receives a Forwarded-NPDU.  The whole BVLL
\* message, not the NPDU in it, is what the foreign devices are sent.
Forward_Nothing(b, m) == bbmd_fdt_forward_npdu(b, m.origin, m.npdu, m.wraps + 1)

ForwardOn(b, m) ==
    (IF bbmd_bdt_member_mask_is_unicast(b, m.src)
     THEN Forwarded(b, OnSubnet(b), m.origin, m.npdu, m.wraps) ELSE {})
    \cup bbmd_fdt_forward_npdu(b, m.origin, m.npdu, m.wraps + 1)

forwarded_npdu(m) ==
    LET n == m.dst
    IN  \/ /\ m.origin = n
           /\ Answer(m, {})
           /\ UNCHANGED heard
        \/ /\ m.origin # n
           /\ Answer(m, IF n \in BBMDs THEN ForwardOn(n, m) ELSE {})
           /\ Hear(n, m.npdu, m.wraps)

\* Distribute-Broadcast-To-Network: the local subnet, the other foreign devices
\* and the peers.  The BBMD itself hears the copy it broadcasts.
distribute_broadcast(m) ==
    LET b == m.dst
    IN  IF b \in BBMDs
        THEN Answer(m, Forwarded(b, OnSubnet(b), m.src, m.npdu, 0)
                      \cup bbmd_fdt_forward_npdu(b, m.src, m.npdu, 0)
                      \cup bbmd_bdt_forward_npdu(b, m.src, m.npdu))
        ELSE Answer(m, {})

\* Register-Foreign-Device.
register_foreign_device(m) ==
    LET b == m.dst
        f == m.src
        accepted == IF b \in BBMDs THEN CanAdd(FD_Table[b], f) ELSE FALSE
    IN  /\ Answer(m, {})
        /\ \/ /\ accepted
              /\ FD_Table' = [FD_Table EXCEPT ![b] = entry_add(@, f, m.ttl)]
              /\ lease' = [lease EXCEPT ![f] = (f \in Running)]
           \/ /\ ~accepted
              /\ UNCHANGED <<FD_Table, lease>>

\* Delete-Foreign-Device-Table-Entry, sent by a management station.
delete_foreign_device(b, f) ==
    /\ NetworkFault
    /\ SlotOf(FD_Table[b], f) # {}
    /\ FD_Table' = [FD_Table EXCEPT ![b] = entry_delete(@, f)]
    /\ lease' = [lease EXCEPT ![f] = @ /\ Remote_BBMD[f] # b]
    /\ UNCHANGED <<BBMD_Table, Remote_BBMD, timer, due, net>>

\* Write-Broadcast-Distribution-Table.  A list that does not fit is refused; an
\* empty one clears the table, although it too is answered with a NAK.  (With
\* a clock running there is nothing to distribute.)
write_bdt(b, list) ==
    /\ NetworkFault
    /\ ~world.clock
    /\ BBMD_Table' = [BBMD_Table EXCEPT ![b] = list]
    /\ UNCHANGED <<FD_Table, Remote_BBMD, timer, due, net, lease>>

Take ==
    \/ /\ \/ \E m \in InFlight("unicast") \cup InFlight("broadcast") : original_npdu(m)
          \/ \E m \in InFlight("forwarded") : forwarded_npdu(m)
       /\ UNCHANGED <<FD_Table, lease>>
    \/ /\ \E m \in InFlight("distribute") : distribute_broadcast(m)
       /\ UNCHANGED <<FD_Table, lease, heard>>
    \/ /\ \E m \in InFlight("register") : register_foreign_device(m)
       /\ UNCHANGED heard

bvlc_handler ==
    /\ Take
    /\ UNCHANGED <<world, BBMD_Table, Remote_BBMD, timer, due, broadcasts, disturbed>>

-----------------------------------------------------------------------------
(* Registration and time.                                                  *)

\* dlenv_register_as_foreign_device: at start, and whenever the timer runs out.
Registration(f) ==
    {[fn |-> "register", src |-> f, dst |-> world.home[f], ttl |-> TTL[f]]}

dlenv_init(f) ==
    /\ world.clock
    /\ f \notin Running
    /\ Remote_BBMD' = [Remote_BBMD EXCEPT ![f] = world.home[f]]
    /\ timer' = [timer EXCEPT ![f] = TTL[f]]
    /\ due' = [due EXCEPT ![f] = 0]
    /\ SendAll(Registration(f))
    /\ UNCHANGED <<world, BBMD_Table, FD_Table, heard, broadcasts, lease, disturbed>>

\* The nodes that have timers to count down.
Timed == Running \cup {b \in BBMDs : \E f \in Foreign : world.home[f] = b}

\* A second passes for everyone.  A registration takes less than a second to
\* arrive, and a main loop is never more than MaxLate seconds behind.
Second ==
    /\ world.clock
    /\ InFlight("register") = {}
    /\ \A n \in Timed : due[n] < MaxLate
    /\ due' = [n \in Nodes |-> IF n \in Timed THEN due[n] + 1 ELSE due[n]]
    /\ UNCHANGED <<world, BBMD_Table, FD_Table, Remote_BBMD, timer, net, heard,
                   broadcasts, lease, disturbed>>

\* The main loop of a foreign device: dlenv_maintenance_timer(elapsed_seconds).
dlenv_maintenance_timer(f) ==
    LET left == IF timer[f] <= due[f] THEN 0 ELSE timer[f] - due[f]
    IN  /\ f \in Running /\ due[f] > 0
        /\ due' = [due EXCEPT ![f] = 0]
        /\ timer' = [timer EXCEPT ![f] = IF left = 0 THEN TTL[f] ELSE left]
        /\ IF left = 0 THEN SendAll(Registration(f)) ELSE UNCHANGED net
        /\ UNCHANGED <<world, BBMD_Table, FD_Table, Remote_BBMD, heard, broadcasts, lease, disturbed>>

\* The main loop of a BBMD: datalink_maintenance_timer(elapsed_seconds).
bvlc_maintenance_timer(b) ==
    /\ due[b] > 0
    /\ due' = [due EXCEPT ![b] = 0]
    /\ FD_Table' = [FD_Table EXCEPT ![b] = fdt_maintenance_timer(@, due[b])]
    /\ UNCHANGED <<world, BBMD_Table, Remote_BBMD, timer, net, heard, broadcasts, lease, disturbed>>

-----------------------------------------------------------------------------
(* Faults and management.                                                  *)

\* A foreign device ends without saying so.
Stop(f) ==
    /\ NetworkFault
    /\ f \in Running
    /\ Remote_BBMD' = [Remote_BBMD EXCEPT ![f] = None]
    /\ lease' = [lease EXCEPT ![f] = FALSE]
    /\ due' = [due EXCEPT ![f] = 0]
    /\ timer' = [timer EXCEPT ![f] = 0]
    /\ UNCHANGED <<BBMD_Table, FD_Table, net>>

\* A BBMD starts again: bvlc_init, the BDT read from the environment once more.
Restart(b) ==
    /\ NetworkFault
    /\ FD_Table' = [FD_Table EXCEPT ![b] = [i \in 1 .. Slots[b] |-> Free]]
    /\ lease' = [f \in Foreign |-> lease[f] /\ Remote_BBMD[f] # b]
    /\ BBMD_Table' = [BBMD_Table EXCEPT ![b] = world.bdt[b]]
    /\ due' = [due EXCEPT ![b] = 0]
    /\ UNCHANGED <<Remote_BBMD, timer, net>>

\* UDP loses a datagram.
LoseDatagram(m) ==
    /\ NetworkFault
    /\ net' = net (-) SetToBag({m})
    /\ lease' = [f \in Foreign |-> lease[f] /\ ~(m.fn = "register" /\ m.src = f)]
    /\ UNCHANGED <<BBMD_Table, FD_Table, Remote_BBMD, timer, due>>

-----------------------------------------------------------------------------

\* Where a scenario has no clock its devices are registered from the start and
\* no lease runs out.
Registered(s, b) ==
    LET devices == {f \in Foreign : s.home[f] = b}
        order == CHOOSE o \in [devices -> 1 .. Cardinality(devices)] :
                    \A f, g \in devices : o[f] = o[g] => f = g
    IN  [i \in 1 .. Slots[b] |->
            IF \E f \in devices : order[f] = i
            THEN LET f == CHOOSE x \in devices : order[x] = i
                 IN  [valid |-> TRUE, addr |-> f, ttl |-> TTL[f],
                      remaining |-> Lifetime(TTL[f])]
            ELSE Free]

BInit ==
    /\ world \in Scenarios
    /\ BBMD_Table = world.bdt
    /\ FD_Table = [b \in BBMDs |-> IF world.clock THEN [i \in 1 .. Slots[b] |-> Free]
                                   ELSE Registered(world, b)]
    /\ Remote_BBMD = [f \in Foreign |-> IF world.clock THEN None ELSE world.home[f]]
    /\ timer = [f \in Foreign |-> IF world.clock THEN 0 ELSE TTL[f]]
    /\ due = [n \in Nodes |-> 0]
    /\ net = EmptyBag
    /\ heard = [n \in Nodes |-> EmptyBag]
    /\ broadcasts = {}
    /\ lease = [f \in Foreign |-> FALSE]
    /\ disturbed = FALSE

\* Nothing arrives: select() in bip_receive times out.
Idle == net = EmptyBag /\ UNCHANGED bbmdVars

BNext ==
    \/ Idle
    \/ \E n \in Nodes : bvlc_send_pdu(n)
    \/ bvlc_handler
    \/ \E f \in Foreign : dlenv_init(f) \/ dlenv_maintenance_timer(f) \/ Stop(f)
    \/ Second
    \/ \E b \in BBMDs : bvlc_maintenance_timer(b) \/ Restart(b)
    \/ \E b \in BBMDs, f \in Foreign : delete_foreign_device(b, f)
    \/ \E b \in BBMDs : \E list \in SUBSET world.bdt[b] : write_bdt(b, list)
    \/ \E m \in BagToSet(net) : LoseDatagram(m)

BSpec == BInit /\ [][BNext]_bbmdVars

\* The network delivers what it does not lose, time passes, and every main loop
\* runs again.
BFairness ==
    /\ WF_bbmdVars(bvlc_handler)
    /\ WF_bbmdVars(Second)
    /\ \A b \in BBMDs : WF_bbmdVars(bvlc_maintenance_timer(b))
    /\ \A f \in Foreign : WF_bbmdVars(dlenv_maintenance_timer(f))

BFairSpec == BSpec /\ BFairness

-----------------------------------------------------------------------------

\* FD_Table, the timers and the datagrams in flight stay well formed, and a slot
\* is in use exactly while it has time left: bbmd_fdt_forward_npdu tests both.
BTypeOK ==
    /\ BBMD_Table \in [BBMDs -> SUBSET BDTEntry]
    /\ \A b \in BBMDs : \A i \in 1 .. Slots[b] :
          LET e == FD_Table[b][i]
          IN  /\ e.valid => e.addr \in Foreign
              /\ e.remaining \in 0 .. TTLMax
              /\ e.valid <=> e.remaining > 0
    /\ Remote_BBMD \in [Foreign -> BBMDs \cup Devices \cup {None}]
    /\ timer \in [Foreign -> Nat] /\ due \in [Nodes -> 0 .. MaxLate]
    /\ \A m \in BagToSet(net) : m.src \in Nodes /\ m.dst \in Nodes
    /\ lease \in [Foreign -> BOOLEAN]

\* However a broadcast is distributed, whatever is lost and in whatever order the
\* copies arrive, a device hears it at most once; a BBMD hears it at most twice
\* (from its peer, and in its own local broadcast of the Forwarded-NPDU).  No node
\* hears its own come back ("ignore messages from my IPv4 address").
HeardOnce ==
    /\ \A n \in Nodes : \A p \in BagToSet(heard[n]) :
          CopiesIn(p, heard[n]) <= IF n \in BBMDs THEN 2 ELSE 1
    /\ \A s \in broadcasts : ~BagIn(s.npdu, heard[s.from])

\* A foreign device occupies one slot of a well-formed table, however often it
\* registers, and one that was accepted keeps it: it registers again before the
\* time-to-live and the grace period run out, with both main loops late, unless
\* the BBMD restarts, the entry is deleted or a registration is lost.
\* A time-to-live so near UINT16_MAX that the grace period is cut is excepted.
LeaseHolds ==
    /\ BTypeOK
    /\ \A b \in BBMDs, f \in Foreign : Cardinality(SlotOf(FD_Table[b], f)) <= 1
    /\ \A f \in Foreign :
          lease[f] /\ TTL[f] < TTLMax - Grace => SlotOf(FD_Table[Remote_BBMD[f]], f) # {}

\* Where a broadcast enters the internetwork, and who is to hear of it: every
\* BBMD and plain device, and the foreign devices registered where it enters.
EntersAt(n) ==
    IF n \in BBMDs THEN n ELSE IF n \in Devices THEN Subnet[n] ELSE world.home[n]

Audience(s) ==
    (BBMDs \cup Devices \cup {f \in Foreign : world.home[f] = EntersAt(s.from)}) \ {s.from}

\* With nothing lost and no table changed, a global broadcast is heard by every
\* BBMD and device of the internetwork, and by the foreign devices of the BBMD
\* it enters through.
EveryoneHears ==
    broadcasts # {} ~> \/ disturbed
                       \/ \A s \in broadcasts : \A d \in Audience(s) : BagIn(s.npdu, heard[d])

\* A foreign device that keeps registering gets an entry in the end, and keeps
\* it, once nobody else competes for the BBMD's slots: the entry of a device
\* that went away does not hold its slot for ever.
GetsSlot ==
    \A f \in Foreign :
        <>[](Running = {f} /\ Remote_BBMD[f] \in BBMDs)
            => <>[](\E b \in BBMDs : SlotOf(FD_Table[b], f) # {})

\* "the constructed BVLL Forwarded-NPDU message shall be unicast to each foreign
\* device in the BBMD's FDT": what a foreign device is sent is the NPDU itself.
ForeignGetsNPDU ==
    \A m \in InFlight("forwarded") : m.dst \in Foreign => m.wraps = 0
=============================================================================
