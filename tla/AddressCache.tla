---------------------------- MODULE AddressCache ----------------------------
(***************************************************************************)
(* The address binding cache (binding/address.c): which device has which   *)
(* address, learnt from I-Am messages, with outstanding bind requests,     *)
(* static entries, and the eviction of the entry nearest expiry when the   *)
(* cache is full.                                                          *)
(*                                                                         *)
(* Every function is an operator from a cache to a cache.  The flag        *)
(* RESERVED is set and overwritten within one call, and SHORT_TTL is       *)
(* tested but never set, so neither appears.  An address stands for the    *)
(* BACNET_ADDRESS with the max_apdu stored beside it.  The fields of a     *)
(* free entry and the address of an unbound one are never read.  The       *)
(* address_cache file is read by a call of address_add and one of          *)
(* address_set_device_TTL for each line.                                   *)
(***************************************************************************)
EXTENDS Naturals, FiniteSetsExt

CONSTANTS
  Devices,            \* device instance numbers
  Own_Device_ID,
  Addresses,
  MAX_ADDRESS_CACHE,
  LONG_TIME, SHORT_TIME, FOREVER,   \* BAC_ADDR_..., in seconds
  TimeOuts,           \* times callers give to address_set_device_TTL
  Seconds,            \* arguments of address_cache_timer
  NoDevice, NoAddress

ASSUME CacheAssumption ==
  /\ MAX_ADDRESS_CACHE \in Nat \ {0}
  /\ SHORT_TIME \in Nat /\ LONG_TIME \in Nat /\ FOREVER \in Nat
  /\ SHORT_TIME < LONG_TIME /\ LONG_TIME < FOREVER
  /\ TimeOuts \subseteq 0 .. FOREVER
  /\ Seconds \subseteq Nat \ {0}
  /\ NoAddress \notin Addresses /\ NoDevice \notin Devices

VARIABLES
  Address_Cache,
  Top_Protected_Entry,
  heard               \* history: the last address each device with an entry reported

acVars == <<Address_Cache, Top_Protected_Entry, heard>>

Index == 0 .. MAX_ADDRESS_CACHE - 1
Flag == {"IN_USE", "BIND_REQ", "STATIC"}
Entry == [Flags : SUBSET Flag, device_id : Devices \cup {NoDevice},
          address : Addresses \cup {NoAddress}, TimeToLive : 0 .. FOREVER]
FreeEntry == [Flags |-> {}, device_id |-> NoDevice, address |-> NoAddress, TimeToLive |-> 0]
NULL == MAX_ADDRESS_CACHE

InUse(c, i) == "IN_USE" \in c[i].Flags
EntriesOf(c, d) == {i \in Index : InUse(c, i) /\ c[i].device_id = d}

\* The loop over the cache stops at the first entry of the device.
Find(c, d) == IF EntriesOf(c, d) = {} THEN NULL ELSE Min(EntriesOf(c, d))

----------------------------------------------------------------------------
(* Eviction *)

\* Entries from an index on with just these flags, that do not live for ever.
Evictable(c, from, flags) ==
  {i \in Index : i >= from /\ c[i].Flags = flags /\ c[i].TimeToLive < FOREVER}

\* The comparison is <=, so that the last of several wins.
NearestExpiry(c, S) ==
  CHOOSE i \in S : \A j \in S :
    \/ c[i].TimeToLive < c[j].TimeToLive
    \/ c[i].TimeToLive = c[j].TimeToLive /\ j <= i

\* Mutant: outstanding requests are dropped as readily as bound entries.
Oldest_Any(c, top) ==
  LET all == Evictable(c, top, {"IN_USE"}) \cup Evictable(c, 0, {"IN_USE", "BIND_REQ"})
  IN  IF all = {} THEN NULL ELSE NearestExpiry(c, all)

\* First the bound entries that are not protected, then, as a last resort, the
\* outstanding bind requests, protected or not.
address_remove_oldest(c, top) ==
  LET bound == Evictable(c, top, {"IN_USE"})
      pending == Evictable(c, 0, {"IN_USE", "BIND_REQ"})
  IN  IF top > MAX_ADDRESS_CACHE - 1 THEN NULL
      ELSE IF bound # {} THEN NearestExpiry(c, bound)
      ELSE IF pending # {} THEN NearestExpiry(c, pending)
      ELSE NULL

\* The entry for a device that is not in the cache: the first free one, or one
\* that is evicted.
Place(c, top) ==
  LET free == {i \in Index : ~InUse(c, i)}
  IN  IF free # {} THEN Min(free) ELSE address_remove_oldest(c, top)

Put(c, i, entry) == IF i = NULL THEN c ELSE [c EXCEPT ![i] = entry]

----------------------------------------------------------------------------
(* The functions of address.c *)

\* Mutant: only an outstanding request gets the address.
Add_OnlyPending(c, top, d, a) ==
  LET i == Find(c, d)
  IN  IF d = Own_Device_ID THEN c
      ELSE IF i # NULL THEN
        IF "BIND_REQ" \in c[i].Flags
          THEN [c EXCEPT ![i].address = a, ![i].Flags = @ \ {"BIND_REQ"},
                         ![i].TimeToLive = LONG_TIME]
          ELSE c
      ELSE Put(c, Place(c, top), [Flags |-> {"IN_USE"}, device_id |-> d,
                                  address |-> a, TimeToLive |-> SHORT_TIME])

add(c, top, d, a) ==
  LET i == Find(c, d)
  IN  IF d = Own_Device_ID THEN c
      ELSE IF i # NULL THEN
        [c EXCEPT ![i].address = a, ![i].Flags = @ \ {"BIND_REQ"},
                  ![i].TimeToLive = IF "STATIC" \in c[i].Flags /\ "BIND_REQ" \notin c[i].Flags
                                      THEN FOREVER ELSE LONG_TIME]
      ELSE Put(c, Place(c, top), [Flags |-> {"IN_USE"}, device_id |-> d,
                                  address |-> a, TimeToLive |-> SHORT_TIME])

bind_request(c, top, d) ==
  IF Find(c, d) # NULL THEN c
  ELSE Put(c, Place(c, top), [Flags |-> {"IN_USE", "BIND_REQ"}, device_id |-> d,
                              address |-> NoAddress, TimeToLive |-> SHORT_TIME])

add_binding(c, d, a) ==
  LET i == Find(c, d)
  IN  IF i = NULL THEN c
      ELSE [c EXCEPT ![i].address = a, ![i].Flags = @ \ {"BIND_REQ"},
                     ![i].TimeToLive = IF "STATIC" \in c[i].Flags THEN @ ELSE LONG_TIME]

set_device_TTL(c, d, timeout, static) ==
  LET i == Find(c, d)
  IN  IF i = NULL THEN c
      ELSE IF "BIND_REQ" \in c[i].Flags THEN [c EXCEPT ![i].TimeToLive = timeout]
      ELSE IF static THEN [c EXCEPT ![i].Flags = @ \cup {"STATIC"}, ![i].TimeToLive = FOREVER]
      ELSE [c EXCEPT ![i].Flags = @ \ {"STATIC"}, ![i].TimeToLive = timeout]

\* An entry that has less time left than has passed is freed, the others age.
Aged(e, s) ==
  IF e.Flags = {} \/ "STATIC" \in e.Flags THEN e
  ELSE IF e.TimeToLive >= s THEN [e EXCEPT !.TimeToLive = @ - s]
  ELSE FreeEntry

cache_timer(c, s) == [i \in Index |-> Aged(c[i], s)]

\* A restart with the cache in memory that survives: requests and entries
\* without time left are dropped.
init_partial(c) ==
  [i \in Index |-> IF "BIND_REQ" \in c[i].Flags \/ c[i].TimeToLive = 0 THEN FreeEntry ELSE c[i]]

address_get_by_device(c, d) ==
  LET i == Find(c, d)
  IN  IF i = NULL \/ "BIND_REQ" \in c[i].Flags THEN NoAddress ELSE c[i].address

----------------------------------------------------------------------------
(* The calls *)

ACInit ==
  /\ Address_Cache = [i \in Index |-> FreeEntry]
  /\ Top_Protected_Entry = 0
  /\ heard = [d \in Devices |-> NoAddress]

\* History is kept of the devices that have an entry.
Reports(h) ==
  [d \in Devices |-> IF EntriesOf(Address_Cache', d) = {} THEN NoAddress ELSE h[d]]

address_add(d, a) ==
  /\ Address_Cache' = add(Address_Cache, Top_Protected_Entry, d, a)
  /\ heard' = Reports(IF d = Own_Device_ID THEN heard ELSE [heard EXCEPT ![d] = a])
  /\ UNCHANGED Top_Protected_Entry

address_bind_request(d) ==
  /\ Address_Cache' = bind_request(Address_Cache, Top_Protected_Entry, d)
  /\ heard' = Reports(heard)
  /\ UNCHANGED Top_Protected_Entry

\* The handler of I-Am that adds nothing new.
address_add_binding(d, a) ==
  /\ Address_Cache' = add_binding(Address_Cache, d, a)
  /\ heard' = Reports([heard EXCEPT ![d] = a])
  /\ UNCHANGED Top_Protected_Entry

address_set_device_TTL(d, timeout, static) ==
  /\ Address_Cache' = set_device_TTL(Address_Cache, d, timeout, static)
  /\ heard' = Reports(heard)
  /\ UNCHANGED Top_Protected_Entry

\* An entry below the protected index takes one off it, although the entries
\* after it stay where they are.
address_remove_device(d) ==
  LET i == Find(Address_Cache, d)
  IN  /\ Address_Cache' = Put(Address_Cache, i, FreeEntry)
      /\ Top_Protected_Entry' = IF i < Top_Protected_Entry THEN Top_Protected_Entry - 1
                                ELSE Top_Protected_Entry
      /\ heard' = Reports(heard)

address_protected_entry_index_set(i) ==
  /\ Top_Protected_Entry' = IF i <= MAX_ADDRESS_CACHE - 1 THEN i ELSE Top_Protected_Entry
  /\ UNCHANGED <<Address_Cache, heard>>

address_cache_timer(s) ==
  /\ Address_Cache' = cache_timer(Address_Cache, s)
  /\ heard' = Reports(heard)
  /\ UNCHANGED Top_Protected_Entry

address_init ==
  /\ Address_Cache' = [i \in Index |-> FreeEntry]
  /\ Top_Protected_Entry' = 0
  /\ heard' = Reports(heard)

address_init_partial ==
  /\ Address_Cache' = init_partial(Address_Cache)
  /\ Top_Protected_Entry' = 0      \* a variable of the program, not of the memory
  /\ heard' = Reports(heard)

\* Calls that are meant to end a static entry.
Administration ==
  \/ \E d \in Devices : address_remove_device(d)
  \/ \E d \in Devices, t \in TimeOuts : address_set_device_TTL(d, t, FALSE)
  \/ address_init

ACNext ==
  \/ \E d \in Devices, a \in Addresses : address_add(d, a) \/ address_add_binding(d, a)
  \/ \E d \in Devices : address_bind_request(d)
  \/ \E d \in Devices, t \in TimeOuts : address_set_device_TTL(d, t, TRUE)
  \/ \E i \in Index : address_protected_entry_index_set(i)
  \/ \E s \in Seconds : address_cache_timer(s)
  \/ Administration
  \/ address_init_partial

ACSpec == ACInit /\ [][ACNext]_acVars

----------------------------------------------------------------------------
(* Properties *)

\* The entries keep their types, and the protected index stays inside the cache
\* however often address_remove_device lowers it.
ACTypeOK ==
  /\ Address_Cache \in [Index -> Entry]
  /\ Top_Protected_Entry \in Index
  /\ heard \in [Devices -> Addresses \cup {NoAddress}]

\* However requests, I-Ams, evictions and expiry interleave, a device never has
\* two entries: every loop stops at the first, so a second would be served
\* stale or never freed.
OneEntryPerDevice ==
  \A i, j \in Index :
    InUse(Address_Cache, i) /\ InUse(Address_Cache, j) /\ i # j
      => Address_Cache[i].device_id # Address_Cache[j].device_id

\* The address given out for a device is the last one it reported: a full
\* cache, a restart or an entry that is static may lose a device but never
\* leave it with an older address.
AddressIsLatest ==
  \A d \in Devices : address_get_by_device(Address_Cache, d) \in {NoAddress, heard[d]}

\* A static entry is bound and its time does not run: were it ever an
\* outstanding request, address_add would put it on the clock of the others.
StaticIsBound ==
  \A i \in Index : "STATIC" \in Address_Cache[i].Flags =>
    /\ Address_Cache[i].Flags = {"IN_USE", "STATIC"}
    /\ Address_Cache[i].TimeToLive = FOREVER

\* "Will not delete a static entry": only a call that is meant to ends it.
StaticStays ==
  [][\/ \A i \in Index : "STATIC" \in Address_Cache[i].Flags =>
          /\ "STATIC" \in Address_Cache'[i].Flags
          /\ Address_Cache'[i].device_id = Address_Cache[i].device_id
     \/ Administration]_acVars

\* An entry is given to another device only if it is the one nearest expiry of
\* those that are bound and not protected, and one with an outstanding request
\* only if there is none of those.
EvictsNearestExpiry ==
  [][\A i \in Index :
       LET old == Address_Cache[i]
           bound == Evictable(Address_Cache, Top_Protected_Entry, {"IN_USE"})
       IN  /\ InUse(Address_Cache, i) /\ InUse(Address_Cache', i)
           /\ Address_Cache'[i].device_id # old.device_id
           => /\ \A j \in Index : InUse(Address_Cache, j)
              /\ IF "BIND_REQ" \in old.Flags THEN bound = {}
                 ELSE /\ i >= Top_Protected_Entry
                      /\ \A j \in bound : old.TimeToLive <= Address_Cache[j].TimeToLive]_acVars
=============================================================================
