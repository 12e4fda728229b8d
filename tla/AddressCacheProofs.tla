------------------------- MODULE AddressCacheProofs -------------------------
(***************************************************************************)
(* Proofs about the address cache, for every set of devices and addresses, *)
(* every size of the cache and every choice of its times.                  *)
(***************************************************************************)
EXTENDS AddressCache, WellFoundedInduction, TLAPS

\* What is true of an entry by itself, given the addresses that were reported.
EntryOK(e, h) ==
  /\ "IN_USE" \in e.Flags => e.device_id \in Devices
  /\ "STATIC" \in e.Flags => e.Flags = {"IN_USE", "STATIC"} /\ e.TimeToLive = FOREVER
  /\ "IN_USE" \in e.Flags /\ "BIND_REQ" \notin e.Flags => e.address = h[e.device_id]

\* No other entry than i is in use for device d.
OnlyAt(c, i, d) ==
  \A j \in Index : InUse(c, j) /\ j # i => c[j].device_id # d

CacheOK(c, h) ==
  /\ c \in [Index -> Entry]
  /\ \A i \in Index : EntryOK(c[i], h)
  /\ \A i \in Index : InUse(c, i) => OnlyAt(c, i, c[i].device_id)

Reported == [Devices -> Addresses \cup {NoAddress}]

ACInv ==
  /\ CacheOK(Address_Cache, heard)
  /\ Top_Protected_Entry \in Index
  /\ heard \in Reported

-----------------------------------------------------------------------------
(* The searches.                                                           *)

\* A nonempty set of numbers has a least one.
LEMMA LeastExists ==
  ASSUME NEW S \in SUBSET Nat, S # {}
  PROVE  \E x \in S : \A y \in S : x <= y
<1> DEFINE R == OpToRel(<, Nat)
<1>1. \E x \in S : \A y \in S : ~ (<<y, x>> \in R)
  BY WFMin, NatLessThanWellFounded
<1>2. \A x, y \in S : y < x => <<y, x>> \in R
  BY DEF OpToRel
<1> HIDE DEF R
<1>3. PICK x \in S : \A y \in S : ~ (<<y, x>> \in R)
  BY <1>1
<1>4. \A y \in S : ~ (y < x)
  BY <1>2, <1>3
<1>5. \A y \in S : x <= y
  BY <1>4
<1> QED
  BY <1>5

\* The loops over the cache stop at one of the entries they look for.
LEMMA MinFound ==
  ASSUME NEW S \in SUBSET Index, S # {}
  PROVE  Min(S) \in S
<1>1. S \in SUBSET Nat
  BY CacheAssumption DEF Index
<1> QED
  BY <1>1, LeastExists DEF Min

\* Find returns the one entry of a device, or NULL if there is none.
LEMMA FindEntry ==
  ASSUME NEW c, NEW d
  PROVE  /\ EntriesOf(c, d) = {} => Find(c, d) = NULL
         /\ EntriesOf(c, d) # {} =>
              /\ Find(c, d) # NULL /\ Find(c, d) \in Index
              /\ InUse(c, Find(c, d)) /\ c[Find(c, d)].device_id = d
<1>1. CASE EntriesOf(c, d) = {}
  BY <1>1 DEF Find
<1>2. CASE EntriesOf(c, d) # {}
  <2>1. Find(c, d) \in EntriesOf(c, d)
    BY <1>2, MinFound DEF Find, EntriesOf
  <2>2. NULL \notin Index
    BY CacheAssumption DEF NULL, Index
  <2> QED
    BY <1>2, <2>1, <2>2 DEF EntriesOf
<1> QED
  BY <1>1, <1>2

\* Among entries that may be evicted there is one nearest expiry, the last of
\* those with the least time left (address_remove_oldest).
LEMMA NearestExists ==
  ASSUME NEW c \in [Index -> Entry], NEW S \in SUBSET Index, S # {}
  PROVE  \E i \in S : \A j \in S :
           \/ c[i].TimeToLive < c[j].TimeToLive
           \/ c[i].TimeToLive = c[j].TimeToLive /\ j <= i
<1> DEFINE times == {c[i].TimeToLive : i \in S}
           rest(t) == {MAX_ADDRESS_CACHE - i : i \in {j \in S : c[j].TimeToLive = t}}
<1>0. \A i \in S : i \in Nat /\ MAX_ADDRESS_CACHE - i \in Nat /\ c[i].TimeToLive \in Nat
  BY CacheAssumption DEF Index, Entry
<1>1. PICK t \in times : \A u \in times : t <= u
  <2>1. times \in SUBSET Nat /\ times # {}
    BY <1>0
  <2> QED
    BY <2>1, LeastExists
<1>2. PICK r \in rest(t) : \A q \in rest(t) : r <= q
  <2>1. rest(t) \in SUBSET Nat /\ rest(t) # {}
    BY <1>0
  <2> QED
    BY <2>1, LeastExists
<1>3. PICK i \in S : c[i].TimeToLive = t /\ r = MAX_ADDRESS_CACHE - i
  BY <1>2
<1>4. \A j \in S : c[j].TimeToLive = t => j <= i
  <2> SUFFICES ASSUME NEW j \in S, c[j].TimeToLive = t
               PROVE  j <= i
    OBVIOUS
  <2>1. r <= MAX_ADDRESS_CACHE - j
    BY <1>2
  <2> QED
    BY <1>0, <1>3, <2>1, CacheAssumption
<1>5. \A j \in S : \/ c[i].TimeToLive < c[j].TimeToLive
                   \/ c[i].TimeToLive = c[j].TimeToLive /\ j <= i
  <2> SUFFICES ASSUME NEW j \in S
               PROVE  \/ c[i].TimeToLive < c[j].TimeToLive
                      \/ c[i].TimeToLive = c[j].TimeToLive /\ j <= i
    OBVIOUS
  <2>1. t <= c[j].TimeToLive
    BY <1>1
  <2>2. t \in Nat /\ c[j].TimeToLive \in Nat
    BY <1>0, <1>3
  <2> QED
    BY <1>3, <1>4, <2>1, <2>2
<1> QED
  BY <1>5

\* NearestExpiry picks it.
LEMMA NearestFound ==
  ASSUME NEW c \in [Index -> Entry], NEW S \in SUBSET Index, S # {}
  PROVE  NearestExpiry(c, S) \in S
  BY NearestExists DEF NearestExpiry

\* Room is made in an entry of the cache, or there is none.
LEMMA PlaceFound ==
  ASSUME NEW c \in [Index -> Entry], NEW top
  PROVE  Place(c, top) # NULL => Place(c, top) \in Index
<1> DEFINE free == {i \in Index : ~InUse(c, i)}
<1>1. free # {} => Min(free) \in Index
  BY MinFound
<1>2. \A S \in SUBSET Index : S # {} => NearestExpiry(c, S) \in Index
  BY NearestFound
<1>3. \A from, flags : Evictable(c, from, flags) \in SUBSET Index
  BY DEF Evictable
<1>4. address_remove_oldest(c, top) # NULL => address_remove_oldest(c, top) \in Index
  BY <1>2, <1>3 DEF address_remove_oldest
<1> QED
  BY <1>1, <1>4 DEF Place

-----------------------------------------------------------------------------
(* The operations keep the cache in order.                                 *)

\* An entry is overwritten: the new one is right by itself, no other entry is in
\* use for its device, and nothing else was reported of the other devices.
LEMMA OverwriteOK ==
  ASSUME NEW c, NEW h, NEW g, CacheOK(c, h), NEW i \in Index, NEW e \in Entry,
         EntryOK(e, g),
         "IN_USE" \in e.Flags => OnlyAt(c, i, e.device_id),
         \A j \in Index : InUse(c, j) /\ j # i => g[c[j].device_id] = h[c[j].device_id]
  PROVE  CacheOK([c EXCEPT ![i] = e], g)
<1> DEFINE n == [c EXCEPT ![i] = e]
<1>0. c \in [Index -> Entry]
  BY DEF CacheOK
<1>1. n \in [Index -> Entry] /\ n[i] = e /\ \A j \in Index : j # i => n[j] = c[j]
  BY <1>0
<1> HIDE DEF n
<1>2. ASSUME NEW j \in Index
      PROVE  EntryOK(n[j], g)
  <2>1. CASE j = i
    BY <1>1, <2>1
  <2>2. CASE j # i
    BY <1>1, <2>2 DEF CacheOK, EntryOK, InUse
  <2> QED
    BY <2>1, <2>2
<1>3. ASSUME NEW j \in Index, NEW k \in Index, InUse(n, j), InUse(n, k), k # j
      PROVE  n[k].device_id # n[j].device_id
  <2>1. CASE j = i
    BY <1>1, <1>3, <2>1 DEF InUse, OnlyAt
  <2>2. CASE k = i
    BY <1>1, <1>3, <2>2 DEF InUse, OnlyAt
  <2>3. CASE j # i /\ k # i
    BY <1>1, <1>3, <2>3 DEF CacheOK, InUse, OnlyAt
  <2> QED
    BY <2>1, <2>2, <2>3
<1>4. CacheOK(n, g)
  BY <1>1, <1>2, <1>3 DEF CacheOK, OnlyAt
<1> QED
  BY <1>4 DEF n

\* Forgetting what was reported of devices without an entry changes nothing for
\* the entries.
LEMMA ReportsOK ==
  ASSUME NEW h \in Reported, CacheOK(Address_Cache', h)
  PROVE  CacheOK(Address_Cache', Reports(h)) /\ Reports(h) \in Reported
<1>1. ASSUME NEW i \in Index, InUse(Address_Cache', i)
      PROVE  Reports(h)[Address_Cache'[i].device_id] = h[Address_Cache'[i].device_id]
  <2>1. Address_Cache'[i].device_id \in Devices
    BY <1>1 DEF CacheOK, EntryOK, InUse
  <2>2. i \in EntriesOf(Address_Cache', Address_Cache'[i].device_id)
    BY <1>1 DEF EntriesOf
  <2> QED
    BY <2>1, <2>2 DEF Reports
<1>2. \A i \in Index : EntryOK(Address_Cache'[i], Reports(h))
  BY <1>1 DEF CacheOK, EntryOK, InUse
<1>3. Reports(h) \in Reported
  BY DEF Reports, Reported
<1> QED
  BY <1>2, <1>3 DEF CacheOK

\* A report of a device without an entry changes nothing for the entries.
LEMMA UnheardOK ==
  ASSUME NEW c, NEW h \in Reported, CacheOK(c, h), NEW d \in Devices, NEW a,
         EntriesOf(c, d) = {}
  PROVE  CacheOK(c, [h EXCEPT ![d] = a])
<1>1. ASSUME NEW i \in Index, InUse(c, i)
      PROVE  [h EXCEPT ![d] = a][c[i].device_id] = h[c[i].device_id]
  <2>1. c[i].device_id # d
    BY <1>1 DEF EntriesOf
  <2>2. c[i].device_id \in Devices
    BY <1>1 DEF CacheOK, EntryOK, InUse
  <2> QED
    BY <2>1, <2>2 DEF Reported
<1> QED
  BY <1>1 DEF CacheOK, EntryOK, InUse

\* A device that has no entry gets one where Place says, if it says so.
LEMMA PutOK ==
  ASSUME NEW c, NEW h \in Reported, NEW g \in Reported, CacheOK(c, h), NEW top,
         NEW d \in Devices, EntriesOf(c, d) = {}, NEW e \in Entry, e.device_id = d,
         EntryOK(e, g), CacheOK(c, g)
  PROVE  CacheOK(Put(c, Place(c, top), e), g)
<1>1. CASE Place(c, top) = NULL
  BY <1>1 DEF Put
<1>2. CASE Place(c, top) # NULL
  <2>1. Place(c, top) \in Index
    BY <1>2, PlaceFound DEF CacheOK
  <2>2. OnlyAt(c, Place(c, top), e.device_id)
    BY DEF OnlyAt, EntriesOf
  <2>3. CacheOK([c EXCEPT ![Place(c, top)] = e], g)
    BY <2>1, <2>2, OverwriteOK
  <2> QED
    BY <1>2, <2>3 DEF Put
<1> QED
  BY <1>1, <1>2

\* An entry in use is given new contents for the same device.
LEMMA RenewOK ==
  ASSUME NEW c, NEW h \in Reported, CacheOK(c, h), NEW d \in Devices,
         NEW g, \A x \in Devices : x # d => g[x] = h[x],
         NEW i \in Index, InUse(c, i), c[i].device_id = d,
         NEW e \in Entry, e.device_id = d, EntryOK(e, g)
  PROVE  CacheOK([c EXCEPT ![i] = e], g)
<1>1. OnlyAt(c, i, d)
  BY DEF CacheOK
<1>2. \A j \in Index : InUse(c, j) /\ j # i => g[c[j].device_id] = h[c[j].device_id]
  <2> SUFFICES ASSUME NEW j \in Index, InUse(c, j), j # i
               PROVE  g[c[j].device_id] = h[c[j].device_id]
    OBVIOUS
  <2>1. c[j].device_id # d
    BY <1>1 DEF OnlyAt
  <2>2. c[j].device_id \in Devices
    BY DEF CacheOK, EntryOK, InUse
  <2> QED
    BY <2>1, <2>2
<1> QED
  BY <1>1, <1>2, OverwriteOK

\* The times are ones a TimeToLive can have.
LEMMA TimesOK ==
  /\ LONG_TIME \in 0 .. FOREVER /\ SHORT_TIME \in 0 .. FOREVER /\ FOREVER \in 0 .. FOREVER
  /\ TimeOuts \subseteq 0 .. FOREVER
  BY CacheAssumption

\* address_add keeps the cache in order and the address it was given.
LEMMA AddOK ==
  ASSUME NEW c, NEW h \in Reported, CacheOK(c, h), NEW top, NEW d \in Devices,
         d # Own_Device_ID, NEW a \in Addresses
  PROVE  CacheOK(add(c, top, d, a), [h EXCEPT ![d] = a])
<1> DEFINE g == [h EXCEPT ![d] = a]
           i == Find(c, d)
<1>0. /\ g \in Reported /\ g[d] = a
      /\ \A x \in Devices : x # d => g[x] = h[x]
  BY DEF Reported
<1> HIDE DEF g
<1>1. CASE EntriesOf(c, d) = {}
  <2> DEFINE e == [Flags |-> {"IN_USE"}, device_id |-> d, address |-> a,
                   TimeToLive |-> SHORT_TIME]
  <2>1. e \in Entry
    BY TimesOK DEF Entry, Flag
  <2>2. EntryOK(e, g)
    BY <1>0 DEF EntryOK
  <2>3. CacheOK(c, g)
    BY <1>1, UnheardOK DEF g
  <2>4. CacheOK(Put(c, Place(c, top), e), g)
    BY <1>0, <1>1, <2>1, <2>2, <2>3, PutOK
  <2> QED
    BY <1>1, <2>4, FindEntry DEF add, g
<1>2. CASE EntriesOf(c, d) # {}
  <2> DEFINE ttl == IF "STATIC" \in c[i].Flags /\ "BIND_REQ" \notin c[i].Flags
                      THEN FOREVER ELSE LONG_TIME
             e == [c[i] EXCEPT !.address = a, !.Flags = @ \ {"BIND_REQ"}, !.TimeToLive = ttl]
  <2>1. /\ i # NULL /\ i \in Index /\ InUse(c, i) /\ c[i].device_id = d
        /\ c \in [Index -> Entry] /\ EntryOK(c[i], h)
    BY <1>2, FindEntry DEF CacheOK
  <2>2. c[i] \in Entry
    BY <2>1
  <2>3. e \in Entry /\ e.device_id = d /\ e.address = a /\ e.TimeToLive = ttl
        /\ e.Flags = c[i].Flags \ {"BIND_REQ"}
    BY <2>1, <2>2, TimesOK DEF Entry
  <2>4. EntryOK(e, g)
    BY <1>0, <2>1, <2>3 DEF EntryOK, InUse
  <2>5. CacheOK([c EXCEPT ![i] = e], g)
    <3> HIDE DEF i, e
    <3> QED
      BY <1>0, <2>1, <2>3, <2>4, RenewOK
  <2>6. add(c, top, d, a) = [c EXCEPT ![i] = e]
    BY <2>1, <2>2 DEF add, Entry
  <2> QED
    BY <2>5, <2>6 DEF g
<1> QED
  BY <1>1, <1>2

\* address_bind_request keeps the cache in order.
LEMMA BindRequestOK ==
  ASSUME NEW c, NEW h \in Reported, CacheOK(c, h), NEW top, NEW d \in Devices
  PROVE  CacheOK(bind_request(c, top, d), h)
<1> DEFINE e == [Flags |-> {"IN_USE", "BIND_REQ"}, device_id |-> d, address |-> NoAddress,
                 TimeToLive |-> SHORT_TIME]
<1>1. CASE EntriesOf(c, d) = {}
  <2>1. e \in Entry
    BY TimesOK DEF Entry, Flag
  <2>2. EntryOK(e, h)
    BY DEF EntryOK
  <2>3. CacheOK(Put(c, Place(c, top), e), h)
    BY <1>1, <2>1, <2>2, PutOK
  <2> QED
    BY <1>1, <2>3, FindEntry DEF bind_request
<1>2. CASE EntriesOf(c, d) # {}
  BY <1>2, FindEntry DEF bind_request
<1> QED
  BY <1>1, <1>2

\* address_add_binding keeps the cache in order and the address it was given.
LEMMA AddBindingOK ==
  ASSUME NEW c, NEW h \in Reported, CacheOK(c, h), NEW d \in Devices, NEW a \in Addresses
  PROVE  CacheOK(add_binding(c, d, a), [h EXCEPT ![d] = a])
<1> DEFINE g == [h EXCEPT ![d] = a]
           i == Find(c, d)
<1>0. g[d] = a /\ \A x \in Devices : x # d => g[x] = h[x]
  BY DEF Reported
<1> HIDE DEF g
<1>1. CASE EntriesOf(c, d) = {}
  BY <1>1, UnheardOK, FindEntry DEF add_binding, g
<1>2. CASE EntriesOf(c, d) # {}
  <2> DEFINE ttl == IF "STATIC" \in c[i].Flags THEN c[i].TimeToLive ELSE LONG_TIME
             e == [c[i] EXCEPT !.address = a, !.Flags = @ \ {"BIND_REQ"}, !.TimeToLive = ttl]
  <2>1. /\ i # NULL /\ i \in Index /\ InUse(c, i) /\ c[i].device_id = d
        /\ c \in [Index -> Entry] /\ EntryOK(c[i], h)
    BY <1>2, FindEntry DEF CacheOK
  <2>2. c[i] \in Entry
    BY <2>1
  <2>3. e \in Entry /\ e.device_id = d /\ e.address = a /\ e.TimeToLive = ttl
        /\ e.Flags = c[i].Flags \ {"BIND_REQ"}
    BY <2>1, <2>2, TimesOK DEF Entry
  <2>4. EntryOK(e, g)
    BY <1>0, <2>1, <2>3 DEF EntryOK, InUse
  <2>5. CacheOK([c EXCEPT ![i] = e], g)
    <3> HIDE DEF i, e
    <3> QED
      BY <1>0, <2>1, <2>3, <2>4, RenewOK
  <2>6. add_binding(c, d, a) = [c EXCEPT ![i] = e]
    <3>1. add_binding(c, d, a) =
            [c EXCEPT ![i].address = a, ![i].Flags = @ \ {"BIND_REQ"}, ![i].TimeToLive = ttl]
      BY <2>1, <2>2 DEF add_binding, Entry
    <3> QED
      BY <2>1, <2>2, <3>1 DEF Entry
  <2> QED
    BY <2>5, <2>6 DEF g
<1> QED
  BY <1>1, <1>2

\* address_set_device_TTL keeps the cache in order; it leaves outstanding requests
\* out of what it makes static.
LEMMA SetTTLOK ==
  ASSUME NEW c, NEW h \in Reported, CacheOK(c, h), NEW d \in Devices,
         NEW timeout \in TimeOuts, NEW static \in BOOLEAN
  PROVE  CacheOK(set_device_TTL(c, d, timeout, static), h)
<1> DEFINE i == Find(c, d)
           n == set_device_TTL(c, d, timeout, static)
<1>1. CASE EntriesOf(c, d) = {}
  BY <1>1, FindEntry DEF set_device_TTL
<1>2. CASE EntriesOf(c, d) # {}
  <2>1. /\ i # NULL /\ i \in Index /\ InUse(c, i) /\ c[i].device_id = d
        /\ c \in [Index -> Entry] /\ EntryOK(c[i], h)
    BY <1>2, FindEntry DEF CacheOK
  <2>2. c[i] \in Entry
    BY <2>1
  <2> HIDE DEF i
  <2>3. \A e \in Entry : e.device_id = d /\ EntryOK(e, h) => CacheOK([c EXCEPT ![i] = e], h)
    BY <2>1, RenewOK
  <2>4. CASE "BIND_REQ" \in c[i].Flags
    <3> DEFINE e == [c[i] EXCEPT !.TimeToLive = timeout]
    <3>1. e \in Entry /\ e.device_id = d
      BY <2>1, <2>2, TimesOK DEF Entry
    <3>2. EntryOK(e, h)
      BY <2>1, <2>2, <2>4 DEF EntryOK, Entry
    <3>3. n = [c EXCEPT ![i] = e]
      BY <2>1, <2>2, <2>4 DEF set_device_TTL, Entry, i
    <3> QED
      BY <2>3, <3>1, <3>2, <3>3
  <2>5. CASE "BIND_REQ" \notin c[i].Flags /\ static
    <3> DEFINE e == [c[i] EXCEPT !.Flags = @ \cup {"STATIC"}, !.TimeToLive = FOREVER]
    <3>1. /\ e \in Entry /\ e.device_id = d /\ e.address = c[i].address
          /\ e.Flags = c[i].Flags \cup {"STATIC"} /\ e.TimeToLive = FOREVER
      BY <2>1, <2>2, TimesOK DEF Entry, Flag
    <3>2. e.Flags = {"IN_USE", "STATIC"}
      BY <2>1, <2>2, <2>5, <3>1 DEF InUse, Entry, Flag
    <3>3. EntryOK(e, h)
      BY <2>1, <2>5, <3>1, <3>2 DEF EntryOK, InUse
    <3>4. n = [c EXCEPT ![i] = e]
      BY <2>1, <2>2, <2>5 DEF set_device_TTL, Entry, i
    <3> QED
      BY <2>3, <3>1, <3>3, <3>4
  <2>6. CASE "BIND_REQ" \notin c[i].Flags /\ ~static
    <3> DEFINE e == [c[i] EXCEPT !.Flags = @ \ {"STATIC"}, !.TimeToLive = timeout]
    <3>1. /\ e \in Entry /\ e.device_id = d /\ e.address = c[i].address
          /\ e.Flags = c[i].Flags \ {"STATIC"}
      BY <2>1, <2>2, TimesOK DEF Entry
    <3>2. EntryOK(e, h)
      BY <2>1, <2>6, <3>1 DEF EntryOK
    <3>3. n = [c EXCEPT ![i] = e]
      BY <2>1, <2>2, <2>6 DEF set_device_TTL, Entry, i
    <3> QED
      BY <2>3, <3>1, <3>2, <3>3
  <2> QED
    BY <2>4, <2>5, <2>6
<1> QED
  BY <1>1, <1>2

\* An entry may be freed, and one that is not static may change its time, at any
\* moment: address_remove_device, address_cache_timer, address_init_partial.
LEMMA ShrinkOK ==
  ASSUME NEW c, NEW h, CacheOK(c, h), NEW n \in [Index -> Entry],
         \A i \in Index :
           \/ n[i].Flags = {}
           \/ /\ n[i].Flags = c[i].Flags /\ n[i].device_id = c[i].device_id
              /\ n[i].address = c[i].address
              /\ "STATIC" \in c[i].Flags => n[i].TimeToLive = c[i].TimeToLive
  PROVE  CacheOK(n, h)
<1>1. \A i \in Index : EntryOK(n[i], h)
  BY DEF CacheOK, EntryOK
<1>2. \A i \in Index : InUse(n, i) => InUse(c, i) /\ n[i].device_id = c[i].device_id
  BY DEF InUse
<1> QED
  BY <1>1, <1>2 DEF CacheOK, OnlyAt

\* A free entry is an entry.
LEMMA FreeIsEntry == FreeEntry \in Entry /\ FreeEntry.Flags = {}
  BY TimesOK, CacheAssumption DEF FreeEntry, Entry

\* The ageing of an entry frees it or takes time off one that is not static.
LEMMA AgedOK ==
  ASSUME NEW e \in Entry, NEW s \in Seconds
  PROVE  /\ Aged(e, s) \in Entry
         /\ \/ Aged(e, s).Flags = {}
            \/ /\ Aged(e, s).Flags = e.Flags /\ Aged(e, s).device_id = e.device_id
               /\ Aged(e, s).address = e.address
               /\ "STATIC" \in e.Flags => Aged(e, s).TimeToLive = e.TimeToLive
<1>1. CASE e.Flags = {} \/ "STATIC" \in e.Flags
  BY <1>1 DEF Aged
<1>2. CASE ~(e.Flags = {} \/ "STATIC" \in e.Flags) /\ e.TimeToLive >= s
  <2>1. e.TimeToLive - s \in 0 .. FOREVER
    BY <1>2, CacheAssumption DEF Entry
  <2> QED
    BY <1>2, <2>1 DEF Aged, Entry
<1>3. CASE ~(e.Flags = {} \/ "STATIC" \in e.Flags) /\ ~(e.TimeToLive >= s)
  BY <1>3, FreeIsEntry DEF Aged
<1> QED
  BY <1>1, <1>2, <1>3

-----------------------------------------------------------------------------
(* The invariant.                                                          *)

\* address_init leaves a cache in order.
LEMMA ACInitOK == ACInit => ACInv
<1> SUFFICES ASSUME ACInit PROVE ACInv
  OBVIOUS
<1>1. Address_Cache \in [Index -> Entry] /\ \A i \in Index : Address_Cache[i].Flags = {}
  BY FreeIsEntry DEF ACInit
<1>2. CacheOK(Address_Cache, heard)
  BY <1>1 DEF CacheOK, EntryOK, InUse
<1>3. Top_Protected_Entry \in Index /\ heard \in Reported
  BY CacheAssumption DEF ACInit, Index, Reported
<1> QED
  BY <1>2, <1>3 DEF ACInv

\* A call whose new cache fits what has been reported keeps the invariant.
LEMMA CallOK ==
  ASSUME NEW h \in Reported, CacheOK(Address_Cache', h), heard' = Reports(h),
         Top_Protected_Entry' \in Index
  PROVE  ACInv'
  BY ReportsOK DEF ACInv

\* Freeing the entry of a device moves the protected index down, never below 0.
LEMMA RemoveOK ==
  ASSUME ACInv, NEW d \in Devices, address_remove_device(d)
  PROVE  ACInv'
<1> DEFINE i == Find(Address_Cache, d)
           n == Put(Address_Cache, i, FreeEntry)
<1>0. Address_Cache \in [Index -> Entry] /\ Top_Protected_Entry \in Index
  BY DEF ACInv, CacheOK
<1>1. n \in [Index -> Entry] /\ \A j \in Index : n[j] = Address_Cache[j] \/ n[j] = FreeEntry
  BY <1>0, FreeIsEntry DEF Put
<1>2. CacheOK(n, heard)
  <2> HIDE DEF n
  <2> QED
    BY <1>1, ShrinkOK, FreeIsEntry DEF ACInv
<1>3. i \in Index \cup {NULL}
  BY FindEntry
<1>4. Top_Protected_Entry' \in Index
  BY <1>0, <1>3, CacheAssumption DEF address_remove_device, Index, NULL
<1> QED
  BY <1>2, <1>4, CallOK DEF address_remove_device, ACInv

\* Every call keeps the cache in order.
LEMMA ACStepOK == ACInv /\ [ACNext]_acVars => ACInv'
<1> SUFFICES ASSUME ACInv, [ACNext]_acVars
             PROVE  ACInv'
  OBVIOUS
<1> USE DEF ACInv
<1>0. 0 \in Index
  BY CacheAssumption DEF Index
<1>1. ASSUME NEW d \in Devices, NEW a \in Addresses, address_add(d, a)
      PROVE  ACInv'
  <2>1. CASE d = Own_Device_ID
    BY <1>1, <2>1, CallOK DEF address_add, add
  <2>2. CASE d # Own_Device_ID
    <3>1. [heard EXCEPT ![d] = a] \in Reported
      BY DEF Reported
    <3>2. CacheOK(Address_Cache', [heard EXCEPT ![d] = a])
      BY <1>1, <2>2, AddOK DEF address_add
    <3> QED
      BY <1>1, <2>2, <3>1, <3>2, CallOK DEF address_add
  <2> QED
    BY <2>1, <2>2
<1>2. ASSUME NEW d \in Devices, NEW a \in Addresses, address_add_binding(d, a)
      PROVE  ACInv'
  <2>1. [heard EXCEPT ![d] = a] \in Reported
    BY DEF Reported
  <2>2. CacheOK(Address_Cache', [heard EXCEPT ![d] = a])
    BY <1>2, AddBindingOK DEF address_add_binding
  <2> QED
    BY <1>2, <2>1, <2>2, CallOK DEF address_add_binding
<1>3. ASSUME NEW d \in Devices, address_bind_request(d)
      PROVE  ACInv'
  BY <1>3, BindRequestOK, CallOK DEF address_bind_request
<1>4. ASSUME NEW d \in Devices, NEW t \in TimeOuts, NEW b \in BOOLEAN,
             address_set_device_TTL(d, t, b)
      PROVE  ACInv'
  BY <1>4, SetTTLOK, CallOK DEF address_set_device_TTL
<1>5. ASSUME NEW i \in Index, address_protected_entry_index_set(i)
      PROVE  ACInv'
  BY <1>5 DEF address_protected_entry_index_set
<1>6. ASSUME NEW s \in Seconds, address_cache_timer(s)
      PROVE  ACInv'
  <2> DEFINE n == cache_timer(Address_Cache, s)
  <2>0. Address_Cache \in [Index -> Entry]
    BY DEF CacheOK
  <2>1. n \in [Index -> Entry] /\ \A i \in Index : n[i] = Aged(Address_Cache[i], s)
    BY <2>0, AgedOK DEF cache_timer
  <2>2. CacheOK(n, heard)
    <3> HIDE DEF n
    <3> QED
      BY <2>0, <2>1, AgedOK, ShrinkOK
  <2> QED
    BY <1>6, <2>2, CallOK DEF address_cache_timer
<1>7. ASSUME NEW d \in Devices, address_remove_device(d)
      PROVE  ACInv'
  BY <1>7, RemoveOK
<1>8. ASSUME address_init
      PROVE  ACInv'
  <2>1. CacheOK([i \in Index |-> FreeEntry], heard)
    BY FreeIsEntry, ShrinkOK
  <2> QED
    BY <1>0, <1>8, <2>1, CallOK DEF address_init
<1>9. ASSUME address_init_partial
      PROVE  ACInv'
  <2> DEFINE n == init_partial(Address_Cache)
  <2>0. Address_Cache \in [Index -> Entry]
    BY DEF CacheOK
  <2>1. n \in [Index -> Entry] /\ \A i \in Index : n[i] = Address_Cache[i] \/ n[i] = FreeEntry
    BY <2>0, FreeIsEntry DEF init_partial
  <2>2. CacheOK(n, heard)
    <3> HIDE DEF n
    <3> QED
      BY <2>1, FreeIsEntry, ShrinkOK
  <2> QED
    BY <1>0, <1>9, <2>2, CallOK DEF address_init_partial
<1>10. ASSUME UNCHANGED acVars
       PROVE  ACInv'
  BY <1>10 DEF acVars
<1> QED
  BY <1>1, <1>2, <1>3, <1>4, <1>5, <1>6, <1>7, <1>8, <1>9, <1>10 DEF ACNext, Administration

\* The cache stays in order, with the addresses last reported.
LEMMA ACInvariant == ACSpec => []ACInv
  BY ACInitOK, ACStepOK, PTL DEF ACSpec

\* The entries keep their types and the protected index stays inside the cache,
\* although address_remove_device counts it down (address.c).
THEOREM CacheTypeOK == ACSpec => []ACTypeOK
<1>1. ACInv => ACTypeOK
  BY DEF ACInv, ACTypeOK, CacheOK, Reported
<1> QED
  BY <1>1, ACInvariant, PTL

\* No device ever has two entries, however address_add, address_bind_request,
\* evictions and expiry interleave.
THEOREM DeviceHasOneEntry == ACSpec => []OneEntryPerDevice
<1>1. ACInv => OneEntryPerDevice
  BY DEF ACInv, OneEntryPerDevice, CacheOK, OnlyAt
<1> QED
  BY <1>1, ACInvariant, PTL

\* address_get_by_device never answers with an address older than the last one
\* the device reported while it has been in the cache.
THEOREM LatestAddress == ACSpec => []AddressIsLatest
<1>1. ACInv => AddressIsLatest
  <2> SUFFICES ASSUME ACInv, NEW d \in Devices
               PROVE  address_get_by_device(Address_Cache, d) \in {NoAddress, heard[d]}
    BY DEF AddressIsLatest
  <2>1. CASE EntriesOf(Address_Cache, d) = {}
    BY <2>1, FindEntry DEF address_get_by_device
  <2>2. CASE EntriesOf(Address_Cache, d) # {}
    BY <2>2, FindEntry DEF address_get_by_device, ACInv, CacheOK, EntryOK, InUse
  <2> QED
    BY <2>1, <2>2
<1> QED
  BY <1>1, ACInvariant, PTL

\* A static entry is bound and lives for ever: address_set_device_TTL does not
\* make an outstanding request static, and nothing puts a static entry on the clock.
THEOREM StaticEntryIsBound == ACSpec => []StaticIsBound
<1>1. ACInv => StaticIsBound
  BY DEF ACInv, StaticIsBound, CacheOK, EntryOK
<1> QED
  BY <1>1, ACInvariant, PTL

-----------------------------------------------------------------------------
(* What a call may do to the entries of other devices.                     *)

\* From cache c to cache n every static entry stays with its device.
Kept(c, n) ==
  \A i \in Index : "STATIC" \in c[i].Flags =>
    "STATIC" \in n[i].Flags /\ n[i].device_id = c[i].device_id

\* Entry i may be given to another device.
MayEvict(c, top, i) ==
  /\ \A j \in Index : InUse(c, j)
  /\ IF "BIND_REQ" \in c[i].Flags THEN Evictable(c, top, {"IN_USE"}) = {}
     ELSE /\ i >= top
          /\ \A j \in Evictable(c, top, {"IN_USE"}) : c[i].TimeToLive <= c[j].TimeToLive

\* From cache c to cache n only such an entry is given to another device.
EvictedRight(c, top, n) ==
  \A i \in Index :
    InUse(c, i) /\ InUse(n, i) /\ n[i].device_id # c[i].device_id => MayEvict(c, top, i)

\* NearestExpiry returns an entry with the least time left.
LEMMA NearestIsLeast ==
  ASSUME NEW c \in [Index -> Entry], NEW S \in SUBSET Index, S # {}
  PROVE  \A j \in S : c[NearestExpiry(c, S)].TimeToLive <= c[j].TimeToLive
<1>1. \A i \in Index : c[i].TimeToLive \in Nat
  BY CacheAssumption DEF Entry
<1> QED
  BY <1>1, NearestFound, NearestExists DEF NearestExpiry

\* Room is made in an entry that is free or may be evicted, and never in a static one.
LEMMA PlaceRight ==
  ASSUME NEW c, NEW h, CacheOK(c, h), NEW top \in Index, Place(c, top) # NULL
  PROVE  /\ Place(c, top) \in Index
         /\ "STATIC" \notin c[Place(c, top)].Flags
         /\ InUse(c, Place(c, top)) => MayEvict(c, top, Place(c, top))
<1> DEFINE free == {i \in Index : ~InUse(c, i)}
           bound == Evictable(c, top, {"IN_USE"})
           pending == Evictable(c, 0, {"IN_USE", "BIND_REQ"})
<1>0. c \in [Index -> Entry] /\ Place(c, top) \in Index
  BY PlaceFound DEF CacheOK
<1>1. CASE free # {}
  <2>1. Place(c, top) \in free
    BY <1>1, MinFound DEF Place
  <2> QED
    BY <1>0, <2>1 DEF CacheOK, EntryOK, InUse
<1>2. CASE free = {} /\ bound # {}
  <2>1. ~(top > MAX_ADDRESS_CACHE - 1)
    BY CacheAssumption DEF Index
  <2>2. Place(c, top) = NearestExpiry(c, bound)
    BY <1>2, <2>1 DEF Place, address_remove_oldest
  <2>3. bound \in SUBSET Index
    BY DEF Evictable
  <2>4. Place(c, top) \in bound
    BY <1>0, <1>2, <2>2, <2>3, NearestFound
  <2>5. \A j \in bound : c[Place(c, top)].TimeToLive <= c[j].TimeToLive
    BY <1>0, <1>2, <2>2, <2>3, NearestIsLeast
  <2>6. c[Place(c, top)].Flags = {"IN_USE"} /\ Place(c, top) >= top
    BY <2>4 DEF Evictable
  <2> QED
    BY <1>0, <1>2, <2>5, <2>6 DEF MayEvict
<1>3. CASE free = {} /\ bound = {}
  <2>1. ~(top > MAX_ADDRESS_CACHE - 1)
    BY CacheAssumption DEF Index
  <2>2. pending # {} /\ Place(c, top) = NearestExpiry(c, pending)
    BY <1>3, <2>1 DEF Place, address_remove_oldest
  <2>3. pending \in SUBSET Index
    BY DEF Evictable
  <2>4. Place(c, top) \in pending
    BY <1>0, <2>2, <2>3, NearestFound
  <2>5. c[Place(c, top)].Flags = {"IN_USE", "BIND_REQ"}
    BY <2>4 DEF Evictable
  <2> QED
    BY <1>0, <1>3, <2>5 DEF MayEvict
<1> QED
  BY <1>1, <1>2, <1>3

\* A device that has no entry is given one: no static entry goes, and the entry it
\* is given is free or may be evicted.
LEMMA PutRight ==
  ASSUME NEW c, NEW h, CacheOK(c, h), NEW top \in Index, NEW e
  PROVE  /\ Kept(c, Put(c, Place(c, top), e))
         /\ EvictedRight(c, top, Put(c, Place(c, top), e))
<1> DEFINE p == Place(c, top)
           n == Put(c, p, e)
<1>0. c \in [Index -> Entry]
  BY DEF CacheOK
<1>1. CASE p = NULL
  BY <1>1 DEF Put, Kept, EvictedRight
<1>2. CASE p # NULL
  <2>1. /\ p \in Index /\ "STATIC" \notin c[p].Flags
        /\ InUse(c, p) => MayEvict(c, top, p)
    BY <1>2, PlaceRight
  <2>2. \A j \in Index : j # p => n[j] = c[j]
    BY <1>0, <1>2, <2>1 DEF Put
  <2> HIDE DEF p, n
  <2>3. Kept(c, n)
    BY <2>1, <2>2 DEF Kept
  <2>4. EvictedRight(c, top, n)
    BY <2>1, <2>2 DEF EvictedRight
  <2> QED
    BY <2>3, <2>4 DEF n, p
<1> QED
  BY <1>1, <1>2

\* Entries that stay with their devices or are freed are not evicted.
LEMMA SameDeviceRight ==
  ASSUME NEW c, NEW top, NEW n,
         \A i \in Index : n[i].device_id = c[i].device_id \/ n[i].Flags = {}
  PROVE  EvictedRight(c, top, n)
  BY DEF EvictedRight, InUse

\* The calls that may enter a device in the cache, or renew its entry.
LEMMA AddRight ==
  ASSUME NEW c, NEW h, CacheOK(c, h), NEW top \in Index, NEW d, NEW a
  PROVE  Kept(c, add(c, top, d, a)) /\ EvictedRight(c, top, add(c, top, d, a))
<1> DEFINE n == add(c, top, d, a)
<1>0. c \in [Index -> Entry]
  BY DEF CacheOK
<1>1. CASE d = Own_Device_ID
  BY <1>1 DEF add, Kept, EvictedRight
<1>2. CASE d # Own_Device_ID /\ EntriesOf(c, d) = {}
  BY <1>2, FindEntry, PutRight DEF add
<1>3. CASE d # Own_Device_ID /\ EntriesOf(c, d) # {}
  <2>1. Find(c, d) # NULL /\ Find(c, d) \in Index
    BY <1>3, FindEntry
  <2>2. \A i \in Index :
          /\ n[i].device_id = c[i].device_id
          /\ "STATIC" \in c[i].Flags => "STATIC" \in n[i].Flags
    BY <1>0, <1>3, <2>1 DEF add, Entry
  <2> HIDE DEF n
  <2>3. Kept(c, n) /\ EvictedRight(c, top, n)
    BY <2>2, SameDeviceRight DEF Kept
  <2> QED
    BY <2>3 DEF n
<1> QED
  BY <1>1, <1>2, <1>3

\* address_bind_request enters a device as address_add does.
LEMMA BindRequestRight ==
  ASSUME NEW c, NEW h, CacheOK(c, h), NEW top \in Index, NEW d
  PROVE  Kept(c, bind_request(c, top, d)) /\ EvictedRight(c, top, bind_request(c, top, d))
<1>1. CASE Find(c, d) # NULL
  BY <1>1 DEF bind_request, Kept, EvictedRight
<1>2. CASE Find(c, d) = NULL
  BY <1>2, PutRight DEF bind_request
<1> QED
  BY <1>1, <1>2

\* address_add_binding touches the entry of its own device only.
LEMMA AddBindingRight ==
  ASSUME NEW c, NEW h, CacheOK(c, h), NEW top \in Index, NEW d, NEW a
  PROVE  Kept(c, add_binding(c, d, a)) /\ EvictedRight(c, top, add_binding(c, d, a))
<1> DEFINE n == add_binding(c, d, a)
<1>0. c \in [Index -> Entry]
  BY DEF CacheOK
<1>1. CASE EntriesOf(c, d) = {}
  BY <1>1, FindEntry DEF add_binding, Kept, EvictedRight
<1>2. CASE EntriesOf(c, d) # {}
  <2>1. Find(c, d) # NULL /\ Find(c, d) \in Index
    BY <1>2, FindEntry
  <2>2. \A i \in Index :
          /\ n[i].device_id = c[i].device_id
          /\ "STATIC" \in c[i].Flags => "STATIC" \in n[i].Flags
    BY <1>0, <2>1 DEF add_binding, Entry
  <2> HIDE DEF n
  <2>3. Kept(c, n) /\ EvictedRight(c, top, n)
    BY <2>2, SameDeviceRight DEF Kept
  <2> QED
    BY <2>3 DEF n
<1> QED
  BY <1>1, <1>2

\* So does address_set_device_TTL, which ends a static entry only if told so.
LEMMA SetTTLRight ==
  ASSUME NEW c, NEW h, CacheOK(c, h), NEW top \in Index, NEW d, NEW t, NEW b \in BOOLEAN
  PROVE  /\ b => Kept(c, set_device_TTL(c, d, t, b))
         /\ EvictedRight(c, top, set_device_TTL(c, d, t, b))
<1> DEFINE n == set_device_TTL(c, d, t, b)
<1>0. c \in [Index -> Entry]
  BY DEF CacheOK
<1>1. CASE EntriesOf(c, d) = {}
  BY <1>1, FindEntry DEF set_device_TTL, Kept, EvictedRight
<1>2. CASE EntriesOf(c, d) # {}
  <2>1. Find(c, d) # NULL /\ Find(c, d) \in Index
    BY <1>2, FindEntry
  <2>2. \A i \in Index :
          /\ n[i].device_id = c[i].device_id
          /\ b /\ "STATIC" \in c[i].Flags => "STATIC" \in n[i].Flags
    BY <1>0, <2>1 DEF set_device_TTL, Entry
  <2> HIDE DEF n
  <2>3. (b => Kept(c, n)) /\ EvictedRight(c, top, n)
    BY <2>2, SameDeviceRight DEF Kept
  <2> QED
    BY <2>3 DEF n
<1> QED
  BY <1>1, <1>2

\* Entry by entry, what a step of the cache does to the devices' entries.
LEMMA StepRight ==
  ASSUME ACInv, ACNext
  PROVE  /\ Kept(Address_Cache, Address_Cache') \/ Administration
         /\ EvictedRight(Address_Cache, Top_Protected_Entry, Address_Cache')
<1> DEFINE c == Address_Cache
           n == Address_Cache'
           top == Top_Protected_Entry
<1>0. CacheOK(c, heard) /\ c \in [Index -> Entry] /\ top \in Index
  BY DEF ACInv, CacheOK
<1> HIDE DEF c, top
<1>1. ASSUME NEW d \in Devices, NEW a \in Addresses, address_add(d, a)
      PROVE  Kept(c, n) /\ EvictedRight(c, top, n)
  BY <1>0, <1>1, AddRight DEF address_add, c, top
<1>2. ASSUME NEW d \in Devices, NEW a \in Addresses, address_add_binding(d, a)
      PROVE  Kept(c, n) /\ EvictedRight(c, top, n)
  BY <1>0, <1>2, AddBindingRight DEF address_add_binding, c
<1>3. ASSUME NEW d \in Devices, address_bind_request(d)
      PROVE  Kept(c, n) /\ EvictedRight(c, top, n)
  BY <1>0, <1>3, BindRequestRight DEF address_bind_request, c, top
<1>4. ASSUME NEW d \in Devices, NEW t \in TimeOuts, NEW b \in BOOLEAN,
             address_set_device_TTL(d, t, b)
      PROVE  (b => Kept(c, n)) /\ EvictedRight(c, top, n)
  BY <1>0, <1>4, SetTTLRight DEF address_set_device_TTL, c
<1>5. ASSUME NEW i \in Index, address_protected_entry_index_set(i)
      PROVE  Kept(c, n) /\ EvictedRight(c, top, n)
  BY <1>5 DEF address_protected_entry_index_set, Kept, EvictedRight, c
<1>6. ASSUME NEW s \in Seconds, address_cache_timer(s)
      PROVE  Kept(c, n) /\ EvictedRight(c, top, n)
  <2>1. \A i \in Index : c[i] \in Entry /\ n[i] = Aged(c[i], s)
    BY <1>0, <1>6 DEF address_cache_timer, cache_timer, c
  <2>2. \A i \in Index : "STATIC" \in c[i].Flags => n[i] = c[i]
    BY <2>1 DEF Aged
  <2>3. \A i \in Index : n[i].device_id = c[i].device_id \/ n[i].Flags = {}
    BY <2>1, AgedOK
  <2> QED
    BY <2>2, <2>3, SameDeviceRight DEF Kept
<1>7. ASSUME NEW d \in Devices, address_remove_device(d)
      PROVE  EvictedRight(c, top, n)
  <2>1. \A i \in Index : n[i] = c[i] \/ n[i] = FreeEntry
    BY <1>0, <1>7 DEF address_remove_device, Put, c
  <2> QED
    BY <2>1, FreeIsEntry, SameDeviceRight
<1>8. ASSUME address_init
      PROVE  EvictedRight(c, top, n)
  <2>1. \A i \in Index : n[i].Flags = {}
    BY <1>8, FreeIsEntry DEF address_init
  <2> QED
    BY <2>1, SameDeviceRight
<1>9. ASSUME address_init_partial
      PROVE  Kept(c, n) /\ EvictedRight(c, top, n)
  <2>1. \A i \in Index :
          n[i] = IF "BIND_REQ" \in c[i].Flags \/ c[i].TimeToLive = 0 THEN FreeEntry ELSE c[i]
    BY <1>9 DEF address_init_partial, init_partial, c
  <2>2. \A i \in Index : "STATIC" \in c[i].Flags =>
          "BIND_REQ" \notin c[i].Flags /\ c[i].TimeToLive # 0
    BY <1>0, CacheAssumption DEF CacheOK, EntryOK
  <2> QED
    BY <2>1, <2>2, FreeIsEntry, SameDeviceRight DEF Kept
<1> QED
  BY <1>1, <1>2, <1>3, <1>4, <1>5, <1>6, <1>7, <1>8, <1>9
  DEF ACNext, Administration, c, top

\* "Will not delete a static entry": none but the calls meant to end a static entry
\* takes it from its device, not even when the cache is full (address_remove_oldest).
THEOREM StaticEntryStays == ACSpec => StaticStays
<1>1. ACInv /\ [ACNext]_acVars =>
        [\/ \A i \in Index : "STATIC" \in Address_Cache[i].Flags =>
              /\ "STATIC" \in Address_Cache'[i].Flags
              /\ Address_Cache'[i].device_id = Address_Cache[i].device_id
         \/ Administration]_acVars
  BY StepRight DEF Kept
<1> QED
  BY <1>1, ACInvariant, PTL DEF ACSpec, StaticStays

\* An entry that is taken from one device for another is the one nearest expiry of
\* those bound and not protected, or an outstanding request if there is none of
\* those (address_remove_oldest).
THEOREM NearestExpiryEvicted == ACSpec => EvictsNearestExpiry
<1>1. ACInv /\ [ACNext]_acVars =>
        [\A i \in Index :
           LET old == Address_Cache[i]
               bound == Evictable(Address_Cache, Top_Protected_Entry, {"IN_USE"})
           IN  /\ InUse(Address_Cache, i) /\ InUse(Address_Cache', i)
               /\ Address_Cache'[i].device_id # old.device_id
               => /\ \A j \in Index : InUse(Address_Cache, j)
                  /\ IF "BIND_REQ" \in old.Flags THEN bound = {}
                     ELSE /\ i >= Top_Protected_Entry
                          /\ \A j \in bound :
                                old.TimeToLive <= Address_Cache[j].TimeToLive]_acVars
  BY StepRight DEF EvictedRight, MayEvict
<1> QED
  BY <1>1, ACInvariant, PTL DEF ACSpec, EvictsNearestExpiry
=============================================================================
