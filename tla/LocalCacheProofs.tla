-------------------------- MODULE LocalCacheProofs --------------------------
(***************************************************************************)
(* Proof that a slot of the cache holds one entry at most, for every hash  *)
(* function, every set of keys and any number of buckets and slots: the    *)
(* search always ends at the last position of the slot.  With that, the    *)
(* cache is shown to implement LossyMap.                                   *)
(***************************************************************************)
EXTENDS LocalCache, TLAPS

LastOnly(slot) == \A i \in 0..6 : slot[i] = NoEntry

(* In a slot with nothing before its last position every key is looked up  *)
(* there: a key with hash 0 has the scan pass seven empty entries, for any *)
(* other hash the binary search goes right three times.                    *)
LEMMA LookupIsLast ==
  ASSUME NEW slot, LastOnly(slot), NEW k \in Keys
  PROVE  Lookup(slot, k) = 7
<1> DEFINE h == Hash[k].hash16
           first == EntryIdx(slot, h)
           P(i) == /\ StopsAt(slot, i, k)
                   /\ \A m \in first..(i - 1) : ~StopsAt(slot, m, k)
<1>1. h \in Nat /\ k # NoKey
  BY HashAssumption, KeysAssumption
<1>2. \A i \in 0..6 : slot[i].hash16 = 0 /\ slot[i].key = NoKey
  BY DEF LastOnly, NoEntry
<1>3. first = IF h = 0 THEN 0 ELSE 7
  BY <1>1, <1>2 DEF EntryIdx
<1>4. StopsAt(slot, 7, k)
  BY DEF StopsAt
<1>5. \A m \in first..6 : ~StopsAt(slot, m, k)
  BY <1>1, <1>2, <1>3 DEF StopsAt, IsMatch
<1>6. 7 \in first..7 /\ P(7)
  BY <1>3, <1>4, <1>5
<1>7. \A i \in first..7 : P(i) => i = 7
  BY <1>3, <1>5
<1>8. Lookup(slot, k) = CHOOSE i \in first..7 : P(i)
  BY DEF Lookup
<1> HIDE DEF P, first
<1> QED
  BY <1>6, <1>7, <1>8

IndInv == TypeOK /\ OneEntryPerSlot

(* An empty cache has no entry before the last position.                   *)
LEMMA InitInv == Init => IndInv
<1> USE KeysAssumption, HashAssumption, BucketsAssumption
<1>1. NoEntry \in Entries
  BY DEF NoEntry, Entries
<1> QED
  BY <1>1 DEF Init, IndInv, TypeOK, OneEntryPerSlot, Positions, Buckets

(* The hash of a key leads to a slot there is.                             *)
LEMMA SlotType ==
  ASSUME NEW k \in Keys
  PROVE  SlotOf(k) \in Buckets \X SlotIds /\ Hash[k].hash16 \in 0..MaxHash
  BY HashAssumption DEF SlotOf

(* Set and Del touch the last position only, Clear empties entries.        *)
LEMMA NextInv ==
  ASSUME IndInv, [Next]_vars
  PROVE  IndInv'
<1>1. ASSUME NEW k \in Keys, NEW v \in Values, NEW ttl \in Ttls, Set(k, v, ttl)
      PROVE  IndInv'
  <2> DEFINE bs == SlotOf(k)
             new == [key |-> k, value |-> v, hash16 |-> Hash[k].hash16,
                     expireAt |-> IF ttl > 0 THEN (now + ttl) % TimeMod ELSE 0]
  <2>1. bs \in Buckets \X SlotIds /\ LastOnly(slots[bs])
    BY SlotType DEF IndInv, TypeOK, OneEntryPerSlot, LastOnly
  <2>2. slots' = [slots EXCEPT ![bs][7] = new]
    BY <1>1, <2>1, LookupIsLast DEF Set
  <2>3. (now + ttl) % TimeMod \in Nat
    BY TimeAssumption DEF IndInv, TypeOK
  <2>4. new \in Entries
    BY <2>3, SlotType DEF Entries
  <2> HIDE DEF bs, new
  <2>5. slots' \in [Buckets \X SlotIds -> [Positions -> Entries]]
    BY <2>1, <2>2, <2>4 DEF IndInv, TypeOK, Positions
  <2>6. OneEntryPerSlot'
    BY <2>1, <2>2 DEF IndInv, TypeOK, OneEntryPerSlot, Positions
  <2>7. last' \in [call : {"set", "get", "del"}, key : Keys, value : Values \cup {None}]
    BY <1>1 DEF Set, Call
  <2> QED
    BY <1>1, <2>5, <2>6, <2>7 DEF Set, IndInv, TypeOK
<1>2. ASSUME NEW k \in Keys, Get(k) PROVE IndInv'
  <2>1. Found(k) \in Values \cup {None}
    <3>1. SlotOf(k) \in Buckets \X SlotIds /\ LastOnly(slots[SlotOf(k)])
      BY SlotType DEF IndInv, TypeOK, OneEntryPerSlot, LastOnly
    <3>2. Lookup(slots[SlotOf(k)], k) = 7
      BY <3>1, LookupIsLast
    <3>3. slots[SlotOf(k)][7].value \in Values \cup {None}
      BY <3>1 DEF IndInv, TypeOK, Positions, Entries
    <3> QED
      BY <3>2, <3>3 DEF Found
  <2>2. last' \in [call : {"set", "get", "del"}, key : Keys, value : Values \cup {None}]
    BY <1>2, <2>1 DEF Get, Call
  <2> QED
    BY <1>2, <2>2 DEF Get, IndInv, TypeOK, OneEntryPerSlot
<1>3. ASSUME NEW k \in Keys, Del(k) PROVE IndInv'
  <2>1. SlotOf(k) \in Buckets \X SlotIds /\ LastOnly(slots[SlotOf(k)])
    BY SlotType DEF IndInv, TypeOK, OneEntryPerSlot, LastOnly
  <2>2. slots' = [slots EXCEPT ![SlotOf(k)][7] = NoEntry] \/ slots' = slots
    BY <1>3, <2>1, LookupIsLast DEF Del
  <2>3. NoEntry \in Entries
    BY HashAssumption, KeysAssumption DEF NoEntry, Entries
  <2>4. slots' \in [Buckets \X SlotIds -> [Positions -> Entries]]
    BY <2>1, <2>2, <2>3 DEF IndInv, TypeOK, Positions
  <2>5. OneEntryPerSlot'
    BY <2>1, <2>2 DEF IndInv, TypeOK, OneEntryPerSlot, Positions
  <2>6. last' \in [call : {"set", "get", "del"}, key : Keys, value : Values \cup {None}]
    BY <1>3 DEF Del, Call
  <2> QED
    BY <1>3, <2>4, <2>5, <2>6 DEF Del, IndInv, TypeOK
<1>4. CASE ClearStart
  BY <1>4, BucketsAssumption DEF ClearStart, IndInv, TypeOK, OneEntryPerSlot, Buckets
<1>5. CASE ClearBucket
  <2>1. NoEntry \in Entries
    BY HashAssumption, KeysAssumption DEF NoEntry, Entries
  <2>2. slots' \in [Buckets \X SlotIds -> [Positions -> Entries]]
    BY <1>5, <2>1 DEF ClearBucket, IndInv, TypeOK
  <2>3. OneEntryPerSlot'
    BY <1>5, <2>2 DEF ClearBucket, IndInv, TypeOK, OneEntryPerSlot, Positions
  <2>4. clearing' \in Buckets \cup {None}
    BY <1>5 DEF ClearBucket
  <2> QED
    BY <1>5, <2>2, <2>3, <2>4 DEF ClearBucket, IndInv, TypeOK
<1>6. CASE Tick
  BY <1>6 DEF Tick, IndInv, TypeOK, OneEntryPerSlot
<1>7. CASE UNCHANGED vars
  BY <1>7 DEF vars, IndInv, TypeOK, OneEntryPerSlot
<1> QED
  BY <1>1, <1>2, <1>3, <1>4, <1>5, <1>6, <1>7 DEF Next

(* Of the eight entries of a slot only the last one is ever used           *)
(* (bucket.go:62-70), whatever the hash function.                          *)
THEOREM OneEntry == Spec => []OneEntryPerSlot
<1>1. IndInv => OneEntryPerSlot
  BY DEF IndInv
<1> QED
  BY <1>1, InitInv, NextInv, PTL DEF Spec

-----------------------------------------------------------------------------
(* What a lookup finds is in the last entry of the slot.                   *)
Hits(e, k, time) == e.hash16 = Hash[k].hash16 /\ e.key = k /\ ~(e.expireAt # 0 /\ e.expireAt <= time)
FoundLast(e, k, time) == IF Hits(e, k, time) THEN e.value ELSE None

(* What a lookup gives is the value of the last entry of the slot.         *)
LEMMA FoundIs ==
  ASSUME IndInv, NEW k \in Keys
  PROVE  Found(k) = FoundLast(slots[SlotOf(k)][7], k, now)
<1>1. LastOnly(slots[SlotOf(k)])
  BY SlotType DEF IndInv, TypeOK, OneEntryPerSlot, LastOnly
<1>2. Lookup(slots[SlotOf(k)], k) = 7
  BY <1>1, LookupIsLast
<1> QED
  BY <1>2 DEF Found, FoundLast, Hits, IsMatch, Expired

(* The same after a step.                                                  *)
LEMMA FoundIsNext ==
  ASSUME IndInv', NEW k \in Keys
  PROVE  Found(k)' = FoundLast(slots'[SlotOf(k)][7], k, now')
<1>1. LastOnly(slots'[SlotOf(k)])
  BY SlotType DEF IndInv, TypeOK, OneEntryPerSlot, LastOnly
<1>2. Lookup(slots'[SlotOf(k)], k) = 7
  BY <1>1, LookupIsLast
<1> QED
  BY <1>2 DEF Found, FoundLast, Hits, IsMatch, Expired

(* The clock stays below what expiry times wrap around at.                 *)
InTime == now <= MaxTime

(* The clock starts below its bound and is only moved below it.            *)
LEMMA InitTime == Init => InTime
BY TimeAssumption DEF Init, InTime

(* Every step keeps expiry times within the clock.                         *)
LEMMA NextTime == IndInv /\ InTime /\ [Next]_vars => InTime'
<1> SUFFICES ASSUME IndInv, InTime, [Next]_vars PROVE InTime'
  OBVIOUS
<1>1. CASE Tick
  BY <1>1, TimeAssumption DEF Tick, IndInv, TypeOK, InTime
<1>2. CASE now' = now
  BY <1>2 DEF InTime
<1>3. Tick \/ now' = now
  BY DEF Next, vars, Set, Get, Del, ClearStart, ClearBucket
<1> QED
  BY <1>1, <1>2, <1>3

(* A step of the cache is one of the map, or leaves the map alone.         *)
LEMMA StepIsLossy ==
  ASSUME IndInv, IndInv', InTime, [Next]_vars
  PROVE  [Lossy!MNext]_(Lossy!mvars)
<1> DEFINE Entry(k) == slots[SlotOf(k)][7]
<1>0. \A k \in Keys : /\ Found(k) = FoundLast(Entry(k), k, now)
                      /\ Found(k)' = FoundLast(slots'[SlotOf(k)][7], k, now')
                      /\ SlotOf(k) \in Buckets \X SlotIds
  BY FoundIs, FoundIsNext, SlotType
<1>1. ASSUME NEW k \in Keys, NEW v \in Values, NEW ttl \in Ttls, Set(k, v, ttl)
      PROVE  Lossy!Store(k, v)
  <2> DEFINE new == [key |-> k, value |-> v, hash16 |-> Hash[k].hash16,
                     expireAt |-> IF ttl > 0 THEN (now + ttl) % TimeMod ELSE 0]
  <2>1. SlotOf(k) \in Buckets \X SlotIds /\ LastOnly(slots[SlotOf(k)])
    BY SlotType DEF IndInv, TypeOK, OneEntryPerSlot, LastOnly
  <2>2. slots' = [slots EXCEPT ![SlotOf(k)][7] = new] /\ now' = now
    BY <1>1, <2>1, LookupIsLast DEF Set
  <2>3. ttl > 0 => (now + ttl) % TimeMod = now + ttl /\ now + ttl > now
    <3>1. now \in Nat /\ ttl \in Nat /\ now <= MaxTime /\ MaxTime + ttl < TimeMod /\ TimeMod \in Nat /\ MaxTime \in Nat
      BY TimeAssumption DEF InTime, IndInv, TypeOK
    <3>2. now + ttl \in 0..(TimeMod - 1)
      BY <3>1
    <3> QED
      BY <3>1, <3>2
  <2>4. new.key = k /\ new.value = v /\ new.hash16 = Hash[k].hash16 /\ ~(new.expireAt # 0 /\ new.expireAt <= now)
    <3>1. now \in Nat /\ ttl \in Nat
      BY TimeAssumption DEF IndInv, TypeOK
    <3> QED
      BY <2>3, <3>1
  <2> HIDE DEF new
  <2>5. slots'[SlotOf(k)][7] = new /\ \A bs \in Buckets \X SlotIds : bs # SlotOf(k) => slots'[bs] = slots[bs]
    BY <2>1, <2>2 DEF IndInv, TypeOK, Positions
  <2>6. Found(k)' = v
    BY <1>0, <2>2, <2>4, <2>5 DEF FoundLast, Hits
  <2>7. ASSUME NEW other \in Keys \ {k} PROVE Found(other)' \in {Found(other), None}
    <3>1. CASE SlotOf(other) = SlotOf(k)
      BY <1>0, <2>4, <2>5, <3>1 DEF FoundLast, Hits
    <3>2. CASE SlotOf(other) # SlotOf(k)
      BY <1>0, <2>2, <2>5, <3>2
    <3> QED
      BY <3>1, <3>2
  <2> QED
    BY <1>1, <2>6, <2>7 DEF Lossy!Store, Lossy!KeptOrForgotten, Lossy!Call, Set, Call
<1>2. ASSUME NEW k \in Keys, Get(k) PROVE Lossy!Fetch(k)
  <2>1. \A x \in Keys : Found(x)' = Found(x)
    BY <1>0, <1>2 DEF Get
  <2> QED
    BY <1>2, <2>1 DEF Get, Call, Lossy!Fetch, Lossy!Call
<1>3. ASSUME NEW k \in Keys, Del(k) PROVE Lossy!Remove(k)
  <2>1. SlotOf(k) \in Buckets \X SlotIds /\ LastOnly(slots[SlotOf(k)])
    BY SlotType DEF IndInv, TypeOK, OneEntryPerSlot, LastOnly
  <2>2. now' = now /\ IF IsMatch(slots[SlotOf(k)], 7, k) THEN slots' = [slots EXCEPT ![SlotOf(k)][7] = NoEntry]
                                                         ELSE slots' = slots
    BY <1>3, <2>1, LookupIsLast DEF Del
  <2>3. \A x \in Keys : Found(x)' = IF x = k THEN None ELSE Found(x)
    <3>1. CASE IsMatch(slots[SlotOf(k)], 7, k)
      <4>1. /\ slots'[SlotOf(k)][7] = NoEntry /\ Entry(k).key = k
            /\ \A bs \in Buckets \X SlotIds : bs # SlotOf(k) => slots'[bs] = slots[bs]
        BY <2>1, <2>2, <3>1 DEF IndInv, TypeOK, Positions, IsMatch
      <4>2. ASSUME NEW x \in Keys, SlotOf(x) = SlotOf(k) PROVE Found(x)' = None /\ (x # k => Found(x) = None)
        <5>1. NoEntry.key # x
          BY KeysAssumption DEF NoEntry
        <5> QED
          BY <1>0, <4>1, <4>2, <5>1 DEF FoundLast, Hits
      <4>3. ASSUME NEW x \in Keys, SlotOf(x) # SlotOf(k) PROVE Found(x)' = Found(x)
        BY <1>0, <2>2, <4>1, <4>3
      <4> QED
        BY <4>2, <4>3
    <3>2. CASE ~IsMatch(slots[SlotOf(k)], 7, k)
      <4>1. Found(k) = None
        BY <1>0, <3>2 DEF FoundLast, Hits, IsMatch
      <4> QED
        BY <1>0, <2>2, <3>2, <4>1
    <3> QED
      BY <3>1, <3>2
  <2> QED
    BY <1>3, <2>3 DEF Del, Call, Lossy!Remove, Lossy!Call
<1>4. ASSUME ClearStart \/ ClearBucket \/ Tick PROVE Lossy!Forget
  <2>1. CASE ClearStart
    BY <1>0, <2>1 DEF ClearStart, Lossy!Forget, Lossy!KeptOrForgotten
  <2>2. CASE ClearBucket
    <3>1. ASSUME NEW k \in Keys PROVE Found(k)' \in {Found(k), None}
      <4>1. slots'[SlotOf(k)] = slots[SlotOf(k)] \/ slots'[SlotOf(k)][7] = NoEntry
        <5>1. slots' = [bs \in Buckets \X SlotIds |->
                          IF bs[1] = clearing THEN [i \in Positions |-> NoEntry] ELSE slots[bs]]
          BY <2>2 DEF ClearBucket
        <5>2. SlotOf(k) \in Buckets \X SlotIds /\ 7 \in Positions
          BY SlotType DEF Positions
        <5> QED
          BY <5>1, <5>2
      <4>2. NoEntry.key # k /\ now' = now
        BY <2>2, KeysAssumption DEF NoEntry, ClearBucket
      <4> QED
        BY <1>0, <4>1, <4>2 DEF FoundLast, Hits
    <3> QED
      BY <2>2, <3>1 DEF ClearBucket, Lossy!Forget, Lossy!KeptOrForgotten
  <2>3. CASE Tick
    <3>1. ASSUME NEW k \in Keys PROVE Found(k)' \in {Found(k), None}
      <4>1. Entry(k).expireAt \in Nat /\ now \in Nat /\ now' = now + 1
        <5>1. Entry(k) \in Entries
          BY <1>0 DEF IndInv, TypeOK, Positions
        <5> QED
          BY <2>3, <5>1 DEF Tick, IndInv, TypeOK, Entries
      <4>2. slots'[SlotOf(k)][7] = Entry(k)
        BY <2>3 DEF Tick
      <4>3. Found(k) = FoundLast(Entry(k), k, now) /\ Found(k)' = FoundLast(Entry(k), k, now')
        BY <1>0, <4>2
      <4> HIDE DEF Entry
      <4>4. Hits(Entry(k), k, now') => Hits(Entry(k), k, now)
        BY <4>1 DEF Hits
      <4> QED
        BY <4>3, <4>4 DEF FoundLast
    <3> QED
      BY <2>3, <3>1 DEF Tick, Lossy!Forget, Lossy!KeptOrForgotten
  <2> QED
    BY <1>4, <2>1, <2>2, <2>3
<1>5. CASE UNCHANGED vars
  <2>1. \A x \in Keys : Found(x)' = Found(x)
    BY <1>0, <1>5 DEF vars
  <2> QED
    BY <1>5, <2>1 DEF vars, Lossy!mvars
<1> QED
  BY <1>1, <1>2, <1>3, <1>4, <1>5 DEF Next, Lossy!MNext

(* The cache implements LossyMap: a Get finds what was stored last under   *)
(* that very key or nothing, through collisions of hashes, evictions,      *)
(* expiry and a Clear that passes bucket by bucket (cache.go, bucket.go).  *)
THEOREM ImplementsLossyMap == Spec => AnswersLatest
<1>1. Init => Lossy!MInit
  <2> SUFFICES ASSUME Init PROVE Lossy!MInit
    OBVIOUS
  <2>1. \A k \in Keys : slots[SlotOf(k)][7] = NoEntry /\ NoEntry.key # k
    <3>1. 7 \in Positions
      BY DEF Positions
    <3>2. ASSUME NEW k \in Keys PROVE slots[SlotOf(k)][7] = NoEntry
      BY <3>1, SlotType DEF Init
    <3>3. NoEntry.key = NoKey
      BY DEF NoEntry
    <3> QED
      BY <3>2, <3>3, KeysAssumption
  <2>2. \A k \in Keys : Found(k) = None
    BY <2>1, InitInv, FoundIs DEF FoundLast, Hits
  <2> QED
    BY <2>2 DEF Init, Lossy!MInit
<1> QED
  BY <1>1, InitInv, NextInv, InitTime, NextTime, StepIsLossy, PTL DEF Spec, AnswersLatest, Lossy!Map
=============================================================================
