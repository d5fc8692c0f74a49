----------------------------- MODULE LocalCache -----------------------------
(***************************************************************************)
(* The in-memory cache of cache/cache.go and cache/bucket.go: a key hashes *)
(* to a bucket, to one of 16 slots in it and to a 16-bit hash; a slot is 8 *)
(* consecutive entries, searched by hash.  Set, Get and Del hold the lock  *)
(* of the key's bucket throughout and are one action each; Clear locks the *)
(* buckets one after the other.  A slot of a bucket is written <<b, s>>.   *)
(* Keys longer than 65535 bytes, which every operation refuses before it   *)
(* looks at anything, and the counters of hits and misses are left out.    *)
(***************************************************************************)
EXTENDS Naturals

CONSTANTS Keys, Values,
          NoKey,      \* the key of an entry never written, or deleted
          None,       \* no value
          LastBucket, \* buckets are numbered 0..LastBucket
          SlotIds,    \* slot numbers in a bucket
          MaxHash,    \* hash16 ranges over 0..MaxHash
          Hash,       \* Hash[k]: bucket, slot and hash16 of key k
          Ttls,       \* the expireSeconds callers pass; 0 means no expiry
          TimeMod,    \* expiry times are kept modulo this (2^32)
          MaxTime     \* bound on the clock

Buckets == 0..LastBucket

ASSUME BucketsAssumption == LastBucket \in Nat
ASSUME KeysAssumption == NoKey \notin Keys /\ None \notin Values
ASSUME HashAssumption ==
  /\ MaxHash \in Nat
  /\ Hash \in [Keys -> [bucket : Buckets, slot : SlotIds, hash16 : 0..MaxHash]]
ASSUME TimeAssumption ==
  /\ Ttls \subseteq Nat /\ MaxTime \in Nat \ {0} /\ TimeMod \in Nat
  /\ \A t \in Ttls : MaxTime + t < TimeMod

VARIABLES slots,    \* slots[<<b, s>>]: the entries of a slot
          now,      \* the clock, in seconds
          clearing, \* the next bucket a running Clear is to empty, or None
          last      \* the latest Set, Get or Del: its key and the value stored or found

vars == <<slots, now, clearing, last>>

Positions == 0..7
Entries == [key : Keys \cup {NoKey}, value : Values \cup {None},
            expireAt : Nat, hash16 : 0..MaxHash]
NoEntry == [key |-> NoKey, value |-> None, expireAt |-> 0, hash16 |-> 0]

SlotOf(k) == <<Hash[k].bucket, Hash[k].slot>>

-----------------------------------------------------------------------------
(* Faulty variants of definitions below, each of which breaks one of the   *)
(* properties.                                                             *)

(* A match by hash alone.                                                  *)
IsMatchByHash(slot, i, k) == slot[i].hash16 = Hash[k].hash16 /\ slot[i].key # NoKey

(* A scan that stops at the first free entry.                              *)
StopsAtFree(slot, i, k) ==
  slot[i].hash16 # Hash[k].hash16 \/ slot[i].key \in {NoKey, k} \/ i = 7

-----------------------------------------------------------------------------
(* entryIdx: three rounds of the loop halve 0..7 down to 4, 2 and 1        *)
(* positions, of which these are the lowest.                               *)
EntryIdx(slot, h) ==
  LET four == IF slot[3].hash16 < h THEN 4 ELSE 0
      two == IF slot[four + 1].hash16 < h THEN four + 2 ELSE four
  IN  IF slot[two].hash16 < h THEN two + 1 ELSE two

(* lookup scans on from there until the hash differs, the key is found or  *)
(* the slot ends.                                                          *)
IsMatch(slot, i, k) == slot[i].hash16 = Hash[k].hash16 /\ slot[i].key = k
StopsAt(slot, i, k) == slot[i].hash16 # Hash[k].hash16 \/ IsMatch(slot, i, k) \/ i = 7
Lookup(slot, k) ==
  LET first == EntryIdx(slot, Hash[k].hash16)
  IN  CHOOSE i \in first..7 :
        /\ StopsAt(slot, i, k)
        /\ \A m \in first..(i - 1) : ~StopsAt(slot, m, k)

Expired(e) == e.expireAt # 0 /\ e.expireAt <= now

(* What get returns for k: its value, or None for ErrNotFound.             *)
Found(k) ==
  LET slot == slots[SlotOf(k)]
      i == Lookup(slot, k)
  IN  IF IsMatch(slot, i, k) /\ ~Expired(slot[i]) THEN slot[i].value ELSE None

Call(name, k, v) == [call |-> name, key |-> k, value |-> v]

-----------------------------------------------------------------------------
(* Faulty variants of the steps below.                                     *)

(* A loop over the buckets that runs one too far.                          *)
ClearPastEnd ==
  /\ clearing # None
  /\ slots' = [bs \in Buckets \X SlotIds |->
                 IF bs[1] = clearing THEN [i \in Positions |-> NoEntry] ELSE slots[bs]]
  /\ clearing' = IF clearing \in Buckets THEN clearing + 1 ELSE None
  /\ UNCHANGED <<now, last>>

-----------------------------------------------------------------------------

Init ==
  /\ slots = [bs \in Buckets \X SlotIds |-> [i \in Positions |-> NoEntry]]
  /\ now = 1
  /\ clearing = None
  /\ last = None

(* Whatever entry lookup stops at is overwritten.                          *)
Set(k, v, ttl) ==
  LET bs == SlotOf(k)
      new == [key |-> k, value |-> v, hash16 |-> Hash[k].hash16,
              expireAt |-> IF ttl > 0 THEN (now + ttl) % TimeMod ELSE 0]
  IN  /\ slots' = [slots EXCEPT ![bs][Lookup(slots[bs], k)] = new]
      /\ last' = Call("set", k, v)
      /\ UNCHANGED <<now, clearing>>

Get(k) ==
  /\ last' = Call("get", k, Found(k))
  /\ UNCHANGED <<slots, now, clearing>>

Del(k) ==
  LET bs == SlotOf(k)
      i == Lookup(slots[bs], k)
  IN  /\ slots' = IF IsMatch(slots[bs], i, k) THEN [slots EXCEPT ![bs][i] = NoEntry]
                                              ELSE slots
      /\ last' = Call("del", k, None)
      /\ UNCHANGED <<now, clearing>>

ClearStart ==
  /\ clearing = None
  /\ clearing' = 0
  /\ UNCHANGED <<slots, now, last>>

ClearBucket ==
  /\ clearing # None
  /\ slots' = [bs \in Buckets \X SlotIds |->
                 IF bs[1] = clearing THEN [i \in Positions |-> NoEntry] ELSE slots[bs]]
  /\ clearing' = IF clearing + 1 \in Buckets THEN clearing + 1 ELSE None
  /\ UNCHANGED <<now, last>>

Tick ==
  /\ now < MaxTime
  /\ now' = now + 1
  /\ UNCHANGED <<slots, clearing, last>>

Next ==
  \/ \E k \in Keys, v \in Values, ttl \in Ttls : Set(k, v, ttl)
  \/ \E k \in Keys : Get(k) \/ Del(k)
  \/ ClearStart
  \/ ClearBucket
  \/ Tick

Spec == Init /\ [][Next]_vars

-----------------------------------------------------------------------------
(* Properties *)

TypeOK ==
  /\ slots \in [Buckets \X SlotIds -> [Positions -> Entries]]
  /\ now \in Nat
  /\ clearing \in Buckets \cup {None}
  /\ last \in [call : {"set", "get", "del"}, key : Keys, value : Values \cup {None}] \cup {None}

(* Set does not shift entries and the search for a hash in an empty or     *)
(* one-entry slot always ends at its last position: the other seven are    *)
(* never used and a slot holds one entry at most (bucket.go:62-70, 152),    *)
(* not the sixteen of the comment at bucket.go:51.                         *)
OneEntryPerSlot ==
  \A bs \in DOMAIN slots : \A i \in 0..6 : slots[bs][i] = NoEntry

(* The cache implements LossyMap: a key keeps the value a Get would find   *)
(* now, be it through hash collisions, evictions, expiry or Clear.         *)
Lossy == INSTANCE LossyMap WITH kept <- [k \in Keys |-> Found(k)]
AnswersLatest == Lossy!Map
=============================================================================
