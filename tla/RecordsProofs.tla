--------------------------- MODULE RecordsProofs ---------------------------
(***************************************************************************)
(* What holds of Records for any requests, keys and delays.                *)
(***************************************************************************)
EXTENDS Records, TLAPS

OnRecord == {"look", "row", "fill", "update", "flush"}

(* A request has a key while it works on a record, and a row to cache, and *)
(* is where its method may lead it.                                        *)
Sound(q) ==
  /\ q \in Request
  /\ q.at \in OnRecord => q.key \in Keys
  /\ q.at \in {"look", "row", "fill"} => q.method \in {"PATCH", "PUT", "READ", "WRITE"}
  /\ q.at = "update" => q.method \in {"PATCH", "PUT", "DELETE", "WRITE"}
  /\ q.at = "flush" => q.method \in {"PATCH", "PUT", "WRITE"}
  /\ q.at = "fill" => q.got # None /\ q.readAt <= now

Typed == TypeOK /\ \A r \in Requests : Sound(req[r])

(* The first state has the types.                                          *)
LEMMA TypeInit == Init => Typed
BY NamesAssumption, RowsAssumption, TimesAssumption
   DEF Init, Typed, Sound, OnRecord, TypeOK, Contents, NoEntry, Entries, Request, Places, Methods, Answers, Pasts

(* The records the steps make of a request's. *)
Ended(q, a, w) == [q EXCEPT !.at = "done", !.answer = a, !.wrote = w, !.key = None, !.name = Primary,
                            !.got = None, !.readAt = 0, !.saved = FALSE]

(* A request that ends is a request still, with the method it had.         *)
LEMMA Released ==
  ASSUME NEW q \in Request, NEW a \in Answers, NEW w \in BOOLEAN
  PROVE  Ended(q, a, w) \in Request /\ Ended(q, a, w).at = "done" /\ Ended(q, a, w).method = q.method
BY NamesAssumption DEF Ended, Request, Places, Contents

(* So is one that goes to its next access, ...                             *)
LEMMA Moved ==
  ASSUME NEW q \in Request, NEW p \in Places
  PROVE  LET n == [q EXCEPT !.at = p]
         IN  n \in Request /\ n.at = p /\ n.method = q.method /\ n.key = q.key /\ n.got = q.got /\ n.readAt = q.readAt
BY DEF Request

(* ... one that is over for another reason, ...                            *)
LEMMA Left ==
  ASSUME NEW q \in Request
  PROVE  LET n == [q EXCEPT !.at = "done", !.method = "OTHER"]
         IN  n \in Request /\ n.at = "done" /\ n.method = "OTHER"
BY DEF Request, Places, Methods

(* ... one that has read a row, ...                                        *)
LEMMA Read ==
  ASSUME NEW q \in Request, NEW row \in Contents, now \in Nat
  PROVE  LET n == [q EXCEPT !.at = "fill", !.got = row, !.readAt = now]
         IN  n \in Request /\ n.at = "fill" /\ n.got = row /\ n.readAt = now /\ n.key = q.key /\ n.method = q.method
BY DEF Request, Places

(* ... one that has created a row, ...                                     *)
LEMMA Stored ==
  ASSUME NEW q \in Request
  PROVE  LET n == [q EXCEPT !.saved = TRUE, !.wrote = TRUE]
         IN  n \in Request /\ n.at = q.at /\ n.key = q.key /\ n.method = q.method /\ n.saved
BY DEF Request

(* ... and one that has changed one.                                       *)
LEMMA Changed ==
  ASSUME NEW q \in Request
  PROVE  LET n == [q EXCEPT !.at = "flush", !.wrote = TRUE]
         IN  n \in Request /\ n.at = "flush" /\ n.key = q.key /\ n.method = q.method
BY DEF Request, Places

(* A request that ends, however, is released.                              *)
LEMMA Answered ==
  ASSUME NEW r \in Requests, req[r] \in Request, NEW a \in Answers, NEW w \in BOOLEAN, Answer(r, a, w)
  PROVE  \E n : Sound(n) /\ req' = [req EXCEPT ![r] = n] /\ n.at = "done" /\ n.method = req[r].method
<1> DEFINE n == Ended(req[r], a, w)
<1>1. n \in Request /\ n.at = "done" /\ n.method = req[r].method
  BY Released
<1>2. Sound(n)
  BY <1>1 DEF Sound, OnRecord
<1>3. req' = [req EXCEPT ![r] = n]
  BY DEF Answer, Ended
<1> QED
  BY <1>1, <1>2, <1>3

(* A request that concludes is done, whatever its answer.                  *)
LEMMA Concludes ==
  ASSUME NEW r \in Requests, req[r] \in Request, NEW w \in BOOLEAN, Conclude(r, w)
  PROVE  \E n : Sound(n) /\ req' = [req EXCEPT ![r] = n] /\ n.at = "done" /\ n.method = req[r].method
BY Answered DEF Conclude, Answers

-----------------------------------------------------------------------------
(* The inductive invariant *)

(* The row of k was this, at least in the eyes of a replica at time t.     *)
ReadableAt(k, row, t) ==
  row = Current(k) \/ \E p \in past : p.key = k /\ p.row = row /\ t <= p.until + Lag

(* A row about to be cached was read MaxDelay ago at most.                 *)
FillsRight ==
  \A r \in Requests : req[r].at = "fill" =>
    /\ now <= req[r].readAt + MaxDelay
    /\ ReadableAt(req[r].key, req[r].got, req[r].readAt)

(* An entry expires, Expire after it was read and could be read at most.   *)
EntryRight(k, e) ==
  e.row # None =>
    /\ 0 < e.until /\ e.until <= now + Expire
    /\ \/ e.row = Current(k)
       \/ \E p \in past : p.key = k /\ p.row = e.row /\ e.until <= p.until + Lag + MaxDelay + Expire
CacheRight == \A kn \in Keys \X Names : EntryRight(kn[1], cache[kn])

(* Who changed a row is past that, and will delete it from the cache if at *)
(* all under the key of the row.                                           *)
ChangersRight ==
  \A p \in past :
    /\ p.until <= now
    /\ LET c == req[p.changer]
       IN  /\ c.at \in {"flush", "done"} \/ (c.at = "insert" /\ c.saved)
           /\ c.at = "flush" => c.key = p.key

(* StaleOnlyInRace, of expired entries as well.                            *)
RaceRight ==
  \A k \in Keys :
    LET e == cache[<<k, Primary>>]
    IN  e.row # None /\ e.fresh /\ e.row # Current(k)
          => \E p \in past :
               /\ p.key = k /\ p.row = e.row
               /\ \/ req[p.changer].at = "flush"
                  \/ req[p.changer].method \in {"DELETE", "OTHER"}

IndInv == Typed /\ FillsRight /\ CacheRight /\ ChangersRight /\ RaceRight

(* The first state is right.                                               *)
LEMMA InitInv == Init => IndInv
<1> SUFFICES ASSUME Init PROVE IndInv
  OBVIOUS
<1>1. Typed
  BY TypeInit
<1>2. FillsRight /\ CacheRight /\ ChangersRight /\ RaceRight
  BY NamesAssumption DEF Init, FillsRight, CacheRight, EntryRight, ChangersRight, RaceRight, NoEntry, FirstPlace
<1> QED
  BY <1>1, <1>2 DEF IndInv

(* A step that only moves a request on.                                    *)
LEMMA MovesOn ==
  ASSUME IndInv, NEW r \in Requests, NEW n, Sound(n), req' = [req EXCEPT ![r] = n],
         UNCHANGED <<table, past, cache, now>>,
         req[r].at \notin {"flush", "done"},
         req[r].at = "insert" /\ req[r].saved => n.at = "done" /\ n.method = req[r].method,
         n.at = "fill" => now <= n.readAt + MaxDelay /\ ReadableAt(n.key, n.got, n.readAt)
  PROVE  IndInv'
<1> USE NamesAssumption, TimesAssumption, RowsAssumption DEF IndInv
<1>1. Typed'
  BY DEF Typed, TypeOK, Sound
<1>2. FillsRight'
  BY DEF FillsRight, Typed, TypeOK, ReadableAt, Current
<1>3. CacheRight'
  BY DEF CacheRight, EntryRight, Current
<1>4. ChangersRight'
  BY DEF ChangersRight, Typed, TypeOK, Pasts
<1>5. RaceRight'
  BY DEF RaceRight, ChangersRight, Typed, TypeOK, Pasts, Current
<1> QED
  BY <1>1, <1>2, <1>3, <1>4, <1>5

(* A step that changes the row of a key.                                   *)
LEMMA Changes ==
  ASSUME IndInv, NEW r \in Requests, NEW n, Sound(n), req' = [req EXCEPT ![r] = n],
         NEW k \in Keys, NEW by \in Contents, NEW alive \in BOOLEAN, by # None,
         ChangeRow(k, by, alive, r), UNCHANGED <<cache, now>>,
         req[r].at \notin {"flush", "done"}, ~(req[r].at = "insert" /\ req[r].saved),
         n.at \in {"flush", "done"} \/ (n.at = "insert" /\ n.saved),
         n.at = "flush" => n.key = k,
         Current(k) = None \/ n.at = "flush" \/ n.method \in {"DELETE", "OTHER"}
  PROVE  IndInv'
<1> USE NamesAssumption, TimesAssumption, RowsAssumption DEF IndInv
<1> DEFINE new == [key |-> k, row |-> Current(k), until |-> now, changer |-> r]
<1>1. /\ past' = past \cup {new} /\ new \in Pasts
      /\ \A j \in Keys \ {k} : Current(j)' = Current(j)
  BY DEF ChangeRow, Typed, TypeOK, Current, Pasts, Contents
<1>2. Typed'
  BY <1>1 DEF Typed, TypeOK, Sound, ChangeRow
<1>3. ASSUME NEW j \in Keys, NEW row, NEW t \in Nat, t <= now, ReadableAt(j, row, t)
      PROVE  ReadableAt(j, row, t)'
  BY <1>1, <1>3 DEF ReadableAt, Typed, TypeOK
<1>4. FillsRight'
  BY <1>3 DEF FillsRight, Typed, TypeOK, Sound, OnRecord, Request
<1>5. CacheRight'
  BY <1>1 DEF CacheRight, EntryRight, Typed, TypeOK, Entries
<1>6. ChangersRight'
  BY <1>1 DEF ChangersRight, Typed, TypeOK, Pasts
<1>7. RaceRight'
  <2> SUFFICES ASSUME NEW j \in Keys, cache[<<j, Primary>>].row # None, cache[<<j, Primary>>].fresh,
                      cache[<<j, Primary>>].row # Current(j)'
               PROVE  \E p \in past' :
                        /\ p.key = j /\ p.row = cache[<<j, Primary>>].row
                        /\ \/ req'[p.changer].at = "flush"
                           \/ req'[p.changer].method \in {"DELETE", "OTHER"}
    BY DEF RaceRight
  <2>1. CASE cache[<<j, Primary>>].row = Current(j)
    <3>1. j = k /\ new.row = cache[<<j, Primary>>].row /\ req'[r] = n
      BY <1>1, <2>1 DEF Typed, TypeOK
    <3> QED
      BY <1>1, <2>1, <3>1
  <2>2. CASE cache[<<j, Primary>>].row # Current(j)
    <3>1. PICK p \in past : /\ p.key = j /\ p.row = cache[<<j, Primary>>].row
                            /\ \/ req[p.changer].at = "flush"
                               \/ req[p.changer].method \in {"DELETE", "OTHER"}
      BY <2>2 DEF RaceRight
    <3>2. p.changer # r
      BY DEF ChangersRight
    <3> QED
      BY <1>1, <3>1, <3>2 DEF Typed, TypeOK, Pasts
  <2> QED
    BY <2>1, <2>2
<1> QED
  BY <1>2, <1>4, <1>5, <1>6, <1>7

(* A record is cached that was read a while ago.                           *)
LEMMA Caches ==
  ASSUME IndInv, NEW r \in Requests, NEW n, Sound(n), req' = [req EXCEPT ![r] = n],
         req[r].at = "fill", n.at \notin {"fill", "flush"},
         cache' = [cache EXCEPT ![<<req[r].key, req[r].name>>] =
                     [row |-> req[r].got, until |-> now + Expire, fresh |-> req[r].got = Current(req[r].key)]],
         UNCHANGED <<table, past, now>>
  PROVE  IndInv'
<1> USE NamesAssumption, TimesAssumption, RowsAssumption DEF IndInv
<1> DEFINE k == req[r].key
           e == [row |-> req[r].got, until |-> now + Expire, fresh |-> req[r].got = Current(k)]
<1>1. k \in Keys /\ <<k, req[r].name>> \in Keys \X Names /\ e \in Entries /\ req[r].got # None
  BY DEF Typed, TypeOK, Sound, OnRecord, Request, Entries
<1>2. Typed'
  BY <1>1 DEF Typed, TypeOK, Sound
<1>3. FillsRight'
  BY DEF FillsRight, Typed, TypeOK, ReadableAt, Current
<1>4. EntryRight(k, e)
  BY <1>1 DEF FillsRight, ReadableAt, EntryRight, Typed, TypeOK, Request, Pasts
<1>5. CacheRight'
  BY <1>1, <1>4 DEF CacheRight, EntryRight, Typed, TypeOK, Current
<1>6. ChangersRight'
  BY DEF ChangersRight, Typed, TypeOK, Pasts
<1>7. RaceRight'
  <2> SUFFICES ASSUME NEW j \in Keys, cache'[<<j, Primary>>].row # None, cache'[<<j, Primary>>].fresh,
                      cache'[<<j, Primary>>].row # Current(j)
               PROVE  \E p \in past :
                        /\ p.key = j /\ p.row = cache'[<<j, Primary>>].row
                        /\ \/ req'[p.changer].at = "flush"
                           \/ req'[p.changer].method \in {"DELETE", "OTHER"}
    BY DEF RaceRight, Current
  <2>1. cache'[<<j, Primary>>] = cache[<<j, Primary>>]
    BY <1>1 DEF Typed, TypeOK
  <2>2. PICK p \in past : /\ p.key = j /\ p.row = cache[<<j, Primary>>].row
                          /\ \/ req[p.changer].at = "flush"
                             \/ req[p.changer].method \in {"DELETE", "OTHER"}
    BY <2>1 DEF RaceRight
  <2>3. p.changer # r
    BY DEF ChangersRight
  <2> QED
    BY <2>1, <2>2, <2>3 DEF Typed, TypeOK, Pasts
<1> QED
  BY <1>2, <1>3, <1>5, <1>6, <1>7

(* A record is deleted from the cache.                                     *)
LEMMA Deletes ==
  ASSUME IndInv, NEW r \in Requests, Flush(r)
  PROVE  IndInv'
<1> USE NamesAssumption, TimesAssumption, RowsAssumption DEF IndInv
<1>1. PICK n : Sound(n) /\ req' = [req EXCEPT ![r] = n] /\ n.at = "done" /\ n.method = req[r].method
  BY Concludes DEF Flush, Typed, TypeOK, Request
<1>2. /\ req[r].at = "flush" /\ req[r].key \in Keys /\ UNCHANGED <<table, past, now>>
      /\ cache' = [cache EXCEPT ![<<req[r].key, Primary>>] = NoEntry]
      /\ NoEntry \in Entries
  BY DEF Flush, Typed, Sound, OnRecord, NoEntry, Entries, Contents
<1>3. Typed'
  BY <1>1, <1>2 DEF Typed, TypeOK, Sound
<1>4. FillsRight'
  BY <1>1, <1>2 DEF FillsRight, Typed, TypeOK, ReadableAt, Current
<1>5. CacheRight'
  BY <1>2 DEF CacheRight, EntryRight, Typed, TypeOK, Current, NoEntry
<1>6. ChangersRight'
  BY <1>1, <1>2 DEF ChangersRight, Typed, TypeOK, Pasts
<1>7. RaceRight'
  BY <1>1, <1>2 DEF RaceRight, ChangersRight, Typed, TypeOK, Pasts, Current, NoEntry
<1> QED
  BY <1>3, <1>4, <1>5, <1>6, <1>7

(* A request goes to another place with the record it has.                 *)
LEMMA Goers ==
  ASSUME NEW r \in Requests, Sound(req[r]), req[r].at \in OnRecord,
         NEW p \in Places \ {"fill"}, Goes(r, p),
         p = "row" => req[r].method \in {"PATCH", "PUT", "READ", "WRITE"},
         p = "look" => req[r].method \in {"PATCH", "PUT", "READ", "WRITE"},
         p = "update" => req[r].method \in {"PATCH", "PUT", "DELETE", "WRITE"},
         p = "flush" => req[r].method \in {"PATCH", "PUT", "WRITE"}
  PROVE  \E n : Sound(n) /\ req' = [req EXCEPT ![r] = n] /\ n.method = req[r].method /\ n.at = p
<1> DEFINE n == [req[r] EXCEPT !.at = p]
<1>1. n \in Request /\ n.at = p /\ n.method = req[r].method /\ n.key = req[r].key
  BY Moved DEF Sound
<1>2. Sound(n)
  BY <1>1 DEF Sound
<1>3. req' = [req EXCEPT ![r] = n]
  BY DEF Goes
<1> QED
  BY <1>1, <1>2, <1>3

(* A request goes on with the record it has, or ends.                      *)
LEMMA Continues ==
  ASSUME NEW r \in Requests, Sound(req[r]), req[r].at \in OnRecord,
         NEW p \in {"update", "flush", "done"}, Continue(r, p),
         p = "update" => req[r].method \in {"PATCH", "PUT", "WRITE"},
         p = "flush" => req[r].method \in {"PATCH", "PUT", "WRITE"}
  PROVE  \E n : Sound(n) /\ req' = [req EXCEPT ![r] = n] /\ n.method = req[r].method /\ n.at \in {"done", p}
<1>1. CASE p = "done"
  BY <1>1, Concludes DEF Continue, Sound, Request
<1>2. CASE p # "done"
  <2>1. Goes(r, p) /\ p \in Places \ {"fill"} /\ p \notin {"row", "look"}
    BY <1>2 DEF Continue, Places
  <2> QED
    BY <2>1, Goers
<1> QED
  BY <1>1, <1>2

(* What a request is made of when it starts.                               *)
LEMMA Starts ==
  ASSUME NEW r \in Requests, req[r] \in Request, NEW method \in Methods \ {"OTHER"}, NEW k \in Keys,
         NEW name \in Names, Begin(r, method, k, name)
  PROVE  \E n : /\ Sound(n) /\ req' = [req EXCEPT ![r] = n] /\ n.method = method
                /\ n.at = FirstPlace(method)
<1> DEFINE key == IF method = "POST" THEN None ELSE k
<1>1. \/ method = "POST" /\ FirstPlace(method) = "insert"
      \/ method \in {"PATCH", "PUT", "READ", "WRITE"} /\ FirstPlace(method) = "look"
      \/ method = "DELETE" /\ FirstPlace(method) = "update"
  BY DEF FirstPlace, Methods
<1>2. key \in Keys \cup {None} /\ FirstPlace(method) \in Places
  BY <1>1 DEF Places
<1>3. req' = [req EXCEPT ![r] = [@ EXCEPT !.at = FirstPlace(method), !.method = method, !.name = name, !.key = key]]
  BY DEF Begin
<1> HIDE DEF key
<1> DEFINE n == [req[r] EXCEPT !.at = FirstPlace(method), !.method = method, !.name = name, !.key = key]
<1>4. n \in Request /\ n.at = FirstPlace(method) /\ n.method = method /\ n.key = key
  BY <1>2 DEF Request
<1>5. Sound(n)
  <2>1. CASE method = "POST"
    BY <1>1, <1>4, <2>1 DEF Sound, OnRecord
  <2>2. CASE method # "POST"
    BY <1>1, <1>4, <2>2 DEF Sound, OnRecord, key
  <2> QED
    BY <2>1, <2>2
<1> QED
  BY <1>3, <1>4, <1>5

(* A step of the cache or the clock alone.                                 *)
LEMMA Lets ==
  ASSUME IndInv, NEW k \in Keys, NEW name \in Names, Forget(k, name)
  PROVE  IndInv'
<1> USE NamesAssumption, TimesAssumption, RowsAssumption DEF IndInv, Forget
<1>1. NoEntry \in Entries /\ NoEntry.row = None
  BY DEF NoEntry, Entries, Contents
<1>2. Typed'
  BY <1>1 DEF Typed, TypeOK, Sound
<1>3. FillsRight'
  BY DEF FillsRight, ReadableAt, Current
<1>4. CacheRight'
  BY <1>1 DEF CacheRight, EntryRight, Typed, TypeOK, Current
<1>5. ChangersRight' /\ RaceRight'
  BY <1>1 DEF ChangersRight, RaceRight, Typed, TypeOK, Current
<1> QED
  BY <1>2, <1>3, <1>4, <1>5

(* Time that passes keeps what is cached and read within its bounds.       *)
LEMMA Ticks ==
  ASSUME IndInv, Tick
  PROVE  IndInv'
<1> USE NamesAssumption, TimesAssumption, RowsAssumption DEF IndInv, Tick
<1>1. now \in Nat /\ now' = now + 1
  BY DEF Typed, TypeOK
<1>2. Typed'
  BY <1>1 DEF Typed, TypeOK, Sound, Request
<1>3. FillsRight'
  BY <1>1 DEF FillsRight, ReadableAt, Current, Typed, TypeOK, Request
<1>4. CacheRight'
  BY <1>1 DEF CacheRight, EntryRight, Typed, TypeOK, Entries, Current
<1>5. ChangersRight' /\ RaceRight'
  BY <1>1 DEF ChangersRight, RaceRight, Typed, TypeOK, Pasts, Current
<1> QED
  BY <1>2, <1>3, <1>4, <1>5

(* The steps of a handler.                                                 *)
LEMMA Handles ==
  ASSUME IndInv, NEW r \in Requests, Handler(r)
  PROVE  IndInv'
<1> USE NamesAssumption, TimesAssumption, RowsAssumption
<1> DEFINE q == req[r]
<1>1. Sound(q) /\ q \in Request
  BY DEF IndInv, Typed, Sound
<1>2. CASE Refuse(r)
  <2>1. PICK n : Sound(n) /\ req' = [req EXCEPT ![r] = n] /\ n.at = "done"
    BY <1>1, <1>2, Answered DEF Refuse, Answers
  <2> QED
    BY <1>2, <2>1, MovesOn DEF Refuse
<1>3. CASE Look(r)
  <2>1. PICK n : Sound(n) /\ req' = [req EXCEPT ![r] = n] /\ n.at \in {"update", "done", "row"}
    <3>1. CASE Continue(r, PlaceWith(q.method))
      <4>1. q.at = "look"
        BY <1>3 DEF Look
      <4>2. PlaceWith(q.method) \in {"update", "done"} /\ (PlaceWith(q.method) = "update" => q.method # "READ")
        BY <1>1, <4>1 DEF PlaceWith, Sound
      <4> QED
        BY <1>1, <3>1, <4>1, <4>2, Continues DEF OnRecord, Sound
    <3>2. CASE Goes(r, "row")
      <4>1. q.at = "look" /\ q.method \in {"PATCH", "PUT", "READ", "WRITE"}
        BY <1>1, <1>3 DEF Look, Sound
      <4> QED
        BY <1>1, <3>2, <4>1, Goers, "row" \in Places \ {"fill"} DEF OnRecord, Places
    <3> QED
      BY <1>3, <3>1, <3>2 DEF Look
  <2> QED
    BY <1>3, <2>1, MovesOn DEF Look
<1>4. CASE Row(r)
  <2>1. PICK row \in Readable(q.key) \ {None} :
          req' = [req EXCEPT ![r] = [@ EXCEPT !.at = "fill", !.got = row, !.readAt = now]]
    BY <1>4 DEF Row
  <2> DEFINE n == [q EXCEPT !.at = "fill", !.got = row, !.readAt = now]
  <2>2. q.at = "row" /\ q.key \in Keys /\ now \in Nat /\ UNCHANGED <<table, past, cache, now>>
    BY <1>1, <1>4 DEF Row, Sound, OnRecord, IndInv, Typed, TypeOK
  <2>3. row \in Contents /\ ReadableAt(q.key, row, now)
    BY <2>1, <2>2 DEF Readable, ReadableAt, IndInv, Typed, TypeOK, Current, Contents, Pasts
  <2>4. n \in Request /\ n.at = "fill" /\ n.got = row /\ n.readAt = now /\ n.key = q.key /\ n.method = q.method
    BY <1>1, <2>2, <2>3, Read
  <2>5. Sound(n) /\ req' = [req EXCEPT ![r] = n]
    BY <1>1, <2>1, <2>2, <2>4 DEF Sound, OnRecord
  <2>6. now <= n.readAt + MaxDelay /\ ReadableAt(n.key, n.got, n.readAt)
    BY <2>2, <2>3, <2>4
  <2> QED
    BY <2>2, <2>5, <2>6, MovesOn
<1>5. CASE NoRow(r)
  <2>1. PICK n : Sound(n) /\ req' = [req EXCEPT ![r] = n] /\ n.at \in {"done", "insert"}
    <3>1. q.at = "row" /\ q.method \in {"PATCH", "PUT", "READ", "WRITE"}
      BY <1>1, <1>5 DEF NoRow, Sound
    <3>2. CASE Goes(r, "insert")
      BY <1>1, <3>1, <3>2, Goers, "insert" \in Places \ {"fill"} DEF OnRecord, Places
    <3>3. CASE Answer(r, "bad", FALSE) \/ Answer(r, "notfound", FALSE)
      BY <1>1, <3>3, Answered DEF Answers
    <3> QED
      BY <1>5, <3>1, <3>2, <3>3 DEF NoRow
  <2> QED
    BY <1>5, <2>1, MovesOn DEF NoRow
<1>6. CASE Fill(r)
  <2>1. PICK n : Sound(n) /\ req' = [req EXCEPT ![r] = n] /\ n.at \in {"update", "done"}
    <3>1. q.at = "fill" /\ Continue(r, PlaceWith(q.method))
      BY <1>6 DEF Fill
    <3>2. PlaceWith(q.method) \in {"update", "done"} /\ (PlaceWith(q.method) = "update" => q.method # "READ")
      BY <1>1, <3>1 DEF PlaceWith, Sound
    <3> QED
      BY <1>1, <3>1, <3>2, Continues DEF OnRecord, Sound
  <2> QED
    BY <1>6, <2>1, Caches DEF Fill
<1>7. CASE AlreadySaved(r)
  <2>1. PICK n : Sound(n) /\ req' = [req EXCEPT ![r] = n] /\ n.at = "done" /\ n.method = q.method
    BY <1>1, <1>7, Concludes DEF AlreadySaved
  <2> QED
    BY <1>7, <2>1, MovesOn DEF AlreadySaved
<1>8. CASE Update(r)
  <2>1. PICK k \in Keys, by \in Contents, alive \in BOOLEAN :
          k = q.key /\ by # None /\ ChangeRow(k, by, alive, r)
    <3>1. q.key \in Keys /\ table[q.key].by \in Contents \ {None} /\ r \in Contents \ {None}
      BY <1>1, <1>8 DEF Update, Sound, OnRecord, IndInv, Typed, TypeOK, Contents
    <3>2. ChangeRow(q.key, IF q.method = "DELETE" THEN table[q.key].by ELSE r,
                    table[q.key].alive /\ ~(q.method = "DELETE"), r)
      BY <1>8 DEF Update
    <3>3. (table[q.key].alive /\ ~(q.method = "DELETE")) \in BOOLEAN
      OBVIOUS
    <3>4. (IF q.method = "DELETE" THEN table[q.key].by ELSE r) \in Contents \ {None}
      BY <3>1
    <3> QED
      BY <3>1, <3>2, <3>3, <3>4
  <2>2. PICK n : /\ Sound(n) /\ req' = [req EXCEPT ![r] = n]
                 /\ \/ n.at = "flush" /\ n.key = k
                    \/ n.at = "done" /\ n.method = "DELETE"
    <3>1. CASE q.method = "DELETE"
      BY <1>1, <1>8, <3>1, Concludes DEF Update
    <3>2. CASE q.method # "DELETE"
      <4> DEFINE n == [q EXCEPT !.at = "flush", !.wrote = TRUE]
      <4>1. n \in Request /\ n.at = "flush" /\ n.key = k /\ n.method = q.method
        BY <1>1, <2>1, Changed
      <4>2. Sound(n)
        BY <1>1, <1>8, <2>1, <3>2, <4>1 DEF Sound, Update
      <4>3. req' = [req EXCEPT ![r] = n]
        BY <1>8, <3>2 DEF Update
      <4> QED
        BY <4>1, <4>2, <4>3
    <3> QED
      BY <3>1, <3>2
  <2>3. /\ req[r].at \notin {"flush", "done"} /\ ~(req[r].at = "insert" /\ req[r].saved)
        /\ UNCHANGED <<cache, now>>
    BY <1>8 DEF Update
  <2>4. /\ n.at \in {"flush", "done"} \/ (n.at = "insert" /\ n.saved)
        /\ n.at = "flush" => n.key = k
        /\ Current(k) = None \/ n.at = "flush" \/ n.method \in {"DELETE", "OTHER"}
    BY <2>2
  <2>5. Sound(n) /\ req' = [req EXCEPT ![r] = n]
    BY <2>2
  <2>6. ChangeRow(k, by, alive, r) /\ by # None
    BY <2>1
  <2> HIDE DEF q
  <2> QED
    BY ONLY IndInv, <2>3, <2>4, <2>5, <2>6, Changes, r \in Requests, k \in Keys, by \in Contents, alive \in BOOLEAN
<1>9. CASE UpdateNothing(r)
  <2>1. q.at = "update" /\ Continue(r, PlaceUpdated(q.method)) /\ PlaceUpdated(q.method) \in {"done", "flush"}
    BY <1>9 DEF UpdateNothing, PlaceUpdated
  <2>2. PlaceUpdated(q.method) = "flush" => q.method \in {"PATCH", "PUT", "WRITE"}
    BY <1>1, <2>1 DEF PlaceUpdated, Sound
  <2>3. PICK n : Sound(n) /\ req' = [req EXCEPT ![r] = n] /\ n.at \in {"done", "flush"}
    BY <1>1, <2>1, <2>2, Continues DEF OnRecord
  <2> QED
    BY <1>9, <2>3, MovesOn DEF UpdateNothing
<1>10. CASE Fail(r)
  <2>1. PICK n : Sound(n) /\ req' = [req EXCEPT ![r] = n] /\ n.at = "done" /\ n.method = q.method
    BY <1>1, <1>10, Answered DEF Fail, Answers
  <2> QED
    BY <1>10, <2>1, MovesOn DEF Fail
<1>11. CASE Flush(r)
  BY <1>11, Deletes
<1> QED
  BY <1>2, <1>3, <1>4, <1>5, <1>6, <1>7, <1>8, <1>9, <1>10, <1>11 DEF Handler

(* Every step keeps the invariant.                                         *)
LEMMA NextInv == IndInv /\ [Next]_vars => IndInv'
<1> SUFFICES ASSUME IndInv, [Next]_vars PROVE IndInv'
  OBVIOUS
<1> USE NamesAssumption, TimesAssumption, RowsAssumption
<1>1. ASSUME NEW r \in Requests PROVE Sound(req[r]) /\ req[r] \in Request
  BY DEF IndInv, Typed, Sound
<1>2. ASSUME NEW r \in Requests, NEW k \in Keys, NEW name \in Names, NEW method \in Methods \ {"OTHER"},
             Begin(r, method, k, name)
      PROVE  IndInv'
  <2>1. PICK n : Sound(n) /\ req' = [req EXCEPT ![r] = n] /\ n.at = FirstPlace(method)
    BY <1>1, <1>2, Starts
  <2>2. FirstPlace(method) # "fill"
    BY DEF FirstPlace, Methods
  <2> QED
    BY <1>2, <2>1, <2>2, MovesOn DEF Begin
<1>3. ASSUME NEW r \in Requests, NEW k \in Keys, HookInserts(r, k)
      PROVE  IndInv'
  <2> DEFINE n == [req[r] EXCEPT !.saved = TRUE, !.wrote = TRUE]
  <2>1. n \in Request /\ n.at = "insert" /\ n.saved
    BY <1>1, <1>3, Stored DEF HookInserts
  <2>2. Sound(n) /\ req' = [req EXCEPT ![r] = n]
    BY <1>3, <2>1 DEF HookInserts, Sound, OnRecord
  <2>3. r \in Contents /\ r # None /\ Current(k) = None
    BY <1>3 DEF HookInserts, Contents, Current, IndInv, Typed, TypeOK
  <2>4. req[r].at \notin {"flush", "done"} /\ ~(req[r].at = "insert" /\ req[r].saved)
    BY <1>3 DEF HookInserts
  <2>5. ChangeRow(k, r, TRUE, r) /\ UNCHANGED <<cache, now>>
    BY <1>3 DEF HookInserts
  <2>6. /\ n.at \in {"flush", "done"} \/ (n.at = "insert" /\ n.saved)
        /\ n.at = "flush" => n.key = k
    BY <2>1
  <2> HIDE DEF n
  <2> QED
    BY ONLY IndInv, <2>2, <2>3, <2>4, <2>5, <2>6, Changes, r \in Requests, k \in Keys, TRUE \in BOOLEAN
<1>4. ASSUME NEW r \in Requests, NEW k \in Keys, Insert(r, k)
      PROVE  IndInv'
  <2>1. PICK n : Sound(n) /\ req' = [req EXCEPT ![r] = n] /\ n.at = "done"
    BY <1>1, <1>4, Concludes DEF Insert
  <2>2. r \in Contents /\ r # None /\ Current(k) = None
    BY <1>4 DEF Insert, Contents, Current, IndInv, Typed, TypeOK
  <2>3. req[r].at \notin {"flush", "done"} /\ ~(req[r].at = "insert" /\ req[r].saved)
    BY <1>4 DEF Insert
  <2>4. ChangeRow(k, r, TRUE, r) /\ UNCHANGED <<cache, now>>
    BY <1>4 DEF Insert
  <2>5. /\ n.at \in {"flush", "done"} \/ (n.at = "insert" /\ n.saved)
        /\ n.at = "flush" => n.key = k
    BY <2>1
  <2>6. Sound(n) /\ req' = [req EXCEPT ![r] = n]
    BY <2>1
  <2> QED
    BY ONLY IndInv, <2>2, <2>3, <2>4, <2>5, <2>6, Changes, r \in Requests, k \in Keys, TRUE \in BOOLEAN
<1>5. ASSUME NEW r \in Requests, NEW k \in Keys, NEW alive \in BOOLEAN, Elsewhere(r, k, alive)
      PROVE  IndInv'
  <2> DEFINE n == [req[r] EXCEPT !.at = "done", !.method = "OTHER"]
  <2>1. n \in Request /\ n.at = "done" /\ n.method = "OTHER"
    BY <1>1, Left
  <2>2. Sound(n) /\ req' = [req EXCEPT ![r] = n]
    BY <1>5, <2>1 DEF Elsewhere, Sound, OnRecord
  <2>3. r \in Contents /\ r # None
    BY DEF Contents
  <2>4. ChangeRow(k, r, alive, r) /\ UNCHANGED <<cache, now>>
    BY <1>5 DEF Elsewhere
  <2>5. req[r].at \notin {"flush", "done"} /\ ~(req[r].at = "insert" /\ req[r].saved)
    BY <1>5 DEF Elsewhere
  <2>6. /\ n.at \in {"flush", "done"} \/ (n.at = "insert" /\ n.saved)
        /\ n.at = "flush" => n.key = k
        /\ Current(k) = None \/ n.at = "flush" \/ n.method \in {"DELETE", "OTHER"}
    BY <2>1
  <2> HIDE DEF n
  <2> QED
    BY ONLY IndInv, <2>2, <2>3, <2>4, <2>5, <2>6, Changes, r \in Requests, k \in Keys, alive \in BOOLEAN
<1>6. CASE UNCHANGED vars
  BY <1>6 DEF vars, IndInv, Typed, TypeOK, Sound, FillsRight, ReadableAt, Current, CacheRight, EntryRight,
              ChangersRight, RaceRight
<1> QED
  BY <1>2, <1>3, <1>4, <1>5, <1>6, Handles, Lets, Ticks DEF Next

-----------------------------------------------------------------------------
(* The inductive invariant holds whatever requests, keys and delays are.   *)
THEOREM Invariance == Spec => []IndInv
BY InitInv, NextInv, PTL DEF Spec

(* The variables have their types.                                         *)
THEOREM TypeCorrect == Spec => []TypeOK
<1>1. IndInv => TypeOK
  BY DEF IndInv, Typed
<1> QED
  BY <1>1, Invariance, PTL

(* A cached record is never staler than the read, the replica and          *)
(* CACHE_EXPIRE make it, whoever changed the row (rest/cache.go).          *)
THEOREM BoundedStale == Spec => []BoundedStaleness
<1>1. IndInv => BoundedStaleness
  <2> SUFFICES ASSUME IndInv, NEW k \in Keys, NEW name \in Names,
                      Hit(k, name), cache[<<k, name>>].row # Current(k)
               PROVE  \E p \in past : /\ p.key = k /\ p.row = cache[<<k, name>>].row
                                      /\ now < p.until + Lag + MaxDelay + Expire
    BY DEF BoundedStaleness
  <2> DEFINE e == cache[<<k, name>>]
  <2>1. e \in Entries /\ EntryRight(k, e) /\ now \in Nat
    BY DEF IndInv, Typed, TypeOK, CacheRight
  <2>2. e.row # None /\ (e.until = 0 \/ e.until > now)
    BY DEF Hit
  <2>3. PICK p \in past : p.key = k /\ p.row = e.row /\ e.until <= p.until + Lag + MaxDelay + Expire
    BY <2>1, <2>2 DEF EntryRight
  <2>4. e.until \in Nat /\ p.until \in Nat /\ e.until > now
    BY <2>1, <2>2, <2>3 DEF EntryRight, Entries, IndInv, Typed, TypeOK, Pasts
  <2>5. now < p.until + Lag + MaxDelay + Expire
    BY <2>1, <2>3, <2>4, TimesAssumption
  <2> QED
    BY <2>3, <2>5
<1> QED
  BY <1>1, Invariance, PTL

(* "delete the cache after the update": a record cached while it was the   *)
(* row is stale only until the update that changed it ends, unless it was  *)
(* a DELETE or another process's (rest/model.go UpdateRecord).             *)
THEOREM StaleRaces == Spec => []StaleOnlyInRace
<1>1. IndInv => StaleOnlyInRace
  BY DEF IndInv, RaceRight, StaleOnlyInRace, Hit
<1> QED
  BY <1>1, Invariance, PTL

-----------------------------------------------------------------------------
(***************************************************************************)
(* What the answers of requests say of the rows, for any requests and keys *)
(* (AnswersRight), and how many rows a request creates (InsertedOnce).     *)
(***************************************************************************)
Writing == {"POST", "PATCH", "PUT", "WRITE"}

(* There is a row, deleted or not.                                         *)
Exists(k) == table[k].by # None

(* What was read once, or is cached, has a row: none is ever removed.      *)
RowsKnown ==
  /\ \A p \in past : p.row # None => Exists(p.key)
  /\ \A kn \in Keys \X Names : cache[kn].row # None => Exists(kn[1])

(* A request that found a record to cache, update or flush has its row.    *)
OnRow(q) == q.at \in {"fill", "flush"} \/ (q.at = "update" /\ q.method # "DELETE")

(* It knows that it wrote one, and answers accordingly.                    *)
Honest(q) ==
  /\ q.at # "done" => q.answer = "none" /\ (q.wrote <=> q.at = "flush" \/ q.saved)
  /\ q.saved => q.at = "insert"
  /\ q.answer = "ok" /\ q.method \in Writing => q.wrote
  /\ q.answer \in {"bad", "notfound"} => ~q.wrote

AnsInv ==
  /\ RowsKnown
  /\ \A r \in Requests : Honest(req[r]) /\ (OnRow(req[r]) => Exists(req[r].key))

(* Nothing was written for it so far.                                      *)
Unwritten(q) ==
  q.at \in {"idle", "look", "row", "fill", "update"} \/ (q.at = "insert" /\ ~q.saved)

OnceInv == InsertedOnce /\ \A r \in Requests : Unwritten(req[r]) => WrittenBy(r) = {}

(* At the start no record has moved and nothing was written.               *)
LEMMA AnsInit == Init => AnsInv /\ OnceInv
<1> SUFFICES ASSUME Init PROVE AnsInv /\ OnceInv
  OBVIOUS
<1>1. \A r \in Requests :
        /\ req[r].at = "idle" /\ req[r].answer = "none" /\ ~req[r].wrote /\ ~req[r].saved
        /\ WrittenBy(r) = {}
  BY RowsAssumption DEF Init, WrittenBy
<1>2. AnsInv
  BY <1>1 DEF Init, AnsInv, RowsKnown, NoEntry, Honest, OnRow
<1>3. OnceInv
  BY <1>1 DEF OnceInv, InsertedOnce
<1> QED
  BY <1>2, <1>3

-----------------------------------------------------------------------------
(* What the steps make of a request's record *)

(* A request that ended keeps the record it had, with its answer.          *)
LEMMA EndedIs ==
  ASSUME NEW q \in Request, NEW a \in Answers, NEW w \in BOOLEAN
  PROVE  LET n == Ended(q, a, w)
         IN  n.at = "done" /\ n.method = q.method /\ n.answer = a /\ n.wrote = w /\ ~n.saved
BY DEF Ended, Request

(* An answer is honest if it does not hide that nothing was written.       *)
LEMMA AnsweredIs ==
  ASSUME NEW r \in Requests, req[r] \in Request, NEW a \in Answers, NEW w \in BOOLEAN, Answer(r, a, w),
         a = "ok" /\ req[r].method \in Writing => w,
         a \in {"bad", "notfound"} => ~w
  PROVE  \E n : req' = [req EXCEPT ![r] = n] /\ n.at = "done" /\ Honest(n)
<1> DEFINE n == Ended(req[r], a, w)
<1>1. n.at = "done" /\ n.method = req[r].method /\ n.answer = a /\ n.wrote = w /\ ~n.saved
  BY EndedIs
<1>2. req' = [req EXCEPT ![r] = n]
  BY DEF Answer, Ended
<1>3. Honest(n)
  BY <1>1 DEF Honest
<1> HIDE DEF n
<1> QED
  BY <1>1, <1>2, <1>3

(* A request that concludes is answered by what it came to.                *)
LEMMA ConcludedIs ==
  ASSUME NEW r \in Requests, req[r] \in Request, NEW w \in BOOLEAN, Conclude(r, w),
         req[r].method \in Writing => w
  PROVE  \E n : req' = [req EXCEPT ![r] = n] /\ n.at = "done" /\ Honest(n)
<1>1. CASE Answer(r, "ok", w)
  BY <1>1, AnsweredIs, "ok" \in Answers DEF Answers
<1>2. CASE Answer(r, "notok", w)
  BY <1>2, AnsweredIs, "notok" \in Answers DEF Answers
<1> QED
  BY <1>1, <1>2 DEF Conclude

(* A request that moves on keeps what it has written.                      *)
LEMMA MovedIs ==
  ASSUME NEW r \in Requests, req[r] \in Request, Honest(req[r]), req[r].at \notin {"flush", "done"}, ~req[r].saved,
         NEW p \in Places \ {"flush", "done"}, Goes(r, p)
  PROVE  \E n : /\ req' = [req EXCEPT ![r] = n] /\ Honest(n)
                /\ n.at = p /\ n.key = req[r].key /\ n.method = req[r].method /\ ~n.saved
<1> DEFINE n == [req[r] EXCEPT !.at = p]
<1>1. /\ n.at = p /\ n.key = req[r].key /\ n.method = req[r].method /\ n.saved = req[r].saved
      /\ n.answer = req[r].answer /\ n.wrote = req[r].wrote
  BY DEF Request
<1>2. req' = [req EXCEPT ![r] = n]
  BY DEF Goes
<1>3. Honest(n)
  BY <1>1 DEF Honest
<1> HIDE DEF n
<1> QED
  BY <1>1, <1>2, <1>3

-----------------------------------------------------------------------------
(* The two kinds of steps: rows and what they were before stay, and the    *)
(* cache gets nothing that has no row ...                                  *)
LEMMA RowsStay ==
  ASSUME IndInv, AnsInv, OnceInv, NEW r \in Requests, NEW n, req' = [req EXCEPT ![r] = n],
         UNCHANGED <<table, past>>,
         \A kn \in Keys \X Names : cache'[kn].row # None => Exists(kn[1]),
         Honest(n), OnRow(n) => Exists(n.key),
         Unwritten(n) => Unwritten(req[r])
  PROVE  AnsInv' /\ OnceInv'
<1>1. /\ req'[r] = n
      /\ \A s \in Requests \ {r} : req'[s] = req[s]
  BY DEF IndInv, Typed, TypeOK
<1>2. \A k : Exists(k)' <=> Exists(k)
  BY DEF Exists
<1>3. AnsInv'
  BY <1>1, <1>2 DEF AnsInv, RowsKnown, Honest, OnRow
<1>4. \A s : WrittenBy(s)' = WrittenBy(s)
  BY DEF WrittenBy
<1>5. OnceInv'
  BY <1>1, <1>4 DEF OnceInv, InsertedOnce, Unwritten
<1> QED
  BY <1>3, <1>5

(* ... and one row is changed, for the first time for this request or by   *)
(* none.                                                                   *)
LEMMA RowChanges ==
  ASSUME IndInv, AnsInv, OnceInv, NEW r \in Requests, NEW n, req' = [req EXCEPT ![r] = n],
         NEW k \in Keys, NEW by \in Contents, NEW alive \in BOOLEAN, by # None, ChangeRow(k, by, alive, r),
         UNCHANGED cache,
         Honest(n), OnRow(n) => n.key = k,
         (by = r /\ Unwritten(req[r])) \/ by = table[k].by,
         ~Unwritten(n)
  PROVE  AnsInv' /\ OnceInv'
<1> DEFINE new == [key |-> k, row |-> Current(k), until |-> now, changer |-> r]
<1>1. /\ req'[r] = n
      /\ \A s \in Requests \ {r} : req'[s] = req[s]
  BY DEF IndInv, Typed, TypeOK
<1>2. /\ past' = past \cup {new} /\ new.key = k /\ new.row \in {table[k].by, None}
      /\ table'[k].by = by
      /\ \A j \in Keys \ {k} : table'[j] = table[j]
  BY DEF ChangeRow, Current, IndInv, Typed, TypeOK
<1> HIDE DEF new
<1>3. Exists(k)' /\ \A j \in Keys : Exists(j) => Exists(j)'
  BY <1>2 DEF Exists
<1>4. AnsInv'
  <2>1. \A p \in past : p.key \in Keys
    BY DEF IndInv, Typed, TypeOK, Pasts
  <2>2. RowsKnown'
    BY <1>2, <1>3, <2>1 DEF AnsInv, RowsKnown
  <2>3. \A s \in Requests : OnRow(req[s]) => req[s].key \in Keys
    BY DEF IndInv, Typed, Sound, OnRow, OnRecord
  <2>4. ASSUME NEW s \in Requests
        PROVE  Honest(req'[s]) /\ (OnRow(req'[s]) => table'[req'[s].key].by # None)
    <3>1. CASE s = r
      BY <1>1, <1>3, <3>1 DEF Exists
    <3>2. CASE s # r
      BY <1>1, <1>3, <2>3, <3>2 DEF AnsInv, Exists
    <3> QED
      BY <3>1, <3>2
  <2> QED
    BY <2>2, <2>4 DEF AnsInv, Honest, OnRow, Exists
<1>5. ASSUME NEW s \in Requests
      PROVE  WrittenBy(s)' \subseteq WrittenBy(s) \cup (IF by = s THEN {k} ELSE {})
  <2> SUFFICES ASSUME NEW j \in Keys, j \in WrittenBy(s)', j \notin WrittenBy(s)
               PROVE  by = s /\ j = k
    BY DEF WrittenBy
  <2>1. s # None
    BY RowsAssumption
  <2>2. table[j].by # s /\ ~\E p \in past : p.key = j /\ p.row = s
    BY DEF WrittenBy
  <2>3. table'[j].by = s \/ \E p \in past' : p.key = j /\ p.row = s
    BY DEF WrittenBy
  <2>4. ~(new.key = j /\ new.row = s)
    BY <1>2, <2>1, <2>2
  <2>5. table'[j].by = s
    BY <1>2, <2>2, <2>3, <2>4
  <2> QED
    BY <1>2, <2>2, <2>5
<1>6. CASE by = r /\ Unwritten(req[r])
  <2>1. WrittenBy(r)' \subseteq {k} /\ \A s \in Requests \ {r} : WrittenBy(s)' \subseteq WrittenBy(s)
    BY <1>5, <1>6 DEF OnceInv
  <2> QED
    BY <1>1, <1>4, <2>1 DEF OnceInv, InsertedOnce, Unwritten
<1>7. CASE by = table[k].by
  <2>1. ASSUME NEW s \in Requests PROVE WrittenBy(s)' \subseteq WrittenBy(s)
    <3>1. by = s => k \in WrittenBy(s)
      BY <1>7 DEF WrittenBy
    <3> QED
      BY <1>5, <3>1
  <2> QED
    BY <1>1, <1>4, <2>1 DEF OnceInv, InsertedOnce, Unwritten
<1> QED
  BY <1>6, <1>7

-----------------------------------------------------------------------------
(* The steps *)

(* A step of a handler keeps the invariants, case by case.                 *)
LEMMA HandlesAnswers ==
  ASSUME IndInv, AnsInv, OnceInv, NEW r \in Requests, Handler(r)
  PROVE  AnsInv' /\ OnceInv'
<1> USE RowsAssumption
<1> DEFINE q == req[r]
<1>1. Sound(q) /\ q \in Request /\ Honest(q) /\ (OnRow(q) => Exists(q.key))
  BY DEF IndInv, Typed, Sound, AnsInv
<1>2. \A kn \in Keys \X Names : cache[kn].row # None => Exists(kn[1])
  BY DEF AnsInv, RowsKnown
<1>3. CASE Refuse(r)
  <2>1. Answer(r, "bad", FALSE) /\ UNCHANGED <<table, past, cache, now>> /\ Unwritten(q)
    BY <1>3 DEF Refuse, Unwritten
  <2>2. PICK n : req' = [req EXCEPT ![r] = n] /\ n.at = "done" /\ Honest(n)
    BY <1>1, <2>1, AnsweredIs, "bad" \in Answers DEF Answers
  <2> QED
    BY <1>2, <2>1, <2>2, RowsStay DEF OnRow, Unwritten
<1>4. CASE Look(r)
  <2>1. q.at = "look" /\ q.key \in Keys /\ q.name \in Names /\ UNCHANGED <<table, past, cache, now>>
    BY <1>1, <1>4 DEF Look, Sound, OnRecord, Request
  <2>2. ~q.wrote /\ ~q.saved
    BY <1>1, <2>1 DEF Honest, Request
  <2>3. CASE Hit(q.key, q.name) /\ q.method = "READ"
    <3>1. Conclude(r, q.wrote)
      BY <1>4, <2>3 DEF Look, Continue, PlaceWith
    <3>2. PICK n : req' = [req EXCEPT ![r] = n] /\ n.at = "done" /\ Honest(n)
      BY <1>1, <2>3, <3>1, ConcludedIs, q.wrote \in BOOLEAN DEF Request, Writing
    <3> QED
      BY <1>2, <2>1, <3>2, RowsStay DEF OnRow, Unwritten
  <2>4. CASE Hit(q.key, q.name) /\ q.method # "READ"
    <3>1. q.method \in {"PATCH", "PUT", "WRITE"}
      BY <1>1, <2>1, <2>4 DEF Sound
    <3>2. Goes(r, "update")
      BY <1>4, <2>4, <3>1 DEF Look, Continue, PlaceWith
    <3>3. PICK n : req' = [req EXCEPT ![r] = n] /\ Honest(n) /\ n.at = "update" /\ n.key = q.key
      BY <1>1, <2>1, <2>2, <3>2, MovedIs, "update" \in Places DEF Places
    <3>4. Exists(q.key)
      BY <1>2, <2>1, <2>4 DEF Hit
    <3> QED
      BY <1>2, <2>1, <3>3, <3>4, RowsStay DEF OnRow, Unwritten
  <2>5. CASE ~Hit(q.key, q.name)
    <3>1. Goes(r, "row")
      BY <1>4, <2>5 DEF Look
    <3>2. PICK n : req' = [req EXCEPT ![r] = n] /\ Honest(n) /\ n.at = "row"
      BY <1>1, <2>1, <2>2, <3>1, MovedIs, "row" \in Places DEF Places
    <3> QED
      BY <1>2, <2>1, <3>2, RowsStay DEF OnRow, Unwritten
  <2> QED
    BY <2>3, <2>4, <2>5
<1>5. CASE Row(r)
  <2>1. PICK row \in Readable(q.key) \ {None} :
          req' = [req EXCEPT ![r] = [@ EXCEPT !.at = "fill", !.got = row, !.readAt = now]]
    BY <1>5 DEF Row
  <2> DEFINE n == [q EXCEPT !.at = "fill", !.got = row, !.readAt = now]
  <2>2. q.at = "row" /\ q.key \in Keys /\ UNCHANGED <<table, past, cache, now>>
    BY <1>1, <1>5 DEF Row, Sound, OnRecord
  <2>3. Exists(q.key)
    BY <2>1, <2>2 DEF Readable, Current, AnsInv, RowsKnown, Exists
  <2>4. n.at = "fill" /\ n.key = q.key /\ n.saved = q.saved /\ n.answer = q.answer /\ n.wrote = q.wrote
    BY <1>1 DEF Request
  <2>5. Honest(n) /\ req' = [req EXCEPT ![r] = n]
    BY <1>1, <2>1, <2>2, <2>4 DEF Honest
  <2> HIDE DEF n
  <2> QED
    BY <1>2, <2>2, <2>3, <2>4, <2>5, RowsStay DEF Unwritten
<1>6. CASE NoRow(r)
  <2>1. q.at = "row" /\ UNCHANGED <<table, past, cache, now>> /\ q.method \in {"PATCH", "PUT", "READ", "WRITE"}
    BY <1>1, <1>6 DEF NoRow, Sound
  <2>2. ~q.saved
    BY <1>1, <2>1 DEF Honest
  <2>3. CASE Goes(r, "insert")
    <3>1. PICK n : req' = [req EXCEPT ![r] = n] /\ Honest(n) /\ n.at = "insert"
      BY <1>1, <2>1, <2>2, <2>3, MovedIs, "insert" \in Places DEF Places
    <3> QED
      BY <1>2, <2>1, <3>1, RowsStay DEF OnRow, Unwritten
  <2>4. CASE Answer(r, "bad", FALSE) \/ Answer(r, "notfound", FALSE)
    <3>1. PICK n : req' = [req EXCEPT ![r] = n] /\ n.at = "done" /\ Honest(n)
      BY <1>1, <2>4, AnsweredIs, {"bad", "notfound"} \subseteq Answers DEF Answers
    <3> QED
      BY <1>2, <2>1, <3>1, RowsStay DEF OnRow, Unwritten
  <2> QED
    BY <1>6, <2>1, <2>3, <2>4 DEF NoRow
<1>7. CASE Fill(r)
  <2>1. q.at = "fill" /\ q.key \in Keys /\ q.name \in Names /\ UNCHANGED <<table, past, now>>
    BY <1>1, <1>7 DEF Fill, Sound, OnRecord, Request
  <2>2. Exists(q.key) /\ ~q.wrote /\ ~q.saved
    BY <1>1, <2>1 DEF OnRow, Honest, Request
  <2>3. \A kn \in Keys \X Names : cache'[kn].row # None => Exists(kn[1])
    <3> SUFFICES ASSUME NEW kn \in Keys \X Names, cache'[kn].row # None PROVE Exists(kn[1])
      OBVIOUS
    <3>1. CASE kn = <<q.key, q.name>>
      BY <2>2, <3>1
    <3>2. CASE kn # <<q.key, q.name>>
      BY <1>2, <1>7, <3>2 DEF Fill, IndInv, Typed, TypeOK
    <3> QED
      BY <3>1, <3>2
  <2>4. CASE q.method = "READ"
    <3>1. Conclude(r, q.wrote)
      BY <1>7, <2>4 DEF Fill, Continue, PlaceWith
    <3>2. PICK n : req' = [req EXCEPT ![r] = n] /\ n.at = "done" /\ Honest(n)
      BY <1>1, <2>4, <3>1, ConcludedIs, q.wrote \in BOOLEAN DEF Request, Writing
    <3> QED
      BY <2>1, <2>3, <3>2, RowsStay DEF OnRow, Unwritten
  <2>5. CASE q.method # "READ"
    <3>1. q.method \in {"PATCH", "PUT", "WRITE"}
      BY <1>1, <2>1, <2>5 DEF Sound
    <3>2. Goes(r, "update")
      BY <1>7, <3>1 DEF Fill, Continue, PlaceWith
    <3>3. PICK n : req' = [req EXCEPT ![r] = n] /\ Honest(n) /\ n.at = "update" /\ n.key = q.key
      BY <1>1, <2>1, <2>2, <3>2, MovedIs, "update" \in Places DEF Places
    <3> QED
      BY <2>1, <2>2, <2>3, <3>3, RowsStay DEF OnRow, Unwritten
  <2> QED
    BY <2>4, <2>5
<1>8. CASE AlreadySaved(r)
  <2>1. q.at = "insert" /\ q.saved /\ Conclude(r, TRUE) /\ UNCHANGED <<table, past, cache, now>>
    BY <1>8 DEF AlreadySaved
  <2>2. PICK n : req' = [req EXCEPT ![r] = n] /\ n.at = "done" /\ Honest(n)
    BY <1>1, <2>1, ConcludedIs, TRUE \in BOOLEAN
  <2> QED
    BY <1>2, <2>1, <2>2, RowsStay DEF OnRow, Unwritten
<1>9. CASE Update(r)
  <2>1. PICK k \in Keys : k = q.key /\ table[k].by \in Contents \ {None} /\ q.at = "update" /\ UNCHANGED cache
    BY <1>1, <1>9 DEF Update, Sound, OnRecord, IndInv, Typed, TypeOK
  <2>2. r \in Contents \ {None} /\ Unwritten(q)
    BY <2>1 DEF Contents, Unwritten
  <2>3. CASE q.method = "DELETE"
    <3>1. ChangeRow(k, table[k].by, FALSE, r) /\ Conclude(r, TRUE)
      BY <1>9, <2>1, <2>3 DEF Update
    <3>2. PICK n : req' = [req EXCEPT ![r] = n] /\ n.at = "done" /\ Honest(n)
      BY <1>1, <3>1, ConcludedIs, TRUE \in BOOLEAN
    <3>3. ~OnRow(n) /\ ~Unwritten(n)
      BY <3>2 DEF OnRow, Unwritten
    <3> HIDE DEF q
    <3> QED
      BY <2>1, <3>1, <3>2, <3>3, RowChanges, FALSE \in BOOLEAN
  <2>4. CASE q.method # "DELETE"
    <3> DEFINE alive == table[k].alive
               n == [q EXCEPT !.at = "flush", !.wrote = TRUE]
    <3>1. ChangeRow(k, r, alive, r) /\ req' = [req EXCEPT ![r] = n] /\ alive \in BOOLEAN
      BY <1>9, <2>1, <2>4 DEF Update, IndInv, Typed, TypeOK
    <3>2. n.at = "flush" /\ n.key = q.key /\ n.saved = q.saved /\ n.answer = q.answer /\ n.wrote
      BY <1>1 DEF Request
    <3>3. Honest(n) /\ ~Unwritten(n) /\ n.key = k
      BY <1>1, <2>1, <3>2 DEF Honest, Unwritten
    <3> HIDE DEF n, alive, q
    <3> QED
      BY <2>1, <2>2, <3>1, <3>3, RowChanges DEF q
  <2> QED
    BY <2>3, <2>4
<1>10. CASE UpdateNothing(r)
  <2>1. q.at = "update" /\ UNCHANGED <<table, past, cache, now>> /\ ~Exists(q.key)
    BY <1>10 DEF UpdateNothing, Exists
  <2>2. q.method = "DELETE"
    BY <1>1, <2>1 DEF OnRow
  <2>3. Conclude(r, q.wrote)
    BY <1>10, <2>2 DEF UpdateNothing, Continue, PlaceUpdated
  <2>4. PICK n : req' = [req EXCEPT ![r] = n] /\ n.at = "done" /\ Honest(n)
    BY <1>1, <2>2, <2>3, ConcludedIs, q.wrote \in BOOLEAN DEF Request, Writing
  <2> QED
    BY <1>2, <2>1, <2>4, RowsStay DEF OnRow, Unwritten
<1>11. CASE Fail(r)
  <2>1. Answer(r, "notok", FALSE) /\ UNCHANGED <<table, past, cache, now>>
    BY <1>11 DEF Fail
  <2>2. PICK n : req' = [req EXCEPT ![r] = n] /\ n.at = "done" /\ Honest(n)
    BY <1>1, <2>1, AnsweredIs, "notok" \in Answers DEF Answers
  <2> QED
    BY <1>2, <2>1, <2>2, RowsStay DEF OnRow, Unwritten
<1>12. CASE Flush(r)
  <2>1. q.at = "flush" /\ q.wrote /\ Conclude(r, q.wrote) /\ UNCHANGED <<table, past, now>>
    BY <1>1, <1>12 DEF Flush, Honest
  <2>2. \A kn \in Keys \X Names : cache'[kn].row # None => Exists(kn[1])
    BY <1>2, <1>12 DEF Flush, NoEntry, IndInv, Typed, TypeOK
  <2>3. PICK n : req' = [req EXCEPT ![r] = n] /\ n.at = "done" /\ Honest(n)
    BY <1>1, <2>1, ConcludedIs, q.wrote \in BOOLEAN DEF Request
  <2> QED
    BY <2>1, <2>2, <2>3, RowsStay DEF OnRow, Unwritten
<1> QED
  BY <1>3, <1>4, <1>5, <1>6, <1>7, <1>8, <1>9, <1>10, <1>11, <1>12 DEF Handler

(* So does every step: a request that begins is new, time and others only  *)
(* touch what is not the request's own.                                    *)
LEMMA NextAnswers == IndInv /\ AnsInv /\ OnceInv /\ [Next]_vars => AnsInv' /\ OnceInv'
<1> SUFFICES ASSUME IndInv, AnsInv, OnceInv, [Next]_vars PROVE AnsInv' /\ OnceInv'
  OBVIOUS
<1> USE RowsAssumption
<1>1. ASSUME NEW r \in Requests
      PROVE  Sound(req[r]) /\ req[r] \in Request /\ Honest(req[r]) /\ r \in Contents \ {None}
  BY DEF IndInv, Typed, Sound, AnsInv, Contents
<1>2. \A kn \in Keys \X Names : cache[kn].row # None => Exists(kn[1])
  BY DEF AnsInv, RowsKnown
<1>3. ASSUME NEW r \in Requests, NEW k \in Keys, NEW name \in Names, NEW method \in Methods \ {"OTHER"},
             Begin(r, method, k, name)
      PROVE  AnsInv' /\ OnceInv'
  <2> DEFINE key == IF method = "POST" THEN None ELSE k
             p == FirstPlace(method)
             n == [req[r] EXCEPT !.at = p, !.method = method, !.name = name, !.key = key]
  <2>1. \/ method = "POST" /\ p = "insert"
        \/ method \in {"PATCH", "PUT", "READ", "WRITE"} /\ p = "look"
        \/ method = "DELETE" /\ p = "update"
    BY DEF FirstPlace, Methods
  <2>2. req[r].at = "idle" /\ req' = [req EXCEPT ![r] = n] /\ UNCHANGED <<table, past, cache, now>>
    BY <1>3 DEF Begin
  <2> HIDE DEF key, p
  <2>3. /\ n.at = p /\ n.method = method
        /\ n.saved = req[r].saved /\ n.answer = req[r].answer /\ n.wrote = req[r].wrote
    BY <1>1 DEF Request
  <2> HIDE DEF n
  <2>4. Honest(n) /\ ~OnRow(n)
    BY <1>1, <2>1, <2>2, <2>3 DEF Honest, OnRow
  <2>5. Unwritten(req[r])
    BY <2>2 DEF Unwritten
  <2> QED
    BY <1>2, <2>2, <2>4, <2>5, RowsStay
<1>4. ASSUME NEW r \in Requests, NEW k \in Keys, HookInserts(r, k)
      PROVE  AnsInv' /\ OnceInv'
  <2> DEFINE n == [req[r] EXCEPT !.saved = TRUE, !.wrote = TRUE]
  <2>1. req[r].at = "insert" /\ Unwritten(req[r]) /\ req' = [req EXCEPT ![r] = n] /\ UNCHANGED <<cache, now>>
    BY <1>4 DEF HookInserts, Unwritten
  <2>2. n.at = "insert" /\ n.saved /\ n.wrote /\ n.answer = req[r].answer
    BY <1>1, <2>1 DEF Request
  <2> HIDE DEF n
  <2>3. Honest(n) /\ ~OnRow(n) /\ ~Unwritten(n)
    BY <1>1, <2>1, <2>2 DEF Honest, OnRow, Unwritten
  <2>4. ChangeRow(k, r, TRUE, r)
    BY <1>4 DEF HookInserts
  <2> QED
    BY <1>1, <2>1, <2>3, <2>4, RowChanges, TRUE \in BOOLEAN
<1>5. ASSUME NEW r \in Requests, NEW k \in Keys, Insert(r, k)
      PROVE  AnsInv' /\ OnceInv'
  <2>1. Unwritten(req[r]) /\ ChangeRow(k, r, TRUE, r) /\ Conclude(r, TRUE) /\ UNCHANGED <<cache, now>>
    BY <1>5 DEF Insert, Unwritten
  <2>2. PICK n : req' = [req EXCEPT ![r] = n] /\ n.at = "done" /\ Honest(n)
    BY <1>1, <2>1, ConcludedIs, TRUE \in BOOLEAN
  <2>3. ~OnRow(n) /\ ~Unwritten(n)
    BY <2>2 DEF OnRow, Unwritten
  <2> QED
    BY <1>1, <2>1, <2>2, <2>3, RowChanges, TRUE \in BOOLEAN
<1>6. ASSUME NEW r \in Requests, NEW k \in Keys, NEW alive \in BOOLEAN, Elsewhere(r, k, alive)
      PROVE  AnsInv' /\ OnceInv'
  <2> DEFINE n == [req[r] EXCEPT !.at = "done", !.method = "OTHER"]
  <2>1. /\ Unwritten(req[r]) /\ req[r].at = "idle" /\ ChangeRow(k, r, alive, r) /\ UNCHANGED <<cache, now>>
        /\ req' = [req EXCEPT ![r] = n]
    BY <1>6 DEF Elsewhere, Unwritten
  <2>2. n.at = "done" /\ n.saved = req[r].saved /\ n.wrote = req[r].wrote /\ n.answer = req[r].answer
    BY <1>1 DEF Request
  <2> HIDE DEF n
  <2>3. Honest(n) /\ ~OnRow(n) /\ ~Unwritten(n)
    BY <1>1, <2>1, <2>2 DEF Honest, OnRow, Unwritten
  <2> QED
    BY <1>1, <2>1, <2>3, RowChanges
<1>7. ASSUME NEW k \in Keys, NEW name \in Names, Forget(k, name)
      PROVE  AnsInv' /\ OnceInv'
  <2>1. UNCHANGED <<table, past, req>> /\ \A kn \in Keys \X Names : cache'[kn].row # None => Exists(kn[1])
    BY <1>2, <1>7 DEF Forget, NoEntry, IndInv, Typed, TypeOK
  <2> QED
    BY <2>1 DEF AnsInv, OnceInv, RowsKnown, Exists, Honest, OnRow, InsertedOnce, Unwritten, WrittenBy
<1>8. CASE Tick \/ UNCHANGED vars
  BY <1>8 DEF Tick, vars, AnsInv, OnceInv, RowsKnown, Exists, Honest, OnRow, InsertedOnce, Unwritten, WrittenBy
<1> QED
  BY <1>3, <1>4, <1>5, <1>6, <1>7, <1>8, HandlesAnswers DEF Next

(* Both invariants, in every reachable state.                              *)
LEMMA AnswersInvariance == Spec => [](IndInv /\ AnsInv /\ OnceInv)
BY InitInv, NextInv, AnsInit, NextAnswers, PTL DEF Spec

-----------------------------------------------------------------------------
(* A POST, PATCH, PUT or Write that is answered "ok" wrote a row, and one  *)
(* that is refused or finds none wrote nothing: an update that is "ok"     *)
(* because no row was affected does not happen to one that looked before.  *)
THEOREM AnswersTrue == Spec => []AnswersRight
<1>1. AnsInv => AnswersRight
  BY DEF AnsInv, Honest, AnswersRight, Writing
<1> QED
  BY <1>1, AnswersInvariance, PTL

(* A request writes the row of one key at most, whatever hooks insert.     *)
THEOREM OneRowEach == Spec => []InsertedOnce
<1>1. OnceInv => InsertedOnce
  BY DEF OnceInv
<1> QED
  BY <1>1, AnswersInvariance, PTL
=============================================================================
