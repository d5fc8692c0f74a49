------------------------------ MODULE Records ------------------------------
(***************************************************************************)
(* Requests on the records of one model (rest/): the pipeline of hooks of  *)
(* rest/router.go, the row operations of rest/model.go, and the process's  *)
(* cache of records (rest/cache.go), which LossyMap describes.             *)
(*                                                                         *)
(* Rows are written to one database and read from another, a replica that  *)
(* may lag behind (READTAG, WRITETAG).  What a row holds is known by the   *)
(* request that wrote it.  A record may be cached under several names: its *)
(* primary key, and what GetRecord makes of other columns.  Besides the    *)
(* requests of HTTP there are READ and WRITE, the calls of GetRecord and   *)
(* Write by keepers and applications, and OTHER, a change by another       *)
(* process.  Requests that only query (GET, HEAD, lists) touch neither the *)
(* cache nor the rows and are left out, as are the contents of columns.    *)
(***************************************************************************)
EXTENDS Naturals

CONSTANTS Requests, \* each made once
          Keys,     \* primary keys
          Existing, \* those that have a row from the start
          Names,    \* what a record may be cached under
          Primary,  \* the name made of the primary key
          Old,      \* the content of the rows there are from the start
          None,     \* no row, nothing cached
          Expire,   \* CACHE_EXPIRE
          MaxDelay, \* longest time from reading a row to caching it
          Lag,      \* longest time a replica is behind
          MaxTime   \* bound on the clock

ASSUME NamesAssumption == Primary \in Names
ASSUME RowsAssumption ==
  Existing \subseteq Keys /\ Old \notin Requests /\ None \notin Requests \cup {Old} \cup Keys
ASSUME TimesAssumption == Expire \in Nat \ {0} /\ {MaxDelay, Lag, MaxTime} \subseteq Nat

VARIABLES table, \* for each key: who wrote the row, and whether it is alive
          past,  \* history: what rows were before, until when, and who changed that
          cache, \* for each key and name: a row, its expiry, whether it was current then
          now,   \* the clock
          req    \* for each request: how far it is, what it asks for, got and did

vars == <<table, past, cache, now, req>>

Contents == Requests \cup {Old, None}
Methods == {"POST", "PATCH", "PUT", "DELETE", "READ", "WRITE", "OTHER"}
Places == {"idle", "look", "row", "fill", "insert", "update", "flush", "done"}
Answers == {"none", "ok", "bad", "notok", "notfound"}
NoEntry == [row |-> None, until |-> 0, fresh |-> TRUE]

(* Where a request starts.  POST, PATCH and PUT share Valid, of which only *)
(* the last two look for the record first (GetOlder).                      *)
FirstPlace(method) ==
  CASE method = "POST" -> "insert"
    [] method \in {"PATCH", "PUT", "READ", "WRITE"} -> "look"
    [] method = "DELETE" -> "update"

(* Where a request goes with the record it found ...                       *)
PlaceWith(method) ==
  CASE method \in {"PATCH", "PUT", "WRITE"} -> "update"
    [] method = "READ" -> "done"

(* ... and after the row was updated: DELETE leaves the cache alone.       *)
PlaceUpdated(method) == IF method = "DELETE" THEN "done" ELSE "flush"

(* A row as queries see it: they skip rows that are logically deleted.     *)
Current(k) == IF table[k].alive THEN table[k].by ELSE None

(* What the replica may answer: the row, or one replaced within the lag.   *)
Readable(k) ==
  {Current(k)} \cup {p.row : p \in {q \in past : q.key = k /\ now <= q.until + Lag}}

(* An expiry of 0 means never (cache/bucket.go).                           *)
Hit(k, name) ==
  LET e == cache[<<k, name>>]
  IN  e.row # None /\ (e.until = 0 \/ e.until > now)

(* The row of k is now that of by, or is deleted.                          *)
ChangeRow(k, by, alive, r) ==
  /\ table' = [table EXCEPT ![k] = [by |-> by, alive |-> alive]]
  /\ past' = past \cup {[key |-> k, row |-> Current(k), until |-> now, changer |-> r]}

Goes(r, place) == req' = [req EXCEPT ![r].at = place]

(* The request is answered, and its *REST reset and released.              *)
Answer(r, answer, wrote) ==
  req' = [req EXCEPT ![r] = [@ EXCEPT !.at = "done", !.answer = answer, !.wrote = wrote,
                                      !.key = None, !.name = Primary, !.got = None, !.readAt = 0, !.saved = FALSE]]

(* All went well, unless the Did hook of a POST or PATCH says otherwise.   *)
(* What Trigger and the Post hooks return is logged only.                  *)
Conclude(r, wrote) ==
  \/ Answer(r, "ok", wrote)
  \/ req[r].method \in {"POST", "PATCH"} /\ Answer(r, "notok", wrote)

Continue(r, place) == IF place = "done" THEN Conclude(r, req[r].wrote) ELSE Goes(r, place)

-----------------------------------------------------------------------------
(* Faulty variants of steps below, used to see the properties fail.        *)

(* A record is cached without an expiry.                                   *)
FillForEver(r) ==
  /\ req[r].at = "fill"
  /\ cache' = [cache EXCEPT ![<<req[r].key, req[r].name>>] =
                 [row |-> req[r].got, until |-> 0, fresh |-> req[r].got = Current(req[r].key)]]
  /\ Continue(r, PlaceWith(req[r].method))
  /\ UNCHANGED <<table, past, now>>

(* That no row was found is cached, too.                                   *)
RowOrNone(r) ==
  /\ req[r].at = "row"
  /\ \E row \in Readable(req[r].key) :
       req' = [req EXCEPT ![r] = [@ EXCEPT !.at = "fill", !.got = row, !.readAt = now]]
  /\ UNCHANGED <<table, past, cache, now>>

(* UpdateRecord makes another name of the primary key than GetRecord.      *)
FlushOther(r) ==
  /\ req[r].at = "flush"
  /\ cache' = [kn \in DOMAIN cache |->
                 IF kn[1] = req[r].key /\ kn[2] # Primary THEN NoEntry ELSE cache[kn]]
  /\ Conclude(r, req[r].wrote)
  /\ UNCHANGED <<table, past, now>>

(* A failed update counts as done.                                         *)
UpdateUnchecked(r) ==
  /\ req[r].at = "update"
  /\ Continue(r, PlaceUpdated(req[r].method))
  /\ UNCHANGED <<table, past, cache, now>>

(* CreateRow inserts whether or not the row was saved before.              *)
InsertAgain(r, k) ==
  /\ req[r].at = "insert"
  /\ table[k].by = None
  /\ ChangeRow(k, r, TRUE, r)
  /\ Conclude(r, TRUE)
  /\ UNCHANGED <<cache, now>>

-----------------------------------------------------------------------------

Init ==
  /\ table = [k \in Keys |-> IF k \in Existing THEN [by |-> Old, alive |-> TRUE]
                                               ELSE [by |-> None, alive |-> FALSE]]
  /\ past = {}
  /\ cache = [kn \in Keys \X Names |-> NoEntry]
  /\ now = 1
  /\ req = [r \in Requests |->
              [at |-> "idle", method |-> "READ", key |-> None, name |-> Primary,
               got |-> None, readAt |-> 0, saved |-> FALSE, wrote |-> FALSE, answer |-> "none"]]

(* The request is routed to its handler, which gets a *REST.  A POST has   *)
(* no key yet.                                                             *)
Begin(r, method, k, name) ==
  /\ req[r].at = "idle"
  /\ name # Primary => method = "READ"
  /\ req' = [req EXCEPT ![r] = [@ EXCEPT !.at = FirstPlace(method), !.method = method, !.name = name,
                                         !.key = IF method = "POST" THEN None ELSE k]]
  /\ UNCHANGED <<table, past, cache, now>>

(* Another process creates, changes or deletes the row.                    *)
Elsewhere(r, k, alive) ==
  /\ req[r].at = "idle"
  /\ table[k].alive \/ (table[k].by = None /\ alive)
  /\ ChangeRow(k, r, alive, r)
  /\ req' = [req EXCEPT ![r] = [@ EXCEPT !.at = "done", !.method = "OTHER"]]
  /\ UNCHANGED <<cache, now>>

(* What refuses a request before it changed anything: no or an unreadable  *)
(* body, a POST with a primary key, a column that is not valid, a keeper,  *)
(* a Pre or a Will hook.                                                   *)
Refuse(r) ==
  /\ req[r].at \in {"look", "update", "insert"}
  /\ req[r].method \in {"POST", "PATCH", "PUT", "DELETE"}
  /\ ~req[r].saved
  /\ Answer(r, "bad", FALSE)
  /\ UNCHANGED <<table, past, cache, now>>

(* GetRecord: LocalGet ...                                                 *)
Look(r) ==
  /\ req[r].at = "look"
  /\ IF Hit(req[r].key, req[r].name)
     THEN Continue(r, PlaceWith(req[r].method))
     ELSE Goes(r, "row")
  /\ UNCHANGED <<table, past, cache, now>>

(* ... Row, which finds one ...                                            *)
Row(r) ==
  /\ req[r].at = "row"
  /\ \E row \in Readable(req[r].key) \ {None} :
       req' = [req EXCEPT ![r] = [@ EXCEPT !.at = "fill", !.got = row, !.readAt = now]]
  /\ UNCHANGED <<table, past, cache, now>>

(* ... or none, or fails, which GetRecord does not tell apart ...          *)
NoRow(r) ==
  /\ req[r].at = "row"
  /\ CASE req[r].method \in {"PATCH", "PUT"} -> Answer(r, "bad", FALSE)
       [] req[r].method = "READ" -> Answer(r, "notfound", FALSE)
       [] req[r].method = "WRITE" -> Goes(r, "insert")
  /\ UNCHANGED <<table, past, cache, now>>

(* ... and LocalSet.                                                       *)
Fill(r) ==
  /\ req[r].at = "fill"
  /\ cache' = [cache EXCEPT ![<<req[r].key, req[r].name>>] =
                 [row |-> req[r].got, until |-> now + Expire, fresh |-> req[r].got = Current(req[r].key)]]
  /\ Continue(r, PlaceWith(req[r].method))
  /\ UNCHANGED <<table, past, now>>

(* A WillCreate hook creates the row itself.                               *)
HookInserts(r, k) ==
  /\ req[r].at = "insert" /\ ~req[r].saved
  /\ req[r].method = "POST"
  /\ table[k].by = None
  /\ ChangeRow(k, r, TRUE, r)
  /\ req' = [req EXCEPT ![r] = [@ EXCEPT !.saved = TRUE, !.wrote = TRUE]]
  /\ UNCHANGED <<cache, now>>

(* CreateRow: a POST gets a key from a keeper or the database.             *)
Insert(r, k) ==
  /\ req[r].at = "insert" /\ ~req[r].saved
  /\ table[k].by = None
  /\ req[r].method = "WRITE" => k = req[r].key
  /\ ChangeRow(k, r, TRUE, r)
  /\ Conclude(r, TRUE)
  /\ UNCHANGED <<cache, now>>

(* A row that was saved is not inserted again.                             *)
AlreadySaved(r) ==
  /\ req[r].at = "insert" /\ req[r].saved
  /\ Conclude(r, TRUE)
  /\ UNCHANGED <<table, past, cache, now>>

(* UpdateRow, DeleteRow: the row is found by its primary key alone, be it  *)
(* deleted or not.                                                         *)
Update(r) ==
  LET k == req[r].key
      deletes == req[r].method = "DELETE"
  IN  /\ req[r].at = "update"
      /\ table[k].by # None
      /\ ChangeRow(k, IF deletes THEN table[k].by ELSE r, table[k].alive /\ ~deletes, r)
      /\ IF deletes THEN Conclude(r, TRUE)
                    ELSE req' = [req EXCEPT ![r] = [@ EXCEPT !.at = "flush", !.wrote = TRUE]]
      /\ UNCHANGED <<cache, now>>

(* No row has the key: no row is affected, which is not an error.          *)
UpdateNothing(r) ==
  /\ req[r].at = "update"
  /\ table[req[r].key].by = None
  /\ Continue(r, PlaceUpdated(req[r].method))
  /\ UNCHANGED <<table, past, cache, now>>

(* The database returns an error (a duplicate key, for one).               *)
Fail(r) ==
  /\ \/ req[r].at = "update"
     \/ req[r].at = "insert" /\ ~req[r].saved
  /\ Answer(r, "notok", FALSE)
  /\ UNCHANGED <<table, past, cache, now>>

(* UpdateRecord ends with LocalDel.                                        *)
Flush(r) ==
  /\ req[r].at = "flush"
  /\ cache' = [cache EXCEPT ![<<req[r].key, Primary>>] = NoEntry]
  /\ Conclude(r, req[r].wrote)
  /\ UNCHANGED <<table, past, now>>

(* The entry is overwritten by that of another key, expires, or is dropped *)
(* by FlushRecord or with the process.                                     *)
Forget(k, name) ==
  /\ cache[<<k, name>>] # NoEntry
  /\ cache' = [cache EXCEPT ![<<k, name>>] = NoEntry]
  /\ UNCHANGED <<table, past, now, req>>

Tick ==
  /\ now < MaxTime
  /\ \A r \in Requests : req[r].at = "fill" => now < req[r].readAt + MaxDelay
  /\ now' = now + 1
  /\ UNCHANGED <<table, past, cache, req>>

Handler(r) ==
  \/ Refuse(r) \/ Look(r) \/ Row(r) \/ NoRow(r) \/ Fill(r)
  \/ AlreadySaved(r) \/ Update(r) \/ UpdateNothing(r) \/ Fail(r) \/ Flush(r)

Next ==
  \/ \E r \in Requests :
       \/ \E k \in Keys, name \in Names, method \in Methods \ {"OTHER"} : Begin(r, method, k, name)
       \/ \E k \in Keys : HookInserts(r, k) \/ Insert(r, k)
       \/ \E k \in Keys, alive \in BOOLEAN : Elsewhere(r, k, alive)
       \/ Handler(r)
  \/ \E k \in Keys, name \in Names : Forget(k, name)
  \/ Tick

Spec == Init /\ [][Next]_vars

-----------------------------------------------------------------------------
(* Properties *)

Entries == [row : Contents, until : Nat, fresh : BOOLEAN]
Request == [at : Places, method : Methods, key : Keys \cup {None}, name : Names, got : Contents,
            readAt : Nat, saved : BOOLEAN, wrote : BOOLEAN, answer : Answers]
Pasts == [key : Keys, row : Contents, until : Nat, changer : Requests]

TypeOK ==
  /\ table \in [Keys -> [by : Contents, alive : BOOLEAN]]
  /\ \A k \in Keys : table[k].alive => table[k].by # None
  /\ past \subseteq Pasts
  /\ cache \in [Keys \X Names -> Entries]
  /\ now \in Nat
  /\ req \in [Requests -> Request]
  /\ \A r \in Requests : req[r].at = "fill" => req[r].got # None /\ req[r].readAt <= now

(* A cached record, under whatever name, was the row at most CACHE_EXPIRE  *)
(* seconds ago, plus what the read took and what the replica was behind:   *)
(* nobody acts on an older one, whoever changed or deleted the row.        *)
BoundedStaleness ==
  \A k \in Keys, name \in Names :
    LET row == cache[<<k, name>>].row IN
    Hit(k, name) /\ row # Current(k)
      => \E p \in past : p.key = k /\ p.row = row /\ now < p.until + Lag + MaxDelay + Expire

(* "delete the cache after the update" (rest/model.go:1783): a record that *)
(* was the row when it was cached under its primary key and is not any     *)
(* more was changed by an update that is about to delete it from the       *)
(* cache, by a DELETE, or by another process.                              *)
StaleOnlyInRace ==
  \A k \in Keys :
    LET e == cache[<<k, Primary>>] IN
    Hit(k, Primary) /\ e.fresh /\ e.row # Current(k)
      => \E p \in past :
           /\ p.key = k /\ p.row = e.row
           /\ \/ req[p.changer].at = "flush"
              \/ req[p.changer].method \in {"DELETE", "OTHER"}

WrittenBy(r) ==
  {k \in Keys : table[k].by = r \/ \E p \in past : p.key = k /\ p.row = r}

(* A request creates one row at most (rest/model.go:1429), even if a hook  *)
(* of it creates the row before the handler does.                          *)
InsertedOnce ==
  \A r \in Requests : \A j, k \in WrittenBy(r) : j = k

(* The answer tells what was done: a row was written if a POST, PATCH or   *)
(* PUT or a Write went well, and none if the request was refused.          *)
AnswersRight ==
  \A r \in Requests :
    /\ req[r].answer = "ok" /\ req[r].method \in {"POST", "PATCH", "PUT", "WRITE"} => req[r].wrote
    /\ req[r].answer \in {"bad", "notfound"} => ~req[r].wrote
=============================================================================
