------------------------------ MODULE MCStores ------------------------------
(***************************************************************************)
(* The places data is kept in, one at a time: the local cache, redis, rows *)
(* under transactions, the row of a model, queries of rows, reports of     *)
(* documents and the files of the loggers.  Which one runs is chosen at    *)
(* first; the others rest.                                                 *)
(***************************************************************************)
EXTENDS LocalCache, Integers, TLC

CONSTANTS Models, Handles, RowKeys, Root, Empty, Nil, Null, Fails

VARIABLES part,
          table, state, undo, marks, points, trans, held, tags, named, undone, blind,
          rows, ask, left, env, at, total, got, shown, changes,
          model, layout, row, told, reply, requests,
          docs, asked, stage, range, qs, dims, tree, wraps, answer, result,
          redis, deleting, ac, pc, key, what, tried, found, failures, ends, calls, kept, ended, redone,
          cfg, clock, files, curSize, openDay, linked, alive, sweeps, written, overrun

rowVars == <<table, state, undo, marks, points, trans, held, tags, named, undone, blind>>
queryVars == <<rows, ask, left, env, at, total, got, shown, changes>>
modelVars == <<model, layout, row, told, reply, requests>>
reportVars == <<docs, asked, stage, range, qs, dims, tree, wraps, answer, result>>
redisVars == <<redis, deleting, ac, pc, key, what, tried, found, failures, ends, calls, kept, ended, redone>>
fileVars == <<cfg, clock, files, curSize, openDay, linked, alive, sweeps, written, overrun>>
allVars == <<part, vars, rowVars, modelVars, queryVars, reportVars, redisVars, fileVars>>

Symmetric == Permutations(Models)

-----------------------------------------------------------------------------
(* The local cache: the keys share a slot, 1 and 3 even their 16-bit hash, *)
(* which is the one an empty entry has.                                    *)
MCKeys == 1..3
MCHash == [k \in MCKeys |-> [bucket |-> 0, slot |-> 0, hash16 |-> IF k = 2 THEN 3 ELSE 0]]

-----------------------------------------------------------------------------
(* Rows: two models, one transaction and one row *)

T == INSTANCE Transactions WITH Keys <- RowKeys, MaxWrites <- 3, MaxPoints <- 2

-----------------------------------------------------------------------------
(* Redis: a session and a lock, whose nodes by number are not in the order *)
(* of their keys                                                           *)

D == INSTANCE Storage WITH
  Keys <- {1, 2}, LockKeys <- {2}, NodeOf <- [k \in {1, 2} |-> 3 - k], Processes <- {1, 2},
  MaxFailures <- 5, MaxEnds <- 2, MaxCalls <- 1, undone <- redone

-----------------------------------------------------------------------------
(* Log files: those of "a" begin like those of "ab", which keeps them a    *)
(* day                                                                     *)

Rotation(daily, size, days) == [daily |-> daily, maxsize |-> size, maxdays |-> days]
Rotations ==
  {[w \in {"a", "ab"} |-> IF w = "a" THEN x ELSE Rotation(TRUE, 2, 1)] : x \in {Rotation(FALSE, 1, 1), Rotation(TRUE, 0, 0)}}
F == INSTANCE LogFiles WITH
  Writers <- {"a", "ab"}, Prefixes <- [w \in {"a", "ab"} |-> IF w = "a" THEN {"a", "ab"} ELSE {"ab"}], Configs <- Rotations,
  MaxNumber <- 2, DayLength <- 2, MonthLength <- 30, Sizes <- {2}, MaxTime <- 3, MaxWrites <- 2, now <- clock

-----------------------------------------------------------------------------
(* The row of a model, like those of the examples.  Some structs are only   *)
(* laid out: with fields over embedded ones, names of two, and one that is *)
(* embedded deep.                                                          *)

Cell(form, v) == [form |-> form, val |-> v]
Field(name, kind, db, ext, keeper) ==
  [name |-> name, tag |-> "", rest |-> name, gorp |-> name, embeds |-> Nil, kind |-> kind, db |-> db, ext |-> ext, keeper |-> keeper,
   default |-> IF kind \in {"string", "int", "bool"} \/ "logic" \in db THEN Cell("plain", 0) ELSE Null]
Named(name, tag, restName, gorpName) ==
  [Field(name, "*string", {}, {}, "") EXCEPT !.tag = tag, !.rest = restName, !.gorp = gorpName]
Embed(struct) == [Field("", "", {}, {}, "") EXCEPT !.embeds = struct]
Unmapped(name, kind) == [Field(name, kind, {}, {"H", "G", "D"}, "") EXCEPT !.tag = "-"]

MCStructs ==
  [REST |-> <<Unmapped("count", "int"), Unmapped("guest", "bool")>>,
   user |-> <<Embed("REST"), Field("id", "*string", {"pk"}, {"C", "G"}, ""), Field("name", "*string", {"k"}, {"R", "C", "D"}, ""),
              Field("stage", "*int", {"logic"}, {"C"}, ""), Field("created", "*time", {"add_now"}, {"G", "D", "TR"}, ""),
              Field("modified", "*time", {"ro"}, {}, ""), Field("seen", "time", {"update_now"}, {}, ""), Field("count", "int", {}, {"RET"}, "")>>,
   service |-> <<Embed("REST"), Field("id", "*string", {"na", "pk"}, {"G"}, "uuid"), Field("owner", "*model", {}, {"R"}, "existence"),
                 Field("by", "string", {}, {}, "userid"), Field("secret", "*string", {}, {"S"}, "sha1"), Field("tags", "[]string", {}, {"RET"}, ""),
                 Field("attrs", "map", {}, {}, ""), Field("extra", "interface", {}, {}, ""), Field("conf", "struct", {}, {"D"}, ""),
                 Field("on", "bool", {}, {}, ""), Field("size", "*int64", {}, {}, ""), Field("at", "*time", {}, {"G"}, "time")>>,
   ints |-> <<Embed("REST"), Field("id", "*int64", {"pk"}, {}, ""), Field("ids", "[]int", {}, {}, ""), Field("text", "string", {"logic"}, {}, "")>>,
   base |-> <<Embed("REST"), Field("id", "*string", {"na", "pk"}, {"G"}, "uuid"), Field("tags", "[]string", {}, {}, ""), Field("conf", "struct", {}, {"D"}, "")>>,
   over |-> <<Field("id", "*int64", {"pk"}, {}, ""), Embed("base"), Field("conf", "map", {}, {"S"}, ""), Named("tags", "-", "tags", "tags"),
              Named("UserID", "", "user_id", "user_i_d"), Named("By", "owner", "by", "by"), Embed("user")>>,
   twice |-> <<Embed("ints"), Embed("user"), Field("text", "*string", {}, {}, "")>>,
   deep |-> <<Embed("base"), Field("own", "string", {}, {}, "")>>]

Body(f, v) == f :> v
UserBodies ==
  {Body("name", 1), Body("name", 0), Body("name", 1) @@ Body("stage", 1), Body("stage", 0) @@ Body("seen", 1), Body("name", 2) @@ Body("created", 1),
   Body("name", 1) @@ Body("modified", 3) @@ Body("count", 2), Body("id", 1) @@ Body("name", 1), Body("name", Nil) @@ Body("stage", Nil), Body("stage", -1)}
ServiceBodies ==
  {Body("owner", 1) @@ b : b \in {Body("by", 1), Body("secret", 1), Body("secret", 0) @@ Body("size", 1), Body("tags", 1) @@ Body("attrs", 1),
                                 Body("tags", 0) @@ Body("extra", 1), Body("extra", 2), Body("extra", 3) @@ Body("conf", 1), Body("on", 1) @@ Body("at", 1),
                                 Body("size", 0), Body("by", Nil)}}
  \cup {Body("owner", 0), Body("owner", 2) @@ Body("by", 1), Body("secret", 2), Body("owner", Nil)}
IntBodies == {Body("ids", 1), Body("text", 1), Body("id", 2), Body("id", Nil)}

OldUser ==
  [id |-> Cell("plain", 1), name |-> Null, stage |-> Cell("plain", 0), created |-> Null, modified |-> Cell("plain", 0), seen |-> Null, count |-> Cell("plain", 1)]
OldService ==
  [c \in {"id", "owner", "by", "secret", "tags", "attrs", "extra", "conf", "on", "size", "at"} |->
     IF c = "id" THEN Cell("plain", 1) ELSE IF c = "by" THEN Cell("plain", 0) ELSE Null]
OldRows ==
  [s \in DOMAIN MCStructs |->
     CASE s = "user" -> {OldUser, [OldUser EXCEPT !.name = Cell("plain", 0), !.seen = Cell("plain", 1), !.created = Cell("plain", 2)]}
       [] s = "service" ->
            {OldService, [OldService EXCEPT !["by"] = Null], [OldService EXCEPT !["attrs"] = Cell("plain", 1)],
             [OldService EXCEPT !["tags"] = Cell("plain", 1), !["conf"] = Cell("plain", 1), !["extra"] = Cell("plain", 1), !["owner"] = Cell("plain", 1)],
             [OldService EXCEPT !["tags"] = Cell("json", 1), !["conf"] = Cell("json", 1), !["extra"] = Cell("json", 2), !["on"] = Cell("plain", 1), !["attrs"] = Cell("json", 2)]}
       [] OTHER -> {}]
M == INSTANCE ModelRow WITH
  Structs <- MCStructs, Tables <- {"user", "service", "ints"}, Bodies <- [user |-> UserBodies, service |-> ServiceBodies, ints |-> IntBodies],
  Legacy <- OldRows, Existing <- {1}, User <- 9, MaxRequests <- 2

-----------------------------------------------------------------------------
(* Queries *)

(* id, two plain columns, a day, a foreign key and one that is secret.     *)
Columns == <<"id", "a", "b", "day", "user", "s", "pass">>
Opts == [id |-> {"pk"}, a |-> {"C"}, b |-> {"C", "O"}, day |-> {"TR", "C"}, user |-> {}, s |-> {"logic"}, pass |-> {"S"}]
Foreign == [c \in {"id", "a", "b", "day", "user", "s", "pass"} |-> IF c = "user" THEN "user" ELSE None]
Joined == [i \in 1..2 |-> [name |-> i]]

MakeRow(id, a, b, day, user, s) == [id |-> id, a |-> a, b |-> b, day |-> day, user |-> user, s |-> s, pass |-> 0]
Tables ==
  {{MakeRow(1, 1, 1, 1, 1, 0), MakeRow(2, 2, 1, 2, 2, 0), MakeRow(3, 12, 2, 3, 1, 0)},
   {MakeRow(1, 2, 2, 3, 2, 0), MakeRow(2, 1, 1, 2, 1, -1), MakeRow(3, 1, 2, 1, 3, 0), MakeRow(4, 2, 1, 2, 1, 0)}}

P(op, cols, vals) == [op |-> op, table |-> None, cols |-> cols, vals |-> vals]
Params ==
  {P(op, {c}, <<v>>) : op \in {"is", "not", "gt", "lt", "like"}, c \in {"a", "b"}, v \in 1..2}
  \cup {P("is", {"a"}, <<1, 12>>), P("not", {"a"}, <<1, 2>>), P("is", {"day"}, <<1, 2>>), P("is", {"day"}, <<2>>),
        P("not", {"day"}, <<2>>), P("gt", {"day"}, <<2>>), P("gt", {"day"}, <<3>>), P("lt", {"day"}, <<2>>),
        P("is", {"a", "b"}, <<2>>), P("is", {"b", "day"}, <<1, 3>>), P("like", {"a", "b"}, <<1>>), P("is", {"pass"}, <<1>>),
        [op |-> "is", table |-> "user", cols |-> {"name"}, vals |-> <<1>>],
        [op |-> "gt", table |-> "user", cols |-> {"name"}, vals |-> <<2>>]}
Queries == {{}} \cup {{p, q} : p, q \in Params}
Orderings == {<<>>, <<[col |-> "a", sort |-> "ASC"]>>}
Q == INSTANCE Query WITH PerPages <- {0, 1, 3}, Rowkeys <- {1, 2}, Counts <- {0, 7}, Times <- {"day"}, Stamps <- {2}, DefPerPage <- 2, MaxPerPage <- 2, MaxChanges <- 1

-----------------------------------------------------------------------------
(* Reports *)

Fields == {"t", "n", "c", "it", "in"}
Type == [t |-> "term", n |-> "sum", c |-> "max", it |-> "term", in |-> "sum"]
Path == [t |-> Root, n |-> Root, c |-> Root, it |-> "items", in |-> "items"]

Doc(id, day, vals, items) == [id |-> id, day |-> day, vals |-> vals, items |-> items]
TN(t, n) == [t |-> t, n |-> n, c |-> n]
Item(v, m) == [it |-> v, in |-> m]
Docs ==
  {{},
   {Doc(1, 0, TN(1, 1), <<Item(1, 1), Item(2, 2)>>), Doc(2, 1, TN(2, 2), <<Item(1, 3)>>)},
   {Doc(1, 0, TN(1, 1), <<Item(1, 1), Item(1, 2)>>), Doc(2, 3, [n |-> 2], <<>>), Doc(3, 5, TN(1, 3), <<Item(2, 1)>>)}}

Agg(f, props, subs) == [field |-> f, props |-> props, subs |-> subs, filters |-> <<>>]
Sums == Agg("n", <<>>, <<>>)
Reports ==
  {<<Sums>>, <<Agg("in", <<>>, <<>>), Agg("c", <<>>, <<>>)>>,
   <<Agg("t", <<"n", "c", "in">>, <<>>), Sums>>,
   <<Agg("it", <<"in">>, <<>>)>>,
   <<Agg("t", <<"n">>, <<Agg("it", <<"in">>, <<>>), Sums>>)>>,
   <<Agg("t", <<"c">>, <<>>), Agg("it", <<"in">>, <<Agg("it", <<>>, <<>>)>>)>>,
   <<[Agg("t", <<"n", "c">>, <<Agg("in", <<>>, <<>>)>>) EXCEPT !.filters = <<[name |-> "only", field |-> "t", val |-> 1]>>]>>,
   <<[Agg("t", <<"n", "it">>, <<>>) EXCEPT !.filters = <<[name |-> "one", field |-> "t", val |-> 1], [name |-> "big", field |-> "n", val |-> 3]>>]>>}
C(f, vals) == [field |-> f, vals |-> vals]
Conds == {{}, {C("t", <<1>>)}, {C("it", <<1>>)}, {C("it", <<1, 2>>)}, {C("t", <<1>>), C("it", <<2>>)}, {C("n", <<1>>)}}
Ranges == {<<0, 5>>, <<1, 4>>}
R == INSTANCE Report WITH Intervals <- {0, 1, 2}, MaxIntervals <- 2

-----------------------------------------------------------------------------

RowsRest == table = <<>> /\ state = <<>> /\ undo = <<>> /\ marks = <<>> /\ points = <<>> /\ trans = <<>> /\ held = <<>>
              /\ tags = <<>> /\ named = 0 /\ undone = {} /\ blind = {}
ModelRests == model = "rests" /\ layout = <<>> /\ row = Nil /\ told = Nil /\ reply = <<>> /\ requests = 0
QueryRests == rows = {} /\ ask = <<>> /\ left = {} /\ env = <<>> /\ at = "rests" /\ total = 0 /\ got = <<>> /\ shown = {} /\ changes = 0
ReportRests == docs = {} /\ asked = <<>> /\ stage = "rests" /\ range = <<>> /\ qs = {} /\ dims = <<>> /\ tree = <<>> /\ wraps = <<>>
                 /\ answer = <<>> /\ result = <<>>
RedisRests == redis = <<>> /\ deleting = <<>> /\ ac = {} /\ pc = <<>> /\ key = <<>> /\ what = <<>> /\ tried = <<>> /\ found = <<>>
                /\ failures = 0 /\ ends = 0 /\ calls = <<>> /\ kept = {} /\ ended = {} /\ redone = {}
FilesRest == cfg = <<>> /\ clock = 0 /\ files = <<>> /\ curSize = <<>> /\ openDay = <<>> /\ linked = {} /\ alive = {}
               /\ sweeps = {} /\ written = {} /\ overrun = {}

(* The local cache rests in its initial state.                             *)
StoresInit ==
  /\ Init
  /\ part \in {"cache", "rows", "model", "query", "report", "redis", "files"}
  /\ IF part = "rows" THEN T!Init ELSE RowsRest
  /\ IF part = "model" THEN M!Init ELSE ModelRests
  /\ IF part = "query" THEN Q!Init ELSE QueryRests
  /\ IF part = "report" THEN R!Init ELSE ReportRests
  /\ IF part = "redis" THEN D!Init ELSE RedisRests
  /\ IF part = "files" THEN F!Init ELSE FilesRest

StoresNext ==
  \/ part = "cache" /\ Next /\ UNCHANGED <<part, rowVars, modelVars, queryVars, reportVars, redisVars, fileVars>>
  \/ part = "rows" /\ T!Next /\ UNCHANGED <<part, vars, modelVars, queryVars, reportVars, redisVars, fileVars>>
  \/ part = "model" /\ M!Next /\ UNCHANGED <<part, vars, rowVars, queryVars, reportVars, redisVars, fileVars>>
  \/ part = "query" /\ Q!Next /\ UNCHANGED <<part, vars, rowVars, modelVars, reportVars, redisVars, fileVars>>
  \/ part = "report" /\ R!Next /\ UNCHANGED <<part, vars, rowVars, modelVars, queryVars, redisVars, fileVars>>
  \/ part = "redis" /\ D!Next /\ UNCHANGED <<part, vars, rowVars, modelVars, queryVars, reportVars, fileVars>>
  \/ part = "files" /\ F!Next /\ UNCHANGED <<part, vars, rowVars, modelVars, queryVars, reportVars, redisVars>>

StoresSpec == StoresInit /\ [][StoresNext]_allVars

-----------------------------------------------------------------------------

(* The types of the part that runs.                                        *)
StoresTypeOK ==
  TypeOK /\ (part = "rows" => T!TypeOK) /\ (part = "query" => Q!TypeOK) /\ (part = "files" => F!TypeOK)

(* Of the local cache: it is a map that may forget (LossyMap, LocalCache). *)
CacheAnswers == Lossy!MInit /\ [][part = "cache" => Lossy!MNext \/ UNCHANGED Lossy!mvars]_vars

(* Of the rows: what a rollback took back is gone, it took back nothing    *)
(* else, and a change is lost in the known ways only (Transactions).       *)
RowsRight ==
  /\ [](part = "rows" => T!UndoneGone /\ T!LostOnlyKnownWays)
  /\ [][part = "rows" => T!RollsBackOwn]_allVars

(* Of the row of a model: it reads as the client was told, no answer shows *)
(* a secret, and both layouts of the struct agree (ModelRow, Columns).     *)
ModelRight == part = "model" => M!RowAsTold /\ M!AnswerRight /\ M!ColumnsAgree

(* Of a query: its rows are those that were asked for (Query).             *)
QueryRight == part = "query" => Q!OnlyWhatWasAsked /\ Q!AllThatWasAsked

(* Of a report: its numbers are those of the documents, of every interval  *)
(* (Report).                                                               *)
ReportRight == part = "report" => R!ReportTellsDocuments /\ R!IntervalsComplete

(* Of redis: what was put stays until it is ended, and then not (Storage). *)
SessionsRight == part = "redis" => D!SetStays /\ D!EndedStaysEnded

(* "true: it is set only when the key does not exist" (storage/lock.go:35, *)
(* in Chinese): of two who want a lock one gets it (Storage).              *)
LockExclusive == part = "redis" => D!LockExclusive

(* Of the log files: a record is in one for the days it is to be kept      *)
(* (LogFiles).                                                             *)
RecordsKept == part = "files" => F!RecordsKept
=============================================================================
