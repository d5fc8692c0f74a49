----------------------------- MODULE Responses -----------------------------
(***************************************************************************)
(* The way of a request: the engine takes a response from its pool, the    *)
(* mux a context from its own, the default middlewares (Recover, Prepare,  *)
(* Access, Cache, wgo.go:137-141) run around the handler, and the response *)
(* is sent and goes back to its pool.  Cached routes are answered from     *)
(* copies of responses (cache.go).  Two engines serve HTTP, "standard" and *)
(* "fasthttp"; "grpc" serves RPC.                                          *)
(*                                                                         *)
(* A body is a sequence of parts, each the n-th write of the handler of a  *)
(* request, 0 being the error the framework writes.  A bytes.Buffer is a   *)
(* view of an array: Reset and WriteTo keep the array, a write that fits   *)
(* is done in place, and assigning one buffer to another shares the array. *)
(* A response and the context used with it are drawn from their pools      *)
(* together (one slot); the engine-wide pools are one set of slots.        *)
(***************************************************************************)
EXTENDS Naturals, SequencesExt

CONSTANTS Configs,     \* [engine, accessor, cache]: the servers considered
          Inputs,      \* [route, accepts, user, handler]: the requests considered
          Slots,       \* pooled responses, each with a context
          MaxRequests, \* bound: requests served
          None         \* no slot, no cached response, no answer yet

Requests == 1..MaxRequests

VARIABLES conf,    \* the server
          pc,      \* how far each request got
          input,   \* what it asks and what its handler will do
          slot,    \* the response and context it uses
          writes,  \* the parts its handler has written
          res,     \* the pooled responses
          con,     \* the pooled contexts, with their access record
          mem,     \* the arrays behind the buffers
          cached,  \* the response cache
          answer,  \* what was sent to the client
          logged   \* the access records written

vars == <<conf, pc, input, slot, writes, res, con, mem, cached, answer, logged>>

Part(r, n, gz) == [by |-> r, n |-> n, gz |-> gz]
Failed(r) == Part(r, 0, FALSE)
Empty == [array |-> 0, len |-> 0]
NoUser == ""
Handler(r) == input[r].handler
Res(r) == res[slot[r]]
Con(r) == con[slot[r]]

Content(m, view) == IF view.array = 0 THEN <<>> ELSE SubSeq(m[view.array], 1, view.len)
Answer(status, gz, body) == [status |-> status, gz |-> gz, body |-> body]

(* bytes.Buffer.Write of one part: in place when the array has room, else  *)
(* in a new array of twice the capacity and the part.                      *)
Fits(view) == view.array # 0 /\ view.len < Len(mem[view.array])
MemWrite(view, part) ==
  IF Fits(view) THEN [mem EXCEPT ![view.array][view.len + 1] = part]
  ELSE Append(mem, Content(mem, view) \o <<part>> \o [i \in 1..view.len |-> None])
ViewWrite(view) ==
  [array |-> IF Fits(view) THEN view.array ELSE Len(mem) + 1, len |-> view.len + 1]

(* standard overwrites the status, fasthttp takes the first and ignores    *)
(* WriteHeader once it is committed.                                       *)
WithHeader(x, status) ==
  IF conf.engine = "fasthttp" /\ x.committed THEN x
  ELSE [x EXCEPT !.status = status, !.committed = (conf.engine = "fasthttp")]

(* WriteHeader and Write of one part.                                      *)
Blob(x, status, part) ==
  [WithHeader(x, status) EXCEPT !.body = ViewWrite(x.body), !.gz = @ \/ part.gz]

-----------------------------------------------------------------------------
(* The pooled objects *)

ResetResponse(x) ==
  [status |-> 200, committed |-> FALSE, gz |-> FALSE,
   body |-> IF conf.engine = "standard" THEN [x.body EXCEPT !.len = 0] ELSE Empty]

(* HTTPReset and RPCReset, with AccessLog.Reset.                           *)
ResetContext(x) == [noCache |-> FALSE, gz |-> FALSE, user |-> NoUser, err |-> FALSE]

(* Faulty: whoever comes gets the encoding of who came first.              *)
KeyOfRoute(x, i) == <<i.route, FALSE>>

(* What a cached response is told apart by: path and parameters, and the   *)
(* encoding the client accepts, which the context keeps (Encoding).        *)
Key(x, i) == <<i.route, x.gz \/ i.accepts>>

(* CopyTo: standard copies the buffer, which shares the array; fasthttp    *)
(* copies the bytes, and the status.                                       *)
Copies == conf.engine = "fasthttp"
MemCopy(view) == IF Copies THEN Append(mem, Content(mem, view)) ELSE mem
ViewCopy(view) == IF Copies THEN [view EXCEPT !.array = Len(mem) + 1] ELSE view
CopyTo(x, y) ==
  [y EXCEPT !.body = ViewCopy(x.body), !.gz = x.gz,
            !.status = IF Copies THEN x.status ELSE @]

-----------------------------------------------------------------------------
Init ==
  /\ conf \in Configs
  /\ pc = [r \in Requests |-> "new"]
  /\ input = [r \in Requests |-> CHOOSE i \in Inputs : TRUE]
  /\ slot = [r \in Requests |-> None]
  /\ writes = [r \in Requests |-> 0]
  /\ res = [s \in Slots |-> [status |-> 200, committed |-> FALSE, gz |-> FALSE, body |-> Empty]]
  /\ con = [s \in Slots |-> [noCache |-> FALSE, gz |-> FALSE, user |-> NoUser, err |-> FALSE]]
  /\ mem = <<>>
  /\ cached = [k \in {<<i.route, g>> : i \in Inputs, g \in BOOLEAN} |-> None]
  /\ answer = [r \in Requests |-> None]
  /\ logged = [r \in Requests |-> None]

InUse == {slot[r] : r \in {q \in Requests : pc[q] \notin {"new", "done"}}}

(* Options(c) of the route: only routes configured for it are cached.      *)
IsCached(i) == conf.cache /\ i.route # "plain" /\ i.route # "none"

(* The engine and the mux: both objects are reset, the route is found.  A  *)
(* request without a route meets no middleware, an RPC panics in Prepare,  *)
(* which takes every request for an HTTP one, and is answered by Recover.  *)
Serve(r, i, s) ==
  /\ pc[r] = "new" /\ \A q \in Requests : q < r => pc[q] # "new"
  /\ s \notin InUse
  /\ input' = [input EXCEPT ![r] = i]
  /\ slot' = [slot EXCEPT ![r] = s]
  /\ res' = [res EXCEPT ![s] = ResetResponse(@)]
  /\ con' = [con EXCEPT ![s] = ResetContext(@)]
  /\ pc' = [pc EXCEPT ![r] = IF i.route = "none" THEN "unknown"
                             ELSE IF conf.engine = "grpc" THEN "panics"
                             ELSE IF IsCached(i) THEN "lookup" ELSE "enter"]
  /\ UNCHANGED <<conf, writes, mem, cached, answer, logged>>

(* The Cache middleware: a hit is copied into the response.                *)
Lookup(r) ==
  /\ pc[r] = "lookup"
  /\ LET hit == cached[Key(Con(r), input[r])] IN
       /\ con' = [con EXCEPT ![slot[r]].gz = @ \/ input[r].accepts]
       /\ IF hit = None
          THEN pc' = [pc EXCEPT ![r] = "enter"] /\ UNCHANGED <<res, mem>>
          ELSE /\ res' = [res EXCEPT ![slot[r]] = CopyTo(hit, @)]
               /\ mem' = MemCopy(hit.body)
               /\ pc' = [pc EXCEPT ![r] = "leave"]
  /\ UNCHANGED <<conf, input, slot, writes, cached, answer, logged>>

(* The handler: it may forbid caching and name the user of the record ...  *)
Enter(r) ==
  /\ pc[r] = "enter"
  /\ con' = [con EXCEPT ![slot[r]].noCache = Handler(r).noCache,
                        ![slot[r]].user = IF Handler(r).user = NoUser THEN @ ELSE Handler(r).user]
  /\ pc' = [pc EXCEPT ![r] = "write"]
  /\ UNCHANGED <<conf, input, slot, writes, res, mem, cached, answer, logged>>

(* ... write parts, compressed when the client accepts it ...              *)
Write(r) ==
  /\ pc[r] = "write" /\ writes[r] < Handler(r).parts
  /\ LET gz == Con(r).gz \/ input[r].accepts
         part == Part(r, writes[r] + 1, gz)
     IN  /\ mem' = MemWrite(Res(r).body, part)
         /\ res' = [res EXCEPT ![slot[r]] = Blob(@, Handler(r).status, part)]
         /\ con' = [con EXCEPT ![slot[r]].gz = gz]
  /\ writes' = [writes EXCEPT ![r] = @ + 1]
  /\ UNCHANGED <<conf, pc, input, slot, cached, answer, logged>>

(* ... and return, fail or panic.                                          *)
Return(r) ==
  /\ pc[r] = "write" /\ writes[r] = Handler(r).parts
  /\ pc' = [pc EXCEPT ![r] = CASE Handler(r).ends = "ok" -> IF IsCached(input[r]) THEN "store" ELSE "leave"
                               [] Handler(r).ends = "error" -> "failed"
                               [] Handler(r).ends = "panic" -> "panics"]
  /\ UNCHANGED <<conf, input, slot, writes, res, con, mem, cached, answer, logged>>

(* Cache: a copy is stored, whatever another request has stored meanwhile. *)
Store(r) ==
  /\ pc[r] = "store"
  /\ pc' = [pc EXCEPT ![r] = "leave"]
  /\ IF Con(r).noCache THEN UNCHANGED <<mem, cached>>
     ELSE /\ cached' = [cached EXCEPT ![Key(Con(r), input[r])] =
                          CopyTo(Res(r), [status |-> 200, gz |-> FALSE, body |-> Empty, by |-> r])]
          /\ mem' = MemCopy(Res(r).body)
  /\ UNCHANGED <<conf, input, slot, writes, res, con, answer, logged>>

(* ERROR: the error, with its status, is written behind what is there.     *)
Error(r, status) ==
  /\ mem' = MemWrite(Res(r).body, Failed(r))
  /\ res' = [res EXCEPT ![slot[r]] = Blob(@, status, Failed(r))]

(* Access writes its record, Serve the error Access was not there to take. *)
Access(r, err) ==
  LET user == IF Con(r).user = NoUser THEN input[r].user ELSE Con(r).user
      failed == Con(r).err \/ err
  IN  /\ con' = [con EXCEPT ![slot[r]].user = user, ![slot[r]].err = failed]
      /\ logged' = [logged EXCEPT ![r] = [user |-> user, err |-> failed]]

Fail(r) ==
  /\ pc[r] = "failed"
  /\ Error(r, 400)
  /\ IF conf.accessor THEN Access(r, TRUE) ELSE UNCHANGED <<con, logged>>
  /\ pc' = [pc EXCEPT ![r] = "commit"]
  /\ UNCHANGED <<conf, input, slot, writes, cached, answer>>

Leave(r) ==
  /\ pc[r] = "leave"
  /\ IF conf.accessor THEN Access(r, FALSE) ELSE UNCHANGED <<con, logged>>
  /\ pc' = [pc EXCEPT ![r] = "commit"]
  /\ UNCHANGED <<conf, input, slot, writes, res, mem, cached, answer>>

(* Recover runs around Access, so that a panic leaves no access record.  A *)
(* request without a route is not allowed, not found by RPC: their codes   *)
(* stand for each other here.                                              *)
Recover(r) ==
  /\ pc[r] \in {"panics", "unknown"}
  /\ Error(r, IF pc[r] = "panics" THEN 400 ELSE 405)
  /\ pc' = [pc EXCEPT ![r] = "commit"]
  /\ UNCHANGED <<conf, input, slot, writes, con, cached, answer, logged>>

(* Commit sends the response; its buffer is then empty, and the objects go *)
(* back to their pools.                                                    *)
Commit(r) ==
  /\ pc[r] = "commit"
  /\ answer' = [answer EXCEPT ![r] = Answer(Res(r).status, Res(r).gz, Content(mem, Res(r).body))]
  /\ res' = [res EXCEPT ![slot[r]].body.len = 0]
  /\ pc' = [pc EXCEPT ![r] = "done"]
  /\ UNCHANGED <<conf, input, slot, writes, con, mem, cached, logged>>

(* An entry expires, or makes room for another.                            *)
Evict(k) ==
  /\ cached[k] # None
  /\ cached' = [cached EXCEPT ![k] = None]
  /\ UNCHANGED <<conf, pc, input, slot, writes, res, con, mem, answer, logged>>

RequestNext(r) ==
  \/ \E i \in Inputs, s \in Slots : Serve(r, i, s)
  \/ Lookup(r) \/ Enter(r) \/ Write(r) \/ Return(r) \/ Store(r)
  \/ Fail(r) \/ Leave(r) \/ Recover(r) \/ Commit(r)

Next == (\E r \in Requests : RequestNext(r)) \/ (\E k \in DOMAIN cached : Evict(k))

Spec == Init /\ [][Next]_vars

-----------------------------------------------------------------------------
(* Properties *)

(* What the handler of a request writes, and the error if it fails.        *)
Written(r) ==
  LET parts == [n \in 1..Handler(r).parts |-> Part(r, n, input[r].accepts)]
  IN  IF Handler(r).ends = "ok" THEN parts ELSE Append(parts, Failed(r))

(* The status of it: an error has its own, but fasthttp has sent that of   *)
(* the first write by then.                                                *)
StatusOf(r) ==
  IF Handler(r).parts > 0 /\ (Handler(r).ends = "ok" \/ conf.engine = "fasthttp") THEN Handler(r).status
  ELSE IF Handler(r).ends = "ok" THEN 200 ELSE 400

Expected(r) ==
  IF input[r].route = "none" THEN Answer(405, FALSE, <<Failed(r)>>)
  ELSE IF conf.engine = "grpc" THEN Answer(400, FALSE, <<Failed(r)>>)
  ELSE Answer(StatusOf(r), input[r].accepts /\ Handler(r).parts > 0, Written(r))

(* The requests a request may be answered for: those of the same cached    *)
(* route whose client accepts the same, that went well and may be kept.    *)
Alike(r) ==
  {q \in Requests : /\ pc[q] \notin {"new", "lookup"}
                    /\ IsCached(input[r]) /\ input[q].route = input[r].route
                    /\ input[q].accepts = input[r].accepts
                    /\ Handler(q).ends = "ok" /\ ~Handler(q).noCache}

(* Whatever the pools hand out and whoever else is served, a client gets   *)
(* the whole answer of one handler, its own or one that may stand for it,  *)
(* and an error once.                                                      *)
AnswersWhole ==
  \A r \in Requests : answer[r] # None => \E q \in {r} \cup Alike(r) : answer[r] = Expected(q)

(* The access record of a request has its own user, not that of a request *)
(* that had the context before, and an error just when the client got one. *)
RecordsOwn ==
  \A r \in Requests : logged[r] # None =>
    /\ logged[r].user \in {input[r].user, Handler(r).user}
    /\ answer[r] # None => logged[r].err = (Failed(r) \in ToSet(answer[r].body))

(* "CopyTo copies resp contents to dst" (whttp/standard/response.go:46):   *)
(* what is in the cache stays what the handler wrote.                      *)
CopiesKept ==
  \A k \in DOMAIN cached : cached[k] # None => Content(mem, cached[k].body) = Written(cached[k].by)
=============================================================================
