----------------------------- MODULE HttpClient -----------------------------
(***************************************************************************)
(* A client of other services: rest.Client over resty.  A call runs the    *)
(* middlewares that make an http.Request of a resty.Request, once more for *)
(* every attempt of Backoff; what one attempt leaves in the request, in    *)
(* its reader and in the pool of buffers is there in the next.             *)
(*                                                                         *)
(* Parameters, headers and forms are functions from names to values; a     *)
(* body is what it is made of.  net/http and the server are external.      *)
(***************************************************************************)
EXTENDS Naturals, Sequences, FiniteSetsExt

CONSTANTS Names,    \* names of parameters, headers and form fields
          Clients,  \* configurations: [inner, retries, conditions, cookies, query, header, length, hook]
          Asks,     \* what a call sets: [method, query, header, form, body]
          MaxCalls, \* bound: calls of one client
          None

VARIABLES conf,    \* the resty.Client; inner: the one of a rest.Client
          ask,     \* what this call set
          req,     \* the resty.Request
          pool,    \* how often each buffer is in bufPool, by number
          pc,      \* idle, hooks, prepare, do, release, decide
          attempt, \* of this call
          opened,  \* req.bodyBuf when the attempt began: released when it ends
          sent,    \* what the server got of this call
          last,    \* of the last attempt: [err, again, cancelled]
          clean,   \* the request was made for this call
          pure,    \* no call left a buffer to be released twice (see Execute)
          calls    \* number of calls

vars == <<conf, ask, req, pool, pc, attempt, opened, sent, last, clean, pure, calls>>

NoNames == [n \in Names |-> None]
Merge(c, r) == [n \in Names |-> IF r[n] # None THEN r[n] ELSE c[n]]
Filled(f) == f # NoNames

(* Client.R *)
R == [query |-> NoNames, header |-> NoNames, form |-> NoNames, body |-> "none", ctype |-> None, accept |-> None,
      cookies |-> 0, buf |-> None, raw |-> "none", read |-> FALSE]

-----------------------------------------------------------------------------
(* Faulty variants of definitions below, for the mutants of the runs.      *)

(* The request of an answered call is kept.                                *)
RenewNever(r) == r

(* The buffer is given back when it has been sent, too.                    *)
ReleasedBoth(b) == {b, req.buf} \ {None}

-----------------------------------------------------------------------------

Init ==
  /\ conf \in Clients
  /\ ask = None /\ req = R /\ pool = <<>>
  /\ pc = "idle" /\ attempt = 0 /\ opened = None /\ sent = <<>> /\ last = None
  /\ clean = TRUE /\ pure = TRUE /\ calls = 0

(* SetQueryParams, SetHeader, SetFormData, SetBody and the verb.  What a   *)
(* call that failed has set is there still.                                *)
Execute(a) ==
  /\ pc = "idle" /\ calls < MaxCalls
  /\ conf.inner => a.body \in {"none", "bytes"}
  /\ a.body = "file" => a.method = "POST"   \* the others are refused
  /\ ask' = a /\ calls' = calls + 1
  /\ req' = [req EXCEPT !.query = Merge(@, a.query), !.header = Merge(@, a.header), !.form = Merge(@, a.form),
                        !.body = IF a.body = "none" THEN @ ELSE a.body]
  /\ pure' = (pure /\ clean /\ ~conf.hook /\ ~(a.body = "reader" /\ conf.length))
  /\ sent' = <<>> /\ last' = None /\ attempt' = 1 /\ pc' = "hooks"
  /\ UNCHANGED <<conf, pool, opened, clean>>

Failed == [err |-> TRUE, again |-> FALSE, cancelled |-> FALSE]

(* execute: releases the buffer of the attempt before when it returns, and *)
(* calls the user's hooks.                                                 *)
Hooks ==
  /\ pc = "hooks"
  /\ opened' = req.buf
  /\ \/ pc' = "prepare" /\ UNCHANGED last
     \/ conf.hook /\ pc' = "release" /\ last' = Failed
  /\ UNCHANGED <<conf, ask, req, pool, attempt, sent, clean, pure, calls>>

-----------------------------------------------------------------------------
(* The middlewares, each from a request to a request *)

(* selectAddr has the caller's url again in every attempt.                 *)
ParseURL(r) == Merge(conf.query, r.query)

ParseHeader(r) ==
  [r EXCEPT !.header = Merge(conf.header, @),
            !.accept = IF @ = None /\ r.ctype = "json" THEN "json" ELSE @]

HasPayload == ask.method # "GET"
(* acquireBuffer; a form makes its own, which goes to the pool like others.*)
Pooled == {b \in DOMAIN pool : pool[b] > 0}
Fresh == Len(pool) + 1
Acquired == IF Pooled = {} THEN Fresh ELSE Min(Pooled)
Without(b) == IF b = Fresh THEN Append(pool, 0) ELSE [pool EXCEPT ![b] = @ - 1]

With(r, b, raw, ctype) == [r EXCEPT !.buf = b, !.raw = raw, !.ctype = ctype]
Typed(r, ctype) == IF r.ctype # None THEN r.ctype ELSE ctype

(* handleMultipart, handleFormData, handleContentType, handleRequestBody:  *)
(* the alternatives as requests with their buffer.  Without a body the     *)
(* buffer that was there stays.                                            *)
Multipart(r) == HasPayload /\ r.body = "file"
FormData(r) == HasPayload /\ ~Multipart(r) /\ Filled(r.form)
RequestBody(r) == HasPayload /\ ~Multipart(r) /\ ~Filled(r.form) /\ r.body # "none"

ParseBody(r) ==
  IF Multipart(r) THEN [With(r, Acquired, "file", "multipart") EXCEPT !.read = TRUE]
  ELSE IF FormData(r) THEN With(r, Fresh, "form", "form")
  ELSE IF ~RequestBody(r) THEN r
  ELSE IF r.body # "reader" THEN With(r, Acquired, r.body, Typed(r, IF r.body = "struct" THEN "json" ELSE "plain"))
  ELSE IF ~conf.length THEN With(r, None, "none", Typed(r, "plain"))
  ELSE [With(r, Acquired, IF r.read THEN "none" ELSE "reader", Typed(r, "plain")) EXCEPT !.read = TRUE, !.body = "none"]

(* createHTTPRequest: the cookies are added to the request's own headers.  *)
Create(r) == [r EXCEPT !.cookies = @ + conf.cookies]

Prepare ==
  /\ pc = "prepare"
  /\ LET before == ParseHeader(req)
         after == ParseBody(before)
         taken == Multipart(req) \/ FormData(req) \/ (RequestBody(req) /\ after.buf # None)
     IN  /\ pool' = IF taken THEN Without(after.buf) ELSE pool
         /\ IF Multipart(req) /\ req.read   \* the file is at its end: EOF
            THEN /\ req' = [before EXCEPT !.buf = after.buf, !.raw = "none"]
                 /\ last' = Failed /\ pc' = "release"
            ELSE /\ req' = Create(after)
                 /\ pc' = "do" /\ UNCHANGED last
  /\ UNCHANGED <<conf, ask, attempt, opened, sent, clean, pure, calls>>

Body(r) ==
  IF r.buf # None THEN r.raw
  ELSE IF r.body = "reader" /\ ~r.read THEN "reader" ELSE "none"

(* The answer, or the lack of one, is an error or not to net/http or to    *)
(* parseResponseBody, makes a condition ask for another attempt or not,    *)
(* and may find the context cancelled.                                     *)
Do ==
  /\ pc = "do"
  /\ \E reached, err, again, cancelled \in BOOLEAN :
       /\ ~reached => err
       /\ again => conf.conditions
       /\ cancelled => err
       /\ last' = [err |-> err, again |-> again, cancelled |-> cancelled]
       /\ sent' = IF reached THEN Append(sent, [attempt |-> attempt, query |-> ParseURL(req), header |-> req.header,
                                                ctype |-> req.ctype, cookies |-> req.cookies, body |-> Body(req)])
                             ELSE sent
       /\ \E read \in BOOLEAN :
            /\ reached => read
            /\ req' = [req EXCEPT !.raw = IF read THEN "none" ELSE @, !.read = @ \/ (read /\ req.body = "reader")]
  /\ pc' = "release"
  /\ UNCHANGED <<conf, ask, pool, attempt, opened, clean, pure, calls>>

(* releaseBuffer *)
Released(b) == {b} \ {None}
Release ==
  /\ pc = "release"
  /\ pool' = [b \in DOMAIN pool |-> IF b \in Released(opened) THEN pool[b] + 1 ELSE pool[b]]
  /\ req' = IF opened # None /\ opened = req.buf THEN [req EXCEPT !.raw = "none"] ELSE req
  /\ pc' = "decide"
  /\ UNCHANGED <<conf, ask, attempt, opened, sent, last, clean, pure, calls>>

(* Backoff: retries is a number of attempts.  A cancelled context hides    *)
(* the error from it, not from the caller.                                 *)
Satisfied == (~last.err \/ last.cancelled) /\ ~last.again
Over == conf.retries = 0 \/ Satisfied \/ attempt >= conf.retries

Again ==
  /\ pc = "decide" /\ ~Over
  /\ attempt' = attempt + 1 /\ pc' = "hooks"
  /\ UNCHANGED <<conf, ask, req, pool, opened, sent, last, clean, pure, calls>>

(* sendAndRecv makes a new request when the call had no error; users of    *)
(* resty make one for every call.                                          *)
Renew(r) == R
Return ==
  /\ pc = "decide" /\ Over
  /\ clean' = (~last.err \/ ~conf.inner)
  /\ req' = IF clean' THEN Renew(req) ELSE req
  /\ pc' = "idle"
  /\ UNCHANGED <<conf, ask, pool, attempt, opened, sent, last, pure, calls>>

Next == (\E a \in Asks : Execute(a)) \/ Hooks \/ Prepare \/ Do \/ Release \/ Again \/ Return

Spec == Init /\ [][Next]_vars

-----------------------------------------------------------------------------
(* Properties *)

TypeOK ==
  /\ conf \in Clients /\ ask \in Asks \cup {None}
  /\ pool \in Seq(Nat) /\ pc \in {"idle", "hooks", "prepare", "do", "release", "decide"}
  /\ attempt \in Nat /\ calls \in 0..MaxCalls

(* What is sent of a call as its body, and as what.  A GET has none but a  *)
(* reader, which createHTTPRequest takes whatever the method.              *)
Payload(a) ==
  IF a.method = "GET" THEN IF a.body = "reader" THEN "reader" ELSE "none"
  ELSE IF a.body # "file" /\ Filled(a.form) THEN "form" ELSE a.body
TypeOf(a) ==
  CASE a.method = "GET" \/ Payload(a) = "none" -> None
    [] Payload(a) = "file" -> "multipart"
    [] Payload(a) = "struct" -> "json"
    [] Payload(a) = "form" -> "form"
    [] OTHER -> "plain"

(* What every attempt should send of what its call and its client set.     *)
Wanted(a, s) ==
  /\ s.query = Merge(conf.query, a.query)
  /\ s.header = Merge(conf.header, a.header)
  /\ s.body = Payload(a) \/ (Payload(a) = "reader" /\ s.attempt > 1)
  /\ s.ctype = TypeOf(a)

(* Every attempt of a call sends what was set for it, and nothing of a     *)
(* call that was answered before: retries repeat the request, whatever the *)
(* attempts before left in it, except readers, which are read only once,   *)
(* and cookies (resty/request.go Execute, rest/client.go sendAndRecv).     *)
SentAsAsked ==
  clean /\ pc # "idle" => \A i \in DOMAIN sent : Wanted(ask, sent[i]) /\ (conf.cookies = 0 => sent[i].cookies = 0)

(* A buffer that is being sent is not in the pool, where another request   *)
(* would take it, and none is there twice (util.go releaseBuffer).         *)
BuffersApart ==
  pure => /\ \A b \in DOMAIN pool : pool[b] <= 1
          /\ pc = "do" /\ req.buf # None => pool[req.buf] = 0
=============================================================================
