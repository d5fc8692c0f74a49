------------------------------- MODULE Proxy -------------------------------
(***************************************************************************)
(* The reverse proxy of whttp/proxy.go, a middleware that answers for a    *)
(* backend: it forwards the request, copies what the backend answers, part *)
(* by part, into the response and, when configured, keeps a copy of the    *)
(* response.  A backend may switch protocols: two goroutines then copy     *)
(* between the two connections until one of them ends.  On the standard    *)
(* engine a third cancels the request when its client goes away.           *)
(*                                                                         *)
(* A response is pooled and its array stays with it.  CopyTo shares the    *)
(* array on the standard engine (whttp/standard/response.go:55) and copies *)
(* the bytes on fasthttp's; who writes to an array writes over what the    *)
(* others that have it have there.                                         *)
(*                                                                         *)
(* Backend and client are external: a backend answers in parts, breaks off *)
(* or is not there; a client goes away.  Headers are names; which of them  *)
(* the client's Connection header lists is part of the request.            *)
(***************************************************************************)
EXTENDS Naturals, SequencesExt

CONSTANTS Engines,  \* "standard", "fasthttp"
          Inputs,   \* [key, cached, headers, listed, upgrade, options]: the requests considered
          Requests, \* 1..n, in the order they come
          Slots,    \* pooled responses
          Arrays,   \* numbers of the arrays that bodies are in, enough that one is unused
          None,
          Kinds,    \* of a backend's answers: "plain", "stream", "switch"
          MaxParts, \* bound: parts of a backend's answer
          MayLeave  \* clients may go away

VARIABLES engine, pc, ask,
          forwarded, \* the headers the backend got
          client,    \* FALSE: the client has gone
          watcher,   \* the goroutine waiting for that
          cancelled, \* the context of the request is cancelled
          answer,    \* what the backend answers: [kind, parts]
          read,      \* the parts read of it
          cut,       \* reading broke off
          slot,      \* the response a request has, or had
          array,     \* the array of a response
          buffer,    \* the parts in the response, not yet sent
          sent,      \* the parts sent to the client
          hijacked,
          copiers,   \* the two goroutines of a switched connection
          errc,      \* errors in their channel
          kept,      \* the cache: [by, body, array, spoilt] of a key
          spoilt     \* requests whose parts another has written over, or that were kept so

vars == <<engine, pc, ask, forwarded, client, watcher, cancelled, answer, read, cut,
          slot, array, buffer, sent, hijacked, copiers, errc, kept, spoilt>>
bodies == <<slot, array, buffer, kept, spoilt>>

Hop == {"Connection", "Keep-Alive", "Te", "Upgrade"}
Directions == {"toBackend", "fromBackend"}
Keys == {i.key : i \in Inputs}

-----------------------------------------------------------------------------
(* doProxy, the request: what the Connection header lists is removed, then *)
(* the hop-by-hop headers, then the proxy adds its own and, for an upgrade, *)
(* Connection and Upgrade once more.                                       *)

Stripped(i) == (i.headers \ i.listed) \ Hop

Forward(i) ==
  Stripped(i) \cup {"X-Request-Id", "X-Depth", "X-Forwarded-For", "X-Forwarded-Proto"}
              \cup (IF i.upgrade THEN {"Connection", "Upgrade"} ELSE {})

(* Faulty: a channel nobody may send on once the handler has returned.     *)
NoRoom(r) == FALSE
(* errc has room for one error.                                            *)
Room(r) == errc[r] < 1

(* Faulty: what was flushed is sent again.                                 *)
RestAll(body) == body
(* What a flush leaves in the response.                                    *)
Rest(body) == <<>>

-----------------------------------------------------------------------------
(* Responses and their arrays *)

InProgress(r) == pc[r] \notin {"new", "done", "refused"}
Free == Slots \ {slot[r] : r \in {q \in Requests : InProgress(q)}}

Used == {array[s] : s \in Slots} \cup {kept[k].array : k \in {l \in Keys : kept[l] # None}}
Unused == {a \in Arrays \ Used : \A b \in Arrays \ Used : a <= b}

(* The array of a copy of what is in array a.                              *)
CopyTo(a) == IF engine = "standard" THEN {a} ELSE Unused

(* The nth part of a body that is in array a is written over.              *)
Over(body, n, part) == [body EXCEPT ![n] = part]
OverCopy(copy, n, part) == [copy EXCEPT !.body = Over(@, n, part), !.spoilt = TRUE]
MeetsRequest(q, a, n) == InProgress(q) /\ array[slot[q]] = a /\ n <= Len(buffer[q])
MeetsKept(k, a, n) == kept[k] # None /\ kept[k].array = a /\ n <= Len(kept[k].body)

(* A part goes to the response of r as the nth, of which left is left      *)
(* then: to its array a, where others may have a part,                     *)
WriteOver(r, part, left, a, n) ==
  /\ a # None
  /\ buffer' = [q \in Requests |->
                  IF q = r THEN left ELSE IF MeetsRequest(q, a, n) THEN Over(buffer[q], n, part) ELSE buffer[q]]
  /\ kept' = [k \in Keys |-> IF MeetsKept(k, a, n) THEN OverCopy(kept[k], n, part) ELSE kept[k]]
  /\ spoilt' = spoilt \cup {q \in Requests \ {r} : MeetsRequest(q, a, n)}
  /\ UNCHANGED array

(* or, where it does not fit, to a larger one.                             *)
WriteAnew(r, left) ==
  /\ \E a \in Unused : array' = [array EXCEPT ![slot[r]] = a]
  /\ buffer' = [buffer EXCEPT ![r] = left]
  /\ UNCHANGED <<kept, spoilt>>

Write(r, part, left) ==
  /\ WriteOver(r, part, left, array[slot[r]], Len(buffer[r]) + 1) \/ WriteAnew(r, left)
  /\ UNCHANGED slot

-----------------------------------------------------------------------------
Init ==
  /\ engine \in Engines
  /\ pc = [r \in Requests |-> "new"]
  /\ ask = [r \in Requests |-> CHOOSE i \in Inputs : TRUE]
  /\ forwarded = [r \in Requests |-> {}]
  /\ client = [r \in Requests |-> TRUE]
  /\ watcher = [r \in Requests |-> "none"]
  /\ cancelled = [r \in Requests |-> FALSE]
  /\ answer = [r \in Requests |-> [kind |-> "plain", parts |-> 0]]
  /\ read = [r \in Requests |-> 0]
  /\ cut = [r \in Requests |-> FALSE]
  /\ slot = [r \in Requests |-> None]
  /\ array = [s \in Slots |-> None]
  /\ buffer = [r \in Requests |-> <<>>]
  /\ sent = [r \in Requests |-> <<>>]
  /\ hijacked = [r \in Requests |-> FALSE]
  /\ copiers = [r \in Requests |-> [d \in Directions |-> "none"]]
  /\ errc = [r \in Requests |-> 0]
  /\ kept = [k \in Keys |-> None]
  /\ spoilt = {}

Goto(r, step) == pc' = [pc EXCEPT ![r] = step]

(* A request gets a pooled response, emptied.  Proxy: a response kept for  *)
(* the key is the answer; else the backend is asked, and on the standard   *)
(* engine the client is watched.                                           *)
Begin(r, i, s) ==
  /\ pc[r] = "new" /\ \A q \in Requests : q < r => pc[q] # "new"
  /\ s \in Free
  /\ ask' = [ask EXCEPT ![r] = i]
  /\ slot' = [slot EXCEPT ![r] = s]
  /\ IF i.cached /\ kept[i.key] # None
     THEN /\ buffer' = [buffer EXCEPT ![r] = kept[i.key].body]
          /\ \E a \in CopyTo(kept[i.key].array) : array' = [array EXCEPT ![s] = a]
          /\ spoilt' = IF kept[i.key].spoilt THEN spoilt \cup {r} ELSE spoilt
          /\ Goto(r, "commit")
          /\ UNCHANGED <<forwarded, watcher>>
     ELSE /\ forwarded' = [forwarded EXCEPT ![r] = Forward(i)]
          /\ watcher' = [watcher EXCEPT ![r] = IF engine = "standard" THEN "waits" ELSE "none"]
          /\ Goto(r, "trip")
          /\ UNCHANGED <<array, buffer, spoilt>>
  /\ UNCHANGED <<engine, client, cancelled, answer, read, cut, sent, hijacked, copiers, errc, kept>>

Leaves(r) ==
  /\ MayLeave /\ InProgress(r) /\ client[r]
  /\ client' = [client EXCEPT ![r] = FALSE]
  /\ UNCHANGED <<engine, pc, ask, forwarded, watcher, cancelled, answer, read, cut,
                 bodies, sent, hijacked, copiers, errc>>

(* The watcher: the client has gone, or the request is over.               *)
Watch(r) ==
  /\ watcher[r] = "waits"
  /\ ~client[r] \/ cancelled[r]
  /\ cancelled' = [cancelled EXCEPT ![r] = TRUE]
  /\ watcher' = [watcher EXCEPT ![r] = "ended"]
  /\ UNCHANGED <<engine, pc, ask, forwarded, client, answer, read, cut,
                 bodies, sent, hijacked, copiers, errc>>

(* doProxy returns: the deferred cancel; an error is for the framework to  *)
(* answer, anything else is a success, and kept.                           *)
Return(r, failed) ==
  /\ cancelled' = [cancelled EXCEPT ![r] = TRUE]
  /\ Goto(r, IF failed THEN "error" ELSE IF ask[r].cached THEN "keep" ELSE "commit")

(* RoundTrip: no answer, or the head of one.                               *)
NoAnswer(r) ==
  /\ pc[r] = "trip"
  /\ Return(r, TRUE)
  /\ UNCHANGED <<engine, ask, forwarded, client, watcher, answer, read, cut,
                 bodies, sent, hijacked, copiers, errc>>

(* The proxy answers OPTIONS itself, with headers.  Switching protocols    *)
(* needs the upgrade that was asked for, and takes the connection over,    *)
(* after which writing the head to it may fail; fasthttp cannot switch,    *)
(* and panics.                                                             *)
Answered(r, kind, n) ==
  /\ pc[r] = "trip" /\ ~cancelled[r]
  /\ answer' = [answer EXCEPT ![r] = [kind |-> kind, parts |-> n]]
  /\ \/ ask[r].options /\ Return(r, FALSE) /\ UNCHANGED <<hijacked, copiers>>
     \/ ~ask[r].options /\ kind # "switch" /\ Goto(r, "copy") /\ UNCHANGED <<cancelled, hijacked, copiers>>
     \/ /\ ~ask[r].options /\ kind = "switch"
        /\ ~ask[r].upgrade \/ engine = "fasthttp"
        /\ Return(r, TRUE) /\ UNCHANGED <<hijacked, copiers>>
     \/ /\ ~ask[r].options /\ kind = "switch" /\ ask[r].upgrade /\ engine = "standard"
        /\ hijacked' = [hijacked EXCEPT ![r] = TRUE]
        /\ \/ Return(r, TRUE) /\ UNCHANGED copiers
           \/ /\ copiers' = [copiers EXCEPT ![r] = [d \in Directions |-> "copies"]]
              /\ Goto(r, "switched")
              /\ UNCHANGED cancelled
  /\ UNCHANGED <<engine, ask, forwarded, client, watcher, read, cut, bodies, sent, errc>>

(* copyBuffer: a part is written to the response, and flushed for a stream. *)
(* fasthttp cannot flush.                                                  *)
Copy(r) ==
  /\ pc[r] = "copy" /\ read[r] < answer[r].parts /\ ~cancelled[r]
  /\ read' = [read EXCEPT ![r] = @ + 1]
  /\ LET part == <<r, read[r] + 1>>
         body == Append(buffer[r], part)
     IN  IF answer[r].kind = "stream" /\ engine = "standard"
         THEN sent' = [sent EXCEPT ![r] = @ \o body] /\ Write(r, part, Rest(body))
         ELSE UNCHANGED sent /\ Write(r, part, body)
  /\ UNCHANGED <<engine, pc, ask, forwarded, client, watcher, cancelled, answer, cut,
                 hijacked, copiers, errc>>

(* The end of the body, or an error reading it, which is forgotten.        *)
Copied(r) ==
  /\ pc[r] = "copy"
  /\ Return(r, FALSE)
  /\ cut' = [cut EXCEPT ![r] = read[r] < answer[r].parts]
  /\ UNCHANGED <<engine, ask, forwarded, client, watcher, answer, read,
                 bodies, sent, hijacked, copiers, errc>>

(* A goroutine of a switched connection: the side it reads ends, or the    *)
(* handler has closed both connections.                                    *)
CopierEnds(r, d) ==
  /\ copiers[r][d] = "copies"
  /\ copiers' = [copiers EXCEPT ![r][d] = "sends"]
  /\ UNCHANGED <<engine, pc, ask, forwarded, client, watcher, cancelled, answer, read, cut,
                 bodies, sent, hijacked, errc>>

CopierSends(r, d) ==
  /\ copiers[r][d] = "sends"
  /\ \/ /\ Room(r)
        /\ errc' = [errc EXCEPT ![r] = @ + 1]
        /\ UNCHANGED <<pc, cancelled>>
     \/ /\ pc[r] = "switched" /\ errc[r] = 0
        /\ Return(r, FALSE)
        /\ UNCHANGED errc
  /\ copiers' = [copiers EXCEPT ![r][d] = "ended"]
  /\ UNCHANGED <<engine, ask, forwarded, client, watcher, answer, read, cut,
                 bodies, sent, hijacked>>

(* The handler of a switched connection gets the first error.              *)
Switched(r) ==
  /\ pc[r] = "switched" /\ errc[r] > 0
  /\ errc' = [errc EXCEPT ![r] = @ - 1]
  /\ Return(r, FALSE)
  /\ UNCHANGED <<engine, ask, forwarded, client, watcher, answer, read, cut,
                 bodies, sent, hijacked, copiers>>

(* A copy of what is in the response now.                                  *)
Keep(r) ==
  /\ pc[r] = "keep"
  /\ \E a \in CopyTo(array[slot[r]]) :
       kept' = [kept EXCEPT ![ask[r].key] = [by |-> r, body |-> buffer[r], array |-> a, spoilt |-> r \in spoilt]]
  /\ Goto(r, "commit")
  /\ UNCHANGED <<engine, ask, forwarded, client, watcher, cancelled, answer, read, cut,
                 slot, array, buffer, sent, hijacked, copiers, errc, spoilt>>

(* The framework's answer to an error is written to the response.          *)
Error(r) ==
  /\ pc[r] = "error"
  /\ Write(r, <<r, 0>>, Append(buffer[r], <<r, 0>>))
  /\ Goto(r, "refuse")
  /\ UNCHANGED <<engine, ask, forwarded, client, watcher, cancelled, answer, read, cut,
                 sent, hijacked, copiers, errc>>

(* Commit, which leaves a connection taken over alone.  The response goes  *)
(* back to the pool.                                                       *)
Commit(r) ==
  /\ pc[r] \in {"commit", "refuse"}
  /\ sent' = [sent EXCEPT ![r] = IF hijacked[r] THEN @ ELSE @ \o buffer[r]]
  /\ buffer' = [buffer EXCEPT ![r] = <<>>]
  /\ Goto(r, IF pc[r] = "refuse" THEN "refused" ELSE "done")
  /\ UNCHANGED <<engine, ask, forwarded, client, watcher, cancelled, answer, read, cut,
                 slot, array, hijacked, copiers, errc, kept, spoilt>>

(* An entry expires.                                                       *)
Expire(k) ==
  /\ kept[k] # None
  /\ kept' = [kept EXCEPT ![k] = None]
  /\ UNCHANGED <<engine, pc, ask, forwarded, client, watcher, cancelled, answer, read, cut,
                 slot, array, buffer, sent, hijacked, copiers, errc, spoilt>>

Steps(r) ==
  \/ NoAnswer(r) \/ Copy(r) \/ Copied(r) \/ Switched(r) \/ Keep(r)
  \/ Error(r) \/ Commit(r)
  \/ \E kind \in Kinds, n \in 0..MaxParts : Answered(r, kind, n)

Next ==
  \/ \E r \in Requests :
       \/ \E i \in Inputs, s \in Slots : Begin(r, i, s)
       \/ Leaves(r) \/ Watch(r) \/ Steps(r)
       \/ \E d \in Directions : CopierEnds(r, d) \/ CopierSends(r, d)
  \/ \E k \in Keys : Expire(k)

Spec == Init /\ [][Next]_vars

(* Goroutines run; a copier whose connections are closed ends.             *)
Closed(r) == hijacked[r] /\ pc[r] # "switched"
Fairness ==
  \A r \in Requests :
    /\ WF_vars(Watch(r))
    /\ \A d \in Directions : WF_vars(CopierSends(r, d)) /\ WF_vars(Closed(r) /\ CopierEnds(r, d))

FairSpec == Spec /\ Fairness

-----------------------------------------------------------------------------
(* Properties *)

Body(r, n) == [m \in 1..n |-> <<r, m>>]

(* The ways a kept response may be less than the backend's answer: reading *)
(* broke off, it was a stream and is sent already, or an answer to OPTIONS *)
(* or a switched connection, which have no body.                           *)
Partial(q) ==
  cut[q] \/ ask[q].options \/ answer[q].kind = "switch" \/ (answer[q].kind = "stream" /\ engine = "standard")

(* A client gets the parts of one backend answer in their order, from the  *)
(* first: its own, or that of a request with the same key; all of them     *)
(* unless that answer was broken off, streamed, a switch or to OPTIONS.    *)
(* The one exception is a response another request has written over,       *)
OneAnswer ==
  \A r \in Requests : pc[r] = "done" /\ ~hijacked[r] /\ r \notin spoilt =>
    \E q \in Requests :
      /\ q = r \/ (ask[r].cached /\ ask[q].cached /\ ask[q].key = ask[r].key)
      /\ IsPrefix(sent[r], Body(q, answer[q].parts))
      /\ Len(sent[r]) < answer[q].parts => Partial(q)

(* which happens on the standard engine only, and when responses are kept. *)
SpoiltByKeeping == spoilt # {} => engine = "standard" /\ \E q \in Requests : pc[q] # "new" /\ ask[q].cached

(* A client gets one answer in order, but for the arrays that kept         *)
(* responses share on the standard engine.                                 *)
GetsOneAnswer == OneAnswer /\ SpoiltByKeeping

(* No goroutine is left behind by a request that is over, however it went. *)
NothingLeft ==
  \A r \in Requests : pc[r] \in {"done", "refused"} ~>
    watcher[r] # "waits" /\ \A d \in Directions : copiers[r][d] \in {"none", "ended"}
=============================================================================
