--------------------------- MODULE ServicesProofs ---------------------------
(***************************************************************************)
(* What holds of the services around a process, for any keys, clients and  *)
(* numbers of failures and requests: the storage with its sessions         *)
(* (Storage), the HTTP client (HttpClient) and the way of a request through *)
(* the engine (Responses).  They have no state in common.                  *)
(***************************************************************************)
EXTENDS Storage, Sequences, SequenceTheorems, WellFoundedInduction, TLAPS

-----------------------------------------------------------------------------
(* The storage: sessions stay where they are put, and go when they end     *)

Texts == {"login", "ac", "lock"}
KeysApart == LockKeys \subseteq Keys /\ None \notin Texts

Typed ==
  /\ redis \in [Nodes \X Keys -> Texts \cup {None}]
  /\ deleting \in [Keys -> Nat]
  /\ pc \in [Processes -> {"idle", "get", "ask", "put", "holds"}]
  /\ key \in [Processes -> Keys \cup {None}]
  /\ what \in [Processes -> Texts \cup {None}]
  /\ kept \subseteq Sessions /\ ended \subseteq Sessions

(* Locks and sessions have keys of their own.                              *)
KeysRight ==
  \A p \in Processes :
    /\ pc[p] # "idle" => key[p] \in Keys
    /\ pc[p] \in {"get", "ask"} => key[p] \in Sessions
    /\ pc[p] = "holds" => key[p] \in LockKeys
    /\ pc[p] = "put" => what[p] # None /\ (key[p] \in LockKeys <=> what[p] = "lock")

(* What was put for sure is there, and not about to be deleted.            *)
KeptRight == \A k \in kept : deleting[k] = 0 /\ At(k) # None

(* What has ended is about to be deleted, or gone and put by nobody, but   *)
(* in the ways that are known.                                             *)
EndedRight ==
  \A k \in ended \ undone :
    deleting[k] > 0 \/ (At(k) = None /\ \A p \in Processes : ~(pc[p] = "put" /\ key[p] = k))

IndInv == Typed /\ KeysRight /\ KeptRight /\ EndedRight

(* Nothing is kept, ended or being deleted at the start.                   *)
LEMMA InitInv == KeysApart /\ Init => IndInv
BY DEF KeysApart, Init, IndInv, Typed, KeysRight, KeptRight, EndedRight, At, Sessions

(* A step of a client, a delete or a node keeps the invariant.             *)
LEMMA NextInv == KeysApart /\ IndInv /\ [Next]_vars => IndInv'
<1> SUFFICES ASSUME KeysApart, IndInv, [Next]_vars PROVE IndInv'
  OBVIOUS
<1> USE DEF IndInv, KeysApart, At, Nodes, Sessions
<1>1. ASSUME NEW p \in Processes, NEW k \in Sessions, SetSession(p, k) PROVE IndInv'
  <2>1. Typed'
    BY <1>1 DEF SetSession, Begin, PutNext, history, budget, Typed, KeysRight, Texts
  <2>2. KeysRight'
    BY <1>1 DEF SetSession, Begin, PutNext, history, budget, Typed, KeysRight, Texts
  <2>3. KeptRight'
    BY <1>1 DEF SetSession, Begin, PutNext, history, budget, Typed, KeysRight, KeptRight, Texts
  <2>4. EndedRight'
    BY <1>1 DEF SetSession, Begin, PutNext, history, budget, Typed, KeysRight, KeptRight, EndedRight, Texts
  <2> QED
    BY <2>1, <2>2, <2>3, <2>4
<1>2. ASSUME NEW p \in Processes, NEW k \in Sessions, Session(p, k) PROVE IndInv'
  <2>1. Typed'
    BY <1>2 DEF Session, Begin, history, budget, Typed, KeysRight, Texts
  <2>2. KeysRight'
    BY <1>2 DEF Session, Begin, history, budget, Typed, KeysRight, Texts
  <2>3. KeptRight'
    BY <1>2 DEF Session, Begin, history, budget, Typed, KeysRight, KeptRight, Texts
  <2>4. EndedRight'
    BY <1>2 DEF Session, Begin, history, budget, Typed, KeysRight, KeptRight, EndedRight, Texts
  <2> QED
    BY <2>1, <2>2, <2>3, <2>4
<1>3. ASSUME NEW p \in Processes, NEW k \in Sessions, DelSession(p, k) PROVE IndInv'
  <2>1. Typed'
    BY <1>3 DEF DelSession, Putting, history, budget, Typed, KeysRight, Texts
  <2>2. KeysRight'
    BY <1>3 DEF DelSession, Putting, history, budget, Typed, KeysRight, Texts
  <2>3. KeptRight'
    BY <1>3 DEF DelSession, Putting, history, budget, Typed, KeysRight, KeptRight, Texts
  <2>4. EndedRight'
    BY <1>3 DEF DelSession, Putting, history, budget, Typed, KeysRight, KeptRight, EndedRight, Texts
  <2> QED
    BY <2>1, <2>2, <2>3, <2>4
<1>4. ASSUME NEW p \in Processes, NEW k \in LockKeys, GetLock(p, k) PROVE IndInv'
  <2>1. Typed'
    BY <1>4 DEF GetLock, Begin, PutNext, history, budget, Typed, KeysRight, Texts
  <2>2. KeysRight'
    BY <1>4 DEF GetLock, Begin, PutNext, history, budget, Typed, KeysRight, Texts
  <2>3. KeptRight'
    BY <1>4 DEF GetLock, Begin, PutNext, history, budget, Typed, KeysRight, KeptRight, Texts
  <2>4. EndedRight'
    BY <1>4 DEF GetLock, Begin, PutNext, history, budget, Typed, KeysRight, KeptRight, EndedRight, Texts
  <2> QED
    BY <2>1, <2>2, <2>3, <2>4
<1>5. ASSUME NEW p \in Processes, RedisGet(p) PROVE IndInv'
  <2>1. Typed'
    BY <1>5 DEF RedisGet, history, budget, Typed, KeysRight, Texts
  <2>2. KeysRight'
    BY <1>5 DEF RedisGet, history, budget, Typed, KeysRight, Texts
  <2>3. KeptRight'
    BY <1>5 DEF RedisGet, history, budget, Typed, KeysRight, KeptRight, Texts
  <2>4. EndedRight'
    BY <1>5 DEF RedisGet, history, budget, Typed, KeysRight, KeptRight, EndedRight, Texts
  <2> QED
    BY <2>1, <2>2, <2>3, <2>4
<1>6. ASSUME NEW p \in Processes, Ask(p) PROVE IndInv'
  <2>1. Typed'
    BY <1>6 DEF Ask, PutNext, history, budget, Typed, KeysRight, Texts
  <2>2. KeysRight'
    BY <1>6 DEF Ask, PutNext, history, budget, Typed, KeysRight, Texts
  <2>3. KeptRight'
    BY <1>6 DEF Ask, PutNext, history, budget, Typed, KeysRight, KeptRight, Texts
  <2>4. EndedRight'
    BY <1>6 DEF Ask, PutNext, history, budget, Typed, KeysRight, KeptRight, EndedRight, Texts
  <2> QED
    BY <2>1, <2>2, <2>3, <2>4
<1>7. ASSUME NEW p \in Processes, Over(p) PROVE IndInv'
  <2>1. Typed'
    BY <1>7 DEF Over, history, budget, Typed, KeysRight, Texts
  <2>2. KeysRight'
    BY <1>7 DEF Over, history, budget, Typed, KeysRight, Texts
  <2>3. KeptRight'
    BY <1>7 DEF Over, history, budget, Typed, KeysRight, KeptRight, Texts
  <2>4. EndedRight'
    BY <1>7 DEF Over, history, budget, Typed, KeysRight, KeptRight, EndedRight, Texts
  <2> QED
    BY <2>1, <2>2, <2>3, <2>4
<1>8. ASSUME NEW p \in Processes, Put(p) PROVE IndInv'
  <2>1. Typed'
    BY <1>8 DEF Put, Stored, Refused, After, history, budget, Typed, KeysRight, Texts
  <2>2. KeysRight'
    BY <1>8 DEF Put, Stored, Refused, After, history, budget, Typed, KeysRight, Texts
  <2>3. KeptRight'
    BY <1>8 DEF Put, Stored, Refused, After, history, budget, Typed, KeysRight, KeptRight, Texts
  <2>4. EndedRight'
    BY <1>8 DEF Put, Stored, Refused, After, history, budget, Typed, KeysRight, KeptRight, EndedRight, Texts
  <2> QED
    BY <2>1, <2>2, <2>3, <2>4
<1>9. ASSUME NEW p \in Processes, PutFails(p) PROVE IndInv'
  <2>1. Typed'
    <3>1. redis' \in [Nodes \X Keys -> Texts \cup {None}]
      BY <1>9 DEF PutFails, Stored, Typed, KeysRight
    <3>2. deleting' \in [Keys -> Nat] /\ key' \in [Processes -> Keys \cup {None}]
          /\ what' \in [Processes -> Texts \cup {None}]
      BY <1>9 DEF PutFails, After, history, Typed
    <3>3. pc' \in [Processes -> {"idle", "get", "ask", "put", "holds"}]
      BY <1>9 DEF PutFails, After, Typed
    <3>4. kept' \subseteq Sessions /\ ended' \subseteq Sessions
      BY <1>9 DEF PutFails, After, history, Typed, KeysRight
    <3> QED
      BY <3>1, <3>2, <3>3, <3>4 DEF Typed
  <2>2. KeysRight'
    BY <1>9 DEF PutFails, Stored, Refused, After, GivesUp, history, budget, Typed, KeysRight, Texts
  <2>3. KeptRight'
    BY <1>9 DEF PutFails, Stored, Refused, After, GivesUp, history, budget, Typed, KeysRight, KeptRight, Texts
  <2>4. EndedRight'
    <3>1. ended' = ended /\ ac' = ac /\ undone' = undone /\ deleting' = deleting /\ key' = key
      BY <1>9 DEF PutFails, history
    <3>2. \A q \in Processes : pc'[q] = "put" => pc[q] = "put"
      BY <1>9 DEF PutFails, Typed
    <3>3. \A k \in ended : At(k)' = At(k) \/ (pc[p] = "put" /\ key[p] = k)
      BY <1>9 DEF PutFails, Stored, Typed, KeysRight
    <3> QED
      BY <3>1, <3>2, <3>3 DEF EndedRight
  <2> QED
    BY <2>1, <2>2, <2>3, <2>4
<1>10. ASSUME NEW p \in Processes, ReleaseLock(p) PROVE IndInv'
  <2>1. Typed'
    BY <1>10 DEF ReleaseLock, history, budget, Typed, KeysRight, Texts
  <2>2. KeysRight'
    BY <1>10 DEF ReleaseLock, history, budget, Typed, KeysRight, Texts
  <2>3. KeptRight'
    BY <1>10 DEF ReleaseLock, history, budget, Typed, KeysRight, KeptRight, Texts
  <2>4. EndedRight'
    BY <1>10 DEF ReleaseLock, history, budget, Typed, KeysRight, KeptRight, EndedRight, Texts
  <2> QED
    BY <2>1, <2>2, <2>3, <2>4
<1>11. ASSUME NEW k \in Sessions, Known(k) PROVE IndInv'
  <2>1. Typed'
    BY <1>11 DEF Known, history, budget, Typed, KeysRight, Texts
  <2>2. KeysRight'
    BY <1>11 DEF Known, history, budget, Typed, KeysRight, Texts
  <2>3. KeptRight'
    BY <1>11 DEF Known, history, budget, Typed, KeysRight, KeptRight, Texts
  <2>4. EndedRight'
    BY <1>11 DEF Known, history, budget, Typed, KeysRight, KeptRight, EndedRight, Texts
  <2> QED
    BY <2>1, <2>2, <2>3, <2>4
<1>12. ASSUME NEW k \in Sessions, Forgotten(k) PROVE IndInv'
  <2>1. Typed'
    BY <1>12 DEF Forgotten, history, budget, Typed, KeysRight, Texts
  <2>2. KeysRight'
    BY <1>12 DEF Forgotten, history, budget, Typed, KeysRight, Texts
  <2>3. KeptRight'
    BY <1>12 DEF Forgotten, history, budget, Typed, KeysRight, KeptRight, Texts
  <2>4. EndedRight'
    BY <1>12 DEF Forgotten, history, budget, Typed, KeysRight, KeptRight, EndedRight, Texts
  <2> QED
    BY <2>1, <2>2, <2>3, <2>4
<1>13. ASSUME NEW k \in Keys, Delete(k) PROVE IndInv'
  <2>1. Typed'
    BY <1>13 DEF Delete, Deleted, Putting, history, budget, Typed, KeysRight, Texts
  <2>2. KeysRight'
    BY <1>13 DEF Delete, Deleted, Putting, history, budget, Typed, KeysRight, Texts
  <2>3. KeptRight'
    BY <1>13 DEF Delete, Deleted, Putting, history, budget, Typed, KeysRight, KeptRight, Texts
  <2>4. EndedRight'
    BY <1>13 DEF Delete, Deleted, Putting, history, budget, Typed, KeysRight, KeptRight, EndedRight, Texts
  <2> QED
    BY <2>1, <2>2, <2>3, <2>4
<1>14. ASSUME NEW k \in Keys, DeleteFails(k) PROVE IndInv'
  <2>1. Typed'
    BY <1>14 DEF DeleteFails, history, budget, Typed, KeysRight, Texts
  <2>2. KeysRight'
    BY <1>14 DEF DeleteFails, history, budget, Typed, KeysRight, Texts
  <2>3. KeptRight'
    BY <1>14 DEF DeleteFails, history, budget, Typed, KeysRight, KeptRight, Texts
  <2>4. EndedRight'
    BY <1>14 DEF DeleteFails, history, budget, Typed, KeysRight, KeptRight, EndedRight, Texts
  <2> QED
    BY <2>1, <2>2, <2>3, <2>4
<1>15. ASSUME NEW k \in Keys, Expire(k) PROVE IndInv'
  <2>1. Typed'
    BY <1>15 DEF Expire, history, budget, Typed, KeysRight, Texts
  <2>2. KeysRight'
    BY <1>15 DEF Expire, history, budget, Typed, KeysRight, Texts
  <2>3. KeptRight'
    BY <1>15 DEF Expire, history, budget, Typed, KeysRight, KeptRight, Texts
  <2>4. EndedRight'
    BY <1>15 DEF Expire, history, budget, Typed, KeysRight, KeptRight, EndedRight, Texts
  <2> QED
    BY <2>1, <2>2, <2>3, <2>4
<1>16. CASE UNCHANGED vars
  BY <1>16 DEF vars, history, budget, Typed, KeysRight, KeptRight, EndedRight
<1> QED
  BY <1>1, <1>2, <1>3, <1>4, <1>5, <1>6, <1>7, <1>8, <1>9, <1>10, <1>11, <1>12, <1>13, <1>14, <1>15, <1>16 DEF Next

(* The inductive invariant, in every reachable state.                      *)
LEMMA Invariance == ASSUME KeysApart PROVE Spec => []IndInv
<1>1. Init => IndInv
  BY InitInv
<1>2. IndInv /\ [Next]_vars => IndInv'
  BY NextInv
<1> QED
  BY <1>1, <1>2, PTL DEF Spec

-----------------------------------------------------------------------------
(* A session that redis took when no delete of it was on its way stays     *)
(* until it expires or is ended, whatever fails (storage.go Put, Delete).  *)
THEOREM SessionsStay == ASSUME KeysApart PROVE Spec => []SetStays
<1>1. IndInv => SetStays
  BY DEF IndInv, KeptRight, SetStays
<1> QED
  BY <1>1, Invariance, PTL

(* A session that was ended is gone with its last delete and stays gone,   *)
(* but for a delete that fails, a request that is putting it then, and one *)
(* that asks the account service, which was not told (rest/session.go).    *)
THEOREM SessionsEnd == ASSUME KeysApart PROVE Spec => []EndedStaysEnded
<1>1. IndInv => EndedStaysEnded
  <2> SUFFICES ASSUME IndInv, NEW k \in ended \ undone, deleting[k] = 0
               PROVE  At(k) = None
    BY DEF EndedStaysEnded
  <2> QED
    BY DEF IndInv, EndedRight
<1> QED
  BY <1>1, Invariance, PTL

-----------------------------------------------------------------------------
(* The HTTP client: every attempt sends what was set for its call          *)

CONSTANTS Names, Clients, Asks, MaxSends
VARIABLES config, ask, req, buffers, calling, attempt, opened, got, last, fresh, pure, requested

H == INSTANCE HttpClient WITH
  MaxCalls <- MaxSends, conf <- config, pool <- buffers, pc <- calling, sent <- got, clean <- fresh, calls <- requested

(* What the body of a call may be, and what a request of resty is made of. *)
Contents == {"none", "bytes", "struct", "reader", "file"}
Fields == {"query", "header", "form", "body", "ctype", "accept", "cookies", "buf", "raw", "read"}

(* What a call sets is of the types resty has for it.                      *)
AsksRight == \A a \in Asks : a.form = [n \in Names |-> a.form[n]] /\ a.body \in Contents

(* Such a call takes a buffer for every attempt but a reader's.            *)
Takes(a) ==
  a.method # "GET" /\ (a.body = "file" \/ H!Filled(a.form) \/ (a.body # "none" /\ (a.body = "reader" => config.length)))

(* What the attempts of a call leave of what was set for it.               *)
RequestRight ==
  /\ ask \in Asks /\ (ask.body = "file" => ask.method = "POST")
  /\ req.query = H!Merge(H!NoNames, ask.query) /\ req.form = ask.form
  /\ req.header \in {H!Merge(H!NoNames, ask.header), H!Merge(config.header, ask.header)}
  /\ config.cookies = 0 => req.cookies = 0
  /\ req.ctype \in {None, H!TypeOf(ask)}
  /\ req.body = ask.body \/ (req.body = "none" /\ ask.body = "reader" /\ ask.method # "GET" /\ config.length /\ req.ctype = H!TypeOf(ask))
  /\ ~Takes(ask) => req.buf = None
  /\ attempt \in Nat /\ attempt > 0
  /\ attempt = 1 /\ calling \in {"hooks", "prepare"} => req.body = ask.body /\ ~req.read

Sends ==
  [attempt |-> attempt, query |-> H!ParseURL(req), header |-> req.header,
   ctype |-> req.ctype, cookies |-> req.cookies, body |-> H!Body(req)]
Right(s) == H!Wanted(ask, s) /\ (config.cookies = 0 => s.cookies = 0)

GotRight == \A i \in DOMAIN got : Right(got[i])

CallRight ==
  fresh =>
    IF calling = "idle" THEN req = H!R
    ELSE /\ RequestRight
         /\ calling = "do" => Right(Sends)
         /\ GotRight

(* Out of the pool: it is in the hands of the request.                     *)
Out(b) == b # None => b \in DOMAIN buffers /\ buffers[b] = 0

BuffersRight ==
  /\ buffers \in Seq(Nat)
  /\ pure =>
      /\ \A b \in DOMAIN buffers : buffers[b] <= 1
      /\ calling # "idle" => fresh /\ ~config.hook /\ ~(ask.body = "reader" /\ config.length) /\ Out(req.buf)
      /\ calling \in {"prepare", "do", "release"} => Out(opened)
      /\ calling = "prepare" => opened = req.buf
      /\ calling \in {"do", "release"} /\ opened # None => opened # req.buf

ClientInv ==
  /\ DOMAIN req = Fields /\ \E S : got \in Seq(S)
  /\ calling \in {"idle", "hooks", "prepare", "do", "release", "decide"}
  /\ CallRight /\ BuffersRight

(* No buffer is missing.                                                   *)
BuffersNumbered == None \notin Nat

(* A new request has nothing.                                              *)
LEMMA NewRequest ==
  /\ DOMAIN H!R = Fields /\ H!R.query = H!NoNames /\ H!R.header = H!NoNames /\ H!R.form = H!NoNames
  /\ H!R.body = "none" /\ H!R.ctype = None /\ H!R.cookies = 0 /\ H!R.buf = None /\ H!R.raw = "none" /\ ~H!R.read
BY DEF H!R, Fields

(* Names that are merged again stay as they are.                           *)
LEMMA MergeAgain ==
  ASSUME NEW c, NEW r
  PROVE  /\ H!Merge(c, H!Merge(H!NoNames, r)) = H!Merge(c, r)
         /\ H!Merge(c, H!Merge(c, r)) = H!Merge(c, r)
BY DEF H!Merge, H!NoNames

(* At first everything is new.                                             *)
LEMMA ClientInit == H!Init => ClientInv
<1> SUFFICES ASSUME H!Init PROVE ClientInv
  OBVIOUS
<1>1. req = H!R /\ DOMAIN req = Fields /\ req.buf = None
  BY NewRequest DEF H!Init
<1>2. buffers \in Seq(Nat) /\ DOMAIN buffers = {}
  BY DEF H!Init
<1>3. CallRight
  BY <1>1 DEF CallRight, GotRight, H!Init
<1>4. BuffersRight
  BY <1>1, <1>2 DEF BuffersRight, H!Init, Out
<1> QED
  BY <1>1, <1>3, <1>4 DEF ClientInv, H!Init

(* A call sets what it is to send in a request that is new, or was left by *)
(* a call that failed.                                                     *)
LEMMA ExecuteRight ==
  ASSUME AsksRight, ClientInv, NEW a \in Asks, H!Execute(a)
  PROVE  ClientInv'
<1> DEFINE s == [req EXCEPT !.query = H!Merge(@, a.query), !.header = H!Merge(@, a.header), !.form = H!Merge(@, a.form),
                        !.body = IF a.body = "none" THEN @ ELSE a.body]
<1>1. /\ calling = "idle" /\ calling' = "hooks" /\ ask' = a /\ req' = s /\ got' = <<>> /\ attempt' = 1
      /\ pure' = (pure /\ fresh /\ ~config.hook /\ ~(a.body = "reader" /\ config.length))
      /\ (a.body = "file" => a.method = "POST")
      /\ config' = config /\ buffers' = buffers /\ opened' = opened /\ fresh' = fresh
  BY DEF H!Execute
<1>2. /\ DOMAIN s = Fields /\ s.query = H!Merge(req.query, a.query) /\ s.header = H!Merge(req.header, a.header)
      /\ s.form = H!Merge(req.form, a.form) /\ s.body = (IF a.body = "none" THEN req.body ELSE a.body)
      /\ s.ctype = req.ctype /\ s.cookies = req.cookies /\ s.buf = req.buf /\ s.read = req.read
  BY DEF ClientInv, Fields
<1> HIDE DEF s
<1>3. CallRight'
  <2> SUFFICES ASSUME fresh PROVE RequestRight' /\ got' = <<>>
    BY <1>1 DEF CallRight, GotRight
  <2>1. req = H!R
    BY <1>1 DEF ClientInv, CallRight, GotRight
  <2>2. /\ s.query = H!Merge(H!NoNames, a.query) /\ s.header = H!Merge(H!NoNames, a.header)
        /\ s.form = H!Merge(H!NoNames, a.form) /\ s.body = a.body
        /\ s.ctype = None /\ s.cookies = 0 /\ s.buf = None /\ ~s.read
    BY <1>2, <2>1, NewRequest
  <2>3. H!Merge(H!NoNames, a.form) = a.form
    BY DEF AsksRight, H!Merge, H!NoNames
  <2> QED
    BY <1>1, <2>2, <2>3 DEF RequestRight, Takes
<1>4. BuffersRight'
  <2>1. pure' => req = H!R
    BY <1>1 DEF ClientInv, CallRight, GotRight
  <2>2. pure' => s.buf = None
    BY <1>2, <2>1, NewRequest
  <2> QED
    BY <1>1, <2>2 DEF ClientInv, BuffersRight, Out
<1> QED
  BY <1>1, <1>2, <1>3, <1>4 DEF ClientInv

(* The hooks are called, and may end the attempt.                          *)
LEMMA HooksRight ==
  ASSUME ClientInv, H!Hooks
  PROVE  ClientInv'
<1>1. /\ calling = "hooks" /\ calling' \in {"prepare", "release"} /\ (calling' = "release" => config.hook)
      /\ opened' = req.buf /\ config' = config /\ ask' = ask /\ req' = req /\ buffers' = buffers
      /\ attempt' = attempt /\ got' = got /\ fresh' = fresh /\ pure' = pure
  BY DEF H!Hooks
<1>2. CallRight'
  <2>1. fresh => RequestRight' 
    BY <1>1 DEF ClientInv, CallRight, RequestRight, Takes
  <2>2. fresh => \A i \in DOMAIN got : Right(got[i])'
    BY <1>1 DEF ClientInv, CallRight, GotRight, Right, H!Wanted
  <2> QED
    BY <1>1, <2>1, <2>2 DEF CallRight, GotRight
<1>3. BuffersRight'
  BY <1>1 DEF ClientInv, BuffersRight, Out
<1> QED
  BY <1>1, <1>2, <1>3 DEF ClientInv

Smaller == {ss \in Nat \X Nat : ss[1] < ss[2]}

(* A set of numbers has a least one.                                       *)
LEMMA Least ==
  ASSUME NEW T \in SUBSET Nat, T # {}
  PROVE  \E x \in T : \A y \in T : x <= y
<1>1. IsWellFoundedOn(Smaller, Nat)
  BY NatLessThanWellFounded DEF OpToRel, Smaller
<1>2. PICK x \in T : \A y \in T : <<y, x>> \notin Smaller
  BY <1>1, WFMin
<1>3. ASSUME NEW y \in T, y < x PROVE <<y, x>> \in Smaller
  <2>1. <<y, x>> \in Nat \X Nat /\ <<y, x>>[1] < <<y, x>>[2]
    BY <1>3
  <2> QED
    BY <2>1 DEF Smaller
<1>4. \A y \in T : ~(y < x)
  BY <1>2, <1>3
<1>5. \A y \in T : x <= y
  BY <1>4
<1> QED
  BY <1>5

(* A buffer that is taken was in the pool or is a new one, and is out of   *)
(* it when none was there twice.                                           *)
LEMMA TakenOut ==
  ASSUME buffers \in Seq(Nat), NEW b \in {H!Acquired, H!Fresh}
  PROVE  /\ b \in Nat /\ (b \in DOMAIN buffers => buffers[b] > 0)
         /\ H!Without(b) \in Seq(Nat) /\ b \in DOMAIN H!Without(b) /\ DOMAIN buffers \subseteq DOMAIN H!Without(b)
         /\ \A c \in DOMAIN buffers : H!Without(b)[c] = IF c = b THEN buffers[c] - 1 ELSE buffers[c]
         /\ \A c \in DOMAIN H!Without(b) : c \notin DOMAIN buffers => H!Without(b)[c] = 0 /\ c = b
<1>1. /\ DOMAIN buffers = 1..Len(buffers) /\ Len(buffers) \in Nat
      /\ \A c \in DOMAIN buffers : buffers[c] \in Nat
  BY LenProperties, ElementOfSeq
<1>2. H!Fresh \in Nat /\ H!Fresh \notin DOMAIN buffers
  BY <1>1 DEF H!Fresh
<1>3. CASE b = H!Fresh
  <2> DEFINE s == Append(buffers, 0)
  <2>1. /\ s \in Seq(Nat) /\ Len(s) = Len(buffers) + 1 /\ s[Len(buffers) + 1] = 0
        /\ \A i \in 1..Len(buffers) : s[i] = buffers[i]
    BY AppendProperties
  <2>2. DOMAIN s = 1..(Len(buffers) + 1)
    BY <2>1, LenProperties
  <2>3. H!Without(b) = s
    BY <1>3 DEF H!Without
  <2> HIDE DEF s
  <2> QED
    BY <1>1, <1>2, <1>3, <2>1, <2>2, <2>3 DEF H!Fresh
<1>4. CASE b # H!Fresh
  <2>1. b \in H!Pooled
    <3>1. H!Pooled # {} /\ b = H!Min(H!Pooled)
      BY <1>4 DEF H!Acquired
    <3>2. H!Pooled \in SUBSET Nat
      BY <1>1 DEF H!Pooled
    <3>3. \E x \in H!Pooled : \A y \in H!Pooled : x <= y
      BY <3>1, <3>2, Least
    <3> QED
      BY <3>1, <3>3 DEF H!Min
  <2>2. b \in DOMAIN buffers /\ buffers[b] > 0 /\ b \in Nat
    BY <1>1, <2>1 DEF H!Pooled
  <2> DEFINE s == [buffers EXCEPT ![b] = @ - 1]
  <2>3. H!Without(b) = s
    BY <1>4 DEF H!Without
  <2>4. DOMAIN s = 1..Len(buffers) /\ \A c \in DOMAIN s : s[c] = IF c = b THEN buffers[c] - 1 ELSE buffers[c]
    BY <1>1
  <2>5. \A c \in DOMAIN s : s[c] \in Nat
    BY <1>1, <2>2, <2>4
  <2>6. s \in Seq(Nat)
    <3>1. s \in [1..Len(buffers) -> Nat]
      BY <2>4, <2>5
    <3> QED
      BY <1>1, <3>1, SeqDef
  <2> HIDE DEF s
  <2> QED
    BY <1>1, <2>2, <2>3, <2>4, <2>6
<1> QED
  BY <1>3, <1>4

(* The middlewares change of a request its headers, ...                    *)
LEMMA HeaderParsed ==
  ASSUME DOMAIN req = Fields, NEW p, p = H!ParseHeader(req)
  PROVE  /\ DOMAIN p = Fields /\ p.header = H!Merge(config.header, req.header)
         /\ p.query = req.query /\ p.form = req.form /\ p.body = req.body /\ p.ctype = req.ctype
         /\ p.cookies = req.cookies /\ p.buf = req.buf /\ p.raw = req.raw /\ p.read = req.read
BY DEF H!ParseHeader, Fields

(* ... what is sent of its body, ...                                       *)
LEMMA WithBody ==
  ASSUME NEW r, DOMAIN r = Fields, NEW b, NEW raw, NEW ctype, NEW p, p = H!With(r, b, raw, ctype)
  PROVE  /\ DOMAIN p = Fields /\ p.buf = b /\ p.raw = raw /\ p.ctype = ctype
         /\ p.query = r.query /\ p.header = r.header /\ p.form = r.form /\ p.body = r.body
         /\ p.cookies = r.cookies /\ p.read = r.read
BY DEF H!With, Fields

(* ... and its cookies.                                                    *)
LEMMA WithCookies ==
  ASSUME NEW r, DOMAIN r = Fields, NEW p, p = H!Create(r)
  PROVE  /\ DOMAIN p = Fields /\ p.cookies = r.cookies + config.cookies
         /\ p.query = r.query /\ p.header = r.header /\ p.form = r.form /\ p.body = r.body
         /\ p.ctype = r.ctype /\ p.buf = r.buf /\ p.raw = r.raw /\ p.read = r.read
BY DEF H!Create, Fields

(* The ways of ParseBody.                                                  *)
File == H!Multipart(req) /\ buffers' = H!Without(H!Acquired) /\ req'.buf = H!Acquired /\ req'.body = req.body
Ended == File /\ calling' = "release" /\ req'.ctype = req.ctype /\ req'.cookies = req.cookies
FileSent == File /\ req'.raw = "file" /\ req'.ctype = "multipart"
FormSent ==
  /\ H!FormData(req) /\ buffers' = H!Without(H!Fresh) /\ req'.buf = H!Fresh /\ req'.body = req.body
  /\ req'.raw = "form" /\ req'.ctype = "form"
NothingSent ==
  /\ ~H!Multipart(req) /\ ~H!FormData(req) /\ ~H!RequestBody(req)
  /\ buffers' = buffers /\ req'.buf = req.buf /\ req'.body = req.body /\ req'.ctype = req.ctype
  /\ req'.raw = req.raw /\ req'.read = req.read
ValueSent ==
  /\ H!RequestBody(req) /\ req.body # "reader"
  /\ buffers' = H!Without(H!Acquired) /\ req'.buf = H!Acquired /\ req'.body = req.body /\ req'.raw = req.body
  /\ req'.ctype = H!Typed(req, IF req.body = "struct" THEN "json" ELSE "plain")
ReaderSent ==
  /\ H!RequestBody(req) /\ req.body = "reader" /\ ~config.length
  /\ buffers' = buffers /\ req'.buf = None /\ req'.body = req.body /\ req'.ctype = H!Typed(req, "plain")
  /\ req'.read = req.read
ReaderCopied ==
  /\ H!RequestBody(req) /\ req.body = "reader" /\ config.length
  /\ buffers' = H!Without(H!Acquired) /\ req'.buf = H!Acquired /\ req'.body = "none"
  /\ req'.raw = (IF req.read THEN "none" ELSE "reader") /\ req'.ctype = H!Typed(req, "plain")

(* Prepare, in the way of its body, changes this and no more.              *)
LEMMA Prepared ==
  ASSUME BuffersNumbered, ClientInv, H!Prepare
  PROVE  /\ calling = "prepare" /\ config' = config /\ ask' = ask /\ attempt' = attempt /\ opened' = opened
         /\ got' = got /\ fresh' = fresh /\ pure' = pure
         /\ DOMAIN req' = Fields /\ req'.query = req.query /\ req'.form = req.form
         /\ req'.header = H!Merge(config.header, req.header)
         /\ \/ Ended
            \/ /\ calling' = "do" /\ req'.cookies = req.cookies + config.cookies
               /\ FileSent \/ FormSent \/ NothingSent \/ ValueSent \/ ReaderSent \/ ReaderCopied
<1> DEFINE p == H!ParseHeader(req)
           s == H!ParseBody(p)
           taken == H!Multipart(req) \/ H!FormData(req) \/ (H!RequestBody(req) /\ s.buf # None)
<1>1. /\ calling = "prepare" /\ config' = config /\ ask' = ask /\ attempt' = attempt /\ opened' = opened
      /\ got' = got /\ fresh' = fresh /\ pure' = pure
      /\ buffers' = IF taken THEN H!Without(s.buf) ELSE buffers
      /\ IF H!Multipart(req) /\ req.read
         THEN req' = [p EXCEPT !.buf = s.buf, !.raw = "none"] /\ calling' = "release"
         ELSE req' = H!Create(s) /\ calling' = "do"
  BY DEF H!Prepare
<1>2. DOMAIN req = Fields /\ buffers \in Seq(Nat)
  BY DEF ClientInv, BuffersRight
<1>3. /\ DOMAIN p = Fields /\ p.header = H!Merge(config.header, req.header)
      /\ p.query = req.query /\ p.form = req.form /\ p.body = req.body /\ p.ctype = req.ctype
      /\ p.cookies = req.cookies /\ p.buf = req.buf /\ p.raw = req.raw /\ p.read = req.read
  BY <1>2, HeaderParsed
<1>4. /\ H!Multipart(p) <=> H!Multipart(req)
      /\ H!FormData(p) <=> H!FormData(req)
      /\ H!RequestBody(p) <=> H!RequestBody(req)
  BY <1>3 DEF H!Multipart, H!FormData, H!RequestBody
<1>5. H!Acquired # None /\ H!Fresh # None
  BY <1>2, TakenOut DEF BuffersNumbered
<1>6. \A c : H!Typed(p, c) = H!Typed(req, c)
  BY <1>3 DEF H!Typed
<1> HIDE DEF p
<1>7. CASE H!Multipart(req)
  <2>1. PICK w : w = H!With(p, H!Acquired, "file", "multipart")
    OBVIOUS
  <2>2. /\ DOMAIN w = Fields /\ w.buf = H!Acquired /\ w.raw = "file" /\ w.ctype = "multipart"
        /\ w.query = p.query /\ w.header = p.header /\ w.form = p.form /\ w.body = p.body /\ w.cookies = p.cookies
    BY <1>3, <2>1, WithBody
  <2>3. s = [w EXCEPT !.read = TRUE]
    BY <1>4, <1>7, <2>1 DEF H!ParseBody
  <2>4. /\ DOMAIN s = Fields /\ s.buf = H!Acquired /\ s.raw = "file" /\ s.ctype = "multipart"
        /\ s.query = p.query /\ s.header = p.header /\ s.form = p.form /\ s.body = p.body /\ s.cookies = p.cookies
    BY <2>2, <2>3 DEF Fields
  <2> HIDE DEF s
  <2>5. buffers' = H!Without(H!Acquired)
    BY <1>1, <1>7, <2>4
  <2>6. CASE req.read
    <3>1. req' = [p EXCEPT !.buf = s.buf, !.raw = "none"] /\ calling' = "release"
      BY <1>1, <1>7, <2>6
    <3>2. /\ DOMAIN req' = Fields /\ req'.buf = H!Acquired /\ req'.body = p.body /\ req'.ctype = p.ctype
          /\ req'.cookies = p.cookies /\ req'.query = p.query /\ req'.form = p.form /\ req'.header = p.header
      BY <1>3, <2>4, <3>1 DEF Fields
    <3> QED
      BY <1>1, <1>3, <1>7, <2>5, <3>1, <3>2 DEF Ended, File
  <2>7. CASE ~req.read
    <3>1. req' = H!Create(s) /\ calling' = "do"
      BY <1>1, <2>7
    <3>2. /\ DOMAIN req' = Fields /\ req'.cookies = s.cookies + config.cookies
          /\ req'.query = s.query /\ req'.header = s.header /\ req'.form = s.form /\ req'.body = s.body
          /\ req'.ctype = s.ctype /\ req'.buf = s.buf /\ req'.raw = s.raw
      BY <2>4, <3>1, WithCookies
    <3> QED
      BY <1>1, <1>3, <1>7, <2>4, <2>5, <3>1, <3>2 DEF FileSent, File
  <2> QED
    BY <2>6, <2>7
<1>8. CASE ~H!Multipart(req)
  <2>1. req' = H!Create(s) /\ calling' = "do"
    BY <1>1, <1>8
  <2>2. ASSUME DOMAIN s = Fields
        PROVE  /\ DOMAIN req' = Fields /\ req'.cookies = s.cookies + config.cookies
               /\ req'.query = s.query /\ req'.header = s.header /\ req'.form = s.form /\ req'.body = s.body
               /\ req'.ctype = s.ctype /\ req'.buf = s.buf /\ req'.raw = s.raw /\ req'.read = s.read
    BY <2>1, <2>2, WithCookies
  <2>3. CASE H!FormData(req)
    <3>1. s = H!With(p, H!Fresh, "form", "form")
      BY <1>4, <1>8, <2>3 DEF H!ParseBody
    <3>2. /\ DOMAIN s = Fields /\ s.buf = H!Fresh /\ s.raw = "form" /\ s.ctype = "form"
          /\ s.query = p.query /\ s.header = p.header /\ s.form = p.form /\ s.body = p.body /\ s.cookies = p.cookies
      BY <1>3, <3>1, WithBody
    <3>3. buffers' = H!Without(H!Fresh)
      BY <1>1, <2>3, <3>2
    <3> HIDE DEF s
    <3> QED
      BY <1>1, <1>3, <2>1, <2>2, <2>3, <3>2, <3>3 DEF FormSent
  <2>4. CASE ~H!FormData(req) /\ ~H!RequestBody(req)
    <3>1. s = p
      BY <1>4, <1>8, <2>4 DEF H!ParseBody
    <3>2. buffers' = buffers
      BY <1>1, <1>8, <2>4
    <3> HIDE DEF s
    <3> QED
      BY <1>1, <1>3, <1>8, <2>1, <2>2, <2>4, <3>1, <3>2 DEF NothingSent
  <2>5. CASE ~H!FormData(req) /\ H!RequestBody(req) /\ req.body # "reader"
    <3>1. s = H!With(p, H!Acquired, p.body, H!Typed(p, IF p.body = "struct" THEN "json" ELSE "plain"))
      BY <1>3, <1>4, <1>8, <2>5 DEF H!ParseBody
    <3>2. /\ DOMAIN s = Fields /\ s.buf = H!Acquired /\ s.raw = p.body
          /\ s.ctype = H!Typed(p, IF p.body = "struct" THEN "json" ELSE "plain")
          /\ s.query = p.query /\ s.header = p.header /\ s.form = p.form /\ s.body = p.body /\ s.cookies = p.cookies
      BY <1>3, <3>1, WithBody
    <3>3. buffers' = H!Without(H!Acquired)
      BY <1>1, <1>5, <2>5, <3>2
    <3> HIDE DEF s
    <3> QED
      BY <1>1, <1>3, <1>6, <2>1, <2>2, <2>5, <3>2, <3>3 DEF ValueSent
  <2>6. CASE ~H!FormData(req) /\ H!RequestBody(req) /\ req.body = "reader" /\ ~config.length
    <3>1. s = H!With(p, None, "none", H!Typed(p, "plain"))
      BY <1>3, <1>4, <1>8, <2>6 DEF H!ParseBody
    <3>2. /\ DOMAIN s = Fields /\ s.buf = None /\ s.ctype = H!Typed(p, "plain") /\ s.read = p.read
          /\ s.query = p.query /\ s.header = p.header /\ s.form = p.form /\ s.body = p.body /\ s.cookies = p.cookies
      BY <1>3, <3>1, WithBody
    <3>3. buffers' = buffers
      BY <1>1, <1>8, <2>6, <3>2
    <3> HIDE DEF s
    <3> QED
      BY <1>1, <1>3, <1>6, <2>1, <2>2, <2>6, <3>2, <3>3 DEF ReaderSent
  <2>7. CASE ~H!FormData(req) /\ H!RequestBody(req) /\ req.body = "reader" /\ config.length
    <3>1. PICK w : w = H!With(p, H!Acquired, IF p.read THEN "none" ELSE "reader", H!Typed(p, "plain"))
      OBVIOUS
    <3>2. /\ DOMAIN w = Fields /\ w.buf = H!Acquired /\ w.raw = (IF p.read THEN "none" ELSE "reader")
          /\ w.ctype = H!Typed(p, "plain")
          /\ w.query = p.query /\ w.header = p.header /\ w.form = p.form /\ w.body = p.body /\ w.cookies = p.cookies
      BY <1>3, <3>1, WithBody
    <3>3. s = [w EXCEPT !.read = TRUE, !.body = "none"]
      BY <1>3, <1>4, <1>8, <2>7, <3>1 DEF H!ParseBody
    <3>4. /\ DOMAIN s = Fields /\ s.buf = H!Acquired /\ s.raw = w.raw /\ s.ctype = w.ctype
          /\ s.query = p.query /\ s.header = p.header /\ s.form = p.form /\ s.body = "none" /\ s.cookies = p.cookies
      BY <3>2, <3>3 DEF Fields
    <3>5. buffers' = H!Without(H!Acquired)
      BY <1>1, <1>5, <2>7, <3>4
    <3> HIDE DEF s
    <3> QED
      BY <1>1, <1>3, <1>6, <2>1, <2>2, <2>7, <3>2, <3>4, <3>5 DEF ReaderCopied
  <2> QED
    BY <2>3, <2>4, <2>5, <2>6, <2>7
<1> QED
  BY <1>7, <1>8

(* What is made of a request that is right is what the call wanted.        *)
LEMMA PrepareCallRight ==
  ASSUME BuffersNumbered, AsksRight, ClientInv, H!Prepare
  PROVE  CallRight'
<1>1. /\ calling = "prepare" /\ config' = config /\ ask' = ask /\ attempt' = attempt
      /\ got' = got /\ fresh' = fresh
      /\ req'.query = req.query /\ req'.form = req.form
      /\ req'.header = H!Merge(config.header, req.header)
      /\ \/ Ended
         \/ /\ calling' = "do" /\ req'.cookies = req.cookies + config.cookies
            /\ FileSent \/ FormSent \/ NothingSent \/ ValueSent \/ ReaderSent \/ ReaderCopied
  BY Prepared
<1> SUFFICES ASSUME fresh
             PROVE  RequestRight' /\ (calling' = "do" => Right(Sends)') /\ \A i \in DOMAIN got : Right(got[i])'
  BY <1>1 DEF CallRight, GotRight, Ended
<1>2. RequestRight /\ \A i \in DOMAIN got : Right(got[i])
  BY <1>1 DEF ClientInv, CallRight, GotRight
<1>3. \A i \in DOMAIN got : Right(got[i])'
  BY <1>1, <1>2 DEF Right, H!Wanted
<1>4. req'.header = H!Merge(config.header, ask.header)
  BY <1>1, <1>2, MergeAgain DEF RequestRight
<1>5. config.cookies = 0 => req'.cookies = 0
  BY <1>1, <1>2 DEF RequestRight, Ended
<1>6. ask.body \in Contents /\ (ask.body = "file" => ask.method = "POST")
  BY <1>2 DEF AsksRight, RequestRight
<1>7. H!Acquired # None /\ H!Fresh # None
  BY TakenOut DEF BuffersNumbered, ClientInv, BuffersRight
<1>8. ASSUME /\ req'.ctype \in {None, H!TypeOf(ask)}
             /\ req'.body = ask.body \/ (req'.body = "none" /\ ask.body = "reader" /\ ask.method # "GET" /\ config.length /\ req'.ctype = H!TypeOf(ask))
             /\ ~Takes(ask) => req'.buf = None
      PROVE  RequestRight'
  BY <1>1, <1>2, <1>4, <1>5, <1>8 DEF RequestRight, Takes, Ended
<1>9. ASSUME calling' = "do", req'.ctype = H!TypeOf(ask),
             H!Body(req') = H!Payload(ask) \/ (H!Payload(ask) = "reader" /\ attempt > 1)
      PROVE  Right(Sends)'
  <2>1. H!ParseURL(req)' = H!Merge(config.query, ask.query)
    BY <1>1, <1>2, MergeAgain DEF RequestRight, H!ParseURL
  <2>2. H!Body(req)' = H!Body(req')
    BY DEF H!Body
  <2> QED
    BY <1>1, <1>4, <1>5, <1>9, <2>1, <2>2 DEF Right, Sends, H!Wanted
<1>10. H!Filled(req.form) <=> H!Filled(ask.form)
  BY <1>2 DEF RequestRight
<1>11. CASE Ended
  <2>1. ask.body = "file" /\ ask.method = "POST"
    BY <1>2, <1>11 DEF RequestRight, Ended, File, H!Multipart
  <2> QED
    BY <1>2, <1>3, <1>8, <1>11, <2>1 DEF RequestRight, Ended, File, Takes
<1>12. CASE calling' = "do" /\ FileSent
  <2>1. ask.body = "file" /\ ask.method = "POST"
    BY <1>2, <1>12 DEF RequestRight, FileSent, File, H!Multipart
  <2>2. H!TypeOf(ask) = "multipart" /\ H!Payload(ask) = "file"
    BY <2>1 DEF H!TypeOf, H!Payload
  <2>3. H!Body(req') = "file"
    BY <1>7, <1>12 DEF H!Body, FileSent, File
  <2>4. Right(Sends)'
    BY <1>9, <1>12, <2>2, <2>3 DEF FileSent
  <2> QED
    BY <1>2, <1>3, <1>8, <1>12, <2>1, <2>2, <2>4 DEF RequestRight, FileSent, File, Takes
<1>13. CASE calling' = "do" /\ FormSent
  <2>1. ask.body # "file" /\ ask.method # "GET" /\ H!Filled(ask.form)
    BY <1>2, <1>10, <1>13 DEF RequestRight, FormSent, H!FormData, H!Multipart, H!HasPayload
  <2>2. H!TypeOf(ask) = "form" /\ H!Payload(ask) = "form"
    BY <2>1 DEF H!TypeOf, H!Payload
  <2>3. H!Body(req') = "form"
    BY <1>7, <1>13 DEF H!Body, FormSent
  <2>4. Right(Sends)'
    BY <1>9, <1>13, <2>2, <2>3 DEF FormSent
  <2> QED
    BY <1>2, <1>3, <1>8, <1>13, <2>1, <2>2, <2>4 DEF RequestRight, FormSent, Takes
<1>14. CASE calling' = "do" /\ NothingSent
  <2>1. RequestRight'
    BY <1>2, <1>8, <1>14 DEF RequestRight, NothingSent
  <2>2. CASE ask.method = "GET"
    <3>1. H!TypeOf(ask) = None /\ ~Takes(ask)
      BY <2>2 DEF H!TypeOf, H!Payload, Takes
    <3>2. req'.ctype = None /\ req'.buf = None /\ req'.body = ask.body
      BY <1>2, <1>14, <2>2, <3>1 DEF RequestRight, NothingSent, H!TypeOf
    <3>3. attempt = 1 => ~req'.read
      BY <1>1, <1>2, <1>14 DEF RequestRight, NothingSent
    <3>4. H!Body(req') = H!Payload(ask) \/ (H!Payload(ask) = "reader" /\ attempt > 1)
      BY <1>2, <2>2, <3>2, <3>3 DEF RequestRight, H!Body, H!Payload
    <3> QED
      BY <1>3, <1>9, <1>14, <2>1, <3>1, <3>2, <3>4
  <2>3. CASE ask.method # "GET" /\ req.body = ask.body
    <3>1. ask.body = "none" /\ ~H!Filled(ask.form)
      BY <1>10, <1>14, <2>3 DEF NothingSent, H!RequestBody, H!FormData, H!Multipart, H!HasPayload
    <3>2. H!TypeOf(ask) = None /\ H!Payload(ask) = "none" /\ ~Takes(ask)
      BY <2>3, <3>1 DEF H!TypeOf, H!Payload, Takes
    <3>3. req'.ctype = None /\ req'.buf = None /\ req'.body = "none"
      BY <1>2, <1>14, <2>3, <3>1, <3>2 DEF RequestRight, NothingSent
    <3>4. H!Body(req') = "none"
      BY <3>3 DEF H!Body
    <3> QED
      BY <1>3, <1>9, <1>14, <2>1, <3>2, <3>3, <3>4
  <2>4. CASE ask.method # "GET" /\ req.body # ask.body
    <3>1. ask.body = "reader" /\ req'.ctype = H!TypeOf(ask) /\ ~H!Filled(ask.form)
      BY <1>2, <1>10, <1>14, <2>4 DEF RequestRight, NothingSent, H!RequestBody, H!FormData, H!Multipart, H!HasPayload
    <3>2. H!Payload(ask) = "reader"
      BY <2>4, <3>1 DEF H!Payload
    <3>3. attempt > 1
      BY <1>1, <1>2, <2>4 DEF RequestRight
    <3> QED
      BY <1>3, <1>9, <1>14, <2>1, <3>1, <3>2, <3>3
  <2> QED
    BY <2>2, <2>3, <2>4
<1>15. CASE calling' = "do" /\ ValueSent
  <2>1. /\ ask.method # "GET" /\ ~H!Filled(ask.form) /\ req.body = ask.body
        /\ ask.body \in {"bytes", "struct"}
    BY <1>2, <1>6, <1>10, <1>15 DEF RequestRight, ValueSent, H!RequestBody, H!Multipart, H!HasPayload, Contents
  <2>2. H!Payload(ask) = ask.body /\ H!TypeOf(ask) = (IF ask.body = "struct" THEN "json" ELSE "plain")
    BY <2>1 DEF H!TypeOf, H!Payload
  <2>3. req'.ctype = H!TypeOf(ask)
    BY <1>2, <1>15, <2>1, <2>2 DEF RequestRight, ValueSent, H!Typed
  <2>4. H!Body(req') = ask.body
    BY <1>7, <1>15, <2>1 DEF H!Body, ValueSent
  <2>5. Right(Sends)'
    BY <1>9, <1>15, <2>2, <2>3, <2>4
  <2> QED
    BY <1>3, <1>8, <1>15, <2>1, <2>3, <2>5 DEF ValueSent, Takes
<1>16. ASSUME H!RequestBody(req), req.body = "reader", req'.ctype = H!Typed(req, "plain")
       PROVE  /\ ask.method # "GET" /\ ~H!Filled(ask.form) /\ ask.body = "reader"
              /\ H!Payload(ask) = "reader" /\ req'.ctype = H!TypeOf(ask)
  <2>1. ask.method # "GET" /\ ~H!Filled(ask.form) /\ ask.body = "reader"
    BY <1>2, <1>10, <1>16 DEF RequestRight, H!RequestBody, H!Multipart, H!HasPayload
  <2>2. H!Payload(ask) = "reader" /\ H!TypeOf(ask) = "plain"
    BY <2>1 DEF H!TypeOf, H!Payload
  <2>3. req'.ctype = H!TypeOf(ask)
    BY <1>2, <1>16, <2>2 DEF RequestRight, H!Typed
  <2> QED
    BY <2>1, <2>2, <2>3
<1>17. CASE calling' = "do" /\ ReaderSent
  <2>1. /\ ask.method # "GET" /\ ~H!Filled(ask.form) /\ ask.body = "reader"
        /\ H!Payload(ask) = "reader" /\ req'.ctype = H!TypeOf(ask)
    BY <1>16, <1>17 DEF ReaderSent
  <2>2. attempt = 1 => H!Body(req') = "reader"
    BY <1>1, <1>2, <1>17 DEF RequestRight, ReaderSent, H!Body
  <2>3. attempt = 1 \/ attempt > 1
    BY <1>2 DEF RequestRight
  <2>4. Right(Sends)'
    BY <1>9, <1>17, <2>1, <2>2, <2>3
  <2> QED
    BY <1>3, <1>8, <1>17, <2>1, <2>4 DEF ReaderSent, Takes
<1>18. CASE calling' = "do" /\ ReaderCopied
  <2>1. /\ ask.method # "GET" /\ ~H!Filled(ask.form) /\ ask.body = "reader"
        /\ H!Payload(ask) = "reader" /\ req'.ctype = H!TypeOf(ask)
    BY <1>16, <1>18 DEF ReaderCopied
  <2>2. attempt = 1 => H!Body(req') = "reader"
    BY <1>1, <1>2, <1>7, <1>18 DEF RequestRight, ReaderCopied, H!Body
  <2>3. attempt = 1 \/ attempt > 1
    BY <1>2 DEF RequestRight
  <2>4. Right(Sends)'
    BY <1>9, <1>18, <2>1, <2>2, <2>3
  <2> QED
    BY <1>3, <1>8, <1>18, <2>1, <2>4 DEF ReaderCopied, Takes
<1> QED
  BY <1>1, <1>11, <1>12, <1>13, <1>14, <1>15, <1>17, <1>18

(* A buffer that is taken is none that the attempt before has.             *)
LEMMA PrepareBuffersRight ==
  ASSUME BuffersNumbered, AsksRight, ClientInv, H!Prepare
  PROVE  BuffersRight'
<1>1. /\ calling = "prepare" /\ config' = config /\ ask' = ask /\ opened' = opened /\ fresh' = fresh /\ pure' = pure
      /\ \/ Ended
         \/ /\ calling' = "do"
            /\ FileSent \/ FormSent \/ NothingSent \/ ValueSent \/ ReaderSent \/ ReaderCopied
  BY Prepared
<1>2. buffers \in Seq(Nat)
  BY DEF ClientInv, BuffersRight
<1>3. calling' \in {"do", "release"}
  BY <1>1 DEF Ended
<1>4. ASSUME NEW b \in {H!Acquired, H!Fresh}, buffers' = H!Without(b), req'.buf = b
      PROVE  BuffersRight'
  <2>1. /\ b \in Nat /\ (b \in DOMAIN buffers => buffers[b] > 0)
        /\ buffers' \in Seq(Nat) /\ b \in DOMAIN buffers' /\ DOMAIN buffers \subseteq DOMAIN buffers'
        /\ \A c \in DOMAIN buffers : buffers'[c] = IF c = b THEN buffers[c] - 1 ELSE buffers[c]
        /\ \A c \in DOMAIN buffers' : c \notin DOMAIN buffers => buffers'[c] = 0 /\ c = b
    BY <1>2, <1>4, TakenOut
  <2>2. \A c \in DOMAIN buffers : buffers[c] \in Nat
    BY <1>2, ElementOfSeq, LenProperties
  <2> SUFFICES ASSUME pure
               PROVE  /\ \A c \in DOMAIN buffers' : buffers'[c] <= 1
                      /\ fresh' /\ ~config'.hook /\ ~(ask'.body = "reader" /\ config'.length) /\ Out(req.buf)'
                      /\ Out(opened)' /\ (opened' # None => opened' # req'.buf)
    BY <1>1, <1>3, <2>1 DEF BuffersRight
  <2>3. /\ \A c \in DOMAIN buffers : buffers[c] <= 1
        /\ fresh /\ ~config.hook /\ ~(ask.body = "reader" /\ config.length) /\ Out(opened)
    BY <1>1 DEF ClientInv, BuffersRight
  <2>4. \A c \in DOMAIN buffers' : buffers'[c] <= 1
    BY <2>1, <2>2, <2>3
  <2>5. Out(req.buf)'
    BY <1>4, <2>1, <2>2, <2>3 DEF Out
  <2>6. Out(opened)' /\ (opened' # None => opened' # req'.buf)
    BY <1>1, <1>4, <2>1, <2>3 DEF Out
  <2> QED
    BY <1>1, <2>3, <2>4, <2>5, <2>6
<1>5. ASSUME buffers' = buffers, pure => req'.buf = None /\ opened = None
      PROVE  BuffersRight'
  <2>1. pure => /\ \A c \in DOMAIN buffers : buffers[c] <= 1
                /\ fresh /\ ~config.hook /\ ~(ask.body = "reader" /\ config.length)
    BY <1>1 DEF ClientInv, BuffersRight
  <2> QED
    BY <1>1, <1>2, <1>3, <1>5, <2>1 DEF BuffersRight, Out
<1>6. ASSUME NothingSent \/ ReaderSent
      PROVE  pure => req'.buf = None /\ opened = None
  <2> SUFFICES ASSUME pure PROVE req'.buf = None /\ opened = None
    OBVIOUS
  <2>1. /\ RequestRight /\ opened = req.buf /\ ~(ask.body = "reader" /\ config.length)
    BY <1>1 DEF ClientInv, CallRight, BuffersRight
  <2>2. req.body = ask.body /\ req.form = ask.form
    BY <2>1 DEF RequestRight
  <2>3. ~Takes(ask)
    BY <1>6, <2>1, <2>2
       DEF NothingSent, ReaderSent, Takes, H!RequestBody, H!FormData, H!Multipart, H!HasPayload
  <2>4. req.buf = None
    BY <2>1, <2>3 DEF RequestRight
  <2> QED
    BY <1>6, <2>1, <2>4 DEF NothingSent, ReaderSent
<1>7. CASE Ended \/ FileSent
  BY <1>4, <1>7 DEF Ended, FileSent, File
<1>8. CASE FormSent \/ ValueSent \/ ReaderCopied
  BY <1>4, <1>8 DEF FormSent, ValueSent, ReaderCopied
<1>9. CASE NothingSent \/ ReaderSent
  BY <1>5, <1>6, <1>9 DEF NothingSent, ReaderSent
<1> QED
  BY <1>1, <1>7, <1>8, <1>9

(* What is sent is what was wanted.                                        *)
LEMMA DoRight ==
  ASSUME ClientInv, H!Do
  PROVE  ClientInv'
<1>1. /\ calling = "do" /\ calling' = "release" /\ config' = config /\ ask' = ask /\ buffers' = buffers
      /\ attempt' = attempt /\ opened' = opened /\ fresh' = fresh /\ pure' = pure
      /\ got' = got \/ got' = Append(got, Sends)
      /\ \E read \in BOOLEAN :
           req' = [req EXCEPT !.raw = IF read THEN "none" ELSE @, !.read = @ \/ (read /\ req.body = "reader")]
  BY DEF H!Do, Sends
<1>2. /\ DOMAIN req' = Fields /\ req'.query = req.query /\ req'.header = req.header /\ req'.form = req.form
      /\ req'.body = req.body /\ req'.ctype = req.ctype /\ req'.cookies = req.cookies /\ req'.buf = req.buf
  BY <1>1 DEF ClientInv, Fields
<1>3. PICK S : got \in Seq(S)
  BY DEF ClientInv
<1>4. /\ \E T : got' \in Seq(T)
      /\ \A i \in DOMAIN got' : got'[i] = Sends \/ (i \in DOMAIN got /\ got'[i] = got[i])
  <2>1. CASE got' = got
    BY <1>3, <2>1
  <2>2. CASE got' = Append(got, Sends)
    <3>1. got \in Seq(S \cup {Sends})
      <4>1. DOMAIN got = 1..Len(got) /\ Len(got) \in Nat /\ got \in [1..Len(got) -> S]
        BY <1>3, LenProperties
      <4>2. got \in [1..Len(got) -> S \cup {Sends}]
        BY <4>1
      <4> QED
        BY <4>1, <4>2, SeqDef
    <3>2. /\ got' \in Seq(S \cup {Sends}) /\ Len(got') = Len(got) + 1 /\ got'[Len(got) + 1] = Sends
          /\ \A i \in 1..Len(got) : got'[i] = got[i]
      BY <2>2, <3>1, AppendProperties
    <3>3. DOMAIN got' = 1..(Len(got) + 1) /\ DOMAIN got = 1..Len(got) /\ Len(got) \in Nat
      BY <1>3, <3>2, LenProperties
    <3> QED
      BY <3>2, <3>3
  <2> QED
    BY <1>1, <2>1, <2>2
<1>5. CallRight'
  <2> SUFFICES ASSUME fresh PROVE RequestRight' /\ GotRight'
    BY <1>1 DEF CallRight
  <2>1. RequestRight /\ Right(Sends) /\ GotRight
    BY <1>1 DEF ClientInv, CallRight
  <2>2. RequestRight'
    BY <1>1, <1>2, <2>1 DEF RequestRight, Takes
  <2>3. \A i \in DOMAIN got' : Right(got'[i])
    BY <1>4, <2>1 DEF GotRight
  <2>4. GotRight'
    BY <1>1, <2>3 DEF GotRight, Right, H!Wanted
  <2> QED
    BY <2>2, <2>4
<1>6. BuffersRight'
  BY <1>1, <1>2 DEF ClientInv, BuffersRight, Out
<1> QED
  BY <1>1, <1>2, <1>4, <1>5, <1>6 DEF ClientInv

(* The buffer of the attempt before goes back to the pool.                 *)
LEMMA ReleaseRight ==
  ASSUME BuffersNumbered, ClientInv, H!Release
  PROVE  ClientInv'
<1>1. /\ calling = "release" /\ calling' = "decide" /\ config' = config /\ ask' = ask
      /\ attempt' = attempt /\ opened' = opened /\ fresh' = fresh /\ pure' = pure /\ got' = got
      /\ buffers' = [b \in DOMAIN buffers |-> IF b \in H!Released(opened) THEN buffers[b] + 1 ELSE buffers[b]]
      /\ req' = req \/ req' = [req EXCEPT !.raw = "none"]
  BY DEF H!Release
<1>2. /\ DOMAIN req' = Fields /\ req'.query = req.query /\ req'.header = req.header /\ req'.form = req.form
      /\ req'.body = req.body /\ req'.ctype = req.ctype /\ req'.cookies = req.cookies /\ req'.buf = req.buf
      /\ req'.read = req.read
  BY <1>1 DEF ClientInv, Fields
<1>3. CallRight'
  <2> SUFFICES ASSUME fresh PROVE RequestRight' /\ \A i \in DOMAIN got : Right(got[i])'
    BY <1>1 DEF CallRight, GotRight
  <2>1. RequestRight /\ \A i \in DOMAIN got : Right(got[i])
    BY <1>1 DEF ClientInv, CallRight, GotRight
  <2>2. RequestRight'
    BY <1>1, <1>2, <2>1 DEF RequestRight, Takes
  <2> QED
    BY <1>1, <2>1, <2>2 DEF Right, H!Wanted
<1>4. BuffersRight'
  <2>1. buffers \in Seq(Nat)
    BY DEF ClientInv, BuffersRight
  <2>2. /\ DOMAIN buffers = 1..Len(buffers) /\ Len(buffers) \in Nat
        /\ \A b \in DOMAIN buffers : buffers[b] \in Nat
    BY <2>1, LenProperties, ElementOfSeq
  <2>3. /\ DOMAIN buffers' = 1..Len(buffers) /\ \A b \in 1..Len(buffers) : buffers'[b] \in Nat
        /\ \A b \in DOMAIN buffers : buffers'[b] = IF b = opened /\ opened # None THEN buffers[b] + 1 ELSE buffers[b]
    BY <1>1, <2>2 DEF H!Released
  <2>4. buffers' \in Seq(Nat)
    <3>1. buffers' \in [1..Len(buffers) -> Nat]
      BY <1>1, <2>2
    <3> QED
      BY <2>2, <3>1, SeqDef
  <2> SUFFICES ASSUME pure
               PROVE  /\ \A b \in DOMAIN buffers' : buffers'[b] <= 1
                      /\ fresh' /\ ~config'.hook /\ ~(ask'.body = "reader" /\ config'.length) /\ Out(req.buf)'
    BY <1>1, <2>4 DEF BuffersRight
  <2>5. /\ \A b \in DOMAIN buffers : buffers[b] <= 1
        /\ fresh /\ ~config.hook /\ ~(ask.body = "reader" /\ config.length) /\ Out(req.buf) /\ Out(opened)
        /\ opened # None => opened # req.buf
    BY <1>1 DEF ClientInv, BuffersRight
  <2>6. \A b \in DOMAIN buffers' : buffers'[b] <= 1
    BY <2>2, <2>3, <2>5 DEF Out
  <2>7. Out(req.buf)'
    BY <1>2, <2>2, <2>3, <2>5 DEF Out
  <2> QED
    BY <1>1, <2>5, <2>6, <2>7
<1> QED
  BY <1>1, <1>2, <1>3, <1>4 DEF ClientInv

(* Another attempt is made of the same request, ...                        *)
LEMMA AgainRight ==
  ASSUME ClientInv, H!Again
  PROVE  ClientInv'
<1>1. /\ calling = "decide" /\ calling' = "hooks" /\ config' = config /\ ask' = ask /\ req' = req /\ buffers' = buffers
      /\ attempt' = attempt + 1 /\ opened' = opened /\ fresh' = fresh /\ pure' = pure /\ got' = got
  BY DEF H!Again
<1>2. CallRight'
  <2> SUFFICES ASSUME fresh PROVE RequestRight' /\ \A i \in DOMAIN got : Right(got[i])'
    BY <1>1 DEF CallRight, GotRight
  <2>1. RequestRight /\ \A i \in DOMAIN got : Right(got[i])
    BY <1>1 DEF ClientInv, CallRight, GotRight
  <2>2. attempt' \in Nat /\ attempt' > 0 /\ attempt' # 1
    BY <1>1, <2>1 DEF RequestRight
  <2>3. RequestRight'
    BY <1>1, <2>1, <2>2 DEF RequestRight, Takes
  <2> QED
    BY <1>1, <2>1, <2>3 DEF Right, H!Wanted
<1>3. BuffersRight'
  BY <1>1 DEF ClientInv, BuffersRight, Out
<1> QED
  BY <1>1, <1>2, <1>3 DEF ClientInv

(* ... or the call is over.                                                *)
LEMMA CallReturns ==
  ASSUME ClientInv, H!Return
  PROVE  ClientInv'
<1>1. /\ calling' = "idle" /\ config' = config /\ buffers' = buffers /\ pure' = pure /\ got' = got
      /\ req' = IF fresh' THEN H!R ELSE req
  BY DEF H!Return, H!Renew
<1>2. DOMAIN req' = Fields
  BY <1>1, NewRequest DEF ClientInv
<1>3. CallRight'
  BY <1>1, NewRequest DEF CallRight, H!R, H!NoNames
<1>4. BuffersRight'
  BY <1>1 DEF ClientInv, BuffersRight, Out
<1> QED
  BY <1>1, <1>2, <1>3, <1>4 DEF ClientInv

(* Every step keeps requests and buffers right.                            *)
LEMMA ClientNext == BuffersNumbered /\ AsksRight /\ ClientInv /\ [H!Next]_H!vars => ClientInv'
<1> SUFFICES ASSUME BuffersNumbered, AsksRight, ClientInv, [H!Next]_H!vars PROVE ClientInv'
  OBVIOUS
<1>1. CASE \E a \in Asks : H!Execute(a)
  BY <1>1, ExecuteRight
<1>2. CASE H!Hooks
  BY <1>2, HooksRight
<1>3. CASE H!Prepare
  <2>1. DOMAIN req' = Fields /\ calling' \in {"do", "release"} /\ got' = got
    BY <1>3, Prepared DEF Ended
  <2> QED
    BY <1>3, <2>1, PrepareCallRight, PrepareBuffersRight DEF ClientInv
<1>4. CASE H!Do
  BY <1>4, DoRight
<1>5. CASE H!Release
  BY <1>5, ReleaseRight
<1>6. CASE H!Again
  BY <1>6, AgainRight
<1>7. CASE H!Return
  BY <1>7, CallReturns
<1>8. CASE UNCHANGED H!vars
  <2>1. /\ config' = config /\ ask' = ask /\ req' = req /\ buffers' = buffers /\ calling' = calling
        /\ attempt' = attempt /\ opened' = opened /\ fresh' = fresh /\ pure' = pure /\ got' = got
    BY <1>8 DEF H!vars
  <2>2. CallRight'
    BY <2>1 DEF ClientInv, CallRight, GotRight, RequestRight, Takes, Right, H!Wanted, Sends, H!ParseURL, H!Body
  <2>3. BuffersRight'
    BY <2>1 DEF ClientInv, BuffersRight, Out
  <2> QED
    BY <2>1, <2>2, <2>3 DEF ClientInv
<1> QED
  BY <1>1, <1>2, <1>3, <1>4, <1>5, <1>6, <1>7, <1>8 DEF H!Next

(* Every attempt of a call sends what was set for it, and nothing of a     *)
(* call before; a buffer that is being sent is not in the pool, and none   *)
(* is there twice (resty/request.go Execute, resty/util.go releaseBuffer,  *)
(* rest/client.go sendAndRecv).                                            *)
THEOREM ClientSends ==
  ASSUME BuffersNumbered, AsksRight
  PROVE  H!Spec => [](H!SentAsAsked /\ H!BuffersApart)
<1>1. ClientInv => H!SentAsAsked /\ H!BuffersApart
  <2> SUFFICES ASSUME ClientInv PROVE H!SentAsAsked /\ H!BuffersApart
    OBVIOUS
  <2>1. H!SentAsAsked
    BY DEF ClientInv, CallRight, GotRight, H!SentAsAsked, Right
  <2>2. H!BuffersApart
    BY DEF ClientInv, BuffersRight, H!BuffersApart, Out
  <2> QED
    BY <2>1, <2>2
<1>2. ClientInv /\ [H!Next]_H!vars => ClientInv'
  BY ClientNext
<1> QED
  BY <1>1, <1>2, ClientInit, PTL DEF H!Spec

-----------------------------------------------------------------------------
(* Responses: a client gets one whole answer                               *)

CONSTANTS Configs, Inputs, Slots, MaxRequests
VARIABLES server, serving, wants, slot, writes, res, con, mem, cached, answer, logged

A == INSTANCE Responses WITH conf <- server, pc <- serving, input <- wants

(* What a request and its handler are, and a server.  A standard server    *)
(* with a cache hands out copies that do not last (CopiesKept).            *)
InputsRight ==
  \A i \in Inputs :
    /\ i.accepts \in BOOLEAN /\ i.handler.noCache \in BOOLEAN
    /\ i.handler.parts \in Nat /\ i.handler.ends \in {"ok", "error", "panic"}
ServersRight == \A c \in Configs : c.engine \in {"standard", "fasthttp", "grpc"} /\ (c.cache => c.engine # "standard")

Places == {"new", "lookup", "enter", "write", "store", "failed", "panics", "unknown", "leave", "commit", "done"}
Item == [by : A!Requests, n : Nat, gz : BOOLEAN] \cup {None}
View == [array : Nat, len : Nat]
Statuses == {200, 400, 405} \cup {i.handler.status : i \in Inputs}
Users == {A!NoUser} \cup {i.user : i \in Inputs} \cup {i.handler.user : i \in Inputs}
Routes == {i.route : i \in Inputs}

Memory == Seq(Seq(Item))
Response == [status : Statuses, committed : BOOLEAN, gz : BOOLEAN, body : View]
Context == [noCache : BOOLEAN, gz : BOOLEAN, user : Users, err : BOOLEAN]
Entry == [status : Statuses, gz : BOOLEAN, body : View, by : A!Requests]

RespTyped ==
  /\ server \in Configs
  /\ serving \in [A!Requests -> Places] /\ writes \in [A!Requests -> Nat]
  /\ DOMAIN wants = A!Requests /\ DOMAIN slot = A!Requests
  /\ DOMAIN answer = A!Requests /\ DOMAIN logged = A!Requests
  /\ \A r \in A!Requests : serving[r] # "new" => wants[r] \in Inputs /\ slot[r] \in Slots
  /\ res \in [Slots -> Response] /\ con \in [Slots -> Context]
  /\ mem \in Memory
  /\ cached \in [Routes \X BOOLEAN -> {None} \cup Entry]

(* A view is of an array that is there.                                    *)
Has(m, v) == IF v.array = 0 THEN v.len = 0 ELSE v.array <= Len(m) /\ v.len <= Len(m[v.array])

(* No array is that of two responses, or of a response and a cached one.   *)
ArraysApart ==
  /\ \A s \in Slots : Has(mem, res[s].body)
  /\ \A s, t \in Slots : res[s].body.array = res[t].body.array /\ s # t => res[s].body.array = 0
  /\ \A k \in DOMAIN cached : cached[k] # None =>
       /\ Has(mem, cached[k].body)
       /\ \A s \in Slots : res[s].body.array = cached[k].body.array => res[s].body.array = 0

InWork(r) == serving[r] \notin {"new", "done"}
SlotsApart == \A q, r \in A!Requests : InWork(q) /\ InWork(r) /\ slot[q] = slot[r] => q = r

(* A response with the first n parts of what the handler of r writes.      *)
PartsOf(r, n, gz) == [m \in 1..n |-> A!Part(r, m, gz)]
Parts(r, n) == PartsOf(r, n, wants[r].accepts)
Progress(r, n) ==
  /\ A!Content(mem, A!Res(r).body) = Parts(r, n)
  /\ A!Res(r).gz = (n > 0 /\ wants[r].accepts)
  /\ A!Res(r).committed = (n > 0 /\ server.engine = "fasthttp")
  /\ A!Res(r).status = IF n > 0 THEN A!Handler(r).status ELSE 200

Routed(r) == server.engine # "grpc" /\ wants[r].route # "none"
Shown(r) == A!Answer(A!Res(r).status, A!Res(r).gz, A!Content(mem, A!Res(r).body))
Stands(r) == {r} \cup A!Alike(r)
LoggedRight(r, body) ==
  logged[r] # None => /\ logged[r].user \in {wants[r].user, A!Handler(r).user}
                      /\ logged[r].err = (A!Failed(r) \in A!ToSet(body))

(* What is in the response and the context at each place of a request.     *)
CourseRight(r) ==
  /\ serving[r] = "new" => writes[r] = 0
  /\ serving[r] # "done" => answer[r] = None
  /\ serving[r] \notin {"commit", "done"} => logged[r] = None
  /\ InWork(r) /\ serving[r] # "commit" => A!Con(r).user \in {A!NoUser, A!Handler(r).user} /\ ~A!Con(r).err
  /\ InWork(r) => (A!Con(r).gz => wants[r].accepts)
  /\ serving[r] \in {"lookup", "enter", "unknown"} => Progress(r, 0) /\ writes[r] = 0
  /\ serving[r] \in {"lookup", "enter", "write", "store", "failed", "leave"} => Routed(r)
  /\ serving[r] = "unknown" => wants[r].route = "none"
  /\ serving[r] \in {"lookup", "store"} => A!IsCached(wants[r])
  /\ serving[r] \in {"write", "store"} => A!Con(r).noCache = A!Handler(r).noCache
  /\ serving[r] = "write" => writes[r] <= A!Handler(r).parts /\ Progress(r, writes[r])
  /\ serving[r] = "store" => Progress(r, A!Handler(r).parts) /\ A!Handler(r).ends = "ok"
  /\ serving[r] = "failed" => Progress(r, A!Handler(r).parts) /\ A!Handler(r).ends = "error"
  /\ serving[r] = "panics" =>
       /\ wants[r].route # "none"
       /\ IF server.engine = "grpc" THEN Progress(r, 0)
          ELSE Progress(r, A!Handler(r).parts) /\ A!Handler(r).ends = "panic"
  /\ serving[r] = "leave" => \E q \in Stands(r) : A!Handler(q).ends = "ok" /\ Shown(r) = A!Expected(q)
  /\ serving[r] = "commit" => (\E q \in Stands(r) : Shown(r) = A!Expected(q)) /\ LoggedRight(r, Shown(r).body)
  /\ serving[r] = "done" => (\E q \in Stands(r) : answer[r] = A!Expected(q)) /\ LoggedRight(r, answer[r].body)

(* A cached response is the whole answer of a request that may be kept.    *)
EntryRight(k) ==
  LET c == cached[k]
      q == c.by
  IN  c # None =>
        /\ serving[q] \notin {"new", "lookup"} /\ A!IsCached(wants[q]) /\ Routed(q)
        /\ k = <<wants[q].route, wants[q].accepts>>
        /\ A!Handler(q).ends = "ok" /\ ~A!Handler(q).noCache
        /\ A!Answer(c.status, c.gz, A!Content(mem, c.body)) = A!Expected(q)

RespInv ==
  /\ RespTyped /\ ArraysApart /\ SlotsApart
  /\ \A r \in A!Requests : CourseRight(r)
  /\ \A k \in DOMAIN cached : EntryRight(k)
-----------------------------------------------------------------------------
(* Arrays and views of them *)

(* A function on the first numbers is a sequence.                          *)
LEMMA SeqOf ==
  ASSUME NEW S, NEW n \in Nat, NEW f \in [1..n -> S]
  PROVE  f \in Seq(S) /\ Len(f) = n
<1>1. f \in Seq(S)
  BY SeqDef
<1>2. DOMAIN f = 1..Len(f) /\ Len(f) \in Nat /\ DOMAIN f = 1..n
  BY <1>1, LenProperties
<1> QED
  BY <1>1, <1>2

(* A view shows the first items of its array.                              *)
LEMMA ContentIs ==
  ASSUME NEW m \in Memory, NEW v \in View, Has(m, v)
  PROVE  /\ A!Content(m, v) \in Seq(Item) /\ Len(A!Content(m, v)) = v.len
         /\ \A i \in 1..v.len : A!Content(m, v)[i] = m[v.array][i]
<1>1. v.array \in Nat /\ v.len \in Nat
  BY DEF View
<1>2. CASE v.array = 0
  <2>1. A!Content(m, v) = <<>> /\ v.len = 0
    BY <1>2 DEF A!Content, Has
  <2> QED
    BY <2>1, EmptySeq
<1>3. CASE v.array # 0
  <2>1. v.array \in 1..Len(m) /\ v.len <= Len(m[v.array])
    BY <1>1, <1>3 DEF Has
  <2>2. m[v.array] \in Seq(Item)
    BY <2>1, ElementOfSeq DEF Memory
  <2>3. \A i \in 1..v.len : m[v.array][i] \in Item
    BY <1>1, <2>1, <2>2, ElementOfSeq, LenProperties
  <2>4. A!Content(m, v) = SubSeq(m[v.array], 1, v.len)
    BY <1>3 DEF A!Content
  <2> DEFINE s == m[v.array]
             n == v.len
  <2>5. n \in Nat /\ \A i \in 1..n : s[i] \in Item
    BY <1>1, <2>3
  <2> HIDE DEF s, n
  <2>6. /\ SubSeq(s, 1, n) \in Seq(Item) /\ Len(SubSeq(s, 1, n)) = IF 1 <= n THEN n - 1 + 1 ELSE 0
        /\ \A i \in 1..(n - 1 + 1) : SubSeq(s, 1, n)[i] = s[1 + i - 1]
    BY <2>5, SubSeqProperties
  <2>7. Len(SubSeq(s, 1, n)) = n /\ \A i \in 1..n : SubSeq(s, 1, n)[i] = s[i]
    BY <2>5, <2>6
  <2> QED
    BY <2>4, <2>6, <2>7 DEF s, n
<1> QED
  BY <1>2, <1>3

(* It shows the same while its array is there as it was.                   *)
LEMMA SameContent ==
  ASSUME NEW m \in Memory, NEW n \in Memory, NEW v \in View, Has(m, v),
         v.array # 0 => v.array <= Len(n) /\ n[v.array] = m[v.array]
  PROVE  Has(n, v) /\ A!Content(n, v) = A!Content(m, v)
BY DEF Has, A!Content

(* A part is written behind what a view shows, into its array or a new one.*)
LEMMA WriteKeeps ==
  ASSUME mem \in Memory, NEW v \in View, Has(mem, v), NEW part \in Item,
         NEW new, new = A!MemWrite(v, part), NEW w, w = A!ViewWrite(v)
  PROVE  /\ new \in Memory /\ w \in View /\ Has(new, w)
         /\ A!Content(new, w) = Append(A!Content(mem, v), part)
         /\ w.array # 0 /\ (w.array = v.array \/ w.array = Len(mem) + 1)
         /\ Len(new) >= Len(mem) /\ \A a \in 1..Len(mem) : a # v.array => new[a] = mem[a]
<1>1. v.array \in Nat /\ v.len \in Nat /\ Len(mem) \in Nat
  BY LenProperties DEF View, Memory
<1>2. /\ A!Content(mem, v) \in Seq(Item) /\ Len(A!Content(mem, v)) = v.len
      /\ \A i \in 1..v.len : A!Content(mem, v)[i] = mem[v.array][i]
  BY ContentIs
<1> DEFINE old == A!Content(mem, v)
           one == Append(old, part)
<1>3. /\ one \in Seq(Item) /\ Len(one) = v.len + 1 /\ one[v.len + 1] = part
      /\ \A i \in 1..v.len : one[i] = old[i]
  BY <1>2, AppendProperties
<1>4. w.len = v.len + 1 /\ w.array = IF A!Fits(v) THEN v.array ELSE Len(mem) + 1
  BY DEF A!ViewWrite
<1>5. w \in View
  BY <1>1 DEF A!ViewWrite, View
<1> HIDE DEF old, one
<1>6. ASSUME new \in Memory, Has(new, w), w.array # 0, \A i \in 1..(v.len + 1) : new[w.array][i] = one[i]
      PROVE  A!Content(new, w) = one
  <2>1. /\ A!Content(new, w) \in Seq(Item) /\ Len(A!Content(new, w)) = w.len
        /\ \A i \in 1..w.len : A!Content(new, w)[i] = new[w.array][i]
    BY <1>5, <1>6, ContentIs
  <2>2. \A i \in 1..w.len : A!Content(new, w)[i] = one[i]
    BY <1>4, <1>6, <2>1
  <2> QED
    BY <1>3, <1>4, <2>1, <2>2, SeqEqual
<1>7. CASE A!Fits(v)
  <2>1. v.array \in 1..Len(mem) /\ v.len < Len(mem[v.array])
    BY <1>1, <1>7 DEF A!Fits, Has
  <2>2. PICK a \in 1..Len(mem) : a = v.array
    BY <2>1
  <2>3. PICK k \in Nat : k = v.len
    BY <1>1
  <2>4. mem[a] \in Seq(Item)
    BY ElementOfSeq DEF Memory
  <2>5. /\ DOMAIN mem[a] = 1..Len(mem[a]) /\ Len(mem[a]) \in Nat /\ k + 1 \in 1..Len(mem[a])
        /\ \A i \in 1..Len(mem[a]) : mem[a][i] \in Item
    BY <2>1, <2>2, <2>3, <2>4, LenProperties, ElementOfSeq
  <2> DEFINE s == [mem[a] EXCEPT ![k + 1] = part]
  <2>6. DOMAIN s = 1..Len(mem[a]) /\ \A i \in 1..Len(mem[a]) : s[i] = IF i = k + 1 THEN part ELSE mem[a][i]
    BY <2>5
  <2>7. s \in Seq(Item) /\ Len(s) = Len(mem[a])
    <3>1. s \in [1..Len(mem[a]) -> Item]
      BY <2>5, <2>6
    <3> QED
      BY <2>5, <3>1, SeqOf
  <2>8. new = [mem EXCEPT ![a] = s]
    BY <1>7, <2>2, <2>3 DEF A!MemWrite
  <2> HIDE DEF s
  <2>9. /\ DOMAIN mem = 1..Len(mem) /\ \A b \in 1..Len(mem) : mem[b] \in Seq(Item)
    BY LenProperties, ElementOfSeq DEF Memory
  <2>10. /\ DOMAIN new = 1..Len(mem) /\ new[a] = s /\ \A b \in 1..Len(mem) : b # a => new[b] = mem[b]
    BY <2>8, <2>9
  <2>11. new \in Memory /\ Len(new) = Len(mem)
    <3>1. new \in [1..Len(mem) -> Seq(Item)]
      BY <2>7, <2>8, <2>9
    <3> QED
      BY <1>1, <3>1, SeqOf DEF Memory
  <2>12. w.array = a /\ w.len = k + 1
    BY <1>4, <1>7, <2>2, <2>3
  <2>13. Has(new, w)
    BY <2>5, <2>7, <2>10, <2>11, <2>12 DEF Has
  <2>14. \A i \in 1..(k + 1) : s[i] = one[i]
    <3> SUFFICES ASSUME NEW i \in 1..(k + 1) PROVE s[i] = one[i]
      OBVIOUS
    <3>1. CASE i = k + 1
      BY <1>3, <2>3, <2>5, <2>6, <3>1
    <3>2. CASE i # k + 1
      <4>1. i \in 1..k /\ i \in 1..Len(mem[a])
        BY <2>3, <2>5, <3>2
      <4>2. one[i] = old[i] /\ old[i] = mem[a][i]
        BY <1>2, <1>3, <2>2, <2>3, <4>1 DEF old
      <4> QED
        BY <2>6, <3>2, <4>1, <4>2
    <3> QED
      BY <3>1, <3>2
  <2>15. \A i \in 1..(v.len + 1) : new[w.array][i] = one[i]
    BY <2>3, <2>10, <2>12, <2>14
  <2>16. A!Content(new, w) = one
    BY <1>6, <2>2, <2>11, <2>12, <2>13, <2>15
  <2> QED
    BY <1>1, <1>5, <2>2, <2>10, <2>11, <2>12, <2>13, <2>16 DEF one, old
<1>8. CASE ~A!Fits(v)
  <2>1. PICK k \in Nat : k = v.len
    BY <1>1
  <2> DEFINE pad == [i \in 1..k |-> None]
             top == old \o <<part>>
             s == top \o pad
  <2>2. pad \in Seq(Item) /\ Len(pad) = k
    <3>1. pad \in [1..k -> Item]
      BY DEF Item
    <3> QED
      BY <3>1, SeqOf
  <2>3. <<part>> \in Seq(Item) /\ Len(<<part>>) = 1 /\ <<part>>[1] = part
    OBVIOUS
  <2>4. /\ top \in Seq(Item) /\ Len(top) = k + 1
        /\ \A i \in 1..(k + 1) : top[i] = IF i <= k THEN old[i] ELSE <<part>>[i - k]
    BY <1>2, <2>1, <2>3, ConcatProperties DEF old
  <2> HIDE DEF pad, top
  <2>5. \A i \in 1..(k + 1) : top[i] = one[i]
    <3> SUFFICES ASSUME NEW i \in 1..(k + 1) PROVE top[i] = one[i]
      OBVIOUS
    <3>1. CASE i = k + 1
      BY <1>3, <2>1, <2>3, <2>4, <3>1
    <3>2. CASE i # k + 1
      <4>1. i \in 1..k /\ i <= k
        BY <2>1, <3>2
      <4> QED
        BY <1>3, <2>1, <2>4, <4>1
    <3> QED
      BY <3>1, <3>2
  <2>6. /\ s \in Seq(Item) /\ Len(s) = k + 1 + k
        /\ \A i \in 1..(k + 1) : s[i] = top[i]
    <3>1. PICK a \in Seq(Item), b \in Seq(Item) : a = top /\ b = pad
      BY <2>2, <2>4
    <3>2. /\ a \o b \in Seq(Item) /\ Len(a \o b) = Len(a) + Len(b)
          /\ \A i \in 1..(Len(a) + Len(b)) : (a \o b)[i] = IF i <= Len(a) THEN a[i] ELSE b[i - Len(a)]
      BY ConcatProperties
    <3>3. s = a \o b /\ Len(a) = k + 1 /\ Len(b) = k
      BY <2>2, <2>4, <3>1
    <3>4. ASSUME NEW i \in 1..(k + 1) PROVE s[i] = top[i]
      <4>1. i \in 1..(Len(a) + Len(b)) /\ i <= Len(a)
        BY <3>3
      <4> QED
        BY <3>1, <3>2, <3>3, <4>1
    <3> QED
      BY <3>2, <3>3, <3>4
  <2>7. new = Append(mem, s)
    BY <1>8, <2>1 DEF A!MemWrite, old, pad, top
  <2>8. \A i \in 1..(k + 1) : s[i] = one[i]
    BY <2>5, <2>6
  <2> HIDE DEF s
  <2>9. /\ new \in Memory /\ Len(new) = Len(mem) + 1 /\ new[Len(mem) + 1] = s
        /\ \A a \in 1..Len(mem) : new[a] = mem[a]
    BY <2>6, <2>7, AppendProperties DEF Memory
  <2>10. w.array = Len(mem) + 1 /\ w.len = k + 1
    BY <1>4, <1>8, <2>1
  <2>11. Has(new, w)
    BY <1>1, <2>6, <2>9, <2>10 DEF Has
  <2>12. \A i \in 1..(v.len + 1) : new[w.array][i] = one[i]
    BY <2>1, <2>8, <2>9, <2>10
  <2>13. A!Content(new, w) = one
    BY <1>1, <1>6, <2>9, <2>10, <2>11, <2>12
  <2> QED
    BY <1>1, <1>5, <2>9, <2>10, <2>11, <2>13 DEF one, old
<1> QED
  BY <1>7, <1>8

(* A copy has an array of its own.                                         *)
LEMMA CopyKeeps ==
  ASSUME mem \in Memory, NEW v \in View, Has(mem, v), A!Copies,
         NEW new, new = A!MemCopy(v), NEW w, w = A!ViewCopy(v)
  PROVE  /\ new \in Memory /\ w \in View /\ Has(new, w) /\ A!Content(new, w) = A!Content(mem, v)
         /\ w.array = Len(mem) + 1
         /\ Len(new) >= Len(mem) /\ \A a \in 1..Len(mem) : new[a] = mem[a]
<1>1. v.array \in Nat /\ v.len \in Nat /\ Len(mem) \in Nat
  BY LenProperties DEF View, Memory
<1>2. /\ A!Content(mem, v) \in Seq(Item) /\ Len(A!Content(mem, v)) = v.len
  BY ContentIs
<1>3. /\ new \in Memory /\ Len(new) = Len(mem) + 1 /\ new[Len(mem) + 1] = A!Content(mem, v)
      /\ \A a \in 1..Len(mem) : new[a] = mem[a]
  <2>1. new = Append(mem, A!Content(mem, v))
    BY DEF A!MemCopy
  <2> QED
    BY <1>2, <2>1, AppendProperties DEF Memory
<1>4. w \in View /\ w.array = Len(mem) + 1 /\ w.len = v.len
  BY <1>1 DEF A!ViewCopy, View
<1>5. Has(new, w)
  BY <1>1, <1>2, <1>3, <1>4 DEF Has
<1>6. /\ A!Content(new, w) \in Seq(Item) /\ Len(A!Content(new, w)) = w.len
      /\ \A i \in 1..w.len : A!Content(new, w)[i] = new[w.array][i]
  BY <1>3, <1>4, <1>5, ContentIs
<1>7. A!Content(new, w) = A!Content(mem, v)
  BY <1>2, <1>3, <1>4, <1>6, SeqEqual
<1> QED
  BY <1>1, <1>3, <1>4, <1>5, <1>7

(* The parts of a request are items, one behind the other.                 *)
LEMMA PartsAre ==
  ASSUME NEW r \in A!Requests, NEW n \in Nat, NEW gz \in BOOLEAN
  PROVE  /\ PartsOf(r, n, gz) \in Seq(Item) /\ Len(PartsOf(r, n, gz)) = n
         /\ A!Part(r, n, gz) \in Item
         /\ PartsOf(r, n + 1, gz) = Append(PartsOf(r, n, gz), A!Part(r, n + 1, gz))
<1>1. ASSUME NEW k \in Nat
      PROVE  /\ PartsOf(r, k, gz) \in Seq(Item) /\ Len(PartsOf(r, k, gz)) = k
             /\ \A m \in 1..k : PartsOf(r, k, gz)[m] = A!Part(r, m, gz)
  <2>1. PartsOf(r, k, gz) \in [1..k -> Item]
    BY DEF PartsOf, A!Part, Item
  <2> QED
    BY <2>1, SeqOf DEF PartsOf
<1>2. A!Part(r, n, gz) \in Item /\ A!Part(r, n + 1, gz) \in Item /\ n + 1 \in Nat
  BY DEF A!Part, Item
<1> DEFINE s == PartsOf(r, n, gz)
           t == PartsOf(r, n + 1, gz)
           p == A!Part(r, n + 1, gz)
<1>3. /\ s \in Seq(Item) /\ Len(s) = n /\ t \in Seq(Item) /\ Len(t) = n + 1 /\ p \in Item
      /\ \A m \in 1..n : s[m] = A!Part(r, m, gz)
      /\ \A m \in 1..(n + 1) : t[m] = A!Part(r, m, gz)
  BY <1>1, <1>2
<1> HIDE DEF s, t
<1>4. /\ Append(s, p) \in Seq(Item) /\ Len(Append(s, p)) = n + 1 /\ Append(s, p)[n + 1] = p
      /\ \A m \in 1..n : Append(s, p)[m] = s[m]
  BY <1>3, AppendProperties
<1>5. ASSUME NEW m \in 1..(n + 1) PROVE t[m] = Append(s, p)[m]
  <2>1. CASE m = n + 1
    BY <1>3, <1>4, <2>1
  <2>2. CASE m # n + 1
    <3>1. m \in 1..n
      BY <2>2
    <3> QED
      BY <1>3, <1>4, <3>1
  <2> QED
    BY <2>1, <2>2
<1>6. t = Append(s, p)
  BY <1>3, <1>4, <1>5, SeqEqual
<1> QED
  BY <1>2, <1>3, <1>6 DEF s, t

(* No parts are the empty body.                                            *)
LEMMA NoParts ==
  ASSUME NEW r \in A!Requests, NEW gz \in BOOLEAN
  PROVE  PartsOf(r, 0, gz) = <<>>
BY PartsAre, EmptySeq

-----------------------------------------------------------------------------
(* What a step of one request leaves alone *)

(* It is about one response, of which no other request in work makes use.  *)
StepOf(r) ==
  /\ server' = server /\ mem' \in Memory /\ Len(mem') >= Len(mem) /\ slot'[r] \in Slots
  /\ \A a \in 1..Len(mem) : a # res[slot'[r]].body.array => mem'[a] = mem[a]
  /\ \A s \in Slots : s # slot'[r] => res'[s] = res[s] /\ con'[s] = con[s]
  /\ \A q \in A!Requests : q # r =>
       /\ serving'[q] = serving[q] /\ wants'[q] = wants[q] /\ slot'[q] = slot[q]
       /\ writes'[q] = writes[q] /\ answer'[q] = answer[q] /\ logged'[q] = logged[q]
       /\ InWork(q) => slot[q] # slot'[r]
  /\ serving[r] # "new" => wants'[r] = wants[r] /\ serving'[r] \notin {"new", "lookup"}

(* The requests that may stand for another stay so, with their answers.    *)
LEMMA StandsStay ==
  ASSUME NEW r \in A!Requests, StepOf(r), NEW q \in A!Requests, wants'[q] = wants[q]
  PROVE  /\ \A p \in Stands(q) : p \in Stands(q)' /\ wants'[p] = wants[p]
         /\ \A p \in Stands(q) : A!Expected(p)' = A!Expected(p)
<1>1. ASSUME NEW p \in A!Alike(q) PROVE p \in A!Alike(q)' /\ wants'[p] = wants[p]
  BY DEF A!Alike, StepOf, A!IsCached, A!Handler
<1>2. ASSUME NEW p, wants'[p] = wants[p] PROVE A!Expected(p)' = A!Expected(p)
  BY <1>2 DEF StepOf, A!Expected, A!StatusOf, A!Written, A!Answer, A!Handler, A!Part, A!Failed
<1> QED
  BY <1>1, <1>2 DEF Stands

(* What another response, or a cached one, shows.                          *)
LEMMA BodiesStay ==
  ASSUME RespTyped, ArraysApart, NEW r \in A!Requests, StepOf(r)
  PROVE  /\ \A s \in Slots : s # slot'[r] =>
              Has(mem', res[s].body) /\ A!Content(mem', res[s].body) = A!Content(mem, res[s].body)
         /\ \A k \in DOMAIN cached : cached[k] # None =>
              Has(mem', cached[k].body) /\ A!Content(mem', cached[k].body) = A!Content(mem, cached[k].body)
<1>1. ASSUME NEW v \in View, Has(mem, v), res[slot'[r]].body.array = v.array => v.array = 0
      PROVE  Has(mem', v) /\ A!Content(mem', v) = A!Content(mem, v)
  <2>1. v.array # 0 => v.array \in 1..Len(mem)
    BY <1>1 DEF Has, View
  <2>2. v.array # 0 => v.array <= Len(mem') /\ mem'[v.array] = mem[v.array]
    BY <1>1, <2>1, LenProperties DEF StepOf, Memory
  <2>3. mem \in Memory /\ mem' \in Memory
    BY DEF StepOf, RespTyped
  <2> QED
    BY <1>1, <2>2, <2>3, SameContent
<1>2. slot'[r] \in Slots
  BY DEF StepOf
<1>3. ASSUME NEW s \in Slots, s # slot'[r]
      PROVE  Has(mem', res[s].body) /\ A!Content(mem', res[s].body) = A!Content(mem, res[s].body)
  <2>1. res[s].body \in View
    BY DEF RespTyped, Response
  <2>2. Has(mem, res[s].body) /\ (res[slot'[r]].body.array = res[s].body.array => res[s].body.array = 0)
    BY <1>2, <1>3 DEF ArraysApart
  <2> QED
    BY <1>1, <2>1, <2>2
<1>4. ASSUME NEW k \in DOMAIN cached, cached[k] # None
      PROVE  Has(mem', cached[k].body) /\ A!Content(mem', cached[k].body) = A!Content(mem, cached[k].body)
  <2>1. cached[k].body \in View
    BY <1>4 DEF RespTyped, Entry
  <2>2. Has(mem, cached[k].body) /\ (res[slot'[r]].body.array = cached[k].body.array => cached[k].body.array = 0)
    BY <1>2, <1>4 DEF ArraysApart
  <2> QED
    BY <1>1, <2>1, <2>2
<1> QED
  BY <1>3, <1>4

(* The other requests are where they were, with what they had.             *)
LEMMA OthersRight ==
  ASSUME RespInv, NEW r \in A!Requests, StepOf(r), NEW q \in A!Requests, q # r
  PROVE  CourseRight(q)'
<1>1. /\ serving'[q] = serving[q] /\ wants'[q] = wants[q] /\ slot'[q] = slot[q]
      /\ writes'[q] = writes[q] /\ answer'[q] = answer[q] /\ logged'[q] = logged[q]
      /\ server' = server
  BY DEF StepOf
<1>2. CourseRight(q)
  BY DEF RespInv
<1>3. ASSUME InWork(q)
      PROVE  A!Res(q)' = A!Res(q) /\ A!Con(q)' = A!Con(q)
             /\ A!Content(mem', A!Res(q).body) = A!Content(mem, A!Res(q).body)
  <2>1. slot[q] \in Slots /\ slot[q] # slot'[r]
    BY <1>3 DEF StepOf, InWork, RespInv, RespTyped
  <2>2. res'[slot[q]] = res[slot[q]] /\ con'[slot[q]] = con[slot[q]]
    BY <2>1 DEF StepOf
  <2>3. A!Content(mem', res[slot[q]].body) = A!Content(mem, res[slot[q]].body)
    BY <2>1, BodiesStay DEF RespInv
  <2> QED
    BY <1>1, <2>2, <2>3 DEF A!Res, A!Con
<1>4. /\ InWork(q)' = InWork(q) /\ Routed(q)' = Routed(q) /\ A!IsCached(wants[q])' = A!IsCached(wants[q])
      /\ A!Handler(q)' = A!Handler(q) /\ A!Failed(q)' = A!Failed(q)
      /\ \A body : LoggedRight(q, body)' = LoggedRight(q, body)
  BY <1>1 DEF InWork, Routed, A!IsCached, A!Handler, A!Failed, LoggedRight
<1>5. ASSUME NEW n PROVE InWork(q) => Progress(q, n)' = Progress(q, n)
  BY <1>1, <1>3, <1>4 DEF Progress, Parts
<1>6. InWork(q) => Shown(q)' = Shown(q)
  BY <1>3 DEF Shown, A!Answer
<1>7. /\ \A p \in Stands(q) : p \in Stands(q)' /\ A!Handler(p)' = A!Handler(p)
      /\ \A p \in Stands(q) : A!Expected(p)' = A!Expected(p)
  BY <1>1, StandsStay DEF A!Handler
<1>8. CASE ~InWork(q)
  <2>1. serving[q] \in {"new", "done"}
    BY <1>8 DEF InWork
  <2>2. CASE serving[q] = "new"
    BY <1>1, <1>2, <2>2 DEF CourseRight, InWork
  <2>3. CASE serving[q] = "done"
    <3>1. (\E p \in Stands(q)' : answer'[q] = A!Expected(p)') /\ LoggedRight(q, answer[q].body)'
      BY <1>1, <1>2, <1>4, <1>7, <2>3 DEF CourseRight
    <3> QED
      BY <1>1, <1>4, <2>3, <3>1 DEF CourseRight, InWork
  <2> QED
    BY <2>1, <2>2, <2>3
<1>9. CASE InWork(q) /\ serving[q] \notin {"leave", "commit"}
  <2>1. serving[q] \notin {"new", "done", "leave", "commit"}
    BY <1>9 DEF InWork
  <2>2. /\ A!Res(q)' = A!Res(q) /\ A!Con(q)' = A!Con(q) /\ InWork(q)'
        /\ \A n : Progress(q, n)' = Progress(q, n)
    BY <1>3, <1>4, <1>5, <1>9
  <2> QED
    BY <1>1, <1>2, <1>4, <1>9, <2>1, <2>2 DEF CourseRight
<1>10. CASE serving[q] = "leave"
  <2>1. \E p \in Stands(q)' : A!Handler(p)'.ends = "ok" /\ Shown(q)' = A!Expected(p)'
    BY <1>2, <1>6, <1>7, <1>10 DEF CourseRight, InWork
  <2> QED
    BY <1>1, <1>2, <1>3, <1>4, <1>10, <2>1 DEF CourseRight, InWork
<1>11. CASE serving[q] = "commit"
  <2>1. \E p \in Stands(q)' : Shown(q)' = A!Expected(p)'
    BY <1>2, <1>6, <1>7, <1>11 DEF CourseRight, InWork
  <2>2. LoggedRight(q, Shown(q).body)' = LoggedRight(q, Shown(q).body)
    BY <1>1, <1>6, <1>11 DEF LoggedRight, A!Handler, A!Failed, InWork
  <2> QED
    BY <1>1, <1>2, <1>3, <1>4, <1>11, <2>1, <2>2 DEF CourseRight, InWork
<1> QED
  BY <1>8, <1>9, <1>10, <1>11

(* A cached response is still whole.                                       *)
LEMMA EntriesRight ==
  ASSUME RespInv, NEW r \in A!Requests, StepOf(r), NEW k \in DOMAIN cached, cached'[k] = cached[k]
  PROVE  EntryRight(k)'
<1>1. SUFFICES ASSUME cached[k] # None PROVE EntryRight(k)'
  BY DEF EntryRight
<1> DEFINE q == cached[k].by
<1>2. EntryRight(k) /\ q \in A!Requests
  BY <1>1 DEF RespInv, RespTyped, Entry
<1>3. serving[q] \notin {"new", "lookup"}
  BY <1>1, <1>2 DEF EntryRight
<1>4. wants'[q] = wants[q] /\ serving'[q] \notin {"new", "lookup"} /\ server' = server
  BY <1>2, <1>3 DEF StepOf
<1>5. A!Expected(q)' = A!Expected(q)
  BY <1>2, <1>4, StandsStay DEF Stands
<1>6. A!Content(mem', cached[k].body) = A!Content(mem, cached[k].body)
  BY <1>1, BodiesStay DEF RespInv
<1>7. cached'[k].by = q
  OBVIOUS
<1>8. /\ A!IsCached(wants[q])' = A!IsCached(wants[q]) /\ Routed(q)' = Routed(q) /\ A!Handler(q)' = A!Handler(q)
  BY <1>4 DEF A!IsCached, Routed, A!Handler
<1> HIDE DEF q
<1>9. A!Answer(cached'[k].status, cached'[k].gz, A!Content(mem', cached'[k].body))
        = A!Answer(cached[k].status, cached[k].gz, A!Content(mem, cached[k].body))
  BY <1>6
<1> QED
  BY <1>1, <1>2, <1>4, <1>5, <1>7, <1>8, <1>9 DEF EntryRight, q

(* No two requests in work have one response.                              *)
LEMMA SlotsKept ==
  ASSUME RespInv, NEW r \in A!Requests, StepOf(r)
  PROVE  SlotsApart'
BY DEF RespInv, SlotsApart, StepOf, InWork

(* The response in use may have a new array, or else a cached one.         *)
Keeps(r) ==
  LET v == res'[slot'[r]].body
  IN  /\ Has(mem', v) /\ (v.array \in {0, res[slot'[r]].body.array} \/ v.array = Len(mem) + 1)
      /\ DOMAIN cached' = DOMAIN cached
      /\ \A k \in DOMAIN cached : cached'[k] # cached[k] =>
           /\ cached'[k].body.array = Len(mem) + 1 /\ Has(mem', cached'[k].body) /\ res' = res

(* No array becomes that of two responses.                                 *)
LEMMA ArraysKept ==
  ASSUME RespTyped, ArraysApart, NEW r \in A!Requests, StepOf(r), Keeps(r)
  PROVE  ArraysApart'
<1> DEFINE u == slot'[r]
           v == res'[u].body
<1>1. /\ u \in Slots /\ Has(mem', v) /\ (v.array \in {0, res[u].body.array} \/ v.array = Len(mem) + 1)
      /\ \A s \in Slots : s # u => res'[s] = res[s]
  BY DEF StepOf, Keeps
<1>2. Len(mem) \in Nat /\ \A s \in Slots : res[s].body \in View
  BY LenProperties DEF RespTyped, Response, Memory
<1>3. \A s \in Slots : res[s].body.array # Len(mem) + 1
  BY <1>2 DEF ArraysApart, Has, View
<1>4. ASSUME NEW k \in DOMAIN cached, cached[k] # None PROVE cached[k].body.array # Len(mem) + 1
  <2>1. cached[k].body \in View
    BY <1>4 DEF RespTyped, Entry
  <2>2. Has(mem, cached[k].body)
    BY <1>4 DEF ArraysApart
  <2> QED
    BY <1>2, <2>1, <2>2 DEF Has, View
<1>5. \A s \in Slots : s # u => Has(mem', res'[s].body)
  BY <1>1, BodiesStay
<1> HIDE DEF v
<1>6. \A s, t \in Slots : res'[s].body.array = res'[t].body.array /\ s # t => res'[s].body.array = 0
  <2> SUFFICES ASSUME NEW s \in Slots, NEW t \in Slots, res'[s].body.array = res'[t].body.array, s # t
               PROVE  res'[s].body.array = 0
    OBVIOUS
  <2>1. CASE s # u /\ t # u
    BY <1>1, <2>1 DEF ArraysApart
  <2>2. CASE s = u
    BY <1>1, <1>3, <2>2 DEF ArraysApart, v
  <2>3. CASE t = u
    BY <1>1, <1>3, <2>3 DEF ArraysApart, v
  <2> QED
    BY <2>1, <2>2, <2>3
<1>7. ASSUME NEW k \in DOMAIN cached, cached'[k] # None
      PROVE  /\ Has(mem', cached'[k].body)
             /\ \A s \in Slots : res'[s].body.array = cached'[k].body.array => res'[s].body.array = 0
  <2>1. CASE cached'[k] # cached[k]
    BY <1>3, <1>7, <2>1 DEF Keeps
  <2>2. CASE cached'[k] = cached[k]
    <3>1. Has(mem', cached'[k].body)
      BY <1>7, <2>2, BodiesStay
    <3>2. \A s \in Slots : res[s].body.array = cached[k].body.array => res[s].body.array = 0
      BY <1>7, <2>2 DEF ArraysApart
    <3> QED
      BY <1>1, <1>4, <1>7, <2>2, <3>1, <3>2 DEF v
  <2> QED
    BY <2>1, <2>2
<1>8. DOMAIN cached' = DOMAIN cached
  BY DEF Keeps
<1>9. \A s \in Slots : Has(mem', res'[s].body)
  BY <1>1, <1>5 DEF v
<1> QED
  BY <1>6, <1>7, <1>8, <1>9 DEF ArraysApart

(* What is left to show of a step.                                         *)
LEMMA StepRight ==
  ASSUME RespInv, NEW r \in A!Requests, StepOf(r), Keeps(r), RespTyped', CourseRight(r)',
         \A k \in DOMAIN cached : cached'[k] # cached[k] => EntryRight(k)'
  PROVE  RespInv'
<1>1. ArraysApart'
  BY ArraysKept DEF RespInv
<1>2. SlotsApart'
  BY SlotsKept
<1>3. ASSUME NEW q \in A!Requests PROVE CourseRight(q)'
  BY OthersRight
<1>4. DOMAIN cached' = DOMAIN cached
  BY DEF Keeps
<1>5. ASSUME NEW k \in DOMAIN cached PROVE EntryRight(k)'
  BY EntriesRight
<1> QED
  BY <1>1, <1>2, <1>3, <1>4, <1>5 DEF RespInv
-----------------------------------------------------------------------------
(* The steps *)

(* What a request in work uses.                                            *)
LEMMA OwnTyped ==
  ASSUME InputsRight, RespInv, NEW r \in A!Requests, serving[r] # "new"
  PROVE  /\ slot[r] \in Slots /\ A!Res(r) \in Response /\ A!Con(r) \in Context
         /\ A!Res(r) = res[slot[r]] /\ A!Con(r) = con[slot[r]]
         /\ A!Res(r).body \in View /\ Has(mem, A!Res(r).body)
         /\ wants[r] \in Inputs /\ wants[r].accepts \in BOOLEAN /\ A!Handler(r) = wants[r].handler
         /\ A!Handler(r).parts \in Nat /\ A!Handler(r).noCache \in BOOLEAN
         /\ A!Handler(r).ends \in {"ok", "error", "panic"}
         /\ A!Handler(r).status \in Statuses /\ A!Handler(r).user \in Users /\ wants[r].user \in Users
         /\ CourseRight(r)
<1>1. /\ slot[r] \in Slots /\ wants[r] \in Inputs /\ res[slot[r]] \in Response /\ con[slot[r]] \in Context
  BY DEF RespInv, RespTyped
<1>2. Has(mem, res[slot[r]].body) /\ res[slot[r]].body \in View
  BY <1>1 DEF RespInv, ArraysApart, Response
<1> QED
  BY <1>1, <1>2 DEF InputsRight, A!Res, A!Con, A!Handler, Statuses, Users, RespInv

(* A request in work meets another only in another response.               *)
LEMMA OwnSlot ==
  ASSUME RespInv, NEW r \in A!Requests, InWork(r), NEW q \in A!Requests, q # r, InWork(q)
  PROVE  slot[q] # slot[r]
BY DEF RespInv, SlotsApart

(* A request starts with objects that are reset, whoever had them before.   *)
LEMMA ServeRight ==
  ASSUME InputsRight, ServersRight, RespInv,
         NEW r \in A!Requests, NEW i \in Inputs, NEW s \in Slots, A!Serve(r, i, s)
  PROVE  RespInv'
<1> USE DEF A!Serve
<1>1. /\ RespTyped /\ serving[r] = "new" /\ serving'[r] \in {"unknown", "panics", "lookup", "enter"}
      /\ wants'[r] = i /\ slot'[r] = s /\ writes'[r] = 0 /\ answer'[r] = None /\ logged'[r] = None
  BY DEF RespInv, RespTyped, CourseRight
<1>2. res'[s] = A!ResetResponse(res[s]) /\ con'[s] = A!ResetContext(con[s]) /\ res[s] \in Response
  BY <1>1 DEF RespTyped
<1>3. \A q \in A!Requests : InWork(q) => slot[q] # s
  BY DEF A!InUse, InWork
<1>4. StepOf(r)
  BY <1>1, <1>3 DEF RespTyped, StepOf, Memory
<1>5. /\ Has(mem, A!ResetResponse(res[s]).body) /\ A!ResetResponse(res[s]) \in Response
      /\ A!Content(mem, A!ResetResponse(res[s]).body) = <<>>
      /\ A!ResetResponse(res[s]).body.array \in {0, res[s].body.array}
  <2>1. res[s].body \in View /\ Has(mem, res[s].body)
    BY <1>2 DEF Response, RespInv, ArraysApart
  <2>2. Has(mem, A!Empty) /\ A!Empty \in View /\ A!Empty.array = 0
    BY DEF A!Empty, View, Has
  <2> DEFINE v == [res[s].body EXCEPT !.len = 0]
  <2>3. Has(mem, v) /\ v \in View /\ v.array = res[s].body.array /\ v.len = 0
    <3>1. v \in View /\ v.array = res[s].body.array /\ v.len = 0
      BY <2>1 DEF View
    <3>2. v.array # 0 => mem[v.array] \in Seq(Item)
      BY <1>1, <2>1, <3>1, ElementOfSeq DEF Has, View, RespTyped, Memory
    <3> QED
      BY <2>1, <3>1, <3>2, LenProperties DEF Has, View
  <2>4. A!ResetResponse(res[s]).body \in {v, A!Empty}
    BY DEF A!ResetResponse
  <2>5. A!ResetResponse(res[s]) \in Response
    BY <2>2, <2>3, <2>4 DEF A!ResetResponse, Response, Statuses
  <2>6. A!Content(mem, v) = <<>> /\ A!Content(mem, A!Empty) = <<>>
    <3>1. ASSUME NEW w \in View, Has(mem, w), w.len = 0 PROVE A!Content(mem, w) = <<>>
      BY <1>1, <3>1, ContentIs, EmptySeq DEF RespTyped
    <3> QED
      BY <2>2, <2>3, <3>1 DEF A!Empty
  <2> QED
    BY <2>2, <2>3, <2>4, <2>5, <2>6
<1>6. Keeps(r)
  BY <1>1, <1>2, <1>5 DEF Keeps
<1>7. RespTyped'
  <2>1. res' \in [Slots -> Response]
    BY <1>1, <1>5 DEF RespTyped
  <2>2. con' \in [Slots -> Context]
    BY <1>1 DEF RespTyped, A!ResetContext, Context, Users
  <2>3. serving' \in [A!Requests -> Places]
    BY <1>1 DEF RespTyped, Places
  <2> QED
    BY <1>1, <2>1, <2>2, <2>3 DEF RespTyped
<1>8. CourseRight(r)'
  <2>1. A!Res(r)' = A!ResetResponse(res[s]) /\ A!Con(r)' = A!ResetContext(con[s])
    BY <1>1, <1>2 DEF A!Res, A!Con
  <2>2. Parts(r, 0)' = <<>>
    BY <1>1, NoParts DEF Parts, InputsRight
  <2>3. Progress(r, 0)'
    <3> DEFINE x == A!ResetResponse(res[s])
    <3>1. x.status = 200 /\ x.committed = FALSE /\ x.gz = FALSE
      BY DEF A!ResetResponse
    <3>2. A!Content(mem', A!Res(r)'.body) = Parts(r, 0)'
      BY <1>5, <2>1, <2>2
    <3>3. A!Res(r)' = x
      BY <2>1
    <3> HIDE DEF x
    <3>4. ~(0 > 0)
      OBVIOUS
    <3> QED
      BY <3>1, <3>2, <3>3, <3>4 DEF Progress
  <2>4. A!Con(r)'.user = A!NoUser /\ ~A!Con(r)'.err /\ ~A!Con(r)'.gz
    <3>1. A!ResetContext(con[s]) = [noCache |-> FALSE, gz |-> FALSE, user |-> A!NoUser, err |-> FALSE]
      BY DEF A!ResetContext
    <3> DEFINE x == A!ResetContext(con[s])
    <3>2. x.user = A!NoUser /\ x.err = FALSE /\ x.gz = FALSE
      BY <3>1
    <3> HIDE DEF x
    <3>3. A!Con(r)' = x
      BY <2>1 DEF x
    <3> QED
      BY <3>2, <3>3
  <2>5. /\ serving'[r] \in {"lookup", "enter"} => Routed(r)'
        /\ serving'[r] = "lookup" => A!IsCached(wants[r])'
        /\ serving'[r] = "unknown" => wants'[r].route = "none"
        /\ serving'[r] = "panics" => wants'[r].route # "none" /\ server'.engine = "grpc"
    BY <1>1 DEF Routed, A!IsCached, RespTyped
  <2> QED
    BY <1>1, <2>3, <2>4, <2>5 DEF CourseRight
<1> QED
  BY <1>4, <1>6, <1>7, <1>8, StepRight

(* What Write, Fail and Recover have in common.                            *)
Blobs(r, part, status) ==
  /\ InWork(r) /\ slot'[r] = slot[r] /\ part.gz \in BOOLEAN
  /\ mem' = A!MemWrite(A!Res(r).body, part) /\ res' = [res EXCEPT ![slot[r]] = A!Blob(@, status, part)]

(* A write of a request is behind what its response shows.                 *)
LEMMA BlobKeeps ==
  ASSUME InputsRight, RespInv, NEW r \in A!Requests, NEW part \in Item, NEW status \in Statuses, Blobs(r, part, status)
  PROVE  /\ mem' \in Memory /\ Len(mem') >= Len(mem)
         /\ \A a \in 1..Len(mem) : a # A!Res(r).body.array => mem'[a] = mem[a]
         /\ res' \in [Slots -> Response]
         /\ \A s \in Slots : s # slot[r] => res'[s] = res[s]
         /\ Has(mem', A!Res(r)'.body)
         /\ A!Res(r)'.body.array = A!Res(r).body.array \/ A!Res(r)'.body.array = Len(mem) + 1
         /\ A!Content(mem', A!Res(r)'.body) = Append(A!Content(mem, A!Res(r).body), part)
         /\ A!Res(r)'.status = IF server.engine = "fasthttp" /\ A!Res(r).committed THEN A!Res(r).status ELSE status
         /\ A!Res(r)'.committed = IF server.engine = "fasthttp" /\ A!Res(r).committed THEN A!Res(r).committed
                                  ELSE server.engine = "fasthttp"
         /\ A!Res(r)'.gz = (A!Res(r).gz \/ part.gz)
<1> USE DEF Blobs
<1> DEFINE x == A!Res(r)
           v == x.body
           w == A!ViewWrite(v)
<1>1. x = res[slot[r]] /\ slot[r] \in Slots /\ x \in Response /\ v \in View /\ Has(mem, v) /\ mem \in Memory
  BY OwnTyped DEF InWork, RespInv, RespTyped
<1> HIDE DEF x
<1>2. /\ mem' \in Memory /\ w \in View /\ Has(mem', w)
      /\ A!Content(mem', w) = Append(A!Content(mem, v), part)
      /\ w.array = v.array \/ w.array = Len(mem) + 1
      /\ Len(mem') >= Len(mem) /\ \A a \in 1..Len(mem) : a # v.array => mem'[a] = mem[a]
  BY <1>1, WriteKeeps DEF x
<1> DEFINE h == A!WithHeader(x, status)
<1>3. /\ h \in Response /\ h.body = v /\ h.gz = x.gz
      /\ h.status = IF server.engine = "fasthttp" /\ x.committed THEN x.status ELSE status
      /\ h.committed = IF server.engine = "fasthttp" /\ x.committed THEN x.committed ELSE server.engine = "fasthttp"
  BY <1>1 DEF A!WithHeader, Response
<1> HIDE DEF h, w
<1> DEFINE y == [h EXCEPT !.body = w, !.gz = @ \/ part.gz]
<1>4. y \in Response /\ y.body = w /\ y.gz = (x.gz \/ part.gz) /\ y.status = h.status /\ y.committed = h.committed
  BY <1>2, <1>3 DEF Response
<1>5. A!Blob(x, status, part) = y
  BY DEF A!Blob, h, w
<1> HIDE DEF y
<1>6. res \in [Slots -> Response]
  BY DEF RespInv, RespTyped
<1>7. /\ res' \in [Slots -> Response] /\ res'[slot[r]] = y
      /\ \A s \in Slots : s # slot[r] => res'[s] = res[s]
  BY <1>1, <1>4, <1>5, <1>6
<1>8. A!Res(r)' = y
  BY <1>7 DEF A!Res
<1> QED
  BY <1>2, <1>3, <1>4, <1>7, <1>8 DEF x

(* A part is written behind those that are there.                           *)
LEMMA WriteRight ==
  ASSUME InputsRight, ServersRight, RespInv, NEW r \in A!Requests, A!Write(r)
  PROVE  RespInv'
<1> DEFINE gz == A!Con(r).gz \/ wants[r].accepts
           part == A!Part(r, writes[r] + 1, gz)
<1>1. /\ serving[r] = "write" /\ writes[r] < A!Handler(r).parts
      /\ mem' = A!MemWrite(A!Res(r).body, part)
      /\ res' = [res EXCEPT ![slot[r]] = A!Blob(@, A!Handler(r).status, part)]
      /\ con' = [con EXCEPT ![slot[r]].gz = gz]
      /\ writes' = [writes EXCEPT ![r] = @ + 1]
      /\ UNCHANGED <<server, serving, wants, slot, cached, answer, logged>>
  BY DEF A!Write
<1>2. /\ RespTyped /\ CourseRight(r) /\ InWork(r) /\ serving[r] # "new" /\ writes[r] \in Nat
  BY <1>1 DEF RespInv, RespTyped, InWork
<1>3. gz = wants[r].accepts /\ gz \in BOOLEAN /\ part \in Item /\ part.gz = gz
  BY <1>1, <1>2, OwnTyped DEF CourseRight, A!Part, Item
<1>4. part = A!Part(r, writes[r] + 1, wants[r].accepts)
  BY <1>3
<1> HIDE DEF part, gz
<1>5. /\ mem' \in Memory /\ Len(mem') >= Len(mem)
      /\ \A a \in 1..Len(mem) : a # A!Res(r).body.array => mem'[a] = mem[a]
      /\ res' \in [Slots -> Response]
      /\ \A s \in Slots : s # slot[r] => res'[s] = res[s]
      /\ Has(mem', A!Res(r)'.body)
      /\ A!Res(r)'.body.array = A!Res(r).body.array \/ A!Res(r)'.body.array = Len(mem) + 1
      /\ A!Content(mem', A!Res(r)'.body) = Append(A!Content(mem, A!Res(r).body), part)
      /\ A!Res(r)'.status = IF server.engine = "fasthttp" /\ A!Res(r).committed THEN A!Res(r).status ELSE A!Handler(r).status
      /\ A!Res(r)'.committed = IF server.engine = "fasthttp" /\ A!Res(r).committed THEN A!Res(r).committed
                               ELSE server.engine = "fasthttp"
      /\ A!Res(r)'.gz = (A!Res(r).gz \/ part.gz)
  <2>1. PICK status \in Statuses : status = A!Handler(r).status
    BY <1>2, OwnTyped
  <2>2. PICK p \in Item : p = part
    BY <1>3
  <2>3. Blobs(r, p, status)
    BY <1>1, <1>2, <1>3, <2>1, <2>2 DEF Blobs
  <2> QED
    BY <2>1, <2>2, <2>3, BlobKeeps
<1>6. slot[r] \in Slots /\ A!Res(r) = res[slot[r]] /\ A!Con(r) = con[slot[r]] /\ A!Con(r) \in Context
  BY <1>2, OwnTyped
<1>7. StepOf(r)
  <2>1. \A s \in Slots : s # slot[r] => con'[s] = con[s]
    BY <1>1, <1>2 DEF RespTyped
  <2>2. \A q \in A!Requests : q # r => writes'[q] = writes[q] /\ (InWork(q) => slot[q] # slot[r])
    BY <1>1, <1>2, OwnSlot DEF RespTyped
  <2>3. /\ server' = server /\ mem' \in Memory /\ Len(mem') >= Len(mem) /\ slot'[r] \in Slots
        /\ \A a \in 1..Len(mem) : a # res[slot'[r]].body.array => mem'[a] = mem[a]
        /\ \A s \in Slots : s # slot'[r] => res'[s] = res[s] /\ con'[s] = con[s]
    BY <1>1, <1>5, <1>6, <2>1
  <2> QED
    BY <1>1, <2>2, <2>3 DEF StepOf
<1>8. Keeps(r)
  BY <1>1, <1>5, <1>6 DEF Keeps, A!Res
<1>9. con' \in [Slots -> Context] /\ A!Con(r)' = [A!Con(r) EXCEPT !.gz = gz]
  <2>1. [A!Con(r) EXCEPT !.gz = gz] \in Context
    BY <1>3, <1>6 DEF Context
  <2> QED
    BY <1>1, <1>2, <1>6, <2>1 DEF RespTyped, A!Con
<1>10. RespTyped'
  BY <1>1, <1>2, <1>5, <1>9 DEF RespTyped
<1>11. CourseRight(r)'
  <2>1. Progress(r, writes[r])
    BY <1>1, <1>2 DEF CourseRight
  <2>2. Parts(r, writes[r] + 1) = Append(Parts(r, writes[r]), part)
    BY <1>2, <1>4, PartsAre, OwnTyped DEF Parts
  <2>3. writes'[r] = writes[r] + 1 /\ writes[r] + 1 > 0 /\ writes[r] + 1 <= A!Handler(r).parts
    BY <1>1, <1>2, OwnTyped DEF RespTyped
  <2>4. A!Content(mem', A!Res(r)'.body) = Parts(r, writes[r] + 1)
    BY <1>5, <2>1, <2>2 DEF Progress
  <2>5. A!Res(r)'.gz = wants[r].accepts
    BY <1>3, <1>5, <2>1 DEF Progress
  <2>6. A!Res(r)'.committed = (server.engine = "fasthttp") /\ A!Res(r)'.status = A!Handler(r).status
    BY <1>5, <2>1 DEF Progress
  <2>7. Progress(r, writes[r])'
    <3>1. writes'[r] > 0
      BY <2>3
    <3>2. /\ PartsOf(r, writes'[r], wants'[r].accepts) = Parts(r, writes[r] + 1)
          /\ A!Handler(r)' = A!Handler(r) /\ wants' = wants /\ server' = server
      BY <1>1, <2>3 DEF Parts, A!Handler
    <3>3. Parts(r, writes[r])' = PartsOf(r, writes'[r], wants'[r].accepts)
      BY DEF Parts
    <3>4. A!Content(mem, A!Res(r).body)' = Parts(r, writes[r])'
      BY <2>4, <3>2, <3>3
    <3>5. A!Res(r)'.gz = (writes'[r] > 0 /\ wants'[r].accepts)
      <4>1. wants[r].accepts \in BOOLEAN
        BY <1>2, OwnTyped
      <4> QED
        BY <2>5, <3>1, <3>2, <4>1
    <3>6. A!Res(r)'.committed = (writes'[r] > 0 /\ server'.engine = "fasthttp")
      BY <2>6, <3>1, <3>2
    <3>7. A!Res(r)'.status = IF writes'[r] > 0 THEN A!Handler(r)'.status ELSE 200
      BY <2>6, <3>1, <3>2
    <3> QED
      BY <3>4, <3>5, <3>6, <3>7 DEF Progress
  <2>8. A!Con(r)'.user = A!Con(r).user /\ A!Con(r)'.err = A!Con(r).err /\ A!Con(r)'.noCache = A!Con(r).noCache /\ A!Con(r)'.gz = gz
    BY <1>6, <1>9 DEF Context
  <2>9. A!Handler(r)' = A!Handler(r) /\ wants'[r] = wants[r] /\ Routed(r)' = Routed(r)
    BY <1>1 DEF A!Handler, Routed
  <2> QED
    BY <1>1, <1>2, <1>3, <2>3, <2>7, <2>8, <2>9 DEF CourseRight
<1> QED
  BY <1>1, <1>7, <1>8, <1>10, <1>11, StepRight

(* A step of a request in work that writes nothing.                        *)
LEMMA QuietStep ==
  ASSUME InputsRight, RespInv, NEW r \in A!Requests, InWork(r),
         UNCHANGED <<server, wants, slot, writes, answer, res, mem, cached>>,
         \A s \in Slots : s # slot[r] => con'[s] = con[s],
         \A q \in A!Requests : q # r => serving'[q] = serving[q] /\ logged'[q] = logged[q],
         serving'[r] \notin {"new", "lookup"}
  PROVE  StepOf(r) /\ Keeps(r)
<1>1. /\ slot[r] \in Slots /\ A!Res(r) = res[slot[r]] /\ Has(mem, A!Res(r).body)
  BY OwnTyped DEF InWork
<1>2. \A q \in A!Requests : q # r /\ InWork(q) => slot[q] # slot[r]
  BY OwnSlot
<1>3. mem \in Memory /\ Len(mem) \in Nat
  BY LenProperties DEF RespInv, RespTyped, Memory
<1>4. StepOf(r)
  BY <1>1, <1>2, <1>3 DEF StepOf
<1>5. Keeps(r)
  BY <1>1 DEF Keeps
<1> QED
  BY <1>4, <1>5

(* A handler that went well has written its whole answer.                  *)
LEMMA WholeAnswer ==
  ASSUME InputsRight, RespInv, NEW r \in A!Requests, serving[r] # "new",
         Routed(r), Progress(r, A!Handler(r).parts), A!Handler(r).ends = "ok"
  PROVE  Shown(r) = A!Expected(r)
<1>1. A!Handler(r).parts \in Nat /\ wants[r].accepts \in BOOLEAN
  BY OwnTyped
<1>2. A!Written(r) = Parts(r, A!Handler(r).parts)
  BY DEF A!Written, Parts, PartsOf
<1>3. A!StatusOf(r) = A!Res(r).status
  BY <1>1 DEF A!StatusOf, Progress
<1>4. A!Res(r).gz = (wants[r].accepts /\ A!Handler(r).parts > 0)
  BY <1>1 DEF Progress
<1>5. A!Expected(r) = A!Answer(A!StatusOf(r), wants[r].accepts /\ A!Handler(r).parts > 0, A!Written(r))
  BY DEF A!Expected, Routed
<1>6. A!Content(mem, A!Res(r).body) = A!Written(r)
  BY <1>2 DEF Progress
<1> QED
  BY <1>3, <1>4, <1>5, <1>6 DEF Shown

(* The handler finds its response empty.                                    *)
LEMMA EnterRight ==
  ASSUME InputsRight, ServersRight, RespInv, NEW r \in A!Requests, A!Enter(r)
  PROVE  RespInv'
<1>1. /\ serving[r] = "enter" /\ serving' = [serving EXCEPT ![r] = "write"]
      /\ con' = [con EXCEPT ![slot[r]].noCache = A!Handler(r).noCache,
                            ![slot[r]].user = IF A!Handler(r).user = A!NoUser THEN @ ELSE A!Handler(r).user]
      /\ UNCHANGED <<server, wants, slot, writes, res, mem, cached, answer, logged>>
  BY DEF A!Enter
<1>2. /\ RespTyped /\ CourseRight(r) /\ InWork(r) /\ serving[r] # "new" /\ serving'[r] = "write"
      /\ serving' \in [A!Requests -> Places]
  BY <1>1 DEF RespInv, RespTyped, InWork, Places
<1>3. /\ slot[r] \in Slots /\ A!Con(r) = con[slot[r]] /\ A!Con(r) \in Context
      /\ A!Handler(r).noCache \in BOOLEAN /\ A!Handler(r).user \in Users /\ A!Handler(r).parts \in Nat
  BY <1>2, OwnTyped
<1> DEFINE x == [con[slot[r]] EXCEPT !.noCache = A!Handler(r).noCache,
                                    !.user = IF A!Handler(r).user = A!NoUser THEN @ ELSE A!Handler(r).user]
<1>4. /\ x \in Context /\ x.noCache = A!Handler(r).noCache /\ x.gz = A!Con(r).gz /\ x.err = A!Con(r).err
      /\ x.user \in {A!Con(r).user, A!Handler(r).user}
  BY <1>3 DEF Context
<1>5. con' = [con EXCEPT ![slot[r]] = x]
  BY <1>1, <1>2, <1>3 DEF RespTyped
<1> HIDE DEF x
<1>6. con' \in [Slots -> Context] /\ A!Con(r)' = x /\ \A s \in Slots : s # slot[r] => con'[s] = con[s]
  <2>1. con \in [Slots -> Context] /\ slot[r] \in Slots /\ x \in Context
    BY <1>2, <1>3, <1>4 DEF RespTyped
  <2>2. con' \in [Slots -> Context] /\ con'[slot[r]] = x /\ \A s \in Slots : s # slot[r] => con'[s] = con[s]
    BY <1>5, <2>1
  <2>3. A!Con(r)' = con'[slot[r]]
    BY <1>1 DEF A!Con
  <2> QED
    BY <2>2, <2>3
<1>7. \A q \in A!Requests : q # r => serving'[q] = serving[q] /\ logged'[q] = logged[q]
  BY <1>1, <1>2 DEF RespTyped
<1>8. StepOf(r) /\ Keeps(r)
  BY <1>1, <1>2, <1>6, <1>7, QuietStep
<1>9. RespTyped'
  BY <1>1, <1>2, <1>6 DEF RespTyped
<1>10. CourseRight(r)'
  <2>1. Progress(r, 0) /\ writes[r] = 0 /\ Routed(r) /\ answer[r] = None /\ logged[r] = None
    BY <1>1, <1>2 DEF CourseRight
  <2>2. Progress(r, writes[r])'
    BY <1>1, <2>1 DEF Progress, Parts, A!Handler, A!Res
  <2>3. A!Handler(r)' = A!Handler(r) /\ Routed(r)' = Routed(r) /\ wants' = wants
    BY <1>1 DEF A!Handler, Routed
  <2>4. /\ A!Con(r)'.user \in {A!NoUser, A!Handler(r).user} /\ ~A!Con(r)'.err /\ (A!Con(r)'.gz => wants[r].accepts)
        /\ A!Con(r)'.noCache = A!Handler(r).noCache
    BY <1>1, <1>2, <1>4, <1>6 DEF CourseRight
  <2>5. writes'[r] <= A!Handler(r)'.parts /\ answer'[r] = None /\ logged'[r] = None
    BY <1>1, <1>3, <2>1, <2>3
  <2>6. wants'[r] = wants[r] /\ Routed(r)'
    BY <2>1, <2>3
  <2> QED
    BY <1>2, <2>2, <2>3, <2>4, <2>5, <2>6 DEF CourseRight
<1> QED
  BY <1>1, <1>8, <1>9, <1>10, StepRight

(* A handler that is through has written all its parts.                     *)
LEMMA ReturnRight ==
  ASSUME InputsRight, ServersRight, RespInv, NEW r \in A!Requests, A!Return(r)
  PROVE  RespInv'
<1> DEFINE to == CASE A!Handler(r).ends = "ok" -> IF A!IsCached(wants[r]) THEN "store" ELSE "leave"
                   [] A!Handler(r).ends = "error" -> "failed"
                   [] A!Handler(r).ends = "panic" -> "panics"
<1>1. /\ serving[r] = "write" /\ writes[r] = A!Handler(r).parts /\ serving' = [serving EXCEPT ![r] = to]
      /\ UNCHANGED <<server, wants, slot, writes, res, con, mem, cached, answer, logged>>
  BY DEF A!Return
<1>2. /\ RespTyped /\ CourseRight(r) /\ InWork(r) /\ serving[r] # "new"
      /\ A!Handler(r).ends \in {"ok", "error", "panic"}
  BY <1>1, OwnTyped DEF RespInv, InWork
<1>3. /\ to \in {"store", "leave", "failed", "panics"}
      /\ to \in {"store", "leave"} => A!Handler(r).ends = "ok"
      /\ to = "store" => A!IsCached(wants[r])
      /\ to = "failed" => A!Handler(r).ends = "error"
      /\ to = "panics" => A!Handler(r).ends = "panic"
  BY <1>2
<1> HIDE DEF to
<1>4. serving'[r] = to /\ serving' \in [A!Requests -> Places] /\ \A q \in A!Requests : q # r => serving'[q] = serving[q]
  BY <1>1, <1>2, <1>3 DEF RespTyped, Places
<1>5. StepOf(r) /\ Keeps(r)
  BY <1>1, <1>2, <1>3, <1>4, QuietStep
<1>6. RespTyped'
  BY <1>1, <1>2, <1>4 DEF RespTyped
<1>7. CourseRight(r)'
  <2>1. /\ Progress(r, A!Handler(r).parts) /\ Routed(r) /\ answer[r] = None /\ logged[r] = None
        /\ A!Con(r).user \in {A!NoUser, A!Handler(r).user} /\ ~A!Con(r).err /\ (A!Con(r).gz => wants[r].accepts)
        /\ A!Con(r).noCache = A!Handler(r).noCache
    BY <1>1, <1>2 DEF CourseRight
  <2>2. /\ A!Res(r)' = A!Res(r) /\ A!Con(r)' = A!Con(r) /\ A!Handler(r)' = A!Handler(r) /\ Routed(r)' = Routed(r)
        /\ A!IsCached(wants[r])' = A!IsCached(wants[r]) /\ wants' = wants /\ answer' = answer /\ logged' = logged
    BY <1>1 DEF A!Res, A!Con, A!Handler, Routed, A!IsCached
  <2>3. Progress(r, A!Handler(r).parts)'
    BY <1>1, <2>1, <2>2 DEF Progress, Parts
  <2>4. to = "leave" => \E q \in Stands(r)' : A!Handler(q)'.ends = "ok" /\ Shown(r)' = A!Expected(q)'
    <3> SUFFICES ASSUME to = "leave" PROVE A!Handler(r)'.ends = "ok" /\ Shown(r)' = A!Expected(r)'
      BY DEF Stands
    <3>1. Shown(r) = A!Expected(r) /\ A!Handler(r).ends = "ok"
      BY <1>2, <1>3, <2>1, WholeAnswer
    <3>2. Shown(r)' = Shown(r)
      BY <1>1, <2>2 DEF Shown
    <3>3. A!Expected(r)' = A!Expected(r)
      BY <1>5, <2>2, StandsStay DEF Stands
    <3> QED
      BY <2>2, <3>1, <3>2, <3>3
  <2>5. serving'[r] = "panics" => wants'[r].route # "none" /\ server'.engine # "grpc"
    BY <1>1, <2>1 DEF Routed
  <2> QED
    BY <1>3, <1>4, <2>1, <2>2, <2>3, <2>4, <2>5 DEF CourseRight
<1> QED
  BY <1>1, <1>5, <1>6, <1>7, StepRight

(* A cached response is taken only where copies have arrays of their own.  *)
LEMMA LookupRight ==
  ASSUME InputsRight, ServersRight, RespInv, NEW r \in A!Requests, A!Lookup(r)
  PROVE  RespInv'
<1> DEFINE entry == A!Key(A!Con(r), wants[r])
           hit == cached[entry]
           gz == A!Con(r).gz \/ wants[r].accepts
<1>1. /\ serving[r] = "lookup" /\ con' = [con EXCEPT ![slot[r]].gz = @ \/ wants[r].accepts]
      /\ UNCHANGED <<server, wants, slot, writes, cached, answer, logged>>
  BY DEF A!Lookup
<1>2. /\ RespTyped /\ CourseRight(r) /\ InWork(r) /\ serving[r] # "new"
  BY <1>1 DEF RespInv, InWork
<1>3. /\ slot[r] \in Slots /\ A!Con(r) = con[slot[r]] /\ A!Con(r) \in Context /\ A!Res(r) = res[slot[r]]
      /\ A!Res(r) \in Response /\ wants[r] \in Inputs /\ wants[r].accepts \in BOOLEAN
  BY <1>2, OwnTyped
<1>4. /\ Progress(r, 0) /\ writes[r] = 0 /\ Routed(r) /\ A!IsCached(wants[r]) /\ answer[r] = None /\ logged[r] = None
      /\ A!Con(r).user \in {A!NoUser, A!Handler(r).user} /\ ~A!Con(r).err /\ (A!Con(r).gz => wants[r].accepts)
  BY <1>1, <1>2 DEF CourseRight
<1>5. gz = wants[r].accepts /\ entry = <<wants[r].route, wants[r].accepts>>
  BY <1>3, <1>4 DEF A!Key
<1>6. entry \in DOMAIN cached /\ DOMAIN cached = Routes \X BOOLEAN
  BY <1>2, <1>3, <1>5 DEF RespTyped, Routes
<1>7. A!Copies
  BY <1>2, <1>4 DEF ServersRight, RespTyped, A!Copies, Routed, A!IsCached
<1> HIDE DEF entry
<1>8. con' \in [Slots -> Context] /\ A!Con(r)' = [A!Con(r) EXCEPT !.gz = gz] /\ \A s \in Slots : s # slot[r] => con'[s] = con[s]
  <2>1. [A!Con(r) EXCEPT !.gz = gz] \in Context
    BY <1>3, <1>5 DEF Context
  <2>2. con \in [Slots -> Context]
    BY <1>2 DEF RespTyped
  <2>3. con' = [con EXCEPT ![slot[r]] = [A!Con(r) EXCEPT !.gz = gz]]
    BY <1>1, <1>3, <2>2
  <2>4. A!Con(r)' = con'[slot[r]]
    BY <1>1 DEF A!Con
  <2> QED
    BY <1>3, <2>1, <2>2, <2>3, <2>4
<1>9. A!Con(r)'.user = A!Con(r).user /\ A!Con(r)'.err = A!Con(r).err /\ A!Con(r)'.gz = wants[r].accepts
  BY <1>3, <1>5, <1>8 DEF Context
<1>10. /\ A!Handler(r)' = A!Handler(r) /\ Routed(r)' = Routed(r) /\ wants' = wants /\ answer' = answer /\ logged' = logged
  BY <1>1 DEF A!Handler, Routed
<1>11. CASE hit = None
  <2>1. serving' = [serving EXCEPT ![r] = "enter"] /\ UNCHANGED <<res, mem>>
    BY <1>11 DEF A!Lookup, entry
  <2>2. /\ serving'[r] = "enter" /\ serving' \in [A!Requests -> Places]
        /\ \A q \in A!Requests : q # r => serving'[q] = serving[q] /\ logged'[q] = logged[q]
    BY <1>1, <1>2, <2>1 DEF RespTyped, Places
  <2>3. StepOf(r) /\ Keeps(r)
    BY <1>1, <1>2, <1>8, <2>1, <2>2, QuietStep
  <2>4. RespTyped'
    BY <1>1, <1>2, <1>8, <2>1, <2>2 DEF RespTyped
  <2>5. Progress(r, 0)'
    BY <1>1, <1>4, <1>10, <2>1 DEF Progress, Parts, A!Res
  <2>6. CourseRight(r)'
    BY <1>1, <1>4, <1>9, <1>10, <2>2, <2>5 DEF CourseRight
  <2> QED
    BY <1>1, <2>3, <2>4, <2>6, StepRight
<1>12. CASE hit # None
  <2> DEFINE x == A!CopyTo(hit, A!Res(r))
  <2>1. /\ serving' = [serving EXCEPT ![r] = "leave"] /\ mem' = A!MemCopy(hit.body)
        /\ res' = [res EXCEPT ![slot[r]] = A!CopyTo(hit, @)]
    BY <1>12 DEF A!Lookup, entry
  <2>2. /\ serving'[r] = "leave" /\ serving' \in [A!Requests -> Places]
        /\ \A p \in A!Requests : p # r => serving'[p] = serving[p]
    BY <1>1, <1>2, <2>1 DEF RespTyped, Places
  <2>3. hit \in Entry /\ hit.body \in View /\ hit.status \in Statuses /\ hit.gz \in BOOLEAN /\ hit.by \in A!Requests
        /\ Has(mem, hit.body) /\ EntryRight(entry) /\ mem \in Memory
    BY <1>2, <1>6, <1>12 DEF RespInv, RespTyped, ArraysApart, Entry
  <2> PICK q \in A!Requests : q = hit.by
    BY <2>3
  <2> DEFINE w == A!ViewCopy(hit.body)
  <2>4. /\ mem' \in Memory /\ w \in View /\ Has(mem', w) /\ A!Content(mem', w) = A!Content(mem, hit.body)
        /\ w.array = Len(mem) + 1
        /\ Len(mem') >= Len(mem) /\ \A a \in 1..Len(mem) : mem'[a] = mem[a]
    BY <1>7, <2>1, <2>3, CopyKeeps
  <2>5. x = [A!Res(r) EXCEPT !.body = w, !.gz = hit.gz, !.status = hit.status]
    BY <1>3, <1>7 DEF A!CopyTo, Response
  <2> HIDE DEF w, x, hit
  <2>6. x \in Response /\ x.body = w /\ x.gz = hit.gz /\ x.status = hit.status
    BY <1>3, <2>3, <2>4, <2>5 DEF Response
  <2>7. res' \in [Slots -> Response] /\ A!Res(r)' = x /\ \A s \in Slots : s # slot[r] => res'[s] = res[s]
    <3>1. res \in [Slots -> Response]
      BY <1>2 DEF RespTyped
    <3>2. A!Res(r)' = res'[slot[r]]
      BY <1>1 DEF A!Res
    <3> QED
      BY <1>3, <2>1, <2>6, <3>1, <3>2 DEF x
  <2>8. StepOf(r)
    <3>1. \A p \in A!Requests : p # r /\ InWork(p) => slot[p] # slot[r]
      BY <1>2, OwnSlot
    <3> QED
      BY <1>1, <1>3, <1>8, <2>2, <2>4, <2>7, <3>1 DEF StepOf
  <2>9. Keeps(r)
    <3>1. A!Res(r)' = res'[slot'[r]]
      BY DEF A!Res
    <3> QED
      BY <1>1, <2>4, <2>6, <2>7, <3>1 DEF Keeps
  <2>10. RespTyped'
    BY <1>1, <1>2, <1>8, <2>2, <2>4, <2>7 DEF RespTyped
  <2>11. /\ serving[q] \notin {"new", "lookup"} /\ <<wants[r].route, wants[r].accepts>> = <<wants[q].route, wants[q].accepts>>
         /\ A!Handler(q).ends = "ok" /\ ~A!Handler(q).noCache
         /\ A!Answer(hit.status, hit.gz, A!Content(mem, hit.body)) = A!Expected(q)
    BY <1>5, <1>12, <2>3 DEF EntryRight, hit
  <2>12. q \in Stands(r)
    BY <1>4, <2>3, <2>11 DEF Stands, A!Alike
  <2>13. Shown(r)' = A!Expected(q)
    BY <2>4, <2>6, <2>7, <2>11 DEF Shown
  <2>14. q \in Stands(r)' /\ A!Expected(q)' = A!Expected(q) /\ A!Handler(q)' = A!Handler(q)
    BY <1>1, <2>8, <2>12, StandsStay DEF A!Handler
  <2>15. \E p \in Stands(r)' : A!Handler(p)'.ends = "ok" /\ Shown(r)' = A!Expected(p)'
    BY <2>11, <2>13, <2>14
  <2>16. CourseRight(r)'
    BY <1>1, <1>4, <1>9, <1>10, <2>2, <2>15 DEF CourseRight
  <2> QED
    BY <1>1, <2>8, <2>9, <2>10, <2>16, StepRight
<1> QED
  BY <1>11, <1>12

(* A copy of a whole answer is stored, under what its request is told by.   *)
LEMMA StoreRight ==
  ASSUME InputsRight, ServersRight, RespInv, NEW r \in A!Requests, A!Store(r)
  PROVE  RespInv'
<1> DEFINE entry == A!Key(A!Con(r), wants[r])
           blank == [status |-> 200, gz |-> FALSE, body |-> A!Empty, by |-> r]
           c == A!CopyTo(A!Res(r), blank)
<1>1. /\ serving[r] = "store" /\ serving' = [serving EXCEPT ![r] = "leave"]
      /\ UNCHANGED <<server, wants, slot, writes, res, con, answer, logged>>
  BY DEF A!Store
<1>2. /\ RespTyped /\ CourseRight(r) /\ InWork(r) /\ serving[r] # "new"
  BY <1>1 DEF RespInv, InWork
<1>3. /\ slot[r] \in Slots /\ A!Res(r) = res[slot[r]] /\ A!Con(r) \in Context
      /\ A!Res(r) \in Response /\ A!Res(r).body \in View /\ Has(mem, A!Res(r).body)
      /\ wants[r] \in Inputs /\ wants[r].accepts \in BOOLEAN
  BY <1>2, OwnTyped
<1>4. /\ Progress(r, A!Handler(r).parts) /\ A!Handler(r).ends = "ok" /\ Routed(r) /\ A!IsCached(wants[r])
      /\ answer[r] = None /\ logged[r] = None /\ A!Con(r).noCache = A!Handler(r).noCache
      /\ A!Con(r).user \in {A!NoUser, A!Handler(r).user} /\ ~A!Con(r).err /\ (A!Con(r).gz => wants[r].accepts)
  BY <1>1, <1>2 DEF CourseRight
<1>5. entry = <<wants[r].route, wants[r].accepts>>
  BY <1>3, <1>4 DEF A!Key
<1>6. entry \in DOMAIN cached /\ DOMAIN cached = Routes \X BOOLEAN
  BY <1>2, <1>3, <1>5 DEF RespTyped, Routes
<1>7. A!Copies
  BY <1>2, <1>4 DEF ServersRight, RespTyped, A!Copies, Routed, A!IsCached
<1> HIDE DEF entry, c
<1>8. /\ serving'[r] = "leave" /\ serving' \in [A!Requests -> Places]
      /\ \A p \in A!Requests : p # r => serving'[p] = serving[p] /\ logged'[p] = logged[p]
  BY <1>1, <1>2 DEF RespTyped, Places
<1>9. /\ A!Res(r)' = A!Res(r) /\ A!Con(r)' = A!Con(r) /\ A!Handler(r)' = A!Handler(r) /\ Routed(r)' = Routed(r)
      /\ wants' = wants /\ answer' = answer /\ logged' = logged
  BY <1>1 DEF A!Res, A!Con, A!Handler, Routed
<1>10. Shown(r) = A!Expected(r)
  BY <1>2, <1>4, WholeAnswer
<1>11. ASSUME StepOf(r), A!Content(mem', A!Res(r).body) = A!Content(mem, A!Res(r).body) PROVE CourseRight(r)'
  <2>1. Shown(r)' = Shown(r)
    BY <1>9, <1>11 DEF Shown
  <2>2. A!Expected(r)' = A!Expected(r) /\ r \in Stands(r)'
    BY <1>1, <1>11, StandsStay DEF Stands
  <2>3. \E p \in Stands(r)' : A!Handler(p)'.ends = "ok" /\ Shown(r)' = A!Expected(p)'
    BY <1>4, <1>9, <1>10, <2>1, <2>2
  <2> QED
    BY <1>4, <1>8, <1>9, <2>3 DEF CourseRight
<1>12. CASE A!Con(r).noCache
  <2>1. UNCHANGED <<mem, cached>>
    BY <1>12 DEF A!Store
  <2>2. StepOf(r) /\ Keeps(r)
    BY <1>1, <1>2, <1>8, <2>1, QuietStep
  <2>3. RespTyped'
    BY <1>1, <1>2, <1>8, <2>1 DEF RespTyped
  <2>4. CourseRight(r)'
    BY <1>11, <2>1, <2>2
  <2> QED
    BY <2>1, <2>2, <2>3, <2>4, StepRight
<1>13. CASE ~A!Con(r).noCache
  <2>1. cached' = [cached EXCEPT ![entry] = c] /\ mem' = A!MemCopy(A!Res(r).body)
    BY <1>13 DEF A!Store, entry, c
  <2> DEFINE w == A!ViewCopy(A!Res(r).body)
  <2>2. /\ mem' \in Memory /\ w \in View /\ Has(mem', w) /\ A!Content(mem', w) = A!Content(mem, A!Res(r).body)
        /\ w.array = Len(mem) + 1
        /\ Len(mem') >= Len(mem) /\ \A a \in 1..Len(mem) : mem'[a] = mem[a]
    BY <1>2, <1>3, <1>7, <2>1, CopyKeeps DEF RespTyped
  <2> HIDE DEF w
  <2>3. c \in Entry /\ c.body = w /\ c.gz = A!Res(r).gz /\ c.status = A!Res(r).status /\ c.by = r
    <3>1. c = [blank EXCEPT !.body = w, !.gz = A!Res(r).gz, !.status = A!Res(r).status]
      BY <1>7 DEF c, w, A!CopyTo
    <3>2. c = [status |-> A!Res(r).status, gz |-> A!Res(r).gz, body |-> w, by |-> r]
      BY <3>1
    <3> QED
      BY <1>3, <2>2, <3>2 DEF Entry, Response
  <2>4. cached' \in [Routes \X BOOLEAN -> {None} \cup Entry] /\ cached'[entry] = c
        /\ DOMAIN cached' = DOMAIN cached /\ \A k \in DOMAIN cached : k # entry => cached'[k] = cached[k]
    BY <1>2, <1>6, <2>1, <2>3 DEF RespTyped
  <2>5. StepOf(r)
    <3>1. \A p \in A!Requests : p # r /\ InWork(p) => slot[p] # slot[r]
      BY <1>2, OwnSlot
    <3> QED
      BY <1>1, <1>3, <1>8, <2>2, <3>1 DEF StepOf
  <2>6. A!Content(mem', A!Res(r).body) = A!Content(mem, A!Res(r).body) /\ Has(mem', A!Res(r).body)
    <3>1. A!Res(r).body.array # 0 => A!Res(r).body.array \in 1..Len(mem)
      BY <1>3 DEF Has, View
    <3>2. mem \in Memory /\ Len(mem) \in Nat /\ Len(mem') \in Nat
      BY <1>2, <2>2, LenProperties DEF RespTyped, Memory
    <3>3. A!Res(r).body.array # 0 => A!Res(r).body.array <= Len(mem') /\ mem'[A!Res(r).body.array] = mem[A!Res(r).body.array]
      BY <2>2, <3>1, <3>2
    <3> QED
      BY <1>3, <2>2, <3>2, <3>3, SameContent
  <2>7. Keeps(r)
    <3>1. res'[slot'[r]] = A!Res(r)
      BY <1>1, <1>3
    <3>2. ASSUME NEW k \in DOMAIN cached, cached'[k] # cached[k]
          PROVE  cached'[k].body.array = Len(mem) + 1 /\ Has(mem', cached'[k].body) /\ res' = res
      BY <1>1, <2>2, <2>3, <2>4, <3>2
    <3> QED
      BY <1>1, <1>3, <2>4, <2>6, <3>1, <3>2 DEF Keeps
  <2>8. RespTyped'
    BY <1>1, <1>2, <1>8, <2>2, <2>4 DEF RespTyped
  <2>9. CourseRight(r)'
    BY <1>11, <2>5, <2>6
  <2>10. ASSUME NEW k \in DOMAIN cached, k = entry PROVE EntryRight(k)'
    <3>1. A!Answer(c.status, c.gz, A!Content(mem', c.body)) = A!Expected(r)'
      <4>1. A!Expected(r)' = A!Expected(r)
        BY <1>1, <2>5, StandsStay DEF Stands
      <4> QED
        BY <1>10, <2>2, <2>3, <4>1 DEF Shown
    <3>2. serving'[r] \notin {"new", "lookup"} /\ A!IsCached(wants[r])' /\ Routed(r)' /\ A!Handler(r)'.ends = "ok" /\ ~A!Handler(r)'.noCache
      BY <1>1, <1>4, <1>8, <1>9, <1>13 DEF A!IsCached
    <3>3. wants'[r] = wants[r]
      BY <1>1
    <3> QED
      BY <1>5, <2>3, <2>4, <2>10, <3>1, <3>2, <3>3 DEF EntryRight
  <2>11. \A k \in DOMAIN cached : cached'[k] # cached[k] => EntryRight(k)'
    BY <2>4, <2>10
  <2> QED
    BY <2>5, <2>7, <2>8, <2>9, <2>11, StepRight
<1> QED
  BY <1>12, <1>13

(* What Fail and Recover have in common, behind the first n parts.         *)
Fails(r, n, status) ==
  /\ InWork(r) /\ Progress(r, n) /\ A!Error(r, status)
  /\ UNCHANGED <<server, wants, slot, writes, cached, answer>>
  /\ con' \in [Slots -> Context] /\ \A s \in Slots : s # slot[r] => con'[s] = con[s]
  /\ DOMAIN logged' = A!Requests /\ \A q \in A!Requests : q # r => logged'[q] = logged[q]
  /\ serving' = [serving EXCEPT ![r] = "commit"]

(* An error is written behind the parts that are there.                    *)
LEMMA ErrorKeeps ==
  ASSUME InputsRight, RespInv, NEW r \in A!Requests, NEW n \in Nat, NEW status \in Statuses, Fails(r, n, status)
  PROVE  /\ StepOf(r) /\ Keeps(r) /\ RespTyped' /\ serving'[r] = "commit"
         /\ Shown(r)' = A!Answer(IF server.engine = "fasthttp" /\ n > 0 THEN A!Handler(r).status ELSE status,
                                wants[r].accepts /\ n > 0, Append(Parts(r, n), A!Failed(r)))
<1> USE DEF Fails
<1> DEFINE part == A!Failed(r)
<1>1. part \in Item /\ part.gz = FALSE
  BY DEF A!Failed, A!Part, Item
<1> HIDE DEF part
<1>2. mem' = A!MemWrite(A!Res(r).body, part) /\ res' = [res EXCEPT ![slot[r]] = A!Blob(@, status, part)]
  BY DEF A!Error, part
<1>3. /\ mem' \in Memory /\ Len(mem') >= Len(mem)
      /\ \A a \in 1..Len(mem) : a # A!Res(r).body.array => mem'[a] = mem[a]
      /\ res' \in [Slots -> Response]
      /\ \A s \in Slots : s # slot[r] => res'[s] = res[s]
      /\ Has(mem', A!Res(r)'.body)
      /\ A!Res(r)'.body.array = A!Res(r).body.array \/ A!Res(r)'.body.array = Len(mem) + 1
      /\ A!Content(mem', A!Res(r)'.body) = Append(A!Content(mem, A!Res(r).body), part)
      /\ A!Res(r)'.status = IF server.engine = "fasthttp" /\ A!Res(r).committed THEN A!Res(r).status ELSE status
      /\ A!Res(r)'.gz = (A!Res(r).gz \/ part.gz)
  <2>1. PICK p \in Item : p = part
    BY <1>1
  <2>2. Blobs(r, p, status)
    BY <1>1, <1>2, <2>1 DEF Blobs
  <2> HIDE DEF Fails
  <2> QED
    BY <2>1, <2>2, BlobKeeps
<1>4. /\ RespTyped /\ serving[r] # "new" /\ slot[r] \in Slots /\ A!Res(r) = res[slot[r]]
      /\ wants[r].accepts \in BOOLEAN /\ A!Res(r) \in Response
  BY OwnTyped DEF RespInv, InWork
<1>5. serving'[r] = "commit" /\ serving' \in [A!Requests -> Places] /\ \A q \in A!Requests : q # r => serving'[q] = serving[q]
  BY <1>4 DEF RespTyped, Places
<1>6. StepOf(r)
  <2>1. \A p \in A!Requests : p # r /\ InWork(p) => slot[p] # slot[r]
    BY OwnSlot
  <2> QED
    BY <1>3, <1>4, <1>5, <2>1 DEF StepOf
<1>7. Keeps(r)
  <2>1. A!Res(r)' = res'[slot'[r]] /\ slot'[r] = slot[r]
    BY DEF A!Res
  <2> QED
    BY <1>3, <1>4, <2>1 DEF Keeps
<1>8. RespTyped'
  BY <1>3, <1>4, <1>5 DEF RespTyped
<1>9. Shown(r)' = A!Answer(A!Res(r)'.status, A!Res(r)'.gz, A!Content(mem', A!Res(r)'.body))
  BY DEF Shown
<1>10. A!Content(mem', A!Res(r)'.body) = Append(Parts(r, n), A!Failed(r))
  BY <1>3 DEF Progress, part
<1>11. A!Res(r)'.gz = (wants[r].accepts /\ n > 0)
  BY <1>1, <1>3, <1>4 DEF Progress, Response
<1>12. A!Res(r)'.status = IF server.engine = "fasthttp" /\ n > 0 THEN A!Handler(r).status ELSE status
  BY <1>3 DEF Progress
<1> QED
  BY <1>5, <1>6, <1>7, <1>8, <1>9, <1>10, <1>11, <1>12

(* The error is in the body it was written to.                             *)
LEMMA FailedIn ==
  ASSUME NEW r \in A!Requests, NEW s \in Seq(Item)
  PROVE  A!Failed(r) \in A!ToSet(Append(s, A!Failed(r)))
<1>1. A!Failed(r) \in Item
  BY DEF A!Failed, A!Part, Item
<1>2. PICK x \in Item : x = A!Failed(r)
  BY <1>1
<1>3. /\ Append(s, x) \in Seq(Item) /\ Len(Append(s, x)) = Len(s) + 1 /\ Append(s, x)[Len(s) + 1] = x /\ Len(s) \in Nat
  BY AppendProperties, LenProperties
<1>4. Len(s) + 1 \in DOMAIN Append(s, x)
  BY <1>3, LenProperties
<1> QED
  BY <1>2, <1>3, <1>4 DEF A!ToSet

(* The parts of a handler have no error.                                   *)
LEMMA FailedOut ==
  ASSUME NEW q, NEW r, NEW n \in Nat, NEW gz
  PROVE  A!Failed(r) \notin A!ToSet(PartsOf(q, n, gz))
<1> SUFFICES ASSUME NEW m \in 1..n, A!Failed(r) = A!Part(q, m, gz) PROVE FALSE
  BY DEF A!ToSet, PartsOf
<1>1. A!Failed(r).n = 0 /\ A!Part(q, m, gz).n = m
  BY DEF A!Failed, A!Part
<1> QED
  BY <1>1

(* Access: the record has the user of this request.                        *)
LEMMA AccessKeeps ==
  ASSUME InputsRight, RespInv, NEW r \in A!Requests, InWork(r), serving[r] # "commit", slot'[r] = slot[r], NEW err \in BOOLEAN,
         IF server.accessor THEN A!Access(r, err) ELSE UNCHANGED <<con, logged>>
  PROVE  /\ con' \in [Slots -> Context] /\ \A s \in Slots : s # slot[r] => con'[s] = con[s]
         /\ DOMAIN logged' = A!Requests /\ \A q \in A!Requests : q # r => logged'[q] = logged[q]
         /\ A!Con(r)'.gz = A!Con(r).gz
         /\ logged'[r] # None => logged'[r].user \in {wants[r].user, A!Handler(r).user} /\ logged'[r].err = err
<1>1. /\ RespTyped /\ serving[r] # "new" /\ slot[r] \in Slots /\ A!Con(r) = con[slot[r]] /\ A!Con(r) \in Context
      /\ wants[r].user \in Users /\ CourseRight(r)
  BY OwnTyped DEF RespInv, InWork
<1>2. A!Con(r).user \in {A!NoUser, A!Handler(r).user} /\ ~A!Con(r).err
  BY <1>1 DEF CourseRight
<1>3. CASE ~server.accessor
  <2>1. con' = con /\ logged' = logged
    BY <1>3
  <2>2. A!Con(r)' = A!Con(r)
    BY <2>1 DEF A!Con
  <2>3. serving[r] # "done" /\ logged[r] = None
    BY <1>1 DEF CourseRight, InWork
  <2> QED
    BY <1>1, <2>1, <2>2, <2>3 DEF RespTyped
<1>4. CASE server.accessor
  <2> DEFINE user == IF A!Con(r).user = A!NoUser THEN wants[r].user ELSE A!Con(r).user
             failed == A!Con(r).err \/ err
  <2>1. /\ con' = [con EXCEPT ![slot[r]].user = user, ![slot[r]].err = failed]
        /\ logged' = [logged EXCEPT ![r] = [user |-> user, err |-> failed]]
    BY <1>4 DEF A!Access
  <2>2. user \in Users /\ user \in {wants[r].user, A!Handler(r).user} /\ failed = err
    BY <1>1, <1>2 DEF Context
  <2> HIDE DEF user, failed
  <2> DEFINE x == [con[slot[r]] EXCEPT !.user = user, !.err = failed]
  <2>3. x \in Context /\ x.gz = A!Con(r).gz
    BY <1>1, <2>2 DEF Context
  <2>4. con' = [con EXCEPT ![slot[r]] = x] /\ con \in [Slots -> Context]
    BY <1>1, <2>1 DEF RespTyped
  <2> HIDE DEF x
  <2>5. con' \in [Slots -> Context] /\ con'[slot[r]] = x /\ \A s \in Slots : s # slot[r] => con'[s] = con[s]
    BY <1>1, <2>3, <2>4
  <2>6. A!Con(r)' = x
    BY <2>5 DEF A!Con
  <2>7. logged'[r] = [user |-> user, err |-> failed] /\ DOMAIN logged' = A!Requests /\ \A q \in A!Requests : q # r => logged'[q] = logged[q]
    BY <1>1, <2>1 DEF RespTyped
  <2> QED
    BY <2>2, <2>3, <2>5, <2>6, <2>7
<1> QED
  BY <1>3, <1>4

(* An error that is the answer of its request completes it.                *)
LEMMA ErrorAnswers ==
  ASSUME InputsRight, RespInv, NEW r \in A!Requests, InWork(r), StepOf(r),
         serving'[r] = "commit", UNCHANGED <<server, wants, slot, writes, cached, answer>>,
         A!Con(r)'.gz => wants[r].accepts, Shown(r)' = A!Expected(r), LoggedRight(r, Shown(r).body)'
  PROVE  CourseRight(r)'
<1>1. A!Expected(r)' = A!Expected(r) /\ r \in Stands(r)'
  BY StandsStay DEF Stands
<1>2. \E p \in Stands(r)' : Shown(r)' = A!Expected(p)'
  BY <1>1
<1>3. answer'[r] = None
  BY OwnTyped DEF InWork, CourseRight
<1> QED
  BY <1>2, <1>3 DEF CourseRight

(* The error of a handler is in its answer, and in its record.              *)
LEMMA FailRight ==
  ASSUME InputsRight, ServersRight, RespInv, NEW r \in A!Requests, A!Fail(r)
  PROVE  RespInv'
<1>1. /\ serving[r] = "failed" /\ A!Error(r, 400) /\ serving' = [serving EXCEPT ![r] = "commit"]
      /\ IF server.accessor THEN A!Access(r, TRUE) ELSE UNCHANGED <<con, logged>>
      /\ UNCHANGED <<server, wants, slot, writes, cached, answer>>
  BY DEF A!Fail
<1>2. /\ CourseRight(r) /\ InWork(r) /\ serving[r] # "new" /\ A!Handler(r).parts \in Nat /\ 400 \in Statuses
      /\ wants[r].accepts \in BOOLEAN
  BY <1>1, OwnTyped DEF InWork, Statuses
<1>3. /\ Progress(r, A!Handler(r).parts) /\ A!Handler(r).ends = "error" /\ Routed(r) /\ (A!Con(r).gz => wants[r].accepts)
  BY <1>1, <1>2 DEF CourseRight
<1>4. /\ con' \in [Slots -> Context] /\ \A s \in Slots : s # slot[r] => con'[s] = con[s]
      /\ DOMAIN logged' = A!Requests /\ \A q \in A!Requests : q # r => logged'[q] = logged[q]
      /\ A!Con(r)'.gz = A!Con(r).gz
      /\ logged'[r] # None => logged'[r].user \in {wants[r].user, A!Handler(r).user} /\ logged'[r].err = TRUE
  <2>1. slot'[r] = slot[r] /\ serving[r] # "commit" /\ TRUE \in BOOLEAN
    BY <1>1
  <2> QED
    BY <1>1, <1>2, <2>1, AccessKeeps
<1> PICK n \in Nat, code \in Statuses : n = A!Handler(r).parts /\ code = 400
  BY <1>2
<1> DEFINE body == Append(Parts(r, n), A!Failed(r))
           status == IF server.engine = "fasthttp" /\ n > 0 THEN A!Handler(r).status ELSE code
<1>5. /\ StepOf(r) /\ Keeps(r) /\ RespTyped' /\ serving'[r] = "commit"
      /\ Shown(r)' = A!Answer(status, wants[r].accepts /\ n > 0, body)
  <2>1. Fails(r, n, code)
    BY <1>1, <1>2, <1>3, <1>4 DEF Fails
  <2> QED
    BY <2>1, ErrorKeeps
<1>6. Shown(r)' = A!Expected(r)
  <2>1. A!Written(r) = body
    BY <1>3 DEF A!Written, Parts, PartsOf
  <2>2. A!StatusOf(r) = status
    BY <1>2, <1>3 DEF A!StatusOf
  <2>3. A!Expected(r) = A!Answer(A!StatusOf(r), wants[r].accepts /\ n > 0, A!Written(r))
    BY <1>3 DEF A!Expected, Routed
  <2> QED
    BY <1>5, <2>1, <2>2, <2>3
<1>7. LoggedRight(r, Shown(r).body)'
  <2>1. Parts(r, n) \in Seq(Item)
    BY <1>2, PartsAre DEF Parts
  <2>2. A!Failed(r) \in A!ToSet(body)
    BY <2>1, FailedIn
  <2>3. Shown(r)'.body = body /\ A!Handler(r)' = A!Handler(r) /\ wants' = wants
    BY <1>1, <1>5 DEF A!Answer, A!Handler
  <2>4. A!Failed(r)' \in A!ToSet(Shown(r)'.body)
    BY <2>2, <2>3 DEF A!Failed
  <2> QED
    BY <1>4, <2>3, <2>4 DEF LoggedRight
<1>8. CourseRight(r)'
  BY <1>1, <1>2, <1>3, <1>4, <1>5, <1>6, <1>7, ErrorAnswers
<1> QED
  BY <1>1, <1>5, <1>8, StepRight

(* The error of a panic, or of no route, is in its answer.                  *)
LEMMA RecoverRight ==
  ASSUME InputsRight, ServersRight, RespInv, NEW r \in A!Requests, A!Recover(r)
  PROVE  RespInv'
<1>1. /\ serving[r] \in {"panics", "unknown"} /\ serving' = [serving EXCEPT ![r] = "commit"]
      /\ UNCHANGED <<server, wants, slot, writes, con, cached, answer, logged>>
  BY DEF A!Recover
<1> DEFINE gz == A!Con(r).gz
<1>2. /\ RespTyped /\ CourseRight(r) /\ InWork(r) /\ serving[r] # "new" /\ A!Handler(r).parts \in Nat
      /\ 400 \in Statuses /\ 405 \in Statuses /\ wants[r].accepts \in BOOLEAN
  BY <1>1, OwnTyped DEF InWork, Statuses, RespInv
<1>3. /\ con' \in [Slots -> Context] /\ \A s \in Slots : s # slot[r] => con'[s] = con[s]
      /\ DOMAIN logged' = A!Requests /\ \A q \in A!Requests : q # r => logged'[q] = logged[q]
      /\ A!Con(r)'.gz = A!Con(r).gz /\ logged'[r] = None /\ (A!Con(r).gz => wants[r].accepts)
  BY <1>1, <1>2 DEF RespTyped, A!Con, CourseRight
<1>4. LoggedRight(r, Shown(r).body)'
  BY <1>3 DEF LoggedRight
<1>5. ASSUME StepOf(r), Keeps(r), RespTyped', serving'[r] = "commit", Shown(r)' = A!Expected(r) PROVE RespInv'
  <2>1. CourseRight(r)'
    BY <1>1, <1>2, <1>3, <1>4, <1>5, ErrorAnswers
  <2> QED
    BY <1>1, <1>5, <2>1, StepRight
<1>6. ASSUME NEW n \in Nat, n = 0, Progress(r, n), NEW status \in Statuses, A!Error(r, status),
             A!Expected(r) = A!Answer(status, FALSE, <<A!Failed(r)>>)
      PROVE  RespInv'
  <2>1. /\ StepOf(r) /\ Keeps(r) /\ RespTyped' /\ serving'[r] = "commit"
        /\ Shown(r)' = A!Answer(IF server.engine = "fasthttp" /\ n > 0 THEN A!Handler(r).status ELSE status,
                               wants[r].accepts /\ n > 0, Append(Parts(r, n), A!Failed(r)))
    <3>1. Fails(r, n, status)
      BY <1>1, <1>2, <1>3, <1>6 DEF Fails
    <3> QED
      BY <3>1, ErrorKeeps
  <2>2. Parts(r, n) = <<>> /\ ~(n > 0)
    BY <1>2, <1>6, NoParts DEF Parts
  <2>3. Append(<<>>, A!Failed(r)) = <<A!Failed(r)>>
    OBVIOUS
  <2>4. (wants[r].accepts /\ n > 0) = FALSE
    BY <2>2
  <2>5. Shown(r)' = A!Answer(status, FALSE, <<A!Failed(r)>>)
    BY <2>1, <2>2, <2>3, <2>4
  <2> QED
    BY <1>5, <1>6, <2>1, <2>5
<1>7. CASE serving[r] = "unknown"
  <2>1. Progress(r, 0) /\ wants[r].route = "none"
    BY <1>2, <1>7 DEF CourseRight
  <2>2. A!Error(r, 405)
    BY <1>7 DEF A!Recover
  <2>3. A!Expected(r) = A!Answer(405, FALSE, <<A!Failed(r)>>)
    BY <2>1 DEF A!Expected
  <2> QED
    BY <1>2, <1>6, <2>1, <2>2, <2>3
<1>8. CASE serving[r] = "panics"
  <2>1. A!Error(r, 400) /\ wants[r].route # "none"
    BY <1>2, <1>8 DEF A!Recover, CourseRight
  <2>2. CASE server.engine = "grpc"
    <3>1. Progress(r, 0) /\ A!Expected(r) = A!Answer(400, FALSE, <<A!Failed(r)>>)
      BY <1>2, <1>8, <2>1, <2>2 DEF CourseRight, A!Expected
    <3> QED
      BY <1>2, <1>6, <2>1, <3>1
  <2>3. CASE server.engine # "grpc"
    <3> PICK n \in Nat, code \in Statuses : n = A!Handler(r).parts /\ code = 400
      BY <1>2
    <3> DEFINE body == Append(Parts(r, n), A!Failed(r))
               status == IF server.engine = "fasthttp" /\ n > 0 THEN A!Handler(r).status ELSE code
    <3>1. Progress(r, n) /\ A!Handler(r).ends = "panic" /\ A!Error(r, code)
      BY <1>2, <1>8, <2>1, <2>3 DEF CourseRight
    <3>2. /\ StepOf(r) /\ Keeps(r) /\ RespTyped' /\ serving'[r] = "commit"
          /\ Shown(r)' = A!Answer(status, wants[r].accepts /\ n > 0, body)
      <4>1. Fails(r, n, code)
        BY <1>1, <1>2, <1>3, <3>1 DEF Fails
      <4> QED
        BY <4>1, ErrorKeeps
    <3>3. A!Written(r) = body
      BY <3>1 DEF A!Written, Parts, PartsOf
    <3>4. A!StatusOf(r) = status
      BY <1>2, <3>1 DEF A!StatusOf
    <3>5. A!Expected(r) = A!Answer(A!StatusOf(r), wants[r].accepts /\ n > 0, A!Written(r))
      BY <2>1, <2>3 DEF A!Expected
    <3> QED
      BY <1>5, <3>2, <3>3, <3>4, <3>5
  <2> QED
    BY <2>2, <2>3
<1> QED
  BY <1>1, <1>7, <1>8

(* The record of a request without an error has none.                       *)
LEMMA LeaveRight ==
  ASSUME InputsRight, ServersRight, RespInv, NEW r \in A!Requests, A!Leave(r)
  PROVE  RespInv'
<1>1. /\ serving[r] = "leave" /\ serving' = [serving EXCEPT ![r] = "commit"]
      /\ IF server.accessor THEN A!Access(r, FALSE) ELSE UNCHANGED <<con, logged>>
      /\ UNCHANGED <<server, wants, slot, writes, res, mem, cached, answer>>
  BY DEF A!Leave
<1>2. /\ RespTyped /\ CourseRight(r) /\ InWork(r) /\ serving[r] # "new"
  BY <1>1 DEF InWork, RespInv
<1>3. /\ con' \in [Slots -> Context] /\ \A s \in Slots : s # slot[r] => con'[s] = con[s]
      /\ DOMAIN logged' = A!Requests /\ \A q \in A!Requests : q # r => logged'[q] = logged[q]
      /\ A!Con(r)'.gz = A!Con(r).gz
      /\ logged'[r] # None => logged'[r].user \in {wants[r].user, A!Handler(r).user} /\ logged'[r].err = FALSE
  <2>1. slot'[r] = slot[r] /\ serving[r] # "commit" /\ FALSE \in BOOLEAN
    BY <1>1
  <2> QED
    BY <1>1, <1>2, <2>1, AccessKeeps
<1>4. serving'[r] = "commit" /\ serving' \in [A!Requests -> Places] /\ \A q \in A!Requests : q # r => serving'[q] = serving[q]
  BY <1>1, <1>2 DEF RespTyped, Places
<1>5. StepOf(r) /\ Keeps(r)
  BY <1>1, <1>2, <1>3, <1>4, QuietStep
<1>6. RespTyped'
  BY <1>1, <1>2, <1>3, <1>4 DEF RespTyped
<1>7. PICK q \in Stands(r) : A!Handler(q).ends = "ok" /\ Shown(r) = A!Expected(q)
  BY <1>1, <1>2 DEF CourseRight
<1>8. Shown(r)' = Shown(r)
  BY <1>1 DEF Shown, A!Res
<1>9. q \in Stands(r)' /\ A!Expected(q)' = A!Expected(q)
  BY <1>1, <1>5, StandsStay
<1>10. A!Failed(r) \notin A!ToSet(Shown(r).body)
  <2>1. Routed(r) /\ q \in A!Requests /\ wants[q].route = wants[r].route
    BY <1>1, <1>2 DEF CourseRight, Stands, A!Alike
  <2>2. A!Handler(q).parts \in Nat
    <3>1. serving[q] # "new"
      BY <1>2 DEF Stands, A!Alike
    <3> QED
      BY <2>1, <3>1, OwnTyped
  <2>3. A!Written(q) = Parts(q, A!Handler(q).parts)
    BY <1>7 DEF A!Written, Parts, PartsOf
  <2>4. Shown(r).body = A!Written(q)
    BY <1>7, <2>1 DEF A!Expected, A!Answer, Routed
  <2> QED
    BY <2>2, <2>3, <2>4, FailedOut DEF Parts
<1>11. LoggedRight(r, Shown(r).body)'
  <2>1. A!Failed(r)' = A!Failed(r) /\ A!Handler(r)' = A!Handler(r) /\ wants' = wants
    BY <1>1 DEF A!Failed, A!Handler
  <2>2. A!Failed(r)' \notin A!ToSet(Shown(r)'.body)
    BY <1>8, <1>10, <2>1
  <2>3. (A!Failed(r)' \in A!ToSet(Shown(r)'.body)) = FALSE
    BY <2>2
  <2> QED
    BY <1>3, <2>1, <2>3 DEF LoggedRight
<1>12. CourseRight(r)'
  <2>1. \E p \in Stands(r)' : Shown(r)' = A!Expected(p)'
    BY <1>7, <1>8, <1>9
  <2>2. answer'[r] = None /\ (A!Con(r)'.gz => wants'[r].accepts)
    BY <1>1, <1>2, <1>3 DEF CourseRight
  <2> QED
    BY <1>4, <1>11, <2>1, <2>2 DEF CourseRight
<1> QED
  BY <1>1, <1>5, <1>6, <1>12, StepRight

(* What is sent is what the response shows.                                 *)
LEMMA CommitRight ==
  ASSUME InputsRight, ServersRight, RespInv, NEW r \in A!Requests, A!Commit(r)
  PROVE  RespInv'
<1>1. /\ serving[r] = "commit" /\ serving' = [serving EXCEPT ![r] = "done"]
      /\ answer' = [answer EXCEPT ![r] = Shown(r)]
      /\ res' = [res EXCEPT ![slot[r]].body.len = 0]
      /\ UNCHANGED <<server, wants, slot, writes, con, mem, cached, logged>>
  BY DEF A!Commit, Shown
<1>2. /\ RespTyped /\ CourseRight(r) /\ InWork(r) /\ serving[r] # "new"
  BY <1>1 DEF InWork, RespInv
<1>3. slot[r] \in Slots /\ A!Res(r) = res[slot[r]] /\ A!Res(r) \in Response /\ A!Res(r).body \in View /\ Has(mem, A!Res(r).body)
  BY <1>2, OwnTyped
<1> DEFINE x == [res[slot[r]] EXCEPT !.body.len = 0]
<1>4. x \in Response /\ x.body.array = A!Res(r).body.array /\ x.body.len = 0 /\ x.body \in View
  BY <1>3 DEF Response, View
<1>5. mem \in Memory /\ Len(mem) \in Nat
  BY <1>2, LenProperties DEF RespTyped, Memory
<1>6. Has(mem, x.body)
  <2>1. x.body.array # 0 => mem[x.body.array] \in Seq(Item)
    BY <1>3, <1>4, <1>5, ElementOfSeq DEF Has, View, Memory
  <2> QED
    BY <1>3, <1>4, <2>1, LenProperties DEF Has, View
<1>7. res' = [res EXCEPT ![slot[r]] = x]
  BY <1>1
<1> HIDE DEF x
<1>8. res' \in [Slots -> Response] /\ res'[slot[r]] = x /\ \A s \in Slots : s # slot[r] => res'[s] = res[s]
  BY <1>2, <1>3, <1>4, <1>7 DEF RespTyped
<1>9. /\ serving'[r] = "done" /\ serving' \in [A!Requests -> Places] /\ \A q \in A!Requests : q # r => serving'[q] = serving[q]
      /\ answer'[r] = Shown(r) /\ DOMAIN answer' = A!Requests /\ \A q \in A!Requests : q # r => answer'[q] = answer[q]
  BY <1>1, <1>2 DEF RespTyped, Places
<1>10. StepOf(r)
  <2>1. \A p \in A!Requests : p # r /\ InWork(p) => slot[p] # slot[r]
    BY <1>2, OwnSlot
  <2> QED
    BY <1>1, <1>3, <1>5, <1>8, <1>9, <2>1 DEF StepOf
<1>11. Keeps(r)
  BY <1>1, <1>3, <1>4, <1>6, <1>8 DEF Keeps
<1>12. RespTyped'
  BY <1>1, <1>2, <1>8, <1>9 DEF RespTyped
<1>13. CourseRight(r)'
  <2>1. PICK q \in Stands(r) : Shown(r) = A!Expected(q)
    BY <1>1, <1>2 DEF CourseRight
  <2>2. q \in Stands(r)' /\ A!Expected(q)' = A!Expected(q)
    BY <1>1, <1>10, StandsStay
  <2>3. LoggedRight(r, answer[r].body)'
    <3>1. LoggedRight(r, Shown(r).body)
      BY <1>1, <1>2 DEF CourseRight
    <3>2. A!Failed(r)' = A!Failed(r) /\ A!Handler(r)' = A!Handler(r) /\ wants' = wants /\ logged' = logged
      BY <1>1 DEF A!Failed, A!Handler
    <3>3. answer'[r].body = Shown(r).body
      BY <1>9
    <3> QED
      BY <3>1, <3>2, <3>3 DEF LoggedRight
  <2>4. \E p \in Stands(r)' : answer'[r] = A!Expected(p)'
    BY <1>9, <2>1, <2>2
  <2> QED
    BY <1>9, <2>3, <2>4 DEF CourseRight, InWork
<1> QED
  BY <1>1, <1>10, <1>11, <1>12, <1>13, StepRight

(* What the requests have does not depend on the cache.                    *)
LEMMA CourseStays ==
  ASSUME NEW r \in A!Requests, CourseRight(r),
         UNCHANGED <<server, serving, wants, slot, writes, res, con, mem, answer, logged>>
  PROVE  CourseRight(r)'
<1>1. /\ InWork(r)' = InWork(r) /\ Routed(r)' = Routed(r) /\ A!IsCached(wants[r])' = A!IsCached(wants[r])
      /\ A!Con(r)' = A!Con(r) /\ A!Res(r)' = A!Res(r) /\ Shown(r)' = Shown(r) /\ Stands(r)' = Stands(r)
      /\ \A n : Progress(r, n)' = Progress(r, n)
      /\ \A body : LoggedRight(r, body)' = LoggedRight(r, body)
  BY DEF InWork, Routed, A!IsCached, A!Con, A!Res, Shown, Stands, A!Alike, A!Handler, Progress, Parts, LoggedRight, A!Failed
<1>2. \A q : A!Expected(q)' = A!Expected(q) /\ A!Handler(q)' = A!Handler(q)
  BY DEF A!Expected, A!StatusOf, A!Written, A!Handler
<1>3. /\ LoggedRight(r, Shown(r).body)' = LoggedRight(r, Shown(r).body)
      /\ LoggedRight(r, answer[r].body)' = LoggedRight(r, answer[r].body)
  BY <1>1 DEF LoggedRight, A!Handler, A!Failed
<1> QED
  BY <1>1, <1>2, <1>3 DEF CourseRight

(* An entry that is no more, or nothing at all, disturbs nobody.           *)
LEMMA EvictRight ==
  ASSUME RespInv, UNCHANGED <<server, serving, wants, slot, writes, res, con, mem, answer, logged>>,
         DOMAIN cached' = DOMAIN cached, \A k \in DOMAIN cached : cached'[k] \in {None, cached[k]},
         cached' \in [Routes \X BOOLEAN -> {None} \cup Entry]
  PROVE  RespInv'
<1>1. RespTyped'
  BY DEF RespInv, RespTyped
<1>2. ArraysApart'
  BY DEF RespInv, ArraysApart
<1>3. SlotsApart'
  BY DEF RespInv, SlotsApart, InWork
<1>4. ASSUME NEW r \in A!Requests PROVE CourseRight(r)'
  BY CourseStays DEF RespInv
<1>5. ASSUME NEW k \in DOMAIN cached PROVE EntryRight(k)'
  <2>1. CASE cached'[k] = None
    BY <2>1 DEF EntryRight
  <2>2. CASE cached'[k] = cached[k]
    <3>1. EntryRight(k)
      BY DEF RespInv
    <3>2. \A q : /\ A!Expected(q)' = A!Expected(q) /\ A!Handler(q)' = A!Handler(q) /\ Routed(q)' = Routed(q)
                 /\ A!IsCached(wants[q])' = A!IsCached(wants[q])
      BY DEF A!Expected, A!StatusOf, A!Written, A!Handler, Routed, A!IsCached
    <3> QED
      BY <2>2, <3>1, <3>2 DEF EntryRight
  <2> QED
    BY <2>1, <2>2
<1> QED
  BY <1>1, <1>2, <1>3, <1>4, <1>5 DEF RespInv

(* Nothing is served at first.                                              *)
LEMMA RespInitRight ==
  ASSUME A!Init
  PROVE  RespInv
<1> USE DEF A!Init
<1>1. RespTyped
  <2>1. mem \in Memory
    BY DEF Memory
  <2>2. \A s \in Slots : res[s] \in Response
    BY DEF Response, Statuses, View, A!Empty
  <2>3. \A s \in Slots : con[s] \in Context
    BY DEF Context, Users
  <2>4. cached \in [Routes \X BOOLEAN -> {None} \cup Entry]
    BY DEF Routes
  <2>5. serving \in [A!Requests -> Places] /\ writes \in [A!Requests -> Nat]
    BY DEF Places
  <2>6. res \in [Slots -> Response] /\ con \in [Slots -> Context]
    BY <2>2, <2>3
  <2> QED
    BY <2>1, <2>4, <2>5, <2>6 DEF RespTyped
<1>2. ArraysApart
  BY DEF ArraysApart, Has, A!Empty
<1>3. SlotsApart
  BY DEF SlotsApart, InWork
<1>4. ASSUME NEW r \in A!Requests PROVE CourseRight(r)
  <2>1. serving[r] = "new" /\ writes[r] = 0 /\ answer[r] = None /\ logged[r] = None
    OBVIOUS
  <2> QED
    BY <2>1 DEF CourseRight, InWork
<1>5. ASSUME NEW k \in DOMAIN cached PROVE EntryRight(k)
  BY DEF EntryRight
<1> QED
  BY <1>1, <1>2, <1>3, <1>4, <1>5 DEF RespInv

(* Every step keeps what is right.                                          *)
LEMMA RespNextRight ==
  ASSUME InputsRight, ServersRight, RespInv, [A!Next]_A!vars
  PROVE  RespInv'
<1>1. CASE UNCHANGED A!vars
  BY <1>1, EvictRight DEF A!vars, RespInv, RespTyped
<1>2. ASSUME NEW k \in DOMAIN cached, A!Evict(k) PROVE RespInv'
  BY <1>2, EvictRight DEF A!Evict, RespInv, RespTyped
<1>3. ASSUME NEW r \in A!Requests, A!RequestNext(r) PROVE RespInv'
  BY <1>3, ServeRight, LookupRight, EnterRight, WriteRight, ReturnRight, StoreRight, FailRight, LeaveRight,
     RecoverRight, CommitRight DEF A!RequestNext
<1> QED
  BY <1>1, <1>2, <1>3 DEF A!Next

(* AnswersWhole and RecordsOwn: whatever the pools hand out and whoever    *)
(* else is served, a client gets one whole answer, its own or that of a    *)
(* request that may stand for it, and its access record has its own user   *)
(* and an error just when the client got one.                              *)
THEOREM ResponsesRight ==
  ASSUME InputsRight, ServersRight
  PROVE  A!Spec => [](A!AnswersWhole /\ A!RecordsOwn)
<1>1. RespInv => A!AnswersWhole /\ A!RecordsOwn
  <2> SUFFICES ASSUME RespInv PROVE A!AnswersWhole /\ A!RecordsOwn
    OBVIOUS
  <2>1. ASSUME NEW r \in A!Requests PROVE CourseRight(r) /\ serving[r] \in Places
    BY DEF RespInv, RespTyped
  <2>2. A!AnswersWhole
    <3> SUFFICES ASSUME NEW r \in A!Requests, answer[r] # None PROVE \E q \in Stands(r) : answer[r] = A!Expected(q)
      BY DEF A!AnswersWhole, Stands
    <3>1. serving[r] = "done"
      BY <2>1 DEF CourseRight
    <3> QED
      BY <2>1, <3>1 DEF CourseRight
  <2>3. A!RecordsOwn
    <3> SUFFICES ASSUME NEW r \in A!Requests, logged[r] # None
                 PROVE  /\ logged[r].user \in {wants[r].user, A!Handler(r).user}
                        /\ answer[r] # None => logged[r].err = (A!Failed(r) \in A!ToSet(answer[r].body))
      BY DEF A!RecordsOwn
    <3>1. serving[r] \in {"commit", "done"}
      BY <2>1 DEF CourseRight
    <3>2. CASE serving[r] = "commit"
      BY <2>1, <3>2 DEF CourseRight, LoggedRight
    <3>3. CASE serving[r] = "done"
      BY <2>1, <3>3 DEF CourseRight, LoggedRight
    <3> QED
      BY <3>1, <3>2, <3>3
  <2> QED
    BY <2>2, <2>3
<1> QED
  BY <1>1, RespInitRight, RespNextRight, PTL DEF A!Spec
=============================================================================
