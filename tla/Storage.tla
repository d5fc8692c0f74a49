------------------------------ MODULE Storage ------------------------------
(***************************************************************************)
(* The redis nodes behind storage.Storage, and what is built on them: the  *)
(* sessions of rest/session.go and the locks of storage/lock.go.  A key    *)
(* lives on the node its hash gives.  Put tries five times and reports     *)
(* success whatever came of it; Delete hands the key to a goroutine and    *)
(* returns; a Get that failed looks like a missing key.                    *)
(*                                                                         *)
(* Redis is external: SET with EX 0 is refused, SET with NX does nothing,  *)
(* without an error, when the key exists, and a command whose reply is     *)
(* lost may have been done.  So is the account service "ac" a session is   *)
(* asked of when redis does not have it: it gets to know and forgets       *)
(* sessions as it likes, and nobody tells it that one was ended here.      *)
(***************************************************************************)
EXTENDS Naturals, FiniteSets

CONSTANTS Keys, Processes,
          LockKeys,    \* the keys of locks, the others are those of sessions
          NodeOf,      \* NodeOf[k]: the node of a key, by its hash
          None,        \* a missing key; no key
          MaxFailures, \* bound: redis commands that fail
          MaxEnds,     \* bound: sessions ended
          MaxCalls     \* bound: calls of a process

Sessions == Keys \ LockKeys
Nodes == {NodeOf[k] : k \in Keys}
Tries == 5

VARIABLES redis,    \* redis[<<n, k>>]: "login", "ac", "lock" or None
          deleting, \* deleting[k]: the goroutines about to delete a key
          ac,       \* the keys the account service knows
          pc, key,  \* what a process does, and with which key
          what,     \* the value it is about to put
          tried,    \* its tries of the Put so far
          found,    \* the session a request found (in its context)
          failures, ends, calls,
          kept,     \* history: keys put for sure, with no delete to come, and not given up since
          ended,    \* history: sessions ended and not begun again
          undone    \* history: keys ended in vain: being put when their last delete was done,
                    \* asked of the account service after it, or kept as it failed

vars == <<redis, deleting, ac, pc, key, what, tried, found, failures, ends, calls,
          kept, ended, undone>>
history == <<kept, ended, undone>>
budget == <<failures, ends, calls>>

At(k) == redis[<<NodeOf[k], k>>]
Holders(k) == {p \in Processes : pc[p] = "holds" /\ key[p] = k}
Putting(k) == {p \in Processes : pc[p] = "put" /\ key[p] = k}

-----------------------------------------------------------------------------
(* A faulty variant of a definition below, for a mutant of a run.          *)

(* Every key is deleted on one node.                                       *)
DeleteOnOne(k) == [redis EXCEPT ![<<CHOOSE n \in Nodes : TRUE, k>>] = None]

(* What the two loops end with.                                            *)
Deleted(k) == [redis EXCEPT ![<<NodeOf[k], k>>] = None]
GivesUp(p) == tried[p] + 1 = Tries

(* SET k v EX t [NX]: whether redis takes it, and what it leaves.          *)
Refused(p) == what[p] = "lock"
Stored(p) == [redis EXCEPT ![<<NodeOf[key[p]], key[p]>>] = what[p]]

-----------------------------------------------------------------------------
Init ==
  /\ redis = [nk \in Nodes \X Keys |-> None]
  /\ deleting = [k \in Keys |-> 0] /\ ac = {}
  /\ pc = [p \in Processes |-> "idle"]
  /\ key = [p \in Processes |-> None]
  /\ what = [p \in Processes |-> None]
  /\ tried = [p \in Processes |-> 0]
  /\ found = [p \in Processes |-> None]
  /\ failures = 0 /\ ends = 0
  /\ calls = [p \in Processes |-> 0]
  /\ kept = {} /\ ended = {} /\ undone = {}

Begin(p, k, step) ==
  /\ pc[p] = "idle" /\ calls[p] < MaxCalls
  /\ calls' = [calls EXCEPT ![p] = @ + 1]
  /\ key' = [key EXCEPT ![p] = k]
  /\ pc' = [pc EXCEPT ![p] = step]
  /\ UNCHANGED <<failures, ends>>

PutNext(p, v) ==
  /\ what' = [what EXCEPT ![p] = v]
  /\ tried' = [tried EXCEPT ![p] = 0]

(* SetSession.                                                             *)
SetSession(p, k) ==
  /\ Begin(p, k, "put")
  /\ PutNext(p, "login")
  /\ ended' = ended \ {k}
  /\ UNCHANGED <<redis, deleting, ac, found, kept, undone>>

(* The account service gets to know a session.                             *)
Known(k) ==
  /\ k \notin ac
  /\ ac' = ac \cup {k}
  /\ ended' = ended \ {k}
  /\ UNCHANGED <<redis, deleting, pc, key, what, tried, found, budget, kept, undone>>

(* It ends a session itself, of which redis hears nothing.                 *)
Forgotten(k) ==
  /\ k \in ac
  /\ ac' = ac \ {k}
  /\ UNCHANGED <<redis, deleting, pc, key, what, tried, found, budget, history>>

(* Session: what the request found before is found again ...               *)
Session(p, k) ==
  /\ Begin(p, k, IF found[p] # None THEN "idle" ELSE "get")
  /\ UNCHANGED <<redis, deleting, ac, what, tried, found, history>>

(* ... or what redis has, a failed command being no session ...            *)
RedisGet(p) ==
  /\ pc[p] = "get"
  /\ \/ At(key[p]) # None
        /\ found' = [found EXCEPT ![p] = At(key[p])]
        /\ pc' = [pc EXCEPT ![p] = "idle"]
        /\ UNCHANGED failures
     \/ At(key[p]) = None
        /\ pc' = [pc EXCEPT ![p] = "ask"]
        /\ UNCHANGED <<failures, found>>
     \/ failures < MaxFailures
        /\ failures' = failures + 1
        /\ pc' = [pc EXCEPT ![p] = "ask"]
        /\ UNCHANGED found
  /\ UNCHANGED <<redis, deleting, ac, key, what, tried, ends, calls, history>>

(* ... or what the account service answers, if it does, which is put into  *)
(* redis, also if the session was ended: the service was not told.         *)
Ask(p) ==
  /\ pc[p] = "ask"
  /\ \/ /\ key[p] \in ac
        /\ pc' = [pc EXCEPT ![p] = "put"]
        /\ PutNext(p, "ac")
        /\ undone' = IF deleting[key[p]] = 0 THEN undone \cup ({key[p]} \cap ended) ELSE undone
     \/ pc' = [pc EXCEPT ![p] = "idle"] /\ UNCHANGED <<what, tried, undone>>
  /\ UNCHANGED <<redis, deleting, ac, key, found, budget, kept, ended>>

(* The request is over, and its context with it.                           *)
Over(p) ==
  /\ pc[p] = "idle" /\ found[p] # None
  /\ found' = [found EXCEPT ![p] = None]
  /\ UNCHANGED <<redis, deleting, ac, pc, key, what, tried, budget, history>>

(* DelSession: the delete is left to a goroutine.                          *)
DelSession(p, k) ==
  /\ pc[p] = "idle" /\ ends < MaxEnds
  /\ ends' = ends + 1
  /\ deleting' = [deleting EXCEPT ![k] = @ + 1]
  /\ ended' = ended \cup {k}
  /\ kept' = kept \ {k}
  /\ undone' = undone \ {k}
  /\ UNCHANGED <<redis, ac, pc, key, what, tried, found, failures, calls>>

Delete(k) ==
  /\ deleting[k] > 0
  /\ deleting' = [deleting EXCEPT ![k] = @ - 1]
  /\ redis' = Deleted(k)
  /\ undone' = IF deleting[k] = 1 /\ Putting(k) # {} THEN undone \cup {k} ELSE undone
  /\ UNCHANGED <<ac, pc, key, what, tried, found, budget, kept, ended>>

(* It is tried once, and nobody hears of a failure.                        *)
DeleteFails(k) ==
  /\ deleting[k] > 0 /\ failures < MaxFailures
  /\ failures' = failures + 1
  /\ deleting' = [deleting EXCEPT ![k] = @ - 1]
  /\ undone' = IF deleting[k] = 1 THEN undone \cup {k} ELSE undone
  /\ UNCHANGED <<redis, ac, pc, key, what, tried, found, ends, calls, kept, ended>>

(* A key expires.                                                          *)
Expire(k) ==
  /\ At(k) # None
  /\ redis' = [redis EXCEPT ![<<NodeOf[k], k>>] = None]
  /\ kept' = kept \ {k}
  /\ UNCHANGED <<deleting, ac, pc, key, what, tried, found, budget, ended, undone>>

(* One try of Put that redis does, and one that fails, done or not.  The   *)
(* caller goes on alike: with the session in redis, or with the lock.      *)
After(p) == IF what[p] = "lock" THEN "holds" ELSE "idle"

Put(p) ==
  /\ pc[p] = "put" /\ ~Refused(p)
  /\ redis' = Stored(p)
  /\ kept' = IF deleting[key[p]] = 0 THEN kept \cup {key[p]} ELSE kept
  /\ pc' = [pc EXCEPT ![p] = After(p)]
  /\ UNCHANGED <<deleting, ac, key, what, tried, found, budget, ended, undone>>

PutFails(p) ==
  /\ pc[p] = "put"
  /\ IF Refused(p) THEN UNCHANGED <<failures, redis>>
     ELSE /\ failures < MaxFailures
          /\ failures' = failures + 1
          /\ redis' \in {redis, Stored(p)}
  /\ tried' = [tried EXCEPT ![p] = @ + 1]
  /\ pc' = [pc EXCEPT ![p] = IF GivesUp(p) THEN After(p) ELSE "put"]
  /\ UNCHANGED <<deleting, ac, key, what, found, ends, calls, history>>

(* GetLock puts with NX and without a lifetime.                            *)
GetLock(p, k) ==
  /\ Begin(p, k, "put")
  /\ PutNext(p, "lock")
  /\ UNCHANGED <<redis, deleting, ac, found, kept, ended, undone>>

(* ReleaseLock: a lock that is not in redis, or that a failed Get does not *)
(* find there, is released "wrong".                                        *)
ReleaseLock(p) ==
  /\ pc[p] = "holds"
  /\ pc' = [pc EXCEPT ![p] = "idle"]
  /\ \/ At(key[p]) # None /\ deleting' = [deleting EXCEPT ![key[p]] = @ + 1] /\ UNCHANGED failures
     \/ At(key[p]) = None /\ UNCHANGED <<deleting, failures>>
     \/ failures < MaxFailures /\ failures' = failures + 1 /\ UNCHANGED deleting
  /\ UNCHANGED <<redis, ac, key, what, tried, found, ends, calls, history>>

Next ==
  \/ \E p \in Processes :
       \/ \E k \in Sessions : SetSession(p, k) \/ Session(p, k) \/ DelSession(p, k)
       \/ \E k \in LockKeys : GetLock(p, k)
       \/ RedisGet(p) \/ Ask(p) \/ Over(p) \/ Put(p) \/ PutFails(p) \/ ReleaseLock(p)
  \/ \E k \in Sessions : Known(k) \/ Forgotten(k)
  \/ \E k \in Keys : Delete(k) \/ DeleteFails(k) \/ Expire(k)

Spec == Init /\ [][Next]_vars

-----------------------------------------------------------------------------
(* Properties *)

(* A session put at least once in five tries, with no delete of its key    *)
(* still to come, is in redis until it expires or is ended.                *)
SetStays == \A k \in kept : At(k) # None

(* A session that was ended is gone once its deletes are done, unless the  *)
(* last failed, a request was still putting the session then, or one asks  *)
(* the account service for it, which was not told.                         *)
EndedStaysEnded == \A k \in ended \ undone : deleting[k] = 0 => At(k) = None

(* "true: it is set only when the key does not exist" (storage/lock.go:35, *)
(* in Chinese): of two who want a lock one gets it.                        *)
LockExclusive == \A k \in Keys : Cardinality(Holders(k)) <= 1
=============================================================================
