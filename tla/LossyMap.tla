------------------------------ MODULE LossyMap ------------------------------
(***************************************************************************)
(* What the users of cache/cache.go may rely on: a map that may forget any *)
(* key at any time, but that answers a lookup with the value last stored   *)
(* under that very key or not at all, and forgets a key that is deleted.   *)
(***************************************************************************)
CONSTANTS Keys, Values, None

VARIABLES kept, \* the value a lookup of each key would be answered with
          last  \* the latest call: what was called, on which key, with or for which value

mvars == <<kept, last>>

Call(name, k, v) == [call |-> name, key |-> k, value |-> v]

MInit ==
  /\ kept = [k \in Keys |-> None]
  /\ last = None

(* A key keeps what it had, or is forgotten.                               *)
KeptOrForgotten(k) == kept'[k] \in {kept[k], None}

Store(k, v) ==
  /\ last' = Call("set", k, v)
  /\ kept'[k] = v
  /\ \A other \in Keys \ {k} : KeptOrForgotten(other)

Fetch(k) ==
  /\ last' = Call("get", k, kept[k])
  /\ UNCHANGED kept

Remove(k) ==
  /\ last' = Call("del", k, None)
  /\ kept' = [kept EXCEPT ![k] = None]

Forget ==
  /\ UNCHANGED last
  /\ \A k \in Keys : KeptOrForgotten(k)

MNext ==
  \/ \E k \in Keys, v \in Values : Store(k, v)
  \/ \E k \in Keys : Fetch(k) \/ Remove(k)
  \/ Forget

Map == MInit /\ [][MNext]_mvars
=============================================================================
