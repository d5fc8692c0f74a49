--------------------------- MODULE ProcessProofs ----------------------------
(***************************************************************************)
(* What holds of the parts of one process, whatever their number: the      *)
(* servers and their pool of listeners (Servers), the reverse proxy        *)
(* (Proxy), the loggers (Logging) and their files (LogFiles).  They have   *)
(* no state in common.                                                     *)
(***************************************************************************)
EXTENDS Servers, FiniteSets, FiniteSetTheorems, SequenceTheorems, WellFoundedInduction, TLAPS

-----------------------------------------------------------------------------
(* The servers: the pool has each listener once *)

Boots == {"prepare", "lock", "listen", "load", "store", "tls", "unlock", "serve", "panic"}
Closers == {"none", "lock", "close", "wait", "done"}

Typed ==
  /\ TypeOK
  /\ boot \in [Servers -> Boots] /\ closer \in [Servers -> Closers]
  /\ header \in [Servers -> Seq(Servers)]
  /\ raced \in BOOLEAN /\ mishap \in BOOLEAN

(* Who has a listener went through Listen; its socket is open until it is  *)
(* closed by the shutdown.                                                 *)
ListenersRight ==
  \A s \in Servers :
    /\ boot[s] \in {"prepare", "lock", "listen"} => ~listener[s]
    /\ boot[s] \in {"load", "store", "tls", "serve"} => listener[s]
    /\ s \in open => listener[s]
    /\ listener[s] /\ s \notin open => closer[s] \in {"wait", "done"}

ClosersRight == main = "run" => \A s \in Servers : closer[s] = "none"

(* What is in the pool, or was read of it, has a listener.                 *)
Listening(seq) == \A i \in DOMAIN seq : listener[seq[i]]
PoolListens == Listening(lp) /\ \A s \in Servers : Listening(header[s])

(* Without a race, who is about to write the pool has read it as it is.    *)
In(seq, s) == \E i \in DOMAIN seq : seq[i] = s
Once(seq, s) == In(seq, s) /\ \A i, j \in DOMAIN seq : seq[i] = s /\ seq[j] = s => i = j
PoolRight ==
  ~raced =>
    \A s \in Servers :
      /\ boot[s] = "store" => header[s] = lp /\ \A o \in Servers : boot[o] = "store" => o = s
      /\ IF Stored(s) THEN Once(lp, s) ELSE ~In(lp, s)

(* Servers apart never find another's listener or address, so that one     *)
(* panics by a mishap or because it is closed.                             *)
PanicsRight ==
  Apart /\ ~mishap =>
    /\ \A s \in Servers :
         /\ boot[s] = "unlock" => listener[s]
         /\ boot[s] = "panic" => closer[s] # "none"
    /\ main = "crash" => \E s \in Servers : closer[s] # "none"

IndInv == Typed /\ ListenersRight /\ ClosersRight /\ PoolListens /\ PoolRight /\ PanicsRight

(* Nothing is stored or held at the start.                                 *)
LEMMA InitInv == Init => IndInv
<1> SUFFICES ASSUME Init PROVE IndInv
  OBVIOUS
<1>1. Typed
  <2>1. <<>> \in Seq(Servers)
    OBVIOUS
  <2>2. TypeOK
    BY <2>1 DEF Init, TypeOK
  <2>3. header \in [Servers -> Seq(Servers)]
    BY <2>1 DEF Init
  <2> QED
    BY <2>2, <2>3 DEF Init, Typed, Boots, Closers
<1>2. ListenersRight /\ ClosersRight /\ PoolListens
  BY DEF Init, ListenersRight, ClosersRight, PoolListens, Listening
<1>3. PoolRight /\ PanicsRight
  BY DEF Init, PoolRight, In, Stored, PanicsRight
<1> QED
  BY <1>1, <1>2, <1>3 DEF IndInv

(* A step of a server, the daemon or the process keeps the invariant.      *)
LEMMA NextInv == IndInv /\ [Next]_vars => IndInv'
<1> SUFFICES ASSUME IndInv, [Next]_vars PROVE IndInv'
  OBVIOUS
<1> USE DEF IndInv
<1>1. ASSUME NEW s \in Servers, Prepare(s) PROVE IndInv'
  <2>1. Typed'
    BY <1>1 DEF Prepare, Go, Typed, TypeOK, Boots, Closers
  <2>2. ListenersRight'
    BY <1>1 DEF Prepare, Go, Typed, TypeOK, ListenersRight
  <2>3. ClosersRight'
    BY <1>1 DEF Prepare, Go, Typed, TypeOK, ClosersRight
  <2>4. PoolListens'
    BY <1>1 DEF Prepare, Go, Typed, TypeOK, ListenersRight, PoolListens, Listening
  <2>5. PoolRight'
    BY <1>1 DEF Prepare, Go, Typed, TypeOK, ListenersRight, PoolListens, Listening, PoolRight, Stored, In, Once
  <2>6. PanicsRight'
    BY <1>1 DEF Prepare, Go, Typed, TypeOK, ListenersRight, ClosersRight, PoolListens, Listening, PanicsRight, Apart
  <2> QED
    BY <2>1, <2>2, <2>3, <2>4, <2>5, <2>6
<1>2. ASSUME NEW s \in Servers, Lock(s) PROVE IndInv'
  <2>1. Typed'
    BY <1>2 DEF Lock, Go, Typed, TypeOK, Boots, Closers
  <2>2. ListenersRight'
    BY <1>2 DEF Lock, Go, Typed, TypeOK, ListenersRight
  <2>3. ClosersRight'
    BY <1>2 DEF Lock, Go, Typed, TypeOK, ClosersRight
  <2>4. PoolListens'
    BY <1>2 DEF Lock, Go, Typed, TypeOK, ListenersRight, PoolListens, Listening
  <2>5. PoolRight'
    BY <1>2 DEF Lock, Go, Typed, TypeOK, ListenersRight, PoolListens, Listening, PoolRight, Stored, In, Once
  <2>6. PanicsRight'
    BY <1>2 DEF Lock, Go, Typed, TypeOK, ListenersRight, ClosersRight, PoolListens, Listening, PanicsRight, Apart
  <2> QED
    BY <2>1, <2>2, <2>3, <2>4, <2>5, <2>6
<1>3. ASSUME NEW s \in Servers, UseFound(s) PROVE IndInv'
  <2>1. Typed'
    BY <1>3 DEF UseFound, Go, Found, Typed, TypeOK, Boots, Closers
  <2>2. ListenersRight'
    BY <1>3 DEF UseFound, Go, Found, Typed, TypeOK, ListenersRight
  <2>3. ClosersRight'
    BY <1>3 DEF UseFound, Go, Found, Typed, TypeOK, ClosersRight
  <2>4. PoolListens'
    BY <1>3 DEF UseFound, Go, Found, Typed, TypeOK, ListenersRight, PoolListens, Listening
  <2>5. PoolRight'
    BY <1>3 DEF UseFound, Go, Found, Typed, TypeOK, ListenersRight, PoolListens, Listening, PoolRight, Stored, In, Once
  <2>6. PanicsRight'
    BY <1>3 DEF UseFound, Go, Found, Typed, TypeOK, ListenersRight, ClosersRight, PoolListens, Listening, PanicsRight, Apart
  <2> QED
    BY <2>1, <2>2, <2>3, <2>4, <2>5, <2>6
<1>4. ASSUME NEW s \in Servers, Listen(s) PROVE IndInv'
  <2>1. Typed'
    BY <1>4 DEF Listen, Go, WrapListener, Found, Typed, TypeOK, Boots, Closers
  <2>2. ListenersRight'
    BY <1>4 DEF Listen, Go, WrapListener, Found, Typed, TypeOK, ListenersRight
  <2>3. ClosersRight'
    BY <1>4 DEF Listen, Go, WrapListener, Found, Typed, TypeOK, ClosersRight
  <2>4. PoolListens'
    BY <1>4 DEF Listen, Go, WrapListener, Found, Typed, TypeOK, ListenersRight, PoolListens, Listening
  <2>5. PoolRight'
    BY <1>4 DEF Listen, Go, WrapListener, Found, Typed, TypeOK, ListenersRight, PoolListens, Listening, PoolRight, Stored, In, Once
  <2>6. PanicsRight'
    BY <1>4 DEF Listen, Go, WrapListener, Found, Typed, TypeOK, ListenersRight, ClosersRight, PoolListens, Listening, PanicsRight, Apart
  <2> QED
    BY <2>1, <2>2, <2>3, <2>4, <2>5, <2>6
<1>5. ASSUME NEW s \in Servers, ListenFails(s) PROVE IndInv'
  <2>1. Typed'
    BY <1>5 DEF ListenFails, Go, Found, InUse, Typed, TypeOK, Boots, Closers
  <2>2. ListenersRight'
    BY <1>5 DEF ListenFails, Go, Found, InUse, Typed, TypeOK, ListenersRight
  <2>3. ClosersRight'
    BY <1>5 DEF ListenFails, Go, Found, InUse, Typed, TypeOK, ClosersRight
  <2>4. PoolListens'
    BY <1>5 DEF ListenFails, Go, Found, InUse, Typed, TypeOK, ListenersRight, PoolListens, Listening
  <2>5. PoolRight'
    BY <1>5 DEF ListenFails, Go, Found, InUse, Typed, TypeOK, ListenersRight, PoolListens, Listening, PoolRight, Stored, In, Once
  <2>6. PanicsRight'
    <3>1. s \notin open /\ open \subseteq Servers
      BY <1>5 DEF ListenFails, Go, ListenersRight, Typed, TypeOK
    <3>2. Apart => ~InUse(s)
      BY <3>1 DEF Apart, InUse
    <3>3. ~Apart' \/ mishap'
      BY <1>5, <3>2 DEF ListenFails, Apart
    <3> QED
      BY <3>3 DEF PanicsRight
  <2> QED
    BY <2>1, <2>2, <2>3, <2>4, <2>5, <2>6
<1>6. ASSUME NEW s \in Servers, Load(s) PROVE IndInv'
  <2>1. Typed'
    BY <1>6 DEF Load, Go, Typed, TypeOK, Boots, Closers
  <2>2. ListenersRight'
    BY <1>6 DEF Load, Go, Typed, TypeOK, ListenersRight
  <2>3. ClosersRight'
    BY <1>6 DEF Load, Go, Typed, TypeOK, ClosersRight
  <2>4. PoolListens'
    BY <1>6 DEF Load, Go, Typed, TypeOK, ListenersRight, PoolListens, Listening
  <2>5. PoolRight'
    BY <1>6 DEF Load, Go, Typed, TypeOK, ListenersRight, PoolListens, Listening, PoolRight, Stored, In, Once
  <2>6. PanicsRight'
    BY <1>6 DEF Load, Go, Typed, TypeOK, ListenersRight, ClosersRight, PoolListens, Listening, PanicsRight, Apart
  <2> QED
    BY <2>1, <2>2, <2>3, <2>4, <2>5, <2>6
<1>7. ASSUME NEW s \in Servers, Store(s) PROVE IndInv'
  <2>1. Typed'
    BY <1>7 DEF Store, Go, AppendTo, Typed, TypeOK, Boots, Closers
  <2>2. ListenersRight'
    BY <1>7 DEF Store, Go, AppendTo, Typed, TypeOK, ListenersRight
  <2>3. ClosersRight'
    BY <1>7 DEF Store, Go, AppendTo, Typed, TypeOK, ClosersRight
  <2>4. PoolListens'
    BY <1>7 DEF Store, Go, AppendTo, Typed, TypeOK, ListenersRight, PoolListens, Listening
  <2>5. PoolRight'
    <3> SUFFICES ASSUME ~raced
                 PROVE  \A o \in Servers :
                          /\ boot'[o] # "store"
                          /\ IF Stored(o)' THEN Once(lp', o) ELSE ~In(lp', o)
      BY <1>7 DEF Store, PoolRight
    <3>1. /\ boot[s] = "store" /\ header[s] = lp /\ \A o \in Servers : boot[o] = "store" => o = s
          /\ \A o \in Servers : IF Stored(o) THEN Once(lp, o) ELSE ~In(lp, o)
      BY <1>7 DEF Store, Go, PoolRight
    <3>2. lp' = Append(lp, s) /\ lp \in Seq(Servers)
      BY <1>7, <3>1 DEF Store, AppendTo, Typed, TypeOK
    <3>3. /\ DOMAIN lp' = 1..(Len(lp) + 1) /\ DOMAIN lp = 1..Len(lp) /\ Len(lp) \in Nat
          /\ lp'[Len(lp) + 1] = s /\ \A i \in 1..Len(lp) : lp'[i] = lp[i]
      BY <3>2
    <3>4. /\ boot'[s] \in {"tls", "unlock"} /\ listener'[s]
          /\ \A o \in Servers \ {s} : boot'[o] = boot[o] /\ listener'[o] = listener[o]
      BY <1>7 DEF Store, Go, Typed, TypeOK, ListenersRight
    <3> SUFFICES ASSUME NEW o \in Servers
                 PROVE  /\ boot'[o] # "store"
                        /\ IF Stored(o)' THEN Once(lp', o) ELSE ~In(lp', o)
      OBVIOUS
    <3>5. CASE o = s
      <4>1. ~In(lp, s)
        BY <3>1 DEF Stored
      <4>2. Once(lp', s)
        BY <3>3, <4>1 DEF Once, In
      <4> QED
        BY <3>4, <3>5, <4>2 DEF Stored
    <3>6. CASE o # s
      <4>1. Stored(o)' <=> Stored(o)
        BY <3>4, <3>6 DEF Stored
      <4>2. In(lp', o) <=> In(lp, o)
        BY <3>3, <3>6 DEF In
      <4>3. Once(lp', o) <=> Once(lp, o)
        BY <3>3, <3>6, <4>2 DEF Once
      <4> QED
        BY <3>1, <3>4, <3>6, <4>1, <4>2, <4>3
    <3> QED
      BY <3>5, <3>6
  <2>6. PanicsRight'
    BY <1>7 DEF Store, Go, AppendTo, Typed, TypeOK, ListenersRight, ClosersRight, PoolListens, Listening, PanicsRight, Apart
  <2> QED
    BY <2>1, <2>2, <2>3, <2>4, <2>5, <2>6
<1>8. ASSUME NEW s \in Servers, Tls(s) PROVE IndInv'
  <2>1. Typed'
    BY <1>8 DEF Tls, Go, Typed, TypeOK, Boots, Closers
  <2>2. ListenersRight'
    BY <1>8 DEF Tls, Go, Typed, TypeOK, ListenersRight
  <2>3. ClosersRight'
    BY <1>8 DEF Tls, Go, Typed, TypeOK, ClosersRight
  <2>4. PoolListens'
    BY <1>8 DEF Tls, Go, Typed, TypeOK, ListenersRight, PoolListens, Listening
  <2>5. PoolRight'
    BY <1>8 DEF Tls, Go, Typed, TypeOK, ListenersRight, PoolListens, Listening, PoolRight, Stored, In, Once
  <2>6. PanicsRight'
    BY <1>8 DEF Tls, Go, Typed, TypeOK, ListenersRight, ClosersRight, PoolListens, Listening, PanicsRight, Apart
  <2> QED
    BY <2>1, <2>2, <2>3, <2>4, <2>5, <2>6
<1>9. ASSUME NEW s \in Servers, Unlock(s) PROVE IndInv'
  <2>1. Typed'
    BY <1>9 DEF Unlock, Go, Unlocked, Typed, TypeOK, Boots, Closers
  <2>2. ListenersRight'
    BY <1>9 DEF Unlock, Go, Unlocked, Typed, TypeOK, ListenersRight
  <2>3. ClosersRight'
    BY <1>9 DEF Unlock, Go, Unlocked, Typed, TypeOK, ClosersRight
  <2>4. PoolListens'
    BY <1>9 DEF Unlock, Go, Unlocked, Typed, TypeOK, ListenersRight, PoolListens, Listening
  <2>5. PoolRight'
    BY <1>9 DEF Unlock, Go, Unlocked, Typed, TypeOK, ListenersRight, PoolListens, Listening, PoolRight, Stored, In, Once
  <2>6. PanicsRight'
    BY <1>9 DEF Unlock, Go, Unlocked, Typed, TypeOK, ListenersRight, ClosersRight, PoolListens, Listening, PanicsRight, Apart
  <2> QED
    BY <2>1, <2>2, <2>3, <2>4, <2>5, <2>6
<1>10. ASSUME NEW s \in Servers, Accept(s) PROVE IndInv'
  <2>1. Typed'
    BY <1>10 DEF Accept, Typed, TypeOK, Boots, Closers
  <2>2. ListenersRight'
    BY <1>10 DEF Accept, Typed, TypeOK, ListenersRight
  <2>3. ClosersRight'
    BY <1>10 DEF Accept, Typed, TypeOK, ClosersRight
  <2>4. PoolListens'
    BY <1>10 DEF Accept, Typed, TypeOK, ListenersRight, PoolListens, Listening
  <2>5. PoolRight'
    BY <1>10 DEF Accept, Typed, TypeOK, ListenersRight, PoolListens, Listening, PoolRight, Stored, In, Once
  <2>6. PanicsRight'
    BY <1>10 DEF Accept, Typed, TypeOK, ListenersRight, ClosersRight, PoolListens, Listening, PanicsRight, Apart
  <2> QED
    BY <2>1, <2>2, <2>3, <2>4, <2>5, <2>6
<1>11. ASSUME NEW s \in Servers, Answer(s) PROVE IndInv'
  <2>1. Typed'
    BY <1>11 DEF Answer, Typed, TypeOK, Boots, Closers
  <2>2. ListenersRight'
    BY <1>11 DEF Answer, Typed, TypeOK, ListenersRight
  <2>3. ClosersRight'
    BY <1>11 DEF Answer, Typed, TypeOK, ClosersRight
  <2>4. PoolListens'
    BY <1>11 DEF Answer, Typed, TypeOK, ListenersRight, PoolListens, Listening
  <2>5. PoolRight'
    BY <1>11 DEF Answer, Typed, TypeOK, ListenersRight, PoolListens, Listening, PoolRight, Stored, In, Once
  <2>6. PanicsRight'
    BY <1>11 DEF Answer, Typed, TypeOK, ListenersRight, ClosersRight, PoolListens, Listening, PanicsRight, Apart
  <2> QED
    BY <2>1, <2>2, <2>3, <2>4, <2>5, <2>6
<1>12. ASSUME NEW s \in Servers, Return(s) PROVE IndInv'
  <2>1. Typed'
    BY <1>12 DEF Return, Go, Typed, TypeOK, Boots, Closers
  <2>2. ListenersRight'
    BY <1>12 DEF Return, Go, Typed, TypeOK, ListenersRight
  <2>3. ClosersRight'
    BY <1>12 DEF Return, Go, Typed, TypeOK, ClosersRight
  <2>4. PoolListens'
    BY <1>12 DEF Return, Go, Typed, TypeOK, ListenersRight, PoolListens, Listening
  <2>5. PoolRight'
    BY <1>12 DEF Return, Go, Typed, TypeOK, ListenersRight, PoolListens, Listening, PoolRight, Stored, In, Once
  <2>6. PanicsRight'
    BY <1>12 DEF Return, Go, Typed, TypeOK, ListenersRight, ClosersRight, PoolListens, Listening, PanicsRight, Apart
  <2> QED
    BY <2>1, <2>2, <2>3, <2>4, <2>5, <2>6
<1>13. ASSUME NEW s \in Servers, Panic(s) PROVE IndInv'
  <2>1. Typed'
    BY <1>13 DEF Panic, Typed, TypeOK, Boots, Closers
  <2>2. ListenersRight'
    BY <1>13 DEF Panic, Typed, TypeOK, ListenersRight
  <2>3. ClosersRight'
    BY <1>13 DEF Panic, Typed, TypeOK, ClosersRight
  <2>4. PoolListens'
    BY <1>13 DEF Panic, Typed, TypeOK, ListenersRight, PoolListens, Listening
  <2>5. PoolRight'
    BY <1>13 DEF Panic, Typed, TypeOK, ListenersRight, PoolListens, Listening, PoolRight, Stored, In, Once
  <2>6. PanicsRight'
    BY <1>13 DEF Panic, Typed, TypeOK, ListenersRight, ClosersRight, PoolListens, Listening, PanicsRight, Apart
  <2> QED
    BY <2>1, <2>2, <2>3, <2>4, <2>5, <2>6
<1>14. ASSUME NEW s \in Servers, Close(s) PROVE IndInv'
  <2>1. Typed'
    BY <1>14 DEF Close, Typed, TypeOK, Boots, Closers
  <2>2. ListenersRight'
    BY <1>14 DEF Close, Typed, TypeOK, ListenersRight
  <2>3. ClosersRight'
    BY <1>14 DEF Close, Typed, TypeOK, ClosersRight
  <2>4. PoolListens'
    BY <1>14 DEF Close, Typed, TypeOK, ListenersRight, PoolListens, Listening
  <2>5. PoolRight'
    BY <1>14 DEF Close, Typed, TypeOK, ListenersRight, PoolListens, Listening, PoolRight, Stored, In, Once
  <2>6. PanicsRight'
    BY <1>14 DEF Close, Typed, TypeOK, ListenersRight, ClosersRight, PoolListens, Listening, PanicsRight, Apart
  <2> QED
    BY <2>1, <2>2, <2>3, <2>4, <2>5, <2>6
<1>15. ASSUME NEW s \in Servers, CloseListener(s) PROVE IndInv'
  <2>1. Typed'
    BY <1>15 DEF CloseListener, Typed, TypeOK, Boots, Closers
  <2>2. ListenersRight'
    BY <1>15 DEF CloseListener, Typed, TypeOK, ListenersRight
  <2>3. ClosersRight'
    BY <1>15 DEF CloseListener, Typed, TypeOK, ClosersRight
  <2>4. PoolListens'
    BY <1>15 DEF CloseListener, Typed, TypeOK, ListenersRight, PoolListens, Listening
  <2>5. PoolRight'
    BY <1>15 DEF CloseListener, Typed, TypeOK, ListenersRight, PoolListens, Listening, PoolRight, Stored, In, Once
  <2>6. PanicsRight'
    BY <1>15 DEF CloseListener, Typed, TypeOK, ListenersRight, ClosersRight, PoolListens, Listening, PanicsRight, Apart
  <2> QED
    BY <2>1, <2>2, <2>3, <2>4, <2>5, <2>6
<1>16. ASSUME NEW s \in Servers, IsIdle(s) PROVE IndInv'
  <2>1. Typed'
    BY <1>16 DEF IsIdle, Typed, TypeOK, Boots, Closers
  <2>2. ListenersRight'
    BY <1>16 DEF IsIdle, Typed, TypeOK, ListenersRight
  <2>3. ClosersRight'
    BY <1>16 DEF IsIdle, Typed, TypeOK, ClosersRight
  <2>4. PoolListens'
    BY <1>16 DEF IsIdle, Typed, TypeOK, ListenersRight, PoolListens, Listening
  <2>5. PoolRight'
    BY <1>16 DEF IsIdle, Typed, TypeOK, ListenersRight, PoolListens, Listening, PoolRight, Stored, In, Once
  <2>6. PanicsRight'
    BY <1>16 DEF IsIdle, Typed, TypeOK, ListenersRight, ClosersRight, PoolListens, Listening, PanicsRight, Apart
  <2> QED
    BY <2>1, <2>2, <2>3, <2>4, <2>5, <2>6
<1>17. CASE Shutdown
  <2>1. Typed'
    BY <1>17 DEF Shutdown, Typed, TypeOK, Boots, Closers
  <2>2. ListenersRight'
    BY <1>17 DEF Shutdown, Typed, TypeOK, ListenersRight, ClosersRight
  <2>3. ClosersRight'
    BY <1>17 DEF Shutdown, Typed, TypeOK, ClosersRight
  <2>4. PoolListens'
    BY <1>17 DEF Shutdown, Typed, TypeOK, ListenersRight, PoolListens, Listening
  <2>5. PoolRight'
    BY <1>17 DEF Shutdown, Typed, TypeOK, ListenersRight, PoolListens, Listening, PoolRight, Stored, In, Once
  <2>6. PanicsRight'
    BY <1>17 DEF Shutdown, Typed, TypeOK, ListenersRight, ClosersRight, PoolListens, Listening, PanicsRight, Apart
  <2> QED
    BY <2>1, <2>2, <2>3, <2>4, <2>5, <2>6
<1>18. CASE Exit
  <2>1. Typed'
    BY <1>18 DEF Exit, Typed, TypeOK, Boots, Closers
  <2>2. ListenersRight'
    BY <1>18 DEF Exit, Typed, TypeOK, ListenersRight
  <2>3. ClosersRight'
    BY <1>18 DEF Exit, Typed, TypeOK, ClosersRight
  <2>4. PoolListens'
    BY <1>18 DEF Exit, Typed, TypeOK, ListenersRight, PoolListens, Listening
  <2>5. PoolRight'
    BY <1>18 DEF Exit, Typed, TypeOK, ListenersRight, PoolListens, Listening, PoolRight, Stored, In, Once
  <2>6. PanicsRight'
    BY <1>18 DEF Exit, Typed, TypeOK, ListenersRight, ClosersRight, PoolListens, Listening, PanicsRight, Apart
  <2> QED
    BY <2>1, <2>2, <2>3, <2>4, <2>5, <2>6
<1>19. CASE UNCHANGED vars
  <2>1. Typed'
    BY <1>19 DEF vars, Typed, TypeOK, Boots, Closers
  <2>2. ListenersRight'
    BY <1>19 DEF vars, Typed, TypeOK, ListenersRight
  <2>3. ClosersRight'
    BY <1>19 DEF vars, Typed, TypeOK, ClosersRight
  <2>4. PoolListens'
    BY <1>19 DEF vars, Typed, TypeOK, ListenersRight, PoolListens, Listening
  <2>5. PoolRight'
    BY <1>19 DEF vars, Typed, TypeOK, ListenersRight, PoolListens, Listening, PoolRight, Stored, In, Once
  <2>6. PanicsRight'
    BY <1>19 DEF vars, Typed, TypeOK, ListenersRight, ClosersRight, PoolListens, Listening, PanicsRight, Apart
  <2> QED
    BY <2>1, <2>2, <2>3, <2>4, <2>5, <2>6
<1> QED
  BY <1>1, <1>2, <1>3, <1>4, <1>5, <1>6, <1>7, <1>8, <1>9, <1>10, <1>11, <1>12, <1>13, <1>14, <1>15, <1>16, <1>17, <1>18, <1>19 DEF Next, Boot, Closer

(* The inductive invariant, in every reachable state.                      *)
LEMMA Invariance == Spec => []IndInv
BY InitInv, NextInv, PTL DEF Spec

(* What is in a sequence once is at one place of it.                       *)
LEMMA OnceIsOne ==
  ASSUME NEW seq, NEW s, Once(seq, s)
  PROVE  Cardinality({i \in DOMAIN seq : seq[i] = s}) = 1
<1>1. PICK i \in DOMAIN seq : seq[i] = s
  BY DEF Once, In
<1>2. {j \in DOMAIN seq : seq[j] = s} = {i}
  BY <1>1 DEF Once
<1> QED
  BY <1>2, FS_Singleton

-----------------------------------------------------------------------------
(* As long as no two servers are in AddListener at once, each listener is  *)
(* in the daemon's pool, once: a reload can hand it over (daemon.go).      *)
THEOREM PoolHasAll == Spec => []PoolComplete
<1>1. IndInv => PoolComplete
  BY OnceIsOne DEF IndInv, PoolRight, PoolComplete
<1> QED
  BY <1>1, Invariance, PTL

(* Servers of different addresses do not end the process before it is told *)
(* to end, but for what the system refuses (wgo.go serve, server.go).      *)
THEOREM DiesKnownWays == Spec => []DiesOnlyKnownWays
<1>1. IndInv => DiesOnlyKnownWays
  BY DEF IndInv, PanicsRight, DiesOnlyKnownWays
<1> QED
  BY <1>1, Invariance, PTL

(* The variables of the servers have their types, in a process that begins *)
(* without an inherited listener (server.go, daemon.go AddListener).       *)
THEOREM TypeCorrect == Spec => []TypeOK
<1>1. IndInv => TypeOK
  BY DEF IndInv, Typed
<1> QED
  BY <1>1, Invariance, PTL

-----------------------------------------------------------------------------
(* The proxy: a client gets the parts of one answer in order *)

CONSTANTS Engines, Inputs, Requests, Slots, Arrays, Kinds, MaxParts, MayLeave
VARIABLES engine, pc, ask, forwarded, client, watcher, cancelled, answer, read, cut,
          slot, array, buffer, sent, hijacked, copiers, errc, kept, spoilt

P == INSTANCE Proxy

Steps == {"new", "trip", "copy", "switched", "keep", "commit", "error", "refuse", "refused", "done"}
Part == Requests \X Nat
Copies == [by : Requests, body : Seq(Part), array : Arrays \cup {None}, spoilt : BOOLEAN]

(* Who has begun has a response; only such a one may be spoilt.            *)
ProxyTyped ==
  /\ pc \in [Requests -> Steps] /\ ask \in [Requests -> Inputs \cup {CHOOSE i \in Inputs : TRUE}]
  /\ slot \in [Requests -> Slots \cup {None}] /\ array \in [Slots -> Arrays \cup {None}]
  /\ \A r \in Requests : pc[r] # "new" => ask[r] \in Inputs /\ slot[r] \in Slots
  /\ answer \in [Requests -> [kind : Kinds \cup {"plain"}, parts : Nat]] /\ read \in [Requests -> Nat]
  /\ cut \in [Requests -> BOOLEAN] /\ hijacked \in [Requests -> BOOLEAN]
  /\ sent \in [Requests -> Seq(Part)] /\ buffer \in [Requests -> Seq(Part)]
  /\ kept \in [P!Keys -> {None} \cup Copies]
  /\ spoilt \subseteq Requests /\ \A r \in spoilt : pc[r] # "new"

Streams(r) == answer[r].kind = "stream" /\ engine = "standard"

(* Requests whose answer does not change any more.                         *)
Settled == {"keep", "commit", "done"}
Serves(q, r) == q = r \/ (ask[r].cached /\ ask[q].cached /\ ask[q].key = ask[r].key)

(* The first n parts of the answer to q, and all if there was nothing to   *)
(* keep it from having them.                                               *)
Fits(body, q, n) == pc[q] \in Settled /\ body = P!Body(q, n) /\ (n < answer[q].parts => P!Partial(q))
Given(r, body) == \E q \in Requests : Serves(q, r) /\ \E n \in 0..answer[q].parts : Fits(body, q, n)

(* What was read is flushed for a stream, and in the response otherwise.   *)
Own(r) ==
  /\ read[r] <= answer[r].parts
  /\ IF Streams(r) THEN sent[r] = P!Body(r, read[r]) /\ buffer[r] = <<>>
                   ELSE sent[r] = <<>> /\ buffer[r] = P!Body(r, read[r])
Nothing(r) == sent[r] = <<>> /\ buffer[r] = <<>>

CourseOf(r) ==
  /\ pc[r] \in {"new", "trip"} => Nothing(r) /\ read[r] = 0 /\ ~hijacked[r]
  /\ pc[r] = "copy" => Own(r) /\ ~hijacked[r]
  /\ pc[r] = "switched" => hijacked[r]
  /\ hijacked[r] => sent[r] = <<>> /\ answer[r].kind = "switch"
  /\ hijacked[r] /\ pc[r] \in {"switched", "keep", "commit"} => buffer[r] = <<>>
  /\ pc[r] = "keep" => ask[r].cached
  /\ pc[r] = "keep" /\ ~hijacked[r] =>
       (Own(r) /\ (read[r] < answer[r].parts => cut[r])) \/ (Nothing(r) /\ ask[r].options)
  /\ pc[r] = "commit" /\ ~hijacked[r] =>
       (sent[r] = <<>> /\ Given(r, buffer[r])) \/ (buffer[r] = <<>> /\ Given(r, sent[r]))
  /\ pc[r] = "done" /\ ~hijacked[r] => Given(r, sent[r])

(* A kept response that is not spoilt is that of a request with the key.   *)
KeptOf(k) ==
  kept[k] # None /\ ~kept[k].spoilt =>
    \E q \in Requests : ask[q].cached /\ ask[q].key = k /\ \E n \in 0..answer[q].parts : Fits(kept[k].body, q, n)

ProxyInv == ProxyTyped /\ (\A r \in Requests \ spoilt : CourseOf(r)) /\ \A k \in P!Keys : KeptOf(k)

(* The first n parts.                                                      *)
LEMMA BodyIs ==
  ASSUME NEW r \in Requests, NEW n \in Nat
  PROVE  /\ P!Body(r, n) \in Seq(Part) /\ Len(P!Body(r, n)) = n
         /\ \A m \in 1..n : P!Body(r, n)[m] = <<r, m>>
         /\ Append(P!Body(r, n), <<r, n + 1>>) = P!Body(r, n + 1)
         /\ P!Body(r, 0) = <<>>
<1>1. ASSUME NEW m \in Nat
      PROVE  /\ P!Body(r, m) \in Seq(Part) /\ Len(P!Body(r, m)) = m
             /\ \A i \in 1..m : P!Body(r, m)[i] = <<r, i>>
  <2>1. P!Body(r, m) = [i \in 1..m |-> <<r, i>>]
    BY DEF P!Body
  <2>2. \A i \in 1..m : <<r, i>> \in Part
    BY DEF Part
  <2>3. P!Body(r, m) \in [1..m -> Part]
    BY <2>1, <2>2
  <2>4. P!Body(r, m) \in Seq(Part)
    BY <2>3, SeqDef
  <2> QED
    BY <2>1, <2>3, <2>4, LenProperties
<1>2. P!Body(r, 0) = <<>>
  BY <1>1, EmptySeq
<1>3. Append(P!Body(r, n), <<r, n + 1>>) = P!Body(r, n + 1)
  <2>1. <<r, n + 1>> \in Part
    BY DEF Part
  <2>2. /\ Append(P!Body(r, n), <<r, n + 1>>) \in Seq(Part)
        /\ Len(Append(P!Body(r, n), <<r, n + 1>>)) = n + 1
        /\ \A i \in 1..n : Append(P!Body(r, n), <<r, n + 1>>)[i] = P!Body(r, n)[i]
        /\ Append(P!Body(r, n), <<r, n + 1>>)[n + 1] = <<r, n + 1>>
    <3>1. PICK body : body = P!Body(r, n)
      OBVIOUS
    <3>2. PICK e : e = <<r, n + 1>>
      OBVIOUS
    <3>3. body \in Seq(Part) /\ Len(body) = n /\ e \in Part
      BY <1>1, <2>1, <3>1, <3>2
    <3>4. /\ Append(body, e) \in Seq(Part) /\ Len(Append(body, e)) = n + 1
          /\ \A i \in 1..n : Append(body, e)[i] = body[i]
          /\ Append(body, e)[n + 1] = e
      BY <3>3, AppendProperties
    <3> QED
      BY <3>1, <3>2, <3>4
  <2>3. \A i \in 1..(n + 1) : Append(P!Body(r, n), <<r, n + 1>>)[i] = P!Body(r, n + 1)[i]
    <3> SUFFICES ASSUME NEW i \in 1..(n + 1) PROVE Append(P!Body(r, n), <<r, n + 1>>)[i] = P!Body(r, n + 1)[i]
      OBVIOUS
    <3>1. P!Body(r, n + 1)[i] = <<r, i>>
      BY <1>1
    <3>2. CASE i \in 1..n
      BY <1>1, <2>2, <3>1, <3>2
    <3>3. CASE i = n + 1
      BY <2>2, <3>1, <3>3
    <3>4. i \in 1..n \/ i = n + 1
      OBVIOUS
    <3> QED
      BY <3>2, <3>3, <3>4
  <2>4. P!Body(r, n + 1) \in Seq(Part) /\ Len(P!Body(r, n + 1)) = n + 1
    BY <1>1
  <2> QED
    BY <2>2, <2>3, <2>4, SeqEqual
<1> QED
  BY <1>1, <1>2, <1>3

(* What is given stays right while answers of settled requests stay.       *)
Stays ==
  /\ engine' = engine
  /\ \A q \in Requests : pc[q] \in Settled =>
       pc'[q] \in Settled /\ answer'[q] = answer[q] /\ cut'[q] = cut[q] /\ ask'[q] = ask[q]

(* What fits an answer that stays fits it afterwards,                      *)
LEMMA FitsStays ==
  ASSUME Stays, NEW q \in Requests, NEW body, NEW n, Fits(body, q, n)
  PROVE  Fits(body, q, n)' /\ answer'[q] = answer[q] /\ ask'[q] = ask[q]
BY DEF Stays, Fits, P!Partial, P!Body

(* what a response has of such an answer is given afterwards,              *)
LEMMA GivenStays ==
  ASSUME Stays, NEW r \in Requests, ask'[r] = ask[r], NEW body, Given(r, body)
  PROVE  Given(r, body)'
<1>0. PICK q \in Requests : Serves(q, r) /\ \E n \in 0..answer[q].parts : Fits(body, q, n)
  BY DEF Given
<1>1. PICK n \in 0..answer[q].parts : Serves(q, r) /\ Fits(body, q, n)
  BY <1>0
<1>2. Fits(body, q, n)' /\ answer'[q] = answer[q] /\ ask'[q] = ask[q]
  BY <1>1, FitsStays
<1>3. Serves(q, r)'
  BY <1>1, <1>2 DEF Serves
<1> QED
  BY <1>2, <1>3 DEF Given

(* and what the cache has of it is kept.                                   *)
LEMMA KeptStays ==
  ASSUME Stays, NEW k, kept'[k] = kept[k], KeptOf(k)
  PROVE  KeptOf(k)'
<1> SUFFICES ASSUME kept[k] # None, ~kept[k].spoilt PROVE KeptOf(k)'
  BY DEF KeptOf
<1>0. PICK q \in Requests :
        ask[q].cached /\ ask[q].key = k /\ \E n \in 0..answer[q].parts : Fits(kept[k].body, q, n)
  BY DEF KeptOf
<1>1. PICK n \in 0..answer[q].parts : ask[q].cached /\ ask[q].key = k /\ Fits(kept[k].body, q, n)
  BY <1>0
<1>2. PICK body : body = kept[k].body
  OBVIOUS
<1>3. Fits(body, q, n)' /\ answer'[q] = answer[q] /\ ask'[q] = ask[q]
  BY <1>1, <1>2, FitsStays
<1>4. Fits(kept[k].body, q, n)'
  BY <1>2, <1>3 DEF Fits
<1> QED
  BY <1>1, <1>3, <1>4 DEF KeptOf

(* A request that does not take the step.                                  *)
LEMMA OthersStay ==
  ASSUME Stays, NEW r \in Requests, CourseOf(r),
         pc'[r] = pc[r], ask'[r] = ask[r], answer'[r] = answer[r], read'[r] = read[r], cut'[r] = cut[r],
         sent'[r] = sent[r], buffer'[r] = buffer[r], hijacked'[r] = hijacked[r]
  PROVE  CourseOf(r)'
<1>1. engine' = engine
  BY DEF Stays
<1>2. Own(r) => Own(r)'
  BY <1>1 DEF Own, Streams, P!Body
<1>3. Nothing(r) => Nothing(r)'
  BY DEF Nothing
<1>4. Given(r, buffer[r]) => Given(r, buffer[r])'
  <2>1. PICK body : body = buffer[r]
    OBVIOUS
  <2>2. Given(r, body) => Given(r, body)'
    BY GivenStays
  <2> QED
    BY <2>1, <2>2 DEF Given, Fits
<1>5. Given(r, sent[r]) => Given(r, sent[r])'
  <2>1. PICK body : body = sent[r]
    OBVIOUS
  <2>2. Given(r, body) => Given(r, body)'
    BY GivenStays
  <2> QED
    BY <2>1, <2>2 DEF Given, Fits
<1>6. /\ pc'[r] \in {"new", "trip"} => Nothing(r)' /\ read'[r] = 0 /\ ~hijacked'[r]
      /\ pc'[r] = "copy" => Own(r)' /\ ~hijacked'[r]
      /\ pc'[r] = "switched" => hijacked'[r]
      /\ hijacked'[r] => sent'[r] = <<>> /\ answer'[r].kind = "switch"
      /\ hijacked'[r] /\ pc'[r] \in {"switched", "keep", "commit"} => buffer'[r] = <<>>
  BY <1>2, <1>3 DEF CourseOf
<1>7. /\ pc'[r] = "keep" => ask'[r].cached
      /\ pc'[r] = "keep" /\ ~hijacked'[r] =>
           (Own(r)' /\ (read'[r] < answer'[r].parts => cut'[r])) \/ (Nothing(r)' /\ ask'[r].options)
  BY <1>2, <1>3 DEF CourseOf
<1>8. /\ pc'[r] = "commit" /\ ~hijacked'[r] =>
           (sent'[r] = <<>> /\ Given(r, buffer[r])') \/ (buffer'[r] = <<>> /\ Given(r, sent[r])')
      /\ pc'[r] = "done" /\ ~hijacked'[r] => Given(r, sent[r])'
  BY <1>4, <1>5 DEF CourseOf
<1> QED
  BY <1>6, <1>7, <1>8 DEF CourseOf

Untouched(o) ==
  /\ pc'[o] = pc[o] /\ ask'[o] = ask[o] /\ answer'[o] = answer[o] /\ read'[o] = read[o] /\ cut'[o] = cut[o]
  /\ sent'[o] = sent[o] /\ hijacked'[o] = hijacked[o] /\ (o \in spoilt' \/ buffer'[o] = buffer[o])

(* A step of r, of which the others that are not spoilt see nothing but    *)
(* what was kept.                                                          *)
LEMMA StepRight ==
  ASSUME ProxyInv, ProxyTyped', engine' = engine, spoilt \subseteq spoilt', NEW r \in Requests,
         \A o \in Requests \ {r} : Untouched(o),
         pc[r] \in Settled => pc'[r] \in Settled /\ answer'[r] = answer[r] /\ cut'[r] = cut[r] /\ ask'[r] = ask[r],
         Stays /\ r \notin spoilt' => CourseOf(r)',
         Stays => \A k \in P!Keys : kept'[k] = kept[k] \/ KeptOf(k)'
  PROVE  ProxyInv'
<1>1. Stays
  BY DEF Stays, Untouched
<1>2. ASSUME NEW o \in Requests \ spoilt' PROVE CourseOf(o)'
  <2>1. CASE o = r
    BY <1>1, <1>2, <2>1
  <2>2. CASE o # r
    BY <1>1, <1>2, <2>2, OthersStay DEF ProxyInv, Untouched
  <2> QED
    BY <2>1, <2>2
<1>3. ASSUME NEW k \in P!Keys PROVE KeptOf(k)'
  BY <1>1, KeptStays DEF ProxyInv
<1> QED
  BY <1>2, <1>3 DEF ProxyInv

(* A step nobody's answer depends on.                                      *)
LEMMA NothingSeen ==
  ASSUME ProxyInv, ProxyTyped', engine' = engine, spoilt' = spoilt, \A o \in Requests : Untouched(o),
         \A o \in Requests : buffer'[o] = buffer[o], \A k \in P!Keys : kept'[k] \in {None, kept[k]}
  PROVE  ProxyInv'
<1>1. Stays
  BY DEF Stays, Untouched
<1>2. ASSUME NEW o \in Requests \ spoilt' PROVE CourseOf(o)'
  BY <1>1, <1>2, OthersStay DEF ProxyInv, Untouched
<1>3. ASSUME NEW k \in P!Keys PROVE KeptOf(k)'
  <2>1. CASE kept'[k] = None
    BY <2>1 DEF KeptOf
  <2>2. CASE kept'[k] = kept[k]
    BY <1>1, <2>2, KeptStays DEF ProxyInv
  <2> QED
    BY <2>1, <2>2
<1> QED
  BY <1>2, <1>3 DEF ProxyInv

(* A write: whoever has the array too is spoilt if the part met one of     *)
(* his; nobody else sees it.                                               *)
LEMMA WriteRight ==
  ASSUME ProxyTyped, NEW r \in Requests, NEW part \in Part, NEW left \in Seq(Part), P!Write(r, part, left)
  PROVE  /\ slot' = slot /\ array' \in [Slots -> Arrays \cup {None}] /\ buffer' \in [Requests -> Seq(Part)]
         /\ kept' \in [P!Keys -> {None} \cup Copies]
         /\ spoilt \subseteq spoilt' /\ spoilt' \subseteq Requests /\ \A q \in spoilt' : q \in spoilt \/ P!InProgress(q)
         /\ buffer'[r] = left
         /\ \A o \in Requests \ {r} : o \in spoilt' \/ buffer'[o] = buffer[o]
         /\ \A k \in P!Keys : kept'[k] = kept[k] \/ kept'[k].spoilt
<1>0. /\ array \in [Slots -> Arrays \cup {None}] /\ buffer \in [Requests -> Seq(Part)]
      /\ kept \in [P!Keys -> {None} \cup Copies] /\ spoilt \subseteq Requests /\ slot' = slot
  BY DEF ProxyTyped, P!Write
<1>1. CASE P!WriteAnew(r, left)
  <2>1. array' \in [Slots -> Arrays \cup {None}]
    BY <1>0, <1>1 DEF P!Unused, P!WriteAnew
  <2> QED
    BY <1>0, <1>1, <2>1 DEF P!WriteAnew
<1>2. ASSUME NEW a, NEW n, n = Len(buffer[r]) + 1, P!WriteOver(r, part, left, a, n)
      PROVE  /\ array' = array
             /\ buffer' \in [Requests -> Seq(Part)] /\ kept' \in [P!Keys -> {None} \cup Copies]
             /\ spoilt \subseteq spoilt' /\ spoilt' \subseteq Requests /\ \A q \in spoilt' : q \in spoilt \/ P!InProgress(q)
             /\ buffer'[r] = left
             /\ \A o \in Requests \ {r} : o \in spoilt' \/ buffer'[o] = buffer[o]
             /\ \A k \in P!Keys : kept'[k] = kept[k] \/ kept'[k].spoilt
  <2>0. /\ buffer' = [q \in Requests |->
                       IF q = r THEN left ELSE IF P!MeetsRequest(q, a, n) THEN P!Over(buffer[q], n, part) ELSE buffer[q]]
        /\ kept' = [k \in P!Keys |-> IF P!MeetsKept(k, a, n) THEN P!OverCopy(kept[k], n, part) ELSE kept[k]]
        /\ spoilt' = spoilt \cup {q \in Requests \ {r} : P!MeetsRequest(q, a, n)}
        /\ array' = array
    BY <1>2 DEF P!WriteOver
  <2>1. n \in Nat \ {0}
    <3>1. buffer[r] \in Seq(Part)
      BY <1>0
    <3>2. Len(buffer[r]) \in Nat
      BY <3>1, LenProperties
    <3> QED
      BY <1>2, <3>2
  <2>2. ASSUME NEW body \in Seq(Part), n <= Len(body) PROVE P!Over(body, n, part) \in Seq(Part)
    <3>1. n \in 1..Len(body)
      BY <2>1, <2>2, LenProperties
    <3> QED
      BY <3>1, ExceptSeq DEF P!Over
  <2>3. ASSUME NEW q \in Requests PROVE buffer'[q] \in Seq(Part)
    <3>1. CASE q = r
      BY <2>0, <3>1
    <3>2. CASE q # r /\ P!MeetsRequest(q, a, n)
      BY <1>0, <2>0, <2>2, <3>2 DEF P!MeetsRequest
    <3>3. CASE q # r /\ ~P!MeetsRequest(q, a, n)
      BY <1>0, <2>0, <3>3
    <3> QED
      BY <3>1, <3>2, <3>3
  <2>4. ASSUME NEW k \in P!Keys PROVE kept'[k] \in {None} \cup Copies /\ (kept'[k] = kept[k] \/ kept'[k].spoilt)
    <3>1. CASE P!MeetsKept(k, a, n)
      <4>1. kept[k] \in Copies /\ n <= Len(kept[k].body)
        BY <1>0, <3>1 DEF P!MeetsKept
      <4>2. kept[k].body \in Seq(Part)
        BY <4>1 DEF Copies
      <4>3. P!Over(kept[k].body, n, part) \in Seq(Part)
        BY <2>2, <4>1, <4>2
      <4>4. PICK c \in Copies : c = kept[k]
        BY <4>1
      <4>5. PICK body \in Seq(Part) : body = P!Over(kept[k].body, n, part)
        BY <4>3
      <4>6. kept'[k] = [c EXCEPT !.body = body, !.spoilt = TRUE]
        BY <2>0, <3>1, <4>4, <4>5 DEF P!OverCopy
      <4>7. [c EXCEPT !.body = body, !.spoilt = TRUE] \in Copies /\ [c EXCEPT !.body = body, !.spoilt = TRUE].spoilt
        BY <4>4, <4>5 DEF Copies
      <4> QED
        BY <4>6, <4>7
    <3>2. CASE ~P!MeetsKept(k, a, n)
      BY <1>0, <2>0, <3>2
    <3> QED
      BY <3>1, <3>2
  <2>5. buffer' \in [Requests -> Seq(Part)]
    BY <2>0, <2>3
  <2>6. kept' \in [P!Keys -> {None} \cup Copies]
    BY <2>0, <2>4
  <2>7. /\ spoilt \subseteq spoilt' /\ spoilt' \subseteq Requests /\ \A q \in spoilt' : q \in spoilt \/ P!InProgress(q)
    BY <1>0, <2>0 DEF P!MeetsRequest
  <2>8. \A o \in Requests \ {r} : o \in spoilt' \/ buffer'[o] = buffer[o]
    BY <2>0
  <2> QED
    BY <2>0, <2>4, <2>5, <2>6, <2>7, <2>8
<1> QED
  BY <1>0, <1>1, <1>2 DEF P!Write

(* A request begins: with what was kept for its key, which is the answer   *)
(* to a settled request, or with nothing.                                  *)
LEMMA BeginRight ==
  ASSUME ProxyInv, NEW r \in Requests, NEW i \in Inputs, NEW s \in Slots, P!Begin(r, i, s)
  PROVE  ProxyInv'
<1>0. /\ pc[r] = "new" /\ ask' = [ask EXCEPT ![r] = i] /\ slot' = [slot EXCEPT ![r] = s] /\ engine' = engine /\ kept' = kept
      /\ UNCHANGED <<answer, read, cut, sent, hijacked>>
  BY DEF P!Begin
<1>1. CourseOf(r) /\ Nothing(r) /\ read[r] = 0 /\ ~hijacked[r]
  BY <1>0 DEF ProxyInv, ProxyTyped, CourseOf
<1>2. i.key \in P!Keys
  BY DEF P!Keys
<1>3. CASE i.cached /\ kept[i.key] # None
  <2>1. /\ buffer' = [buffer EXCEPT ![r] = kept[i.key].body] /\ pc' = [pc EXCEPT ![r] = "commit"]
        /\ \E a \in P!CopyTo(kept[i.key].array) : array' = [array EXCEPT ![s] = a]
        /\ spoilt' = IF kept[i.key].spoilt THEN spoilt \cup {r} ELSE spoilt
    BY <1>3 DEF P!Begin, P!Goto
  <2>2. kept[i.key] \in Copies
    BY <1>2, <1>3 DEF ProxyInv, ProxyTyped
  <2>3. ProxyTyped'
    <3>1. buffer' \in [Requests -> Seq(Part)]
      BY <2>1, <2>2 DEF ProxyInv, ProxyTyped, Copies
    <3>2. array' \in [Slots -> Arrays \cup {None}]
      <4>1. PICK a \in P!CopyTo(kept[i.key].array) : array' = [array EXCEPT ![s] = a]
        BY <2>1
      <4>2. a \in Arrays \cup {None}
        BY <2>2, <4>1 DEF P!CopyTo, P!Unused, Copies
      <4> QED
        BY <4>1, <4>2 DEF ProxyInv, ProxyTyped
    <3>3. spoilt' \subseteq Requests /\ \A q \in spoilt' : pc'[q] # "new"
      BY <2>1 DEF ProxyInv, ProxyTyped
    <3>4. pc' \in [Requests -> Steps] /\ slot' \in [Requests -> Slots \cup {None}]
      BY <1>0, <2>1 DEF ProxyInv, ProxyTyped, Steps
    <3>5. ask' \in [Requests -> Inputs \cup {CHOOSE j \in Inputs : TRUE}]
          /\ \A q \in Requests : pc'[q] # "new" => ask'[q] \in Inputs /\ slot'[q] \in Slots
      BY <1>0, <2>1 DEF ProxyInv, ProxyTyped
    <3> QED
      BY <1>0, <3>1, <3>2, <3>3, <3>4, <3>5 DEF ProxyInv, ProxyTyped
  <2>4. ASSUME Stays, r \notin spoilt' PROVE CourseOf(r)'
    <3>0. ~kept[i.key].spoilt
      BY <2>1, <2>4 DEF ProxyInv, ProxyTyped
    <3>1. PICK q \in Requests :
            ask[q].cached /\ ask[q].key = i.key /\ \E n \in 0..answer[q].parts : Fits(kept[i.key].body, q, n)
      BY <1>2, <1>3, <3>0 DEF ProxyInv, KeptOf
    <3>2. PICK n \in 0..answer[q].parts : Fits(kept[i.key].body, q, n)
      BY <3>1
    <3>3. PICK body : body = kept[i.key].body
      OBVIOUS
    <3>4. Fits(body, q, n)' /\ answer'[q] = answer[q] /\ ask'[q] = ask[q]
      BY <2>4, <3>2, <3>3, FitsStays
    <3>5. buffer'[r] = body /\ pc'[r] = "commit" /\ ask'[r] = i
      BY <1>0, <2>1, <3>3 DEF ProxyInv, ProxyTyped
    <3>6. Fits(buffer[r], q, n)'
      BY <3>4, <3>5 DEF Fits
    <3>7. Serves(q, r)'
      BY <1>3, <3>1, <3>4, <3>5 DEF Serves
    <3>8. Given(r, buffer[r])'
      BY <3>4, <3>6, <3>7 DEF Given
    <3> QED
      BY <1>0, <1>1, <3>5, <3>8 DEF CourseOf, Nothing
  <2>5. ASSUME NEW o \in Requests \ {r} PROVE Untouched(o)
    BY <1>0, <2>1 DEF Untouched, ProxyInv, ProxyTyped
  <2>6. pc[r] \notin Settled /\ spoilt \subseteq spoilt'
    BY <1>0, <2>1 DEF Settled
  <2> QED
    BY <1>0, <2>3, <2>4, <2>5, <2>6, StepRight
<1>4. CASE ~(i.cached /\ kept[i.key] # None)
  <2>1. buffer' = buffer /\ array' = array /\ spoilt' = spoilt /\ pc' = [pc EXCEPT ![r] = "trip"]
    BY <1>4 DEF P!Begin, P!Goto
  <2>2. ProxyTyped'
    BY <1>0, <2>1 DEF ProxyInv, ProxyTyped, Steps
  <2>3. CourseOf(r)'
    <3>1. pc'[r] = "trip"
      BY <2>1 DEF ProxyInv, ProxyTyped
    <3> QED
      BY <1>0, <1>1, <2>1, <3>1 DEF CourseOf, Nothing
  <2>4. ASSUME NEW o \in Requests \ {r} PROVE Untouched(o)
    BY <1>0, <2>1 DEF Untouched, ProxyInv, ProxyTyped
  <2>5. pc[r] \notin Settled
    BY <1>0 DEF Settled
  <2> QED
    BY <1>0, <2>1, <2>2, <2>3, <2>4, <2>5, StepRight
<1> QED
  BY <1>3, <1>4

(* The backend answers, or does not.                                       *)
LEMMA AnsweredRight ==
  ASSUME ProxyInv, MaxParts \in Nat, NEW r \in Requests, NEW kind \in Kinds, NEW n \in 0..MaxParts,
         P!Answered(r, kind, n)
  PROVE  ProxyInv'
<1>0. /\ pc[r] = "trip" /\ answer' = [answer EXCEPT ![r] = [kind |-> kind, parts |-> n]]
      /\ UNCHANGED <<engine, ask, read, cut, slot, array, buffer, sent, kept, spoilt>>
  BY DEF P!Answered, P!bodies
<1>1. r \notin spoilt => Nothing(r) /\ read[r] = 0 /\ ~hijacked[r]
  BY <1>0 DEF ProxyInv, CourseOf
<1>2. \/ pc' = [pc EXCEPT ![r] = "copy"] /\ hijacked' = hijacked
      \/ pc' = [pc EXCEPT ![r] = "error"] /\ hijacked' = hijacked
      \/ ask[r].options /\ hijacked' = hijacked /\ pc' = [pc EXCEPT ![r] = IF ask[r].cached THEN "keep" ELSE "commit"]
      \/ kind = "switch" /\ pc' = [pc EXCEPT ![r] = "switched"] /\ hijacked' = [hijacked EXCEPT ![r] = TRUE]
      \/ kind = "switch" /\ pc' = [pc EXCEPT ![r] = "error"] /\ hijacked' = [hijacked EXCEPT ![r] = TRUE]
  BY DEF P!Answered, P!Return, P!Goto
<1>3. ProxyTyped'
  <2>1. pc' \in [Requests -> Steps] /\ hijacked' \in [Requests -> BOOLEAN]
    BY <1>2 DEF ProxyInv, ProxyTyped, Steps
  <2>2. answer' \in [Requests -> [kind : Kinds \cup {"plain"}, parts : Nat]]
    BY <1>0 DEF ProxyInv, ProxyTyped
  <2>3. \A q \in Requests : pc'[q] # "new" <=> pc[q] # "new"
    BY <1>0, <1>2 DEF ProxyInv, ProxyTyped
  <2> QED
    BY <1>0, <2>1, <2>2, <2>3 DEF ProxyInv, ProxyTyped
<1>4. answer'[r] = [kind |-> kind, parts |-> n]
  BY <1>0 DEF ProxyInv, ProxyTyped
<1>5. pc'[r] = "copy" /\ r \notin spoilt => Own(r)'
  <2>1. P!Body(r, 0) = <<>>
    BY BodyIs
  <2>2. r \notin spoilt => P!Body(r, read[r])' = <<>>
    BY <1>0, <1>1, <2>1 DEF P!Body
  <2>3. r \notin spoilt => read'[r] <= answer'[r].parts
    BY <1>0, <1>1, <1>4
  <2> QED
    BY <1>0, <1>1, <2>2, <2>3 DEF Own, Nothing
<1>6. ASSUME Stays, r \notin spoilt' PROVE CourseOf(r)'
  <2>0. r \notin spoilt /\ Nothing(r)' /\ sent'[r] = <<>> /\ buffer'[r] = <<>>
    BY <1>0, <1>1, <1>6 DEF Nothing
  <2>1. CASE pc' = [pc EXCEPT ![r] = "copy"] /\ hijacked' = hijacked
    BY <1>1, <1>5, <2>0, <2>1 DEF CourseOf, ProxyInv, ProxyTyped
  <2>2. CASE pc' = [pc EXCEPT ![r] = "error"] /\ hijacked' = hijacked
    BY <1>1, <2>0, <2>2 DEF CourseOf, ProxyInv, ProxyTyped
  <2>3. CASE ask[r].options /\ hijacked' = hijacked /\ pc' = [pc EXCEPT ![r] = IF ask[r].cached THEN "keep" ELSE "commit"]
    <3>1. pc'[r] = (IF ask[r].cached THEN "keep" ELSE "commit") /\ ask'[r].options /\ ~hijacked'[r] /\ ask'[r] = ask[r]
      BY <1>0, <1>1, <2>0, <2>3 DEF ProxyInv, ProxyTyped
    <3>2. CASE ask[r].cached
      BY <2>0, <3>1, <3>2 DEF CourseOf
    <3>3. CASE ~ask[r].cached
      <4>1. pc'[r] = "commit"
        BY <3>1, <3>3
      <4>2. P!Body(r, 0)' = <<>>
        BY BodyIs DEF P!Body
      <4>3. 0 \in 0..answer'[r].parts
        BY <1>4
      <4>4. Fits(buffer[r], r, 0)'
        BY <2>0, <3>1, <4>1, <4>2 DEF Fits, P!Partial, Settled
      <4>5. Given(r, buffer[r])'
        BY <4>3, <4>4 DEF Given, Serves
      <4> QED
        BY <2>0, <3>1, <4>1, <4>5 DEF CourseOf
    <3> QED
      BY <3>2, <3>3
  <2>4. CASE kind = "switch" /\ pc' = [pc EXCEPT ![r] = "switched"] /\ hijacked' = [hijacked EXCEPT ![r] = TRUE]
    BY <1>4, <2>0, <2>4 DEF CourseOf, ProxyInv, ProxyTyped
  <2>5. CASE kind = "switch" /\ pc' = [pc EXCEPT ![r] = "error"] /\ hijacked' = [hijacked EXCEPT ![r] = TRUE]
    BY <1>4, <2>0, <2>5 DEF CourseOf, ProxyInv, ProxyTyped
  <2> QED
    BY <1>2, <2>1, <2>2, <2>3, <2>4, <2>5
<1>7. ASSUME NEW o \in Requests \ {r} PROVE Untouched(o)
  BY <1>0, <1>2 DEF Untouched, ProxyInv, ProxyTyped
<1>8. pc[r] \notin Settled
  BY <1>0 DEF Settled
<1> QED
  BY <1>0, <1>3, <1>6, <1>7, <1>8, StepRight

(* The trip ends without an answer: the response has nothing yet.          *)
LEMMA NoAnswerRight ==
  ASSUME ProxyInv, NEW r \in Requests, P!NoAnswer(r)
  PROVE  ProxyInv'
<1>0. /\ pc[r] = "trip" /\ pc' = [pc EXCEPT ![r] = "error"]
      /\ UNCHANGED <<engine, ask, answer, read, cut, slot, array, buffer, sent, hijacked, kept, spoilt>>
  BY DEF P!NoAnswer, P!Return, P!Goto, P!bodies
<1>1. ProxyTyped'
  BY <1>0 DEF ProxyInv, ProxyTyped, Steps
<1>2. r \notin spoilt' => CourseOf(r)'
  BY <1>0 DEF ProxyInv, ProxyTyped, CourseOf
<1>3. ASSUME NEW o \in Requests \ {r} PROVE Untouched(o)
  BY <1>0 DEF Untouched, ProxyInv, ProxyTyped
<1>4. pc[r] \notin Settled
  BY <1>0 DEF Settled
<1> QED
  BY <1>0, <1>1, <1>2, <1>3, <1>4, StepRight

(* The framework's answer to an error is in the response.                  *)
LEMMA ErrorRight ==
  ASSUME ProxyInv, NEW r \in Requests, P!Error(r)
  PROVE  ProxyInv'
<1>0. /\ pc[r] = "error" /\ pc' = [pc EXCEPT ![r] = "refuse"] /\ P!Write(r, <<r, 0>>, Append(buffer[r], <<r, 0>>))
      /\ UNCHANGED <<engine, ask, answer, read, cut, sent, hijacked>>
  BY DEF P!Error, P!Goto
<1>1. <<r, 0>> \in Part /\ buffer[r] \in Seq(Part)
  BY DEF Part, ProxyInv, ProxyTyped
<1>2. Append(buffer[r], <<r, 0>>) \in Seq(Part)
  BY <1>1, AppendProperties
<1>3. PICK part \in Part, left \in Seq(Part) : part = <<r, 0>> /\ left = Append(buffer[r], <<r, 0>>)
  BY <1>1, <1>2
<1>4. P!Write(r, part, left)
  BY <1>0, <1>3
<1>5. /\ slot' = slot /\ array' \in [Slots -> Arrays \cup {None}] /\ buffer' \in [Requests -> Seq(Part)]
      /\ kept' \in [P!Keys -> {None} \cup Copies]
      /\ spoilt \subseteq spoilt' /\ spoilt' \subseteq Requests /\ \A q \in spoilt' : q \in spoilt \/ P!InProgress(q)
      /\ \A o \in Requests \ {r} : o \in spoilt' \/ buffer'[o] = buffer[o]
      /\ \A k \in P!Keys : kept'[k] = kept[k] \/ kept'[k].spoilt
  BY <1>4, WriteRight DEF ProxyInv
<1>6. ProxyTyped'
  <2>1. pc' \in [Requests -> Steps] /\ \A q \in Requests : pc'[q] # "new" <=> pc[q] # "new"
    BY <1>0 DEF ProxyInv, ProxyTyped, Steps
  <2>2. \A q \in spoilt' : pc'[q] # "new"
    BY <1>5, <2>1 DEF ProxyInv, ProxyTyped, P!InProgress
  <2> QED
    BY <1>0, <1>5, <2>1, <2>2 DEF ProxyInv, ProxyTyped
<1>7. r \notin spoilt' => CourseOf(r)'
  <2>1. pc'[r] = "refuse"
    BY <1>0 DEF ProxyInv, ProxyTyped
  <2>2. r \notin spoilt' => CourseOf(r)
    BY <1>5 DEF ProxyInv
  <2> QED
    BY <1>0, <2>1, <2>2 DEF CourseOf
<1>8. ASSUME NEW o \in Requests \ {r} PROVE Untouched(o)
  BY <1>0, <1>5 DEF Untouched, ProxyInv, ProxyTyped
<1>9. pc[r] \notin Settled
  BY <1>0 DEF Settled
<1>10. \A k \in P!Keys : kept'[k] = kept[k] \/ KeptOf(k)'
  BY <1>5 DEF KeptOf
<1> QED
  BY <1>0, <1>5, <1>6, <1>7, <1>8, <1>9, <1>10, StepRight

(* One more part is read, and flushed or not.                              *)
LEMMA CopyRight ==
  ASSUME ProxyInv, NEW r \in Requests, P!Copy(r)
  PROVE  ProxyInv'
<1>0. /\ pc[r] = "copy" /\ read[r] < answer[r].parts /\ read' = [read EXCEPT ![r] = read[r] + 1]
      /\ UNCHANGED <<engine, pc, ask, answer, cut, hijacked>>
  BY DEF P!Copy
<1>1. r \notin spoilt => Own(r) /\ ~hijacked[r]
  BY <1>0 DEF ProxyInv, CourseOf
<1>2. PICK e : e = <<r, read[r] + 1>>
  OBVIOUS
<1>3. read[r] \in Nat /\ answer[r].parts \in Nat /\ e \in Part /\ sent[r] \in Seq(Part) /\ buffer[r] \in Seq(Part)
  BY <1>2 DEF ProxyInv, ProxyTyped, Part
<1>4. PICK body : body = Append(buffer[r], e)
  OBVIOUS
<1>5. body \in Seq(Part) /\ sent[r] \o body \in Seq(Part) /\ <<>> \in Seq(Part)
  BY <1>3, <1>4, AppendProperties, ConcatProperties, EmptySeq
<1>6. \/ Streams(r) /\ sent' = [sent EXCEPT ![r] = sent[r] \o body] /\ P!Write(r, e, <<>>)
      \/ ~Streams(r) /\ sent' = sent /\ P!Write(r, e, body)
  BY <1>2, <1>4 DEF P!Copy, P!Rest, Streams
<1>7. PICK left \in Seq(Part) :
        P!Write(r, e, left) /\ (Streams(r) => left = <<>>) /\ (~Streams(r) => left = body)
  BY <1>5, <1>6
<1>8. /\ slot' = slot /\ array' \in [Slots -> Arrays \cup {None}] /\ buffer' \in [Requests -> Seq(Part)]
      /\ kept' \in [P!Keys -> {None} \cup Copies]
      /\ spoilt \subseteq spoilt' /\ spoilt' \subseteq Requests /\ \A q \in spoilt' : q \in spoilt \/ P!InProgress(q)
      /\ buffer'[r] = left
      /\ \A o \in Requests \ {r} : o \in spoilt' \/ buffer'[o] = buffer[o]
      /\ \A k \in P!Keys : kept'[k] = kept[k] \/ kept'[k].spoilt
  BY <1>3, <1>7, WriteRight DEF ProxyInv
<1>9. Streams(r) /\ r \notin spoilt => sent[r] \o body = P!Body(r, read[r] + 1)
  <2> SUFFICES ASSUME Streams(r), r \notin spoilt PROVE sent[r] \o body = P!Body(r, read[r] + 1)
    OBVIOUS
  <2>1. sent[r] = P!Body(r, read[r]) /\ buffer[r] = <<>>
    BY <1>1 DEF Own
  <2>2. body = <<e>>
    BY <1>3, <1>4, <2>1
  <2>3. Append(sent[r], e) = sent[r] \o <<e>>
    BY <1>3, AppendIsConcat
  <2> QED
    BY <1>2, <1>3, <2>1, <2>2, <2>3, BodyIs
<1>10. ~Streams(r) /\ r \notin spoilt => body = P!Body(r, read[r] + 1)
  <2> SUFFICES ASSUME ~Streams(r), r \notin spoilt PROVE body = P!Body(r, read[r] + 1)
    OBVIOUS
  <2>1. buffer[r] = P!Body(r, read[r])
    BY <1>1 DEF Own
  <2> QED
    BY <1>2, <1>3, <1>4, <2>1, BodyIs
<1>11. ProxyTyped'
  <2>1. sent' \in [Requests -> Seq(Part)]
    BY <1>5, <1>6 DEF ProxyInv, ProxyTyped
  <2>2. read' \in [Requests -> Nat]
    BY <1>0, <1>3 DEF ProxyInv, ProxyTyped
  <2>3. \A q \in spoilt' : pc'[q] # "new"
    BY <1>0, <1>8 DEF ProxyInv, ProxyTyped, P!InProgress
  <2> QED
    BY <1>0, <1>8, <2>1, <2>2, <2>3 DEF ProxyInv, ProxyTyped
<1>12. r \notin spoilt' => CourseOf(r)'
  <2> SUFFICES ASSUME r \notin spoilt' PROVE CourseOf(r)'
    OBVIOUS
  <2>0. r \notin spoilt
    BY <1>8
  <2>1. read'[r] = read[r] + 1
    BY <1>0 DEF ProxyInv, ProxyTyped
  <2>2. P!Body(r, read[r])' = P!Body(r, read[r] + 1)
    BY <2>1 DEF P!Body
  <2>3. Streams(r) => sent'[r] = P!Body(r, read[r] + 1) /\ buffer'[r] = <<>>
    BY <1>6, <1>7, <1>8, <1>9, <2>0 DEF ProxyInv, ProxyTyped
  <2>4. ~Streams(r) => sent'[r] = <<>> /\ buffer'[r] = P!Body(r, read[r] + 1)
    BY <1>1, <1>6, <1>7, <1>8, <1>10, <2>0 DEF Own
  <2>5. Streams(r)' <=> Streams(r)
    BY <1>0 DEF Streams
  <2>6. Own(r)'
    BY <1>0, <1>3, <2>1, <2>2, <2>3, <2>4, <2>5 DEF Own
  <2> QED
    BY <1>0, <1>1, <2>0, <2>6 DEF CourseOf
<1>13. ASSUME NEW o \in Requests \ {r} PROVE Untouched(o)
  BY <1>0, <1>6, <1>8 DEF Untouched, ProxyInv, ProxyTyped
<1>14. pc[r] \notin Settled
  BY <1>0 DEF Settled
<1>15. \A k \in P!Keys : kept'[k] = kept[k] \/ KeptOf(k)'
  BY <1>8 DEF KeptOf
<1> QED
  BY <1>0, <1>8, <1>11, <1>12, <1>13, <1>14, <1>15, StepRight

(* What a request has of its answer when it goes on.                       *)
LEMMA OwnGiven ==
  ASSUME ProxyInv, NEW r \in Requests, Own(r), pc[r] \in Settled, read[r] < answer[r].parts => cut[r]
  PROVE  (sent[r] = <<>> /\ Given(r, buffer[r])) \/ (buffer[r] = <<>> /\ Given(r, sent[r]))
<1>1. read[r] \in Nat /\ answer[r].parts \in Nat
  BY DEF ProxyInv, ProxyTyped
<1>2. read[r] \in 0..answer[r].parts
  BY <1>1 DEF Own
<1>3. ASSUME NEW body, body = P!Body(r, read[r]) PROVE Given(r, body)
  <2>1. Fits(body, r, read[r])
    BY <1>3 DEF Fits, P!Partial
  <2> QED
    BY <1>2, <2>1 DEF Given, Serves
<1>4. CASE Streams(r)
  BY <1>3, <1>4 DEF Own
<1>5. CASE ~Streams(r)
  BY <1>3, <1>5 DEF Own
<1> QED
  BY <1>4, <1>5

(* A connection taken over is given back, from either of its copiers.      *)
LEMMA ReturnRight ==
  ASSUME ProxyInv, NEW r \in Requests, pc[r] = "switched", P!Return(r, FALSE),
         UNCHANGED <<engine, ask, answer, read, cut, slot, array, buffer, sent, hijacked, kept, spoilt>>
  PROVE  ProxyInv'
<1>1. /\ pc' = [pc EXCEPT ![r] = IF ask[r].cached THEN "keep" ELSE "commit"]
      /\ pc' \in [Requests -> Steps] /\ pc'[r] = IF ask[r].cached THEN "keep" ELSE "commit"
  BY DEF P!Return, P!Goto, ProxyInv, ProxyTyped, Steps
<1>2. ProxyTyped'
  BY <1>1 DEF ProxyInv, ProxyTyped
<1>3. r \notin spoilt' => CourseOf(r)'
  BY <1>1 DEF ProxyInv, CourseOf, Nothing
<1>4. ASSUME NEW o \in Requests \ {r} PROVE Untouched(o)
  BY <1>1 DEF Untouched, ProxyInv, ProxyTyped
<1>5. pc[r] \notin Settled
  BY DEF Settled
<1> QED
  BY <1>2, <1>3, <1>4, <1>5, StepRight

(* The answer is read to its end, or until it broke off.                   *)
LEMMA CopiedRight ==
  ASSUME ProxyInv, NEW r \in Requests, P!Copied(r)
  PROVE  ProxyInv'
<1>0. /\ pc[r] = "copy" /\ cut' = [cut EXCEPT ![r] = read[r] < answer[r].parts]
      /\ pc' = [pc EXCEPT ![r] = IF ask[r].cached THEN "keep" ELSE "commit"]
      /\ UNCHANGED <<engine, ask, answer, read, slot, array, buffer, sent, hijacked, kept, spoilt>>
  BY DEF P!Copied, P!Return, P!Goto, P!bodies
<1>1. r \notin spoilt => Own(r) /\ ~hijacked[r]
  BY <1>0 DEF ProxyInv, CourseOf
<1>2. ProxyTyped'
  <2>1. pc' \in [Requests -> Steps] /\ \A q \in Requests : pc'[q] # "new" <=> pc[q] # "new"
    BY <1>0 DEF ProxyInv, ProxyTyped, Steps
  <2>2. (read[r] < answer[r].parts) \in BOOLEAN
    OBVIOUS
  <2>3. cut' \in [Requests -> BOOLEAN]
    BY <1>0, <2>2 DEF ProxyInv, ProxyTyped
  <2> QED
    BY <1>0, <2>1, <2>3 DEF ProxyInv, ProxyTyped
<1>3. pc'[r] = (IF ask[r].cached THEN "keep" ELSE "commit") /\ (read[r] < answer[r].parts => cut'[r])
  BY <1>0 DEF ProxyInv, ProxyTyped
<1>4. r \notin spoilt => Own(r)'
  BY <1>0, <1>1 DEF Own, Streams, P!Body
<1>5. ASSUME Stays, r \notin spoilt, pc'[r] = "commit"
      PROVE  (sent'[r] = <<>> /\ Given(r, buffer[r])') \/ (buffer'[r] = <<>> /\ Given(r, sent[r])')
  <2>1. read'[r] \in Nat /\ answer'[r].parts \in Nat
    BY <1>0 DEF ProxyInv, ProxyTyped
  <2>2. read'[r] \in 0..answer'[r].parts
    BY <1>4, <1>5, <2>1 DEF Own
  <2>3. Fits(P!Body(r, read[r]), r, read[r])'
    BY <1>0, <1>3, <1>5 DEF Fits, P!Partial, Settled
  <2>4. Given(r, P!Body(r, read[r]))'
    BY <2>2, <2>3 DEF Given, Serves
  <2>5. CASE Streams(r)'
    BY <1>4, <1>5, <2>4, <2>5 DEF Own, Given, Fits
  <2>6. CASE ~Streams(r)'
    BY <1>4, <1>5, <2>4, <2>6 DEF Own, Given, Fits
  <2> QED
    BY <2>5, <2>6
<1>6. ASSUME Stays, r \notin spoilt' PROVE CourseOf(r)'
  <2>1. CASE ask[r].cached
    BY <1>0, <1>1, <1>3, <1>4, <1>6, <2>1 DEF CourseOf
  <2>2. CASE ~ask[r].cached
    <3>1. pc'[r] = "commit"
      BY <1>3, <2>2
    <3>2. (sent'[r] = <<>> /\ Given(r, buffer[r])') \/ (buffer'[r] = <<>> /\ Given(r, sent[r])')
      BY <1>0, <1>5, <1>6, <3>1
    <3> QED
      BY <1>0, <1>1, <1>6, <3>1, <3>2 DEF CourseOf
  <2> QED
    BY <2>1, <2>2
<1>7. ASSUME NEW o \in Requests \ {r} PROVE Untouched(o)
  BY <1>0 DEF Untouched, ProxyInv, ProxyTyped
<1>8. pc[r] \notin Settled
  BY <1>0 DEF Settled
<1> QED
  BY <1>0, <1>2, <1>6, <1>7, <1>8, StepRight

(* What is in the response is kept: all there was to read, or part of what *)
(* broke off, was streamed or switched.                                    *)
LEMMA KeepRight ==
  ASSUME ProxyInv, NEW r \in Requests, P!Keep(r)
  PROVE  ProxyInv'
<1>0. /\ pc[r] = "keep" /\ pc' = [pc EXCEPT ![r] = "commit"]
      /\ UNCHANGED <<engine, ask, answer, read, cut, slot, array, buffer, sent, hijacked, spoilt>>
  BY DEF P!Keep, P!Goto
<1>a. PICK a \in P!CopyTo(array[slot[r]]) :
        kept' = [kept EXCEPT ![ask[r].key] = [by |-> r, body |-> buffer[r], array |-> a, spoilt |-> r \in spoilt]]
  BY DEF P!Keep
<1>1. r \notin spoilt =>
      /\ ask[r].cached
      /\ ~hijacked[r] => (Own(r) /\ (read[r] < answer[r].parts => cut[r])) \/ (Nothing(r) /\ ask[r].options)
      /\ hijacked[r] => Nothing(r) /\ answer[r].kind = "switch"
  BY <1>0 DEF ProxyInv, CourseOf, Nothing
<1>2. pc[r] \in Settled /\ pc'[r] = "commit" /\ "commit" \in Settled
  BY <1>0 DEF Settled, ProxyInv, ProxyTyped
<1>3. ask[r].key \in P!Keys
  BY <1>0 DEF P!Keys, ProxyInv, ProxyTyped
<1>b. PICK c \in Copies : c = [by |-> r, body |-> buffer[r], array |-> a, spoilt |-> r \in spoilt]
  <2>1. array[slot[r]] \in Arrays \cup {None} /\ buffer[r] \in Seq(Part)
    BY <1>0 DEF ProxyInv, ProxyTyped
  <2>2. a \in Arrays \cup {None}
    BY <2>1 DEF P!CopyTo, P!Unused
  <2>3. (r \in spoilt) \in BOOLEAN
    OBVIOUS
  <2> QED
    BY <2>1, <2>2, <2>3 DEF Copies
<1>4. ProxyTyped'
  <2>1. pc' \in [Requests -> Steps] /\ \A q \in Requests : pc'[q] # "new" <=> pc[q] # "new"
    BY <1>0 DEF ProxyInv, ProxyTyped, Steps
  <2>2. kept' \in [P!Keys -> {None} \cup Copies]
    BY <1>a, <1>b, <1>3 DEF ProxyInv, ProxyTyped
  <2> QED
    BY <1>0, <2>1, <2>2 DEF ProxyInv, ProxyTyped
(* What is kept, and then sent: nothing, or what was read.                 *)
<1>5. r \notin spoilt => \E n \in 0..answer[r].parts : buffer[r] = P!Body(r, n) /\ (n < answer[r].parts => P!Partial(r))
  <2> SUFFICES ASSUME r \notin spoilt
               PROVE  \E n \in 0..answer[r].parts : buffer[r] = P!Body(r, n) /\ (n < answer[r].parts => P!Partial(r))
    OBVIOUS
  <2>1. read[r] \in Nat /\ answer[r].parts \in Nat
    BY DEF ProxyInv, ProxyTyped
  <2>2. ASSUME buffer[r] = <<>>, P!Partial(r)
        PROVE  \E n \in 0..answer[r].parts : buffer[r] = P!Body(r, n) /\ (n < answer[r].parts => P!Partial(r))
    <3>1. buffer[r] = P!Body(r, 0) /\ 0 \in 0..answer[r].parts
      BY <2>1, <2>2, BodyIs
    <3> QED
      BY <2>2, <3>1
  <2>3. CASE hijacked[r] \/ (Nothing(r) /\ ask[r].options)
    BY <1>1, <2>2, <2>3 DEF P!Partial, Nothing
  <2>4. CASE ~hijacked[r] /\ Own(r) /\ Streams(r)
    BY <2>2, <2>4 DEF P!Partial, Streams, Own
  <2>5. CASE ~hijacked[r] /\ Own(r) /\ (read[r] < answer[r].parts => cut[r]) /\ ~Streams(r)
    <3>1. buffer[r] = P!Body(r, read[r]) /\ read[r] \in 0..answer[r].parts
      BY <2>1, <2>5 DEF Own
    <3> QED
      BY <2>5, <3>1 DEF P!Partial
  <2> QED
    BY <1>1, <2>3, <2>4, <2>5
<1>6. ASSUME Stays, r \notin spoilt' PROVE CourseOf(r)'
  <2>0. r \notin spoilt
    BY <1>0, <1>6
  <2>1. CASE hijacked[r]
    BY <1>0, <1>1, <1>2, <2>0, <2>1 DEF CourseOf, Nothing
  <2>2. CASE ~hijacked[r] /\ sent[r] = <<>>
    <3>1. PICK n \in 0..answer[r].parts : buffer[r] = P!Body(r, n) /\ (n < answer[r].parts => P!Partial(r))
      BY <1>5, <2>0
    <3>2. Fits(buffer[r], r, n)'
      BY <1>0, <1>2, <3>1 DEF Fits, P!Partial, P!Body
    <3>3. Given(r, buffer[r])'
      BY <1>0, <3>2 DEF Given, Serves
    <3> QED
      BY <1>0, <1>2, <2>2, <3>3 DEF CourseOf
  <2>3. CASE ~hijacked[r] /\ sent[r] # <<>>
    <3>1. Own(r) /\ (read[r] < answer[r].parts => cut[r])
      BY <1>1, <2>0, <2>3 DEF Nothing
    <3>2. buffer[r] = <<>> /\ Given(r, sent[r])
      BY <1>2, <2>3, <3>1, OwnGiven DEF Own
    <3>3. PICK body : body = sent[r]
      OBVIOUS
    <3>4. Given(r, body)
      BY <3>2, <3>3
    <3>5. Given(r, body)'
      BY <1>0, <1>6, <3>4, GivenStays
    <3>6. Given(r, sent[r])'
      BY <1>0, <3>3, <3>5 DEF Given, Fits
    <3> QED
      BY <1>0, <1>2, <2>3, <3>2, <3>6 DEF CourseOf
  <2> QED
    BY <2>1, <2>2, <2>3
<1>8. ASSUME NEW k \in P!Keys PROVE kept'[k] = kept[k] \/ KeptOf(k)'
  <2>1. CASE k # ask[r].key
    BY <1>a, <2>1 DEF ProxyInv, ProxyTyped
  <2>2. CASE k = ask[r].key /\ r \notin spoilt
    <3>1. kept'[k].body = buffer[r]
      BY <1>a, <1>3, <2>2 DEF ProxyInv, ProxyTyped
    <3>2. PICK n \in 0..answer[r].parts : buffer[r] = P!Body(r, n) /\ (n < answer[r].parts => P!Partial(r))
      BY <1>5, <2>2
    <3>3. Fits(kept[k].body, r, n)'
      BY <1>0, <1>2, <3>1, <3>2 DEF Fits, P!Partial, P!Body
    <3> QED
      BY <1>0, <1>1, <2>2, <3>3 DEF KeptOf
  <2>3. CASE k = ask[r].key /\ r \in spoilt
    <3>1. kept'[k] = c
      BY <1>a, <1>b, <1>3, <2>3 DEF ProxyInv, ProxyTyped
    <3>2. c.spoilt = (r \in spoilt)
      BY <1>b
    <3>3. kept'[k].spoilt
      BY <2>3, <3>1, <3>2, Zenon
    <3> QED
      BY <3>3 DEF KeptOf
  <2> QED
    BY <2>1, <2>2, <2>3
<1>9. ASSUME NEW o \in Requests \ {r} PROVE Untouched(o)
  BY <1>0 DEF Untouched, ProxyInv, ProxyTyped
<1> QED
  BY <1>0, <1>2, <1>4, <1>6, <1>8, <1>9, StepRight

(* The response is sent.                                                   *)
LEMMA CommitRight ==
  ASSUME ProxyInv, NEW r \in Requests, P!Commit(r)
  PROVE  ProxyInv'
<1>0. /\ pc[r] \in {"commit", "refuse"} /\ buffer' = [buffer EXCEPT ![r] = <<>>]
      /\ sent' = [sent EXCEPT ![r] = IF hijacked[r] THEN sent[r] ELSE sent[r] \o buffer[r]]
      /\ pc' = [pc EXCEPT ![r] = IF pc[r] = "refuse" THEN "refused" ELSE "done"]
      /\ UNCHANGED <<engine, ask, answer, read, cut, slot, array, hijacked, kept, spoilt>>
  BY DEF P!Commit, P!Goto
<1>1. sent[r] \in Seq(Part) /\ buffer[r] \in Seq(Part)
  BY DEF ProxyInv, ProxyTyped
<1>2. ProxyTyped'
  <2>1. pc' \in [Requests -> Steps] /\ \A q \in Requests : pc'[q] # "new" <=> pc[q] # "new"
    BY <1>0 DEF ProxyInv, ProxyTyped, Steps
  <2>2. sent[r] \o buffer[r] \in Seq(Part)
    BY <1>1, ConcatProperties
  <2>3. sent' \in [Requests -> Seq(Part)]
    BY <1>0, <1>1, <2>2 DEF ProxyInv, ProxyTyped
  <2>4. buffer' \in [Requests -> Seq(Part)]
    BY <1>0, EmptySeq DEF ProxyInv, ProxyTyped
  <2> QED
    BY <1>0, <2>1, <2>3, <2>4 DEF ProxyInv, ProxyTyped
<1>3. /\ pc'[r] = (IF pc[r] = "refuse" THEN "refused" ELSE "done") /\ buffer'[r] = <<>>
      /\ sent'[r] = (IF hijacked[r] THEN sent[r] ELSE sent[r] \o buffer[r])
  BY <1>0 DEF ProxyInv, ProxyTyped
<1>4. r \notin spoilt => (hijacked[r] => sent'[r] = <<>> /\ answer[r].kind = "switch")
  BY <1>3 DEF ProxyInv, CourseOf
<1>5. ASSUME Stays, r \notin spoilt, pc[r] = "commit", ~hijacked[r] PROVE Given(r, sent[r])'
  <2>1. (sent[r] = <<>> /\ Given(r, buffer[r])) \/ (buffer[r] = <<>> /\ Given(r, sent[r]))
    BY <1>5 DEF ProxyInv, CourseOf
  <2>2. PICK body : body = sent[r] \o buffer[r]
    OBVIOUS
  <2>3. Given(r, body)
    <3>1. CASE sent[r] = <<>> /\ Given(r, buffer[r])
      BY <1>1, <2>2, <3>1, ConcatEmptySeq
    <3>2. CASE buffer[r] = <<>> /\ Given(r, sent[r])
      BY <1>1, <2>2, <3>2, ConcatEmptySeq
    <3> QED
      BY <2>1, <3>1, <3>2
  <2>4. Given(r, body)' /\ sent'[r] = body
    BY <1>0, <1>3, <1>5, <2>2, <2>3, GivenStays
  <2> QED
    BY <2>4 DEF Given, Fits
<1>6. ASSUME Stays, r \notin spoilt' PROVE CourseOf(r)'
  <2>0. r \notin spoilt
    BY <1>0, <1>6
  <2>1. CASE pc[r] = "refuse"
    BY <1>0, <1>3, <1>4, <2>0, <2>1 DEF CourseOf
  <2>2. CASE pc[r] = "commit"
    BY <1>0, <1>3, <1>4, <1>5, <1>6, <2>0, <2>2 DEF CourseOf
  <2> QED
    BY <1>0, <2>1, <2>2
<1>7. ASSUME NEW o \in Requests \ {r} PROVE Untouched(o)
  BY <1>0 DEF Untouched, ProxyInv, ProxyTyped
<1>8. pc[r] \in Settled => pc'[r] \in Settled
  BY <1>3 DEF Settled
<1> QED
  BY <1>0, <1>2, <1>6, <1>7, <1>8, StepRight

(* The first state has nothing.                                            *)
LEMMA ProxyInit == P!Init => ProxyInv
<1> SUFFICES ASSUME P!Init PROVE ProxyInv
  OBVIOUS
<1> USE DEF P!Init
<1>1. ProxyTyped
  BY EmptySeq DEF ProxyTyped, Steps
<1>2. ASSUME NEW r \in Requests PROVE CourseOf(r)
  BY DEF CourseOf, Nothing
<1>3. ASSUME NEW k \in P!Keys PROVE KeptOf(k)
  BY DEF KeptOf
<1> QED
  BY <1>1, <1>2, <1>3 DEF ProxyInv

(* Every step of the proxy, a backend and the clients.                     *)
LEMMA ProxyNext == MaxParts \in Nat /\ ProxyInv /\ [P!Next]_P!vars => ProxyInv'
<1> SUFFICES ASSUME MaxParts \in Nat, ProxyInv, [P!Next]_P!vars PROVE ProxyInv'
  OBVIOUS
<1>1. ASSUME UNCHANGED <<engine, pc, ask, answer, read, cut, slot, array, buffer, sent, hijacked, spoilt>>,
             kept' = kept \/ \E k \in P!Keys : kept' = [kept EXCEPT ![k] = None]
      PROVE  ProxyInv'
  <2>1. kept' \in [P!Keys -> {None} \cup Copies]
        /\ \A k \in P!Keys : kept'[k] \in {None, kept[k]}
    BY <1>1 DEF ProxyInv, ProxyTyped
  <2>2. ProxyTyped'
    BY <1>1, <2>1 DEF ProxyInv, ProxyTyped
  <2> QED
    BY <1>1, <2>1, <2>2, NothingSeen DEF Untouched
<1>2. CASE UNCHANGED P!vars
  BY <1>1, <1>2 DEF P!vars
<1>3. ASSUME NEW r \in Requests, NEW i \in Inputs, NEW s \in Slots, P!Begin(r, i, s) PROVE ProxyInv'
  BY <1>3, BeginRight
<1>4. ASSUME NEW r \in Requests, P!Leaves(r) \/ P!Watch(r) PROVE ProxyInv'
  BY <1>1, <1>4 DEF P!Leaves, P!Watch, P!bodies
<1>5. ASSUME NEW r \in Requests, P!Steps(r) PROVE ProxyInv'
  <2>1. CASE P!NoAnswer(r)
    BY <2>1, NoAnswerRight
  <2>2. CASE P!Copy(r)
    BY <2>2, CopyRight
  <2>3. CASE P!Copied(r)
    BY <2>3, CopiedRight
  <2>4. CASE P!Switched(r)
    BY <2>4, ReturnRight DEF P!Switched, P!bodies
  <2>5. CASE P!Keep(r)
    BY <2>5, KeepRight
  <2>6. CASE P!Commit(r)
    BY <2>6, CommitRight
  <2>7. ASSUME NEW kind \in Kinds, NEW n \in 0..MaxParts, P!Answered(r, kind, n) PROVE ProxyInv'
    BY <2>7, AnsweredRight
  <2>8. CASE P!Error(r)
    BY <2>8, ErrorRight
  <2> QED
    BY <1>5, <2>1, <2>2, <2>3, <2>4, <2>5, <2>6, <2>7, <2>8 DEF P!Steps
<1>6. ASSUME NEW r \in Requests, NEW d \in P!Directions, P!CopierEnds(r, d) \/ P!CopierSends(r, d) PROVE ProxyInv'
  <2>1. CASE P!CopierEnds(r, d)
    BY <1>1, <2>1 DEF P!CopierEnds, P!bodies
  <2>2. CASE P!CopierSends(r, d) /\ pc' = pc
    BY <1>1, <2>2 DEF P!CopierSends, P!bodies
  <2>3. CASE P!CopierSends(r, d) /\ pc' # pc
    BY <2>3, ReturnRight DEF P!CopierSends, P!bodies
  <2> QED
    BY <1>6, <2>1, <2>2, <2>3
<1>7. ASSUME NEW k \in P!Keys, P!Expire(k) PROVE ProxyInv'
  BY <1>1, <1>7 DEF P!Expire
<1> QED
  BY <1>2, <1>3, <1>4, <1>5, <1>6, <1>7 DEF P!Next

(* The first parts of an answer are a prefix of it.                        *)
LEMMA FirstParts ==
  ASSUME NEW q \in Requests, NEW m \in Nat, NEW n \in 0..m
  PROVE  P!IsPrefix(P!Body(q, n), P!Body(q, m)) /\ Len(P!Body(q, n)) = n
<1>1. n \in Nat /\ n <= m
  OBVIOUS
<1>2. PICK s : s = P!Body(q, n)
  OBVIOUS
<1>3. PICK t : t = P!Body(q, m)
  OBVIOUS
<1>4. s \in Seq(Part) /\ Len(s) = n /\ \A i \in 1..n : s[i] = <<q, i>>
  BY <1>1, <1>2, BodyIs
<1>5. t \in Seq(Part) /\ Len(t) = m /\ \A i \in 1..m : t[i] = <<q, i>>
  BY <1>3, BodyIs
<1>6. \A i \in 1..n : s[i] \in Part /\ t[i] \in Part /\ s[i] = t[i]
  BY <1>1, <1>4, <1>5 DEF Part
<1>7. /\ SubSeq(s, 1, n) \in Seq(Part) /\ Len(SubSeq(s, 1, n)) = n
      /\ \A i \in 1..n : SubSeq(s, 1, n)[i] = s[i]
  BY <1>1, <1>6, SubSeqProperties
<1>8. /\ SubSeq(t, 1, n) \in Seq(Part) /\ Len(SubSeq(t, 1, n)) = n
      /\ \A i \in 1..n : SubSeq(t, 1, n)[i] = t[i]
  BY <1>1, <1>6, SubSeqProperties
<1>9. SubSeq(s, 1, n) = SubSeq(t, 1, n)
  <2>1. PICK a : a = SubSeq(s, 1, n)
    OBVIOUS
  <2>2. PICK b : b = SubSeq(t, 1, n)
    OBVIOUS
  <2>3. a \in Seq(Part) /\ b \in Seq(Part) /\ Len(a) = Len(b) /\ \A i \in 1..Len(a) : a[i] = b[i]
    BY <1>6, <1>7, <1>8, <2>1, <2>2
  <2>4. a = b
    BY <2>3, SeqEqual
  <2> QED
    BY <2>1, <2>2, <2>4
<1> QED
  BY <1>1, <1>2, <1>3, <1>4, <1>5, <1>9 DEF P!IsPrefix

(* Whether a response is kept at all, and no array is another's as well.   *)
Caches == \E q \in Requests : pc[q] # "new" /\ ask[q].cached
NotShared ==
  /\ spoilt = {}
  /\ \A k \in P!Keys : kept[k] # None => ~kept[k].spoilt /\ \A s \in Slots : array[s] # None => array[s] # kept[k].array
  /\ \A s, t \in Slots : s # t /\ array[s] # None => array[s] # array[t]

BodiesApart ==
  /\ \A q, r \in Requests : q # r /\ P!InProgress(q) /\ P!InProgress(r) => slot[q] # slot[r]
  /\ \A r \in Requests : pc[r] = "keep" => ask[r].cached
  /\ \A k \in P!Keys : kept[k] # None => Caches
  /\ (engine = "standard" /\ Caches) \/ NotShared

(* Who caches goes on to; who takes no step keeps his response.            *)
LEMMA ApartStays ==
  ASSUME ProxyTyped, BodiesApart, engine' = engine, NEW r \in Requests, pc[r] # "new", pc'[r] # "new", ask' = ask, slot' = slot,
         \A o \in Requests \ {r} : pc'[o] = pc[o], P!InProgress(r)' => P!InProgress(r),
         pc'[r] = "keep" => ask[r].cached,
         \A k \in P!Keys : kept'[k] # None => kept[k] # None \/ ask[r].cached,
         NotShared => NotShared' \/ (engine = "standard" /\ ask[r].cached)
  PROVE  BodiesApart'
<1>1. (Caches => Caches') /\ (ask[r].cached => Caches')
  BY DEF Caches
<1>2. \A o \in Requests \ {r} : P!InProgress(o)' <=> P!InProgress(o)
  BY DEF P!InProgress
<1>3. \A q, o \in Requests : q # o /\ P!InProgress(q)' /\ P!InProgress(o)' => slot'[q] # slot'[o]
  BY <1>2 DEF BodiesApart
<1>4. \A o \in Requests : pc'[o] = "keep" => ask'[o].cached
  BY DEF BodiesApart
<1>5. \A k \in P!Keys : kept'[k] # None => Caches'
  BY <1>1 DEF BodiesApart
<1>6. (engine' = "standard" /\ Caches') \/ NotShared'
  BY <1>1 DEF BodiesApart
<1> QED
  BY <1>3, <1>4, <1>5, <1>6 DEF BodiesApart

(* Where no array is another's a write meets nothing.                      *)
LEMMA WriteApart ==
  ASSUME ProxyTyped, BodiesApart, NotShared, NEW r \in Requests, P!InProgress(r), NEW part, NEW left, P!Write(r, part, left)
  PROVE  NotShared'
<1>0. slot[r] \in Slots /\ \A q \in Requests : P!InProgress(q) => slot[q] \in Slots
  BY DEF ProxyTyped, P!InProgress
<1>1. CASE P!WriteAnew(r, left)
  <2>1. PICK b \in P!Unused : array' = [array EXCEPT ![slot[r]] = b]
    BY <1>1 DEF P!WriteAnew
  <2>2. /\ \A s \in Slots : b # array[s]
        /\ \A k \in P!Keys : kept[k] # None => b # kept[k].array
    BY <2>1 DEF P!Unused, P!Used
  <2>3. \A s \in Slots : array'[s] = IF s = slot[r] THEN b ELSE array[s]
    BY <2>1 DEF ProxyTyped
  <2>4. kept' = kept /\ spoilt' = spoilt
    BY <1>1 DEF P!WriteAnew
  <2> QED
    BY <2>2, <2>3, <2>4 DEF NotShared
<1>2. ASSUME NEW a, NEW n, a = array[slot[r]], P!WriteOver(r, part, left, a, n)
      PROVE  NotShared'
  <2>0. a # None /\ array' = array
    BY <1>2 DEF P!WriteOver
  <2>1. \A q \in Requests \ {r} : ~P!MeetsRequest(q, a, n)
    BY <1>0, <1>2, <2>0 DEF P!MeetsRequest, BodiesApart, NotShared
  <2>2. \A k \in P!Keys : ~P!MeetsKept(k, a, n)
    BY <1>0, <1>2, <2>0 DEF P!MeetsKept, NotShared
  <2>3. spoilt' = {} /\ \A k \in P!Keys : kept'[k] = kept[k]
    BY <1>2, <2>1, <2>2 DEF NotShared, P!WriteOver
  <2> QED
    BY <2>0, <2>3 DEF NotShared
<1> QED
  BY <1>1, <1>2 DEF P!Write

(* A write keeps nothing.                                                  *)
LEMMA WriteKeeps ==
  ASSUME ProxyTyped, NEW r \in Requests, NEW part, NEW left, P!Write(r, part, left)
  PROVE  slot' = slot /\ \A k \in P!Keys : kept'[k] # None => kept[k] # None
<1>1. CASE P!WriteAnew(r, left)
  BY <1>1 DEF P!Write, P!WriteAnew
<1>2. ASSUME NEW a, NEW n, P!WriteOver(r, part, left, a, n)
      PROVE  \A k \in P!Keys : kept'[k] # None => kept[k] # None
  BY <1>2 DEF P!WriteOver, P!MeetsKept
<1> QED
  BY <1>1, <1>2 DEF P!Write

(* A request begins: who is given a kept response is one that caches.      *)
LEMMA BeginApart ==
  ASSUME ProxyTyped, BodiesApart, NEW r \in Requests, NEW i \in Inputs, NEW s \in Slots, P!Begin(r, i, s)
  PROVE  BodiesApart'
<1>0. /\ pc[r] = "new" /\ ask' = [ask EXCEPT ![r] = i] /\ slot' = [slot EXCEPT ![r] = s] /\ engine' = engine /\ kept' = kept
      /\ s \in P!Free
  BY DEF P!Begin
<1>1. pc' = [pc EXCEPT ![r] = "commit"] \/ pc' = [pc EXCEPT ![r] = "trip"]
  BY DEF P!Begin, P!Goto
<1>2. \A o \in Requests \ {r} : pc'[o] = pc[o] /\ ask'[o] = ask[o] /\ slot'[o] = slot[o]
  BY <1>0, <1>1 DEF ProxyTyped
<1>3. pc'[r] \notin {"new", "keep"} /\ ask'[r] = i /\ slot'[r] = s
  BY <1>0, <1>1 DEF ProxyTyped
<1>4. (Caches => Caches') /\ (i.cached => Caches')
  BY <1>0, <1>2, <1>3 DEF Caches
<1>5. \A q, o \in Requests : q # o /\ P!InProgress(q)' /\ P!InProgress(o)' => slot'[q] # slot'[o]
  <2>1. \A o \in Requests \ {r} : P!InProgress(o)' <=> P!InProgress(o)
    BY <1>2 DEF P!InProgress
  <2>2. \A o \in Requests \ {r} : P!InProgress(o) => slot[o] # s
    BY <1>0 DEF P!Free
  <2> QED
    BY <1>2, <1>3, <2>1, <2>2 DEF BodiesApart
<1>6. \A o \in Requests : pc'[o] = "keep" => ask'[o].cached
  BY <1>2, <1>3 DEF BodiesApart
<1>7. \A k \in P!Keys : kept'[k] # None => Caches'
  BY <1>0, <1>4 DEF BodiesApart
<1>8. (engine' = "standard" /\ Caches') \/ NotShared'
  <2>1. CASE engine = "standard" /\ Caches
    BY <1>0, <1>4, <2>1
  <2>2. CASE NotShared /\ ~(i.cached /\ kept[i.key] # None)
    BY <1>0, <2>2 DEF P!Begin, NotShared
  <2>3. CASE i.cached /\ engine = "standard"
    BY <1>0, <1>4, <2>3
  <2>4. CASE NotShared /\ i.cached /\ kept[i.key] # None /\ engine # "standard"
    <3>1. i.key \in P!Keys
      BY DEF P!Keys
    <3>2. spoilt' = spoilt
      BY <2>4, <3>1 DEF P!Begin, NotShared
    <3>3. PICK a \in P!Unused : array' = [array EXCEPT ![s] = a]
      BY <2>4 DEF P!Begin, P!CopyTo
    <3>4. /\ \A t \in Slots : a # array[t]
          /\ \A k \in P!Keys : kept[k] # None => a # kept[k].array
      BY <3>3 DEF P!Unused, P!Used
    <3>5. \A t \in Slots : array'[t] = IF t = s THEN a ELSE array[t]
      BY <3>3 DEF ProxyTyped
    <3> QED
      BY <1>0, <2>4, <3>2, <3>4, <3>5 DEF NotShared
  <2> QED
    BY <2>1, <2>2, <2>3, <2>4 DEF BodiesApart
<1> QED
  BY <1>5, <1>6, <1>7, <1>8 DEF BodiesApart

(* A copy is kept: on the standard engine by one that caches, on           *)
(* fasthttp's with an array of its own.                                    *)
LEMMA KeepApart ==
  ASSUME ProxyTyped, BodiesApart, NEW r \in Requests, P!Keep(r)
  PROVE  BodiesApart'
<1>0. /\ pc[r] = "keep" /\ pc' = [pc EXCEPT ![r] = "commit"]
      /\ UNCHANGED <<engine, ask, slot, array, spoilt>>
  BY DEF P!Keep, P!Goto
<1>1. PICK a \in P!CopyTo(array[slot[r]]) :
        kept' = [kept EXCEPT ![ask[r].key] = [by |-> r, body |-> buffer[r], array |-> a, spoilt |-> r \in spoilt]]
  BY DEF P!Keep
<1>2. ask[r].cached
  BY <1>0 DEF BodiesApart
<1>3. NotShared => NotShared' \/ (engine = "standard" /\ ask[r].cached)
  <2> SUFFICES ASSUME NotShared, engine # "standard" PROVE NotShared'
    BY <1>2
  <2>1. a \in P!Unused
    BY <1>1 DEF P!CopyTo
  <2>2. \A s \in Slots : a # array[s]
    BY <2>1 DEF P!Unused, P!Used
  <2>3. PICK c : c = [by |-> r, body |-> buffer[r], array |-> a, spoilt |-> r \in spoilt]
    OBVIOUS
  <2>4. c.array = a /\ c.spoilt = (r \in spoilt)
    BY <2>3
  <2>5. ~c.spoilt
    BY <2>4 DEF NotShared
  <2>6. \A k \in P!Keys : kept'[k] = kept[k] \/ kept'[k] = c
    BY <1>1, <2>3 DEF ProxyTyped
  <2>7. ASSUME NEW k \in P!Keys, kept'[k] # None
        PROVE  ~kept'[k].spoilt /\ \A s \in Slots : array'[s] # None => array'[s] # kept'[k].array
    <3>1. CASE kept'[k] = c
      BY <1>0, <2>2, <2>4, <2>5, <3>1
    <3>2. CASE kept'[k] = kept[k]
      BY <1>0, <2>7, <3>2 DEF NotShared
    <3> QED
      BY <2>6, <3>1, <3>2
  <2> QED
    BY <1>0, <2>7 DEF NotShared
<1>4. pc'[r] = "commit" /\ \A o \in Requests \ {r} : pc'[o] = pc[o]
  BY <1>0 DEF ProxyTyped
<1>5. P!InProgress(r)
  BY <1>0 DEF P!InProgress
<1> QED
  BY <1>0, <1>2, <1>3, <1>4, <1>5, ApartStays

(* Every step keeps the arrays apart, unless responses are kept.           *)
LEMMA ApartNext == ProxyTyped /\ BodiesApart /\ [P!Next]_P!vars => BodiesApart'
<1> SUFFICES ASSUME ProxyTyped, BodiesApart, [P!Next]_P!vars PROVE BodiesApart'
  OBVIOUS
<1>1. ASSUME UNCHANGED <<engine, pc, ask, slot, array, spoilt>>,
             kept' = kept \/ \E k \in P!Keys : kept' = [kept EXCEPT ![k] = None]
      PROVE  BodiesApart'
  <2>1. \A k \in P!Keys : kept'[k] \in {None, kept[k]}
    BY <1>1 DEF ProxyTyped
  <2>2. NotShared => NotShared'
    BY <1>1, <2>1 DEF NotShared
  <2>3. \A q \in Requests : P!InProgress(q)' <=> P!InProgress(q)
    BY <1>1 DEF P!InProgress
  <2>4. Caches => Caches'
    BY <1>1 DEF Caches
  <2> QED
    BY <1>1, <2>1, <2>2, <2>3, <2>4 DEF BodiesApart
<1>2. ASSUME NEW r \in Requests, pc[r] \in {"trip", "copy", "switched", "commit", "refuse"}, NEW step,
             step \in {"keep", "commit", "error", "copy", "switched", "done", "refused"}, step = "keep" => ask[r].cached,
             pc' = [pc EXCEPT ![r] = step], UNCHANGED <<engine, ask, slot, array, kept, spoilt>>
      PROVE  BodiesApart'
  <2>1. pc'[r] = step /\ (\A o \in Requests \ {r} : pc'[o] = pc[o]) /\ pc[r] # "new" /\ pc'[r] # "new"
    BY <1>2 DEF ProxyTyped
  <2>2. P!InProgress(r)
    BY <1>2 DEF P!InProgress
  <2>3. NotShared => NotShared'
    BY <1>2 DEF NotShared
  <2> QED
    BY <1>2, <2>1, <2>2, <2>3, ApartStays
<1>3. ASSUME NEW r \in Requests, pc[r] \in {"trip", "copy", "switched"}, P!Return(r, FALSE) \/ P!Return(r, TRUE),
             UNCHANGED <<engine, ask, slot, array, kept, spoilt>>
      PROVE  BodiesApart'
  <2>1. CASE pc' = [pc EXCEPT ![r] = "error"]
    BY <1>2, <1>3, <2>1
  <2>2. CASE ask[r].cached /\ pc' = [pc EXCEPT ![r] = "keep"]
    BY <1>2, <1>3, <2>2
  <2>3. CASE pc' = [pc EXCEPT ![r] = "commit"]
    BY <1>2, <1>3, <2>3
  <2> QED
    BY <1>3, <2>1, <2>2, <2>3 DEF P!Return, P!Goto
<1>4. ASSUME NEW r \in Requests, NEW part, NEW left, P!Write(r, part, left), UNCHANGED <<engine, ask>>,
             \/ pc[r] = "copy" /\ pc' = pc
             \/ pc[r] = "error" /\ pc' = [pc EXCEPT ![r] = "refuse"]
      PROVE  BodiesApart'
  <2>1. P!InProgress(r) /\ pc[r] # "new"
    BY <1>4 DEF P!InProgress
  <2>2. pc'[r] \notin {"new", "keep"} /\ \A o \in Requests \ {r} : pc'[o] = pc[o]
    BY <1>4 DEF ProxyTyped
  <2>3. NotShared => NotShared'
    BY <1>4, <2>1, WriteApart
  <2>4. slot' = slot /\ \A k \in P!Keys : kept'[k] # None => kept[k] # None
    BY <1>4, WriteKeeps
  <2> QED
    BY <1>4, <2>1, <2>2, <2>3, <2>4, ApartStays
<1>5. CASE UNCHANGED P!vars
  BY <1>1, <1>5 DEF P!vars
<1>6. ASSUME NEW r \in Requests, NEW i \in Inputs, NEW s \in Slots, P!Begin(r, i, s) PROVE BodiesApart'
  BY <1>6, BeginApart
<1>7. ASSUME NEW r \in Requests, P!Leaves(r) \/ P!Watch(r) PROVE BodiesApart'
  BY <1>1, <1>7 DEF P!Leaves, P!Watch, P!bodies
<1>8. ASSUME NEW r \in Requests, P!Steps(r) PROVE BodiesApart'
  <2>1. CASE P!NoAnswer(r)
    BY <1>3, <2>1 DEF P!NoAnswer, P!bodies
  <2>2. CASE P!Copy(r)
    <3>1. PICK part : part = <<r, read[r] + 1>>
      OBVIOUS
    <3>2. PICK body : body = Append(buffer[r], part)
      OBVIOUS
    <3>3. P!Write(r, part, P!Rest(body)) \/ P!Write(r, part, body)
      BY <2>2, <3>1, <3>2 DEF P!Copy
    <3>4. PICK left : P!Write(r, part, left)
      BY <3>3
    <3> QED
      BY <1>4, <2>2, <3>4 DEF P!Copy
  <2>3. CASE P!Copied(r)
    BY <1>3, <2>3 DEF P!Copied, P!bodies
  <2>4. CASE P!Switched(r)
    BY <1>3, <2>4 DEF P!Switched, P!bodies
  <2>5. CASE P!Keep(r)
    BY <2>5, KeepApart
  <2>6. CASE P!Error(r)
    BY <1>4, <2>6 DEF P!Error, P!Goto
  <2>7. CASE P!Commit(r)
    <3>1. PICK step : step = IF pc[r] = "refuse" THEN "refused" ELSE "done"
      OBVIOUS
    <3>2. pc' = [pc EXCEPT ![r] = step]
      BY <2>7, <3>1 DEF P!Commit, P!Goto
    <3> QED
      BY <1>2, <2>7, <3>1, <3>2 DEF P!Commit
  <2>8. ASSUME NEW kind \in Kinds, NEW n \in 0..MaxParts, P!Answered(r, kind, n) PROVE BodiesApart'
    <3>1. pc[r] = "trip" /\ UNCHANGED <<engine, ask, slot, array, kept, spoilt>>
      BY <2>8 DEF P!Answered, P!bodies
    <3>2. P!Return(r, FALSE) \/ P!Return(r, TRUE) \/ pc' = [pc EXCEPT ![r] = "copy"] \/ pc' = [pc EXCEPT ![r] = "switched"]
      BY <2>8 DEF P!Answered, P!Goto
    <3> QED
      BY <1>2, <1>3, <3>1, <3>2
  <2> QED
    BY <1>8, <2>1, <2>2, <2>3, <2>4, <2>5, <2>6, <2>7, <2>8 DEF P!Steps
<1>9. ASSUME NEW r \in Requests, NEW d \in P!Directions, P!CopierEnds(r, d) \/ P!CopierSends(r, d) PROVE BodiesApart'
  <2>1. CASE P!CopierEnds(r, d)
    BY <1>1, <2>1 DEF P!CopierEnds, P!bodies
  <2>2. CASE P!CopierSends(r, d) /\ pc' = pc
    BY <1>1, <2>2 DEF P!CopierSends, P!bodies
  <2>3. CASE P!CopierSends(r, d) /\ pc' # pc
    BY <1>3, <2>3 DEF P!CopierSends, P!bodies
  <2> QED
    BY <1>9, <2>1, <2>2, <2>3
<1>10. ASSUME NEW k \in P!Keys, P!Expire(k) PROVE BodiesApart'
  BY <1>1, <1>10 DEF P!Expire
<1> QED
  BY <1>5, <1>6, <1>7, <1>8, <1>9, <1>10 DEF P!Next

(* A client gets the parts of one answer in their order, its own or one    *)
(* kept for its key, and all of them unless that answer broke off, was     *)
(* streamed, a switch or to OPTIONS; unless another request wrote over     *)
(* them, which happens only where copies share their array, on the         *)
(* standard engine, and one was kept (whttp/proxy.go).                     *)
THEOREM OneAnswer == ASSUME MaxParts \in Nat PROVE P!Spec => []P!GetsOneAnswer
<1>1. ProxyInv /\ BodiesApart => P!GetsOneAnswer
  <2> SUFFICES ASSUME ProxyInv, BodiesApart PROVE P!GetsOneAnswer
    OBVIOUS
  <2>1. ASSUME NEW r \in Requests, pc[r] = "done", ~hijacked[r], r \notin spoilt
        PROVE  \E q \in Requests :
                 /\ q = r \/ (ask[r].cached /\ ask[q].cached /\ ask[q].key = ask[r].key)
                 /\ P!IsPrefix(sent[r], P!Body(q, answer[q].parts))
                 /\ Len(sent[r]) < answer[q].parts => P!Partial(q)
    <3>1. Given(r, sent[r])
      BY <2>1 DEF ProxyInv, CourseOf
    <3>2. PICK q \in Requests : Serves(q, r) /\ \E n \in 0..answer[q].parts : Fits(sent[r], q, n)
      BY <3>1 DEF Given
    <3>3. PICK n \in 0..answer[q].parts : Fits(sent[r], q, n)
      BY <3>2
    <3>4. PICK m \in Nat : m = answer[q].parts
      BY DEF ProxyInv, ProxyTyped
    <3>5. P!IsPrefix(P!Body(q, n), P!Body(q, m)) /\ Len(P!Body(q, n)) = n
      BY <3>3, <3>4, FirstParts
    <3> QED
      BY <3>2, <3>3, <3>4, <3>5 DEF Fits, Serves
  <2>2. P!OneAnswer
    BY <2>1 DEF P!OneAnswer
  <2>3. P!SpoiltByKeeping
    BY DEF P!SpoiltByKeeping, BodiesApart, NotShared, Caches
  <2> QED
    BY <2>2, <2>3 DEF P!GetsOneAnswer
<1>2. P!Init => ProxyInv /\ BodiesApart
  <2>1. P!Init => BodiesApart
    BY DEF P!Init, BodiesApart, NotShared, P!InProgress
  <2> QED
    BY <2>1, ProxyInit
<1>3. ProxyInv /\ BodiesApart /\ [P!Next]_P!vars => ProxyInv' /\ BodiesApart'
  BY ProxyNext, ApartNext DEF ProxyInv
<1> QED
  BY <1>1, <1>2, <1>3, PTL DEF P!Spec

-----------------------------------------------------------------------------
(* The loggers: every record that a filter was given is somewhere          *)

CONSTANTS Senders, Threads, Levels, Tags, Loggers, BufferLength, MaxRecords, MayFail
VARIABLES log, told, todo, chan, given, at, hand, conn, written, twice, dropped, failed

L == INSTANCE Logging WITH sent <- told

Records == Senders \X Nat

(* A goroutine that has a record in its hand.                              *)
Busy == {"write", "connect", "again", "back"}

LogTyped ==
  /\ told \in [Senders -> Nat] /\ todo \in [Senders -> SUBSET L!Filters]
  /\ chan \in [L!Filters -> Seq(Records)]
  /\ given \in [L!Filters -> SUBSET Records] /\ written \in [L!Filters -> SUBSET Records]
  /\ hand \in [L!Goroutines -> Records \cup {None}]
  /\ at \in [L!Goroutines -> Busy \cup {"read", "sleep", "stop"}]

(* No goroutine is at a second attempt before a write has failed.          *)
HandsRight ==
  \A g \in L!Goroutines :
    /\ at[g] \in Busy => hand[g] # None
    /\ hand[g] # None => at[g] \in Busy
    /\ g[1] \notin failed => at[g] \in {"read", "write", "stop"} /\ (L!Syslog(g) => g \in conn)

(* A sender's records are numbered; the filters it is still to give its    *)
(* last one to do not have that.                                           *)
GivenRight ==
  \A f \in L!Filters :
    /\ IsFiniteSet(given[f])
    /\ \A s \in Senders, n \in Nat : <<s, n>> \in given[f] => n <= told[s] /\ (f \in todo[s] => n < told[s])

(* The members of a sequence, and that it has each once.                   *)
InSeq(s) == {s[i] : i \in DOMAIN s}
OneEach(s) == \A a, b \in DOMAIN s : s[a] = s[b] => a = b

Somewhere(f) == given[f] = InSeq(chan[f]) \cup L!Held(f) \cup written[f] \cup L!Lost(f)

(* While no write failed each record is at one place.                      *)
OnePlace(f) ==
  /\ f \notin twice /\ L!Lost(f) = {}
  /\ OneEach(chan[f])
  /\ InSeq(chan[f]) \cap L!Held(f) = {}
  /\ (InSeq(chan[f]) \cup L!Held(f)) \cap written[f] = {}
  /\ \A i, j \in Threads : hand[<<f, i>>] = hand[<<f, j>>] /\ hand[<<f, i>>] # None => i = j

FilterRight(f) == Somewhere(f) /\ (f \notin failed => OnePlace(f))

LogInv == LogTyped /\ HandsRight /\ GivenRight /\ \A f \in L!Filters : FilterRight(f)

NoneApart == None \notin Records

(* One more in a sequence ...                                              *)
LEMMA OneMore ==
  ASSUME NEW S, NEW s \in Seq(S), NEW e \in S
  PROVE  /\ InSeq(Append(s, e)) = InSeq(s) \cup {e}
         /\ OneEach(s) /\ e \notin InSeq(s) => OneEach(Append(s, e))
<1>1. /\ DOMAIN s = 1..Len(s) /\ Len(s) \in Nat /\ DOMAIN Append(s, e) = 1..(Len(s) + 1)
      /\ \A i \in 1..Len(s) : Append(s, e)[i] = s[i]
      /\ Append(s, e)[Len(s) + 1] = e
  BY AppendProperties, LenProperties
<1>2. PICK n \in Nat : n = Len(s)
  BY <1>1
<1>3. PICK t : t = Append(s, e)
  OBVIOUS
<1>4. /\ DOMAIN s = 1..n /\ DOMAIN t = 1..(n + 1)
      /\ \A i \in 1..n : t[i] = s[i]
      /\ t[n + 1] = e
  BY <1>1, <1>2, <1>3
<1>5. InSeq(t) = InSeq(s) \cup {e}
  <2>1. InSeq(t) \subseteq InSeq(s) \cup {e}
    BY <1>4 DEF InSeq
  <2>2. InSeq(s) \subseteq InSeq(t) /\ e \in InSeq(t)
    BY <1>4 DEF InSeq
  <2> QED
    BY <2>1, <2>2
<1>6. OneEach(s) /\ e \notin InSeq(s) => OneEach(t)
  BY <1>4 DEF OneEach, InSeq
<1> QED
  BY <1>3, <1>5, <1>6

(* ... and one less.                                                       *)
LEMMA OneLess ==
  ASSUME NEW S, NEW s \in Seq(S), s # <<>>
  PROVE  /\ Head(s) \in S /\ Tail(s) \in Seq(S)
         /\ InSeq(s) = InSeq(Tail(s)) \cup {Head(s)}
         /\ OneEach(s) => OneEach(Tail(s)) /\ Head(s) \notin InSeq(Tail(s))
<1>1. /\ Head(s) \in S /\ Tail(s) \in Seq(S) /\ Len(Tail(s)) = Len(s) - 1
      /\ \A i \in 1..Len(Tail(s)) : Tail(s)[i] = s[i + 1]
  BY HeadTailProperties
<1>2. DOMAIN s = 1..Len(s) /\ Len(s) \in Nat /\ Len(s) # 0 /\ Head(s) = s[1]
  BY LenProperties, EmptySeq
<1>3. DOMAIN Tail(s) = 1..Len(Tail(s))
  BY <1>1, LenProperties
<1>4. PICK n \in Nat : n = Len(s)
  BY <1>2
<1>5. PICK t, h : t = Tail(s) /\ h = Head(s)
  OBVIOUS
<1>6. /\ DOMAIN s = 1..n /\ n > 0 /\ DOMAIN t = 1..(n - 1) /\ h = s[1]
      /\ \A i \in 1..(n - 1) : t[i] = s[i + 1]
  BY <1>1, <1>2, <1>3, <1>4, <1>5
<1>7. InSeq(s) = InSeq(t) \cup {h}
  <2>1. ASSUME NEW i \in DOMAIN s PROVE s[i] \in InSeq(t) \cup {h}
    <3>1. CASE i = 1
      BY <1>6, <3>1
    <3>2. CASE i # 1
      <4>1. i - 1 \in DOMAIN t /\ t[i - 1] = s[i]
        BY <1>6, <3>2
      <4> QED
        BY <4>1 DEF InSeq
    <3> QED
      BY <3>1, <3>2
  <2>2. InSeq(t) \subseteq InSeq(s) /\ h \in InSeq(s)
    BY <1>6 DEF InSeq
  <2> QED
    BY <2>1, <2>2 DEF InSeq
<1>8. OneEach(s) => OneEach(t) /\ h \notin InSeq(t)
  <2> SUFFICES ASSUME OneEach(s) PROVE OneEach(t) /\ h \notin InSeq(t)
    OBVIOUS
  <2>1. \A a, b \in DOMAIN t : t[a] = t[b] => a = b
    <3> SUFFICES ASSUME NEW a \in DOMAIN t, NEW b \in DOMAIN t, t[a] = t[b] PROVE a = b
      OBVIOUS
    <3>1. a + 1 \in DOMAIN s /\ b + 1 \in DOMAIN s /\ s[a + 1] = s[b + 1]
      BY <1>6
    <3>2. a + 1 = b + 1
      BY <3>1 DEF OneEach
    <3> QED
      BY <1>6, <3>2
  <2>2. ASSUME NEW a \in DOMAIN t, t[a] = h PROVE FALSE
    <3>1. 1 \in DOMAIN s /\ a + 1 \in DOMAIN s /\ s[a + 1] = s[1] /\ a + 1 # 1
      BY <1>6, <2>2
    <3> QED
      BY <3>1 DEF OneEach
  <2> QED
    BY <2>1, <2>2 DEF OneEach, InSeq
<1> QED
  BY <1>1, <1>5, <1>7, <1>8

(* A goroutine takes a record, or is rid of it.                            *)
LEMMA Takes ==
  ASSUME LogTyped, NEW f \in L!Filters, NEW i \in Threads, NEW r,
         hand[<<f, i>>] = None, r # None, hand' = [hand EXCEPT ![<<f, i>>] = r]
  PROVE  L!Held(f)' = L!Held(f) \cup {r}
<1>1. \A j \in Threads : <<f, j>> \in L!Goroutines
  BY DEF L!Goroutines
<1>2. \A j \in Threads : hand'[<<f, j>>] = IF j = i THEN r ELSE hand[<<f, j>>]
  BY <1>1 DEF LogTyped
<1>3. L!Held(f)' = {hand'[<<f, j>>] : j \in Threads} \ {None}
  BY DEF L!Held
<1>4. L!Held(f) = {hand[<<f, j>>] : j \in Threads} \ {None}
  BY DEF L!Held
<1>5. ASSUME NEW x \in L!Held(f)' PROVE x \in L!Held(f) \cup {r}
  <2>1. PICK j \in Threads : x = hand'[<<f, j>>]
    BY <1>3
  <2> QED
    BY <1>2, <1>3, <1>4, <2>1
<1>6. ASSUME NEW x \in L!Held(f) PROVE x \in L!Held(f)'
  <2>1. PICK j \in Threads : x = hand[<<f, j>>]
    BY <1>4
  <2> QED
    BY <1>2, <1>3, <1>4, <2>1
<1>7. r \in L!Held(f)'
  BY <1>2, <1>3
<1> QED
  BY <1>5, <1>6, <1>7

(* A goroutine is rid of its record: no other of the filter has it.        *)
LEMMA Gives ==
  ASSUME LogTyped, NEW f \in L!Filters, NEW i \in Threads,
         hand[<<f, i>>] # None, hand' = [hand EXCEPT ![<<f, i>>] = None]
  PROVE  /\ L!Held(f) = L!Held(f)' \cup {hand[<<f, i>>]}
         /\ OnePlace(f) => hand[<<f, i>>] \notin L!Held(f)'
<1> DEFINE r == hand[<<f, i>>]
<1>1. \A j \in Threads : <<f, j>> \in L!Goroutines
  BY DEF L!Goroutines
<1>2. \A j \in Threads : hand'[<<f, j>>] = IF j = i THEN None ELSE hand[<<f, j>>]
  BY <1>1 DEF LogTyped
<1>3. L!Held(f)' = {hand'[<<f, j>>] : j \in Threads} \ {None}
  BY DEF L!Held
<1>4. L!Held(f) = {hand[<<f, j>>] : j \in Threads} \ {None}
  BY DEF L!Held
<1>5. ASSUME NEW x \in L!Held(f) PROVE x \in L!Held(f)' \cup {r}
  <2>1. PICK j \in Threads : x = hand[<<f, j>>]
    BY <1>4
  <2> QED
    BY <1>2, <1>3, <1>4, <2>1
<1>6. ASSUME NEW x \in L!Held(f)' PROVE x \in L!Held(f)
  <2>1. PICK j \in Threads : x = hand'[<<f, j>>]
    BY <1>3
  <2> QED
    BY <1>2, <1>3, <1>4, <2>1
<1>7. r \in L!Held(f)
  BY <1>4
<1>8. ASSUME OnePlace(f), r \in L!Held(f)' PROVE FALSE
  <2>1. PICK j \in Threads : r = hand'[<<f, j>>] /\ r # None
    BY <1>3, <1>8
  <2>2. j # i /\ hand[<<f, j>>] = r
    BY <1>2, <2>1
  <2> QED
    BY <1>8, <2>1, <2>2 DEF OnePlace
<1> QED
  BY <1>5, <1>6, <1>7, <1>8

(* Nothing of a filter changes.                                            *)
Fixed(f) ==
  /\ chan'[f] = chan[f] /\ given'[f] = given[f] /\ written'[f] = written[f] /\ L!Lost(f)' = L!Lost(f)
  /\ \A i \in Threads : hand'[<<f, i>>] = hand[<<f, i>>]
  /\ f \in failed => f \in failed'
  /\ f \in twice' => f \in twice

(* A filter of which nothing changes stays right.                          *)
LEMMA FixedRight ==
  ASSUME NEW f, Fixed(f), FilterRight(f)
  PROVE  FilterRight(f)'
<1>1. L!Held(f)' = L!Held(f)
  BY DEF L!Held, Fixed
<1> QED
  BY <1>1 DEF Fixed, FilterRight, Somewhere, OnePlace

(* A step of a goroutine <<f, i>>, which other filters do not notice.      *)
LEMMA GoroutineRight ==
  ASSUME LogInv, NEW f \in L!Filters, UNCHANGED <<log, told, todo, given>>,
         LogTyped', HandsRight', \A o \in L!Filters \ {f} : Fixed(o), FilterRight(f)'
  PROVE  LogInv'
<1>1. GivenRight'
  BY DEF GivenRight, LogInv, L!Filters
<1>2. ASSUME NEW o \in L!Filters PROVE FilterRight(o)'
  <2>1. CASE o = f
    BY <2>1
  <2>2. CASE o # f
    BY <2>2, FixedRight DEF LogInv
  <2> QED
    BY <2>1, <2>2
<1>3. L!Filters' = L!Filters
  BY DEF L!Filters
<1> QED
  BY <1>1, <1>2, <1>3 DEF LogInv

(* What a goroutine moves to, and whether a failure is known by then.      *)
LEMMA MovesRight ==
  ASSUME LogInv, log' = log, NEW g \in L!Goroutines, NEW r \in Records \cup {None},
         NEW to \in Busy \cup {"read", "sleep", "stop"},
         at' = [at EXCEPT ![g] = to], hand' = [hand EXCEPT ![g] = r], to \in Busy <=> r # None,
         failed \subseteq failed',
         g[1] \in failed' \/ (to \in {"read", "write"} /\ conn' = conn),
         \A h \in L!Goroutines : h # g => (h \in conn => h \in conn')
  PROVE  /\ HandsRight'
         /\ at' \in [L!Goroutines -> Busy \cup {"read", "sleep", "stop"}]
         /\ hand' \in [L!Goroutines -> Records \cup {None}]
<1>1. at' \in [L!Goroutines -> Busy \cup {"read", "sleep", "stop"}] /\ hand' \in [L!Goroutines -> Records \cup {None}]
  BY DEF LogInv, LogTyped
<1>2. L!Goroutines' = L!Goroutines
  BY DEF L!Goroutines, L!Filters
<1>3. ASSUME NEW h \in L!Goroutines
      PROVE  /\ at'[h] \in Busy => hand'[h] # None
             /\ hand'[h] # None => at'[h] \in Busy
             /\ h[1] \notin failed' => at'[h] \in {"read", "write", "stop"} /\ (L!Syslog(h)' => h \in conn')
  <2>1. L!Syslog(h)' <=> L!Syslog(h)
    BY DEF L!Syslog
  <2>2. /\ at[h] \in Busy => hand[h] # None
        /\ hand[h] # None => at[h] \in Busy
        /\ h[1] \notin failed => at[h] \in {"read", "write", "stop"} /\ (L!Syslog(h) => h \in conn)
    BY DEF LogInv, HandsRight
  <2>3. CASE h = g
    <3>1. at'[h] = to /\ hand'[h] = r
      BY <2>3 DEF LogInv, LogTyped
    <3> QED
      BY <2>1, <2>2, <2>3, <3>1
  <2>4. CASE h # g
    <3>1. at'[h] = at[h] /\ hand'[h] = hand[h]
      BY <2>4 DEF LogInv, LogTyped
    <3> QED
      BY <2>1, <2>2, <2>4, <3>1
  <2> QED
    BY <2>3, <2>4
<1> QED
  BY <1>1, <1>2, <1>3 DEF HandsRight

(* A goroutine takes the first record of its channel.                      *)
LEMMA ReadRight ==
  ASSUME NoneApart, LogInv, NEW f \in L!Filters, NEW i \in Threads, L!Read(<<f, i>>)
  PROVE  LogInv'
<1> DEFINE g == <<f, i>>
<1>0. /\ chan[f] # <<>> /\ at[g] = "read" /\ at' = [at EXCEPT ![g] = "write"]
      /\ hand' = [hand EXCEPT ![g] = Head(chan[f])] /\ chan' = [chan EXCEPT ![f] = Tail(chan[f])]
      /\ UNCHANGED <<log, told, todo, given, conn, written, twice, dropped, failed>>
  BY DEF L!Read, L!Move
<1>1. g \in L!Goroutines /\ LogTyped /\ FilterRight(f)
  BY DEF L!Goroutines, LogInv
<1>2. PICK r : r = Head(chan[f])
  OBVIOUS
<1>3. /\ r \in Records /\ Tail(chan[f]) \in Seq(Records) /\ InSeq(chan[f]) = InSeq(Tail(chan[f])) \cup {r}
      /\ OneEach(chan[f]) => OneEach(Tail(chan[f])) /\ r \notin InSeq(Tail(chan[f]))
  <2>1. PICK c : c = chan[f]
    OBVIOUS
  <2>2. c \in Seq(Records) /\ c # <<>>
    BY <1>0, <1>1, <2>1 DEF LogTyped
  <2> QED
    BY <1>2, <2>1, <2>2, OneLess
<1>4. r # None /\ hand[g] = None
  BY <1>0, <1>1, <1>3 DEF NoneApart, LogInv, HandsRight, Busy
<1>5. chan'[f] = Tail(chan[f])
  BY <1>0, <1>1 DEF LogTyped
<1>6. L!Held(f)' = L!Held(f) \cup {r}
  BY <1>0, <1>1, <1>2, <1>4, Takes
<1>7. L!Lost(f)' = L!Lost(f) /\ written'[f] = written[f] /\ given'[f] = given[f]
  BY <1>0 DEF L!Lost
<1>8. FilterRight(f)'
  <2>1. Somewhere(f)'
    BY <1>1, <1>3, <1>5, <1>6, <1>7 DEF FilterRight, Somewhere
  <2>2. ASSUME f \notin failed' PROVE OnePlace(f)'
    <3>1. OnePlace(f)
      BY <1>0, <1>1, <2>2 DEF FilterRight
    <3>2. \A j \in Threads : <<f, j>> \in L!Goroutines /\ (hand[<<f, j>>] # None => hand[<<f, j>>] \in L!Held(f))
      BY DEF L!Goroutines, L!Held
    <3>3. \A j \in Threads : hand'[<<f, j>>] = IF j = i THEN r ELSE hand[<<f, j>>]
      BY <1>0, <1>1, <1>2, <3>2 DEF LogTyped
    <3>4. r \notin L!Held(f) /\ r \notin written[f]
      BY <1>3, <3>1 DEF OnePlace
    <3>5. \A j, k \in Threads : hand'[<<f, j>>] = hand'[<<f, k>>] /\ hand'[<<f, j>>] # None => j = k
      BY <3>1, <3>2, <3>3, <3>4 DEF OnePlace
    <3> QED
      BY <1>0, <1>3, <1>5, <1>6, <1>7, <3>1, <3>4, <3>5 DEF OnePlace
  <2> QED
    BY <2>1, <2>2 DEF FilterRight
<1>9. HandsRight' /\ LogTyped'
  <2>1. "write" \in Busy /\ r \in Records \cup {None}
    BY <1>3 DEF Busy
  <2>2. /\ HandsRight' /\ hand' \in [L!Goroutines -> Records \cup {None}]
        /\ at' \in [L!Goroutines -> Busy \cup {"read", "sleep", "stop"}]
    BY <1>0, <1>1, <1>2, <1>4, <2>1, MovesRight
  <2>3. chan' \in [L!Filters -> Seq(Records)]
    BY <1>0, <1>1, <1>3 DEF LogTyped
  <2> QED
    BY <1>0, <1>1, <2>2, <2>3 DEF LogTyped, L!Filters, L!Goroutines
<1>10. ASSUME NEW o \in L!Filters \ {f} PROVE Fixed(o)
  <2>1. \A j \in Threads : <<o, j>> \in L!Goroutines /\ <<o, j>> # g
    BY DEF L!Goroutines
  <2> QED
    BY <1>0, <1>1, <2>1 DEF Fixed, LogTyped, L!Lost
<1> QED
  BY <1>0, <1>8, <1>9, <1>10, GoroutineRight

(* A goroutine has written its record.                                     *)
LEMMA WrittenRight ==
  ASSUME NoneApart, LogInv, NEW f \in L!Filters, NEW i \in Threads, at[<<f, i>>] \in Busy,
         at' = [at EXCEPT ![<<f, i>>] = "read"], L!Written(<<f, i>>),
         UNCHANGED <<log, told, todo, chan, given, conn, dropped, failed>>
  PROVE  LogInv'
<1> DEFINE g == <<f, i>>
<1>1. g \in L!Goroutines /\ LogTyped /\ FilterRight(f)
  BY DEF L!Goroutines, LogInv
<1>2. PICK r : r = hand[g]
  OBVIOUS
<1>3. r # None /\ r \in Records
  BY <1>1, <1>2 DEF LogInv, HandsRight, LogTyped
<1>4. /\ hand' = [hand EXCEPT ![g] = None] /\ written' = [written EXCEPT ![f] = written[f] \cup {r}]
      /\ r \notin written[f] => twice' = twice
      /\ twice' \subseteq twice \cup {f}
  BY <1>2 DEF L!Written, L!Output
<1>5. L!Held(f) = L!Held(f)' \cup {r} /\ (OnePlace(f) => r \notin L!Held(f)')
  BY <1>1, <1>2, <1>3, <1>4, Gives
<1>6. L!Lost(f)' = L!Lost(f) /\ written'[f] = written[f] \cup {r}
  BY <1>1, <1>4 DEF L!Lost, LogTyped
<1>7. FilterRight(f)'
  <2>1. Somewhere(f)'
    BY <1>1, <1>5, <1>6 DEF FilterRight, Somewhere
  <2>2. ASSUME f \notin failed' PROVE OnePlace(f)'
    <3>1. OnePlace(f)
      BY <1>1, <2>2 DEF FilterRight
    <3>2. r \notin written[f] /\ r \notin InSeq(chan[f])
      BY <1>5, <3>1 DEF OnePlace
    <3>3. \A j \in Threads : <<f, j>> \in L!Goroutines
      BY DEF L!Goroutines
    <3>4. \A j \in Threads : hand'[<<f, j>>] = IF j = i THEN None ELSE hand[<<f, j>>]
      BY <1>1, <1>4, <3>3 DEF LogTyped
    <3>5. \A j, k \in Threads : hand'[<<f, j>>] = hand'[<<f, k>>] /\ hand'[<<f, j>>] # None => j = k
      BY <3>1, <3>4 DEF OnePlace
    <3> QED
      BY <1>4, <1>5, <1>6, <3>1, <3>2, <3>5 DEF OnePlace
  <2> QED
    BY <2>1, <2>2 DEF FilterRight
<1>8. HandsRight' /\ LogTyped'
  <2>1. "read" \notin Busy
    BY DEF Busy
  <2>2. /\ HandsRight' /\ hand' \in [L!Goroutines -> Records \cup {None}]
        /\ at' \in [L!Goroutines -> Busy \cup {"read", "sleep", "stop"}]
    BY <1>1, <1>4, <2>1, MovesRight
  <2>3. written' \in [L!Filters -> SUBSET Records]
    BY <1>1, <1>3, <1>4 DEF LogTyped
  <2> QED
    BY <1>1, <2>2, <2>3 DEF LogTyped, L!Filters, L!Goroutines
<1>9. ASSUME NEW o \in L!Filters \ {f} PROVE Fixed(o)
  <2>1. \A j \in Threads : <<o, j>> \in L!Goroutines /\ <<o, j>> # g
    BY DEF L!Goroutines
  <2> QED
    BY <1>1, <1>4, <2>1 DEF Fixed, LogTyped, L!Lost
<1> QED
  BY <1>7, <1>8, <1>9, GoroutineRight

(* It goes on with it to another attempt, after a failure; a write that    *)
(* failed may have been received.                                          *)
LEMMA AttemptRight ==
  ASSUME LogInv, NEW f \in L!Filters, NEW i \in Threads, NEW to \in Busy \cup {"read"},
         to = "read" => at[<<f, i>>] = "sleep", to # "read" => at[<<f, i>>] \in Busy,
         at' = [at EXCEPT ![<<f, i>>] = to], f \in failed', failed \subseteq failed',
         conn' \in {conn, conn \cup {<<f, i>>}, conn \ {<<f, i>>}},
         (UNCHANGED <<written, twice>>) \/ (L!Output(<<f, i>>) /\ to # "read"),
         UNCHANGED <<log, told, todo, chan, given, hand, dropped>>
  PROVE  LogInv'
<1> DEFINE g == <<f, i>>
<1>1. g \in L!Goroutines /\ LogTyped /\ FilterRight(f)
  BY DEF L!Goroutines, LogInv
<1>2. PICK r : r = hand[g]
  OBVIOUS
<1>3. r \in Records \cup {None} /\ (to \in Busy <=> r # None)
  <2>1. at[g] \in Busy <=> r # None
    BY <1>1, <1>2 DEF LogInv, HandsRight
  <2> QED
    BY <1>1, <1>2, <2>1 DEF LogTyped, Busy
<1>4. hand' = [hand EXCEPT ![g] = r]
  BY <1>1, <1>2 DEF LogTyped
<1>5. \/ UNCHANGED <<written, twice>>
      \/ /\ r # None /\ written' = [written EXCEPT ![f] = written[f] \cup {r}]
         /\ twice' \subseteq twice \cup {f}
  BY <1>2, <1>3 DEF L!Output
<1>6. r # None => r \in L!Held(f)
  BY <1>2 DEF L!Held
<1>7. L!Held(f)' = L!Held(f) /\ L!Lost(f)' = L!Lost(f)
  BY DEF L!Held, L!Lost
<1>8. FilterRight(f)'
  <2>1. written'[f] \in {written[f], written[f] \cup {r}} /\ (r = None => written'[f] = written[f])
    BY <1>1, <1>5 DEF LogTyped
  <2>2. Somewhere(f)'
    BY <1>1, <1>6, <1>7, <2>1 DEF FilterRight, Somewhere
  <2> QED
    BY <2>2 DEF FilterRight
<1>9. HandsRight' /\ LogTyped'
  <2>1. /\ HandsRight' /\ hand' \in [L!Goroutines -> Records \cup {None}]
        /\ at' \in [L!Goroutines -> Busy \cup {"read", "sleep", "stop"}]
    BY <1>1, <1>3, <1>4, MovesRight
  <2>2. written' \in [L!Filters -> SUBSET Records]
    <3>1. CASE written' = written
      BY <1>1, <3>1 DEF LogTyped
    <3>2. CASE r # None /\ written' = [written EXCEPT ![f] = written[f] \cup {r}]
      <4>1. r \in Records
        BY <1>3, <3>2
      <4> QED
        BY <1>1, <3>2, <4>1 DEF LogTyped
    <3> QED
      BY <1>5, <3>1, <3>2
  <2> QED
    BY <1>1, <2>1, <2>2 DEF LogTyped, L!Filters, L!Goroutines
<1>10. ASSUME NEW o \in L!Filters \ {f} PROVE Fixed(o)
  BY <1>1, <1>5 DEF Fixed, LogTyped, L!Lost
<1> QED
  BY <1>8, <1>9, <1>10, GoroutineRight

(* It loses it: a file's or a console's write failed.                      *)
LEMMA WriteFailsRight ==
  ASSUME LogInv, NEW f \in L!Filters, NEW i \in Threads, L!WriteFails(<<f, i>>)
  PROVE  LogInv'
<1> DEFINE g == <<f, i>>
<1>0. /\ at[g] = "write" /\ dropped' = dropped \cup {<<f, hand[g]>>} /\ failed' = failed \cup {f}
      /\ hand' = [hand EXCEPT ![g] = None]
      /\ UNCHANGED <<log, told, todo, chan, given, conn, written, twice>>
  BY DEF L!WriteFails, L!Move
<1>1. PICK to \in {"stop", "read"} : at' = [at EXCEPT ![g] = to]
  BY DEF L!WriteFails, L!Move, L!AfterFailure
<1>2. g \in L!Goroutines /\ LogTyped /\ FilterRight(f)
  BY DEF L!Goroutines, LogInv
<1>3. PICK r : r = hand[g]
  OBVIOUS
<1>4. r # None
  BY <1>0, <1>2, <1>3 DEF LogInv, HandsRight, Busy
<1>5. L!Held(f) = L!Held(f)' \cup {r}
  BY <1>0, <1>2, <1>3, <1>4, Gives
<1>6. L!Lost(f)' = L!Lost(f) \cup {r}
  <2>1. L!Lost(f) = {d[2] : d \in {x \in dropped : x[1] = f}}
    BY DEF L!Lost
  <2>2. L!Lost(f)' = {d[2] : d \in {x \in dropped' : x[1] = f}}
    BY DEF L!Lost
  <2>3. dropped' = dropped \cup {<<f, r>>} /\ <<f, r>>[1] = f /\ <<f, r>>[2] = r
    BY <1>0, <1>3
  <2>4. ASSUME NEW y \in L!Lost(f)' PROVE y \in L!Lost(f) \cup {r}
    <3>1. PICK d \in dropped' : d[1] = f /\ y = d[2]
      BY <2>2
    <3>2. CASE d \in dropped
      BY <2>1, <3>1, <3>2
    <3>3. CASE d = <<f, r>>
      BY <2>3, <3>1, <3>3
    <3> QED
      BY <2>3, <3>2, <3>3
  <2>5. ASSUME NEW y \in L!Lost(f) PROVE y \in L!Lost(f)'
    BY <2>1, <2>2, <2>3
  <2>6. r \in L!Lost(f)'
    BY <2>2, <2>3
  <2> QED
    BY <2>4, <2>5, <2>6
<1>7. FilterRight(f)'
  BY <1>0, <1>2, <1>5, <1>6 DEF FilterRight, Somewhere
<1>8. HandsRight' /\ LogTyped'
  <2>1. to \notin Busy /\ to \in Busy \cup {"read", "sleep", "stop"}
    BY DEF Busy
  <2>2. /\ HandsRight' /\ hand' \in [L!Goroutines -> Records \cup {None}]
        /\ at' \in [L!Goroutines -> Busy \cup {"read", "sleep", "stop"}]
    BY <1>0, <1>1, <1>2, <2>1, MovesRight
  <2> QED
    BY <1>0, <1>2, <2>2 DEF LogTyped, L!Filters, L!Goroutines
<1>9. ASSUME NEW o \in L!Filters \ {f} PROVE Fixed(o)
  <2>1. \A j \in Threads : <<o, j>> \in L!Goroutines /\ <<o, j>> # g
    BY DEF L!Goroutines
  <2>2. {x \in dropped' : x[1] = o} = {x \in dropped : x[1] = o}
    BY <1>0
  <2> QED
    BY <1>0, <1>2, <2>1, <2>2 DEF Fixed, LogTyped, L!Lost
<1> QED
  BY <1>0, <1>7, <1>8, <1>9, GoroutineRight

(* It puts it back into the channel.                                       *)
LEMMA BackRight ==
  ASSUME LogInv, NEW f \in L!Filters, NEW i \in Threads, L!Back(<<f, i>>)
  PROVE  LogInv'
<1> DEFINE g == <<f, i>>
<1>0. /\ at[g] = "back" /\ at' = [at EXCEPT ![g] = "sleep"]
      /\ chan' = [chan EXCEPT ![f] = Append(chan[f], hand[g])] /\ hand' = [hand EXCEPT ![g] = None]
      /\ UNCHANGED <<log, told, todo, given, conn, written, twice, dropped, failed>>
  BY DEF L!Back, L!BackTo, L!Move
<1>1. g \in L!Goroutines /\ LogTyped /\ FilterRight(f)
  BY DEF L!Goroutines, LogInv
<1>2. PICK r : r = hand[g]
  OBVIOUS
<1>3. r # None /\ r \in Records /\ f \in failed
  BY <1>0, <1>1, <1>2 DEF LogInv, HandsRight, LogTyped, Busy
<1>4. L!Held(f) = L!Held(f)' \cup {r}
  BY <1>0, <1>1, <1>2, <1>3, Gives
<1>5. InSeq(chan'[f]) = InSeq(chan[f]) \cup {r} /\ chan' \in [L!Filters -> Seq(Records)]
  <2>1. PICK c : c = chan[f]
    OBVIOUS
  <2>2. c \in Seq(Records)
    BY <1>1, <2>1 DEF LogTyped
  <2>3. InSeq(Append(c, r)) = InSeq(c) \cup {r} /\ Append(c, r) \in Seq(Records)
    BY <1>3, <2>2, OneMore, AppendProperties
  <2>4. chan' = [chan EXCEPT ![f] = Append(c, r)]
    BY <1>0, <1>2, <2>1
  <2>5. chan'[f] = Append(c, r)
    BY <1>1, <2>4 DEF LogTyped
  <2> QED
    BY <1>1, <2>1, <2>3, <2>4, <2>5 DEF LogTyped
<1>6. FilterRight(f)'
  <2>1. L!Lost(f)' = L!Lost(f)
    BY <1>0 DEF L!Lost
  <2> QED
    BY <1>0, <1>1, <1>3, <1>4, <1>5, <2>1 DEF FilterRight, Somewhere
<1>7. HandsRight' /\ LogTyped'
  <2>1. "sleep" \notin Busy
    BY DEF Busy
  <2>2. /\ HandsRight' /\ hand' \in [L!Goroutines -> Records \cup {None}]
        /\ at' \in [L!Goroutines -> Busy \cup {"read", "sleep", "stop"}]
    BY <1>0, <1>1, <1>3, <2>1, MovesRight
  <2> QED
    BY <1>0, <1>1, <1>5, <2>2 DEF LogTyped, L!Filters, L!Goroutines
<1>8. ASSUME NEW o \in L!Filters \ {f} PROVE Fixed(o)
  <2>1. \A j \in Threads : <<o, j>> \in L!Goroutines /\ <<o, j>> # g
    BY DEF L!Goroutines
  <2> QED
    BY <1>0, <1>1, <2>1 DEF Fixed, LogTyped, L!Lost
<1> QED
  BY <1>0, <1>6, <1>7, <1>8, GoroutineRight

(* A sender gives its record to a filter.                                  *)
LEMMA LogWriteRight ==
  ASSUME NoneApart, LogInv, NEW s \in Senders, NEW f \in L!Filters, L!LogWrite(s, f)
  PROVE  LogInv'
<1>1. PICK n : n = told[s]
  OBVIOUS
<1>2. PICK r : r = <<s, n>>
  OBVIOUS
<1>3. LogTyped /\ FilterRight(f) /\ GivenRight
  BY DEF LogInv
<1>4. n \in Nat /\ r \in Records
  BY <1>1, <1>2, <1>3 DEF LogTyped, Records
<1>5. /\ f \in todo[s] /\ chan' = [chan EXCEPT ![f] = Append(chan[f], r)]
      /\ given' = [given EXCEPT ![f] = given[f] \cup {r}] /\ todo' = [todo EXCEPT ![s] = todo[s] \ {f}]
      /\ UNCHANGED <<log, told, at, hand, conn, written, twice, dropped, failed>>
  BY <1>1, <1>2 DEF L!LogWrite
<1>6. r \notin given[f]
  <2>1. <<s, n>> \in given[f] => n < told[s]
    BY <1>3, <1>4, <1>5 DEF GivenRight
  <2> QED
    BY <1>1, <1>2, <1>4, <2>1
<1>7. /\ InSeq(chan[f])' = InSeq(chan[f]) \cup {r} /\ chan' \in [L!Filters -> Seq(Records)]
      /\ OneEach(chan[f]) /\ r \notin InSeq(chan[f]) => OneEach(chan[f])'
  <2>1. PICK c : c = chan[f]
    OBVIOUS
  <2>2. c \in Seq(Records)
    BY <1>3, <2>1 DEF LogTyped
  <2>3. /\ InSeq(Append(c, r)) = InSeq(c) \cup {r} /\ Append(c, r) \in Seq(Records)
        /\ OneEach(c) /\ r \notin InSeq(c) => OneEach(Append(c, r))
    BY <1>4, <2>2, OneMore, AppendProperties
  <2>4. chan' = [chan EXCEPT ![f] = Append(c, r)]
    BY <1>5, <2>1
  <2>5. chan'[f] = Append(c, r)
    BY <1>3, <2>4 DEF LogTyped
  <2> QED
    BY <1>3, <2>1, <2>3, <2>4, <2>5 DEF LogTyped
<1>8. given'[f] = given[f] \cup {r} /\ L!Held(f)' = L!Held(f) /\ L!Lost(f)' = L!Lost(f)
  BY <1>3, <1>5 DEF LogTyped, L!Held, L!Lost
<1>9. FilterRight(f)'
  <2>1. Somewhere(f)'
    BY <1>3, <1>5, <1>7, <1>8 DEF FilterRight, Somewhere
  <2>2. ASSUME f \notin failed' PROVE OnePlace(f)'
    <3>1. OnePlace(f)
      BY <1>3, <1>5, <2>2 DEF FilterRight
    <3>2. r \notin InSeq(chan[f]) /\ r \notin L!Held(f) /\ r \notin written[f]
      BY <1>3, <1>6 DEF FilterRight, Somewhere
    <3> QED
      BY <1>5, <1>7, <1>8, <3>1, <3>2 DEF OnePlace
  <2> QED
    BY <2>1, <2>2 DEF FilterRight
<1>10. ASSUME NEW o \in L!Filters \ {f} PROVE Fixed(o)
  BY <1>3, <1>5 DEF Fixed, LogTyped, L!Lost
<1>11. ASSUME NEW o \in L!Filters PROVE FilterRight(o)'
  <2>1. CASE o = f
    BY <1>9, <2>1
  <2>2. CASE o # f
    BY <1>10, <2>2, FixedRight DEF LogInv
  <2> QED
    BY <2>1, <2>2
<1>12. ASSUME NEW o \in L!Filters
       PROVE  /\ IsFiniteSet(given'[o])
              /\ \A t \in Senders, m \in Nat : <<t, m>> \in given'[o] => m <= told[t] /\ (o \in todo'[t] => m < told[t])
  <2>1. IsFiniteSet(given[o])
        /\ \A t \in Senders, m \in Nat : <<t, m>> \in given[o] => m <= told[t] /\ (o \in todo[t] => m < told[t])
    BY <1>3 DEF GivenRight
  <2>2. \A t \in Senders : todo'[t] = IF t = s THEN todo[s] \ {f} ELSE todo[t]
    BY <1>3, <1>5 DEF LogTyped
  <2>3. CASE o = f
    <3>1. IsFiniteSet(given'[o])
      BY <1>8, <2>1, <2>3, FS_AddElement
    <3>2. ASSUME NEW t \in Senders, NEW m \in Nat, <<t, m>> \in given'[o]
          PROVE  m <= told[t] /\ (o \in todo'[t] => m < told[t])
      <4>1. CASE <<t, m>> = r
        BY <1>1, <1>2, <1>4, <2>2, <2>3, <4>1
      <4>2. CASE <<t, m>> \in given[f]
        BY <2>1, <2>2, <2>3, <4>2
      <4> QED
        BY <1>8, <2>3, <3>2, <4>1, <4>2
    <3> QED
      BY <3>1, <3>2
  <2>4. CASE o # f
    <3>1. given'[o] = given[o]
      BY <1>3, <1>5, <2>4 DEF LogTyped
    <3> QED
      BY <2>1, <2>2, <2>4, <3>1
  <2> QED
    BY <2>3, <2>4
<1>13. L!Filters' = L!Filters /\ L!Goroutines' = L!Goroutines
  BY <1>5 DEF L!Filters, L!Goroutines
<1>14. LogTyped'
  <2>1. given' \in [L!Filters -> SUBSET Records] /\ todo' \in [Senders -> SUBSET L!Filters]
    BY <1>3, <1>4, <1>5 DEF LogTyped
  <2> QED
    BY <1>3, <1>5, <1>7, <1>13, <2>1 DEF LogTyped
<1>15. HandsRight'
  BY <1>5, <1>13 DEF HandsRight, LogInv, L!Syslog
<1>16. GivenRight'
  BY <1>5, <1>12, <1>13 DEF GivenRight
<1> QED
  BY <1>11, <1>13, <1>14, <1>15, <1>16 DEF LogInv

(* It makes one.                                                           *)
LEMMA LogRight ==
  ASSUME LogInv, NEW s \in Senders, NEW level \in Levels, L!Log(s, level)
  PROVE  LogInv'
<1>0. /\ told' = [told EXCEPT ![s] = told[s] + 1]
      /\ todo' = [todo EXCEPT ![s] = {f \in L!Filters : level \in log[f].levels}]
      /\ UNCHANGED <<log, chan, given, at, hand, conn, written, twice, dropped, failed>>
  BY DEF L!Log
<1>1. L!Filters' = L!Filters /\ L!Goroutines' = L!Goroutines
  BY <1>0 DEF L!Filters, L!Goroutines
<1>2. LogTyped
  BY DEF LogInv
<1>3. LogTyped'
  BY <1>0, <1>1, <1>2 DEF LogTyped
<1>4. HandsRight'
  BY <1>0, <1>1 DEF HandsRight, LogInv, L!Syslog
<1>5. GivenRight'
  <2> SUFFICES ASSUME NEW f \in L!Filters
               PROVE  /\ IsFiniteSet(given'[f])
                      /\ \A t \in Senders, m \in Nat : <<t, m>> \in given'[f] =>
                           m <= told'[t] /\ (f \in todo'[t] => m < told'[t])
    BY <1>1 DEF GivenRight
  <2>1. IsFiniteSet(given[f])
        /\ \A t \in Senders, m \in Nat : <<t, m>> \in given[f] => m <= told[t] /\ (f \in todo[t] => m < told[t])
    BY DEF LogInv, GivenRight
  <2>2. \A t \in Senders : told[t] \in Nat /\ (t # s => told'[t] = told[t] /\ todo'[t] = todo[t])
    BY <1>0, <1>2 DEF LogTyped
  <2>3. told'[s] = told[s] + 1
    BY <1>0, <1>2 DEF LogTyped
  <2>4. ASSUME NEW t \in Senders, NEW m \in Nat, <<t, m>> \in given'[f]
        PROVE  m <= told'[t] /\ (f \in todo'[t] => m < told'[t])
    <3>1. m <= told[t] /\ (f \in todo[t] => m < told[t])
      BY <1>0, <2>1, <2>4
    <3>2. CASE t = s
      BY <2>2, <2>3, <3>1, <3>2
    <3>3. CASE t # s
      BY <2>2, <3>1, <3>3
    <3> QED
      BY <3>2, <3>3
  <2> QED
    BY <1>0, <2>1, <2>4
<1>6. \A f \in L!Filters : FilterRight(f)'
  BY <1>0, FixedRight DEF Fixed, L!Lost, LogInv
<1> QED
  BY <1>1, <1>3, <1>4, <1>5, <1>6 DEF LogInv

(* Every step of a goroutine of a writer.                                  *)
LEMMA RunRight ==
  ASSUME NoneApart, LogInv, NEW f \in L!Filters, NEW i \in Threads, L!Run(<<f, i>>)
  PROVE  LogInv'
<1> DEFINE g == <<f, i>>
<1>1. g \in L!Goroutines
  BY DEF L!Goroutines
<1>2. at[g] \in {"connect", "again", "back", "sleep"} => f \in failed
  BY <1>1 DEF LogInv, HandsRight
<1>3. {"write", "connect", "again", "back"} = Busy
  BY DEF Busy
<1>4. CASE L!Read(g)
  BY <1>4, ReadRight
<1>5. CASE L!WriteDone(g)
  BY <1>3, <1>5, WrittenRight DEF L!WriteDone, L!Move
<1>6. CASE L!WriteFails(g)
  BY <1>6, WriteFailsRight
<1>7. CASE L!SendFails(g)
  <2>1. /\ at[g] = "write" /\ at' = [at EXCEPT ![g] = "connect"]
        /\ UNCHANGED <<log, told, todo, chan, given, hand, conn, dropped>>
        /\ (UNCHANGED <<written, twice>>) \/ L!Output(g)
    BY <1>7 DEF L!SendFails, L!Move
  <2>2. failed \subseteq failed' /\ f \in failed'
    <3>1. L!Syslog(g) /\ failed' = IF g \in conn THEN failed \cup {f} ELSE failed
      BY <1>7 DEF L!SendFails
    <3>2. g \notin conn => f \in failed
      BY <1>1, <3>1 DEF LogInv, HandsRight
    <3> QED
      BY <3>1, <3>2
  <2> QED
    BY <1>3, <2>1, <2>2, AttemptRight
<1>8. CASE L!Connect(g)
  <2>1. /\ at[g] = "connect"
        /\ at' = [at EXCEPT ![g] = "again"] \/ at' = [at EXCEPT ![g] = "back"]
        /\ UNCHANGED <<log, told, todo, chan, given, hand, written, twice, dropped>>
        /\ conn' \in {conn \cup {g}, conn \ {g}} /\ failed \subseteq failed'
    BY <1>8 DEF L!Connect, L!Move
  <2>2. CASE at' = [at EXCEPT ![g] = "again"]
    BY <1>2, <1>3, <2>1, <2>2, AttemptRight
  <2>3. CASE at' = [at EXCEPT ![g] = "back"]
    BY <1>2, <1>3, <2>1, <2>3, AttemptRight
  <2> QED
    BY <2>1, <2>2, <2>3
<1>9. CASE L!SendAgain(g)
  <2>1. at[g] = "again" /\ UNCHANGED <<log, told, todo, chan, given, conn, dropped>>
    BY <1>9 DEF L!SendAgain, L!Move
  <2>2. \/ at' = [at EXCEPT ![g] = "read"] /\ L!Written(g) /\ UNCHANGED failed
        \/ at' = [at EXCEPT ![g] = "back"] /\ failed \subseteq failed' /\ UNCHANGED <<written, twice, hand>>
    BY <1>9 DEF L!SendAgain, L!Move
  <2>3. CASE at' = [at EXCEPT ![g] = "read"] /\ L!Written(g) /\ UNCHANGED failed
    BY <1>3, <2>1, <2>3, WrittenRight
  <2>4. CASE at' = [at EXCEPT ![g] = "back"] /\ failed \subseteq failed' /\ UNCHANGED <<written, twice, hand>>
    BY <1>2, <1>3, <2>1, <2>4, AttemptRight
  <2> QED
    BY <2>2, <2>3, <2>4
<1>10. CASE L!Back(g)
  BY <1>10, BackRight
<1>11. CASE L!Wake(g)
  BY <1>2, <1>11, AttemptRight DEF L!Wake, L!Move
<1> QED
  BY <1>4, <1>5, <1>6, <1>7, <1>8, <1>9, <1>10, <1>11 DEF L!Run

(* At first nothing is given to anybody.                                   *)
LEMMA LogInit == NoneApart /\ L!Init => LogInv
<1> SUFFICES ASSUME NoneApart, L!Init PROVE LogInv
  OBVIOUS
<1>1. /\ told = [s \in Senders |-> 0] /\ todo = [s \in Senders |-> {}]
      /\ chan = [f \in L!Filters |-> <<>>] /\ given = [f \in L!Filters |-> {}]
      /\ hand = [g \in L!Goroutines |-> None] /\ conn = {g \in L!Goroutines : L!Syslog(g)}
      /\ written = [f \in L!Filters |-> {}] /\ twice = {} /\ dropped = {} /\ failed = {}
      /\ at \in [L!Goroutines -> {"read", "stop"}]
  BY DEF L!Init
<1>2. LogTyped
  BY <1>1, EmptySeq DEF LogTyped
<1>3. HandsRight
  BY <1>1 DEF HandsRight, Busy
<1>4. GivenRight
  BY <1>1, FS_EmptySet DEF GivenRight
<1>5. ASSUME NEW f \in L!Filters PROVE FilterRight(f)
  <2>1. \A i \in Threads : hand[<<f, i>>] = None
    BY <1>1 DEF L!Goroutines
  <2>2. L!Held(f) = {} /\ L!Lost(f) = {}
    BY <1>1, <2>1 DEF L!Held, L!Lost
  <2>3. chan[f] = <<>> /\ written[f] = {} /\ given[f] = {}
    BY <1>1
  <2>4. InSeq(<<>>) = {} /\ OneEach(<<>>)
    BY DEF InSeq, OneEach
  <2> QED
    BY <1>1, <2>1, <2>2, <2>3, <2>4 DEF FilterRight, Somewhere, OnePlace
<1> QED
  BY <1>2, <1>3, <1>4, <1>5 DEF LogInv

(* Every step of senders and writers.                                      *)
LEMMA LogNext == NoneApart /\ LogInv /\ [L!Next]_L!vars => LogInv'
<1> SUFFICES ASSUME NoneApart, LogInv, [L!Next]_L!vars PROVE LogInv'
  OBVIOUS
<1>1. ASSUME NEW s \in Senders, NEW level \in Levels, L!Log(s, level) PROVE LogInv'
  BY <1>1, LogRight
<1>2. ASSUME NEW s \in Senders, NEW f \in L!Filters, L!LogWrite(s, f) PROVE LogInv'
  BY <1>2, LogWriteRight
<1>3. ASSUME NEW g \in L!Goroutines, L!Run(g) PROVE LogInv'
  <2>1. PICK f \in L!Filters, i \in Threads : g = <<f, i>>
    BY DEF L!Goroutines
  <2> QED
    BY <1>3, <2>1, RunRight
<1>4. CASE UNCHANGED L!vars
  <2>1. UNCHANGED <<log, told, todo, chan, given, at, hand, conn, written, twice, dropped, failed>>
    BY <1>4 DEF L!vars
  <2>2. L!Filters' = L!Filters /\ L!Goroutines' = L!Goroutines
    BY <2>1 DEF L!Filters, L!Goroutines
  <2>3. LogTyped' /\ HandsRight' /\ GivenRight'
    BY <2>1, <2>2 DEF LogInv, LogTyped, HandsRight, GivenRight, L!Syslog
  <2>4. \A f \in L!Filters : FilterRight(f)'
    BY <2>1, FixedRight DEF Fixed, L!Lost, LogInv
  <2> QED
    BY <2>2, <2>3, <2>4 DEF LogInv
<1> QED
  BY <1>1, <1>2, <1>3, <1>4 DEF L!Next, L!Give

(* A sequence without repetition is as long as the set of what is in it.   *)
LEMMA AsLong ==
  ASSUME NEW S, NEW s \in Seq(S), OneEach(s)
  PROVE  IsFiniteSet(InSeq(s)) /\ Cardinality(InSeq(s)) = Len(s)
<1>1. PICK n \in Nat : n = Len(s)
  BY LenProperties
<1>2. DOMAIN s = 1..n /\ s \in [1..n -> S]
  BY <1>1, LenProperties
<1>3. IsFiniteSet(1..n) /\ Cardinality(1..n) = n
  BY FS_Interval
<1>4. s \in Bijection(1..n, InSeq(s))
  <2>1. s \in [1..n -> InSeq(s)]
    BY <1>2 DEF InSeq
  <2>2. \A a, b \in 1..n : s[a] = s[b] => a = b
    BY <1>2 DEF OneEach
  <2>3. \A x \in InSeq(s) : \E a \in 1..n : s[a] = x
    BY <1>2 DEF InSeq
  <2> QED
    BY <2>1, <2>2, <2>3 DEF Bijection, Injection, Surjection, IsInjective
<1>5. ExistsBijection(1..n, InSeq(s))
  BY <1>4 DEF ExistsBijection
<1> QED
  BY <1>1, <1>3, <1>5, FS_Bijection

(* The loggers count as everybody does.                                    *)
LEMMA SameNumber == \A S : L!Cardinality(S) = Cardinality(S)
BY DEF L!Cardinality, Cardinality

(* A record that a filter was given is waiting, in the hands of a          *)
(* goroutine or written, and that once, unless a write failed; lost is     *)
(* only what a write failed with (wlog/syslog.go run, wlog/file.go run).   *)
THEOREM RecordsKept == ASSUME NoneApart PROVE L!Spec => []L!NothingLost
<1>1. LogInv => L!NothingLost
  <2> SUFFICES ASSUME LogInv, NEW f \in L!Filters
               PROVE  /\ given[f] = L!Waiting(f) \cup L!Held(f) \cup written[f] \cup L!Lost(f)
                      /\ f \notin failed =>
                           /\ Len(chan[f]) + Cardinality(L!Held(f)) + Cardinality(written[f]) = Cardinality(given[f])
                           /\ f \notin twice
    BY SameNumber DEF L!NothingLost
  <2>1. L!Waiting(f) = InSeq(chan[f])
    BY DEF L!Waiting, InSeq
  <2>2. given[f] = InSeq(chan[f]) \cup L!Held(f) \cup written[f] \cup L!Lost(f)
    BY DEF LogInv, FilterRight, Somewhere
  <2>3. ASSUME f \notin failed
        PROVE  /\ Len(chan[f]) + Cardinality(L!Held(f)) + Cardinality(written[f]) = Cardinality(given[f])
               /\ f \notin twice
    <3>1. OnePlace(f)
      BY <2>3 DEF LogInv, FilterRight
    <3>2. PICK c : c = chan[f]
      OBVIOUS
    <3>3. c \in Seq(Records) /\ OneEach(c)
      BY <3>1, <3>2 DEF LogInv, LogTyped, OnePlace
    <3>4. PICK W : W = InSeq(c)
      OBVIOUS
    <3>5. IsFiniteSet(W) /\ Cardinality(W) = Len(c) /\ Len(c) \in Nat
      BY <3>3, <3>4, AsLong, LenProperties
    <3>6. PICK H : H = L!Held(f)
      OBVIOUS
    <3>7. PICK X : X = written[f]
      OBVIOUS
    <3>8. PICK V : V = given[f]
      OBVIOUS
    <3>9. V = (W \cup H) \cup X /\ W \cap H = {} /\ (W \cup H) \cap X = {} /\ IsFiniteSet(V)
      BY <2>2, <3>1, <3>2, <3>4, <3>6, <3>7, <3>8 DEF OnePlace, LogInv, GivenRight
    <3>10. IsFiniteSet(H) /\ IsFiniteSet(X) /\ Cardinality(H) \in Nat /\ Cardinality(X) \in Nat
      <4>1. H \in SUBSET V /\ X \in SUBSET V
        BY <3>9
      <4> QED
        BY <3>9, <4>1, FS_Subset, FS_CardinalityType
    <3>11. IsFiniteSet(W \cup H) /\ Cardinality(W \cup H) = Cardinality(W) + Cardinality(H)
      <4>1. Cardinality(W \cap H) = 0
        BY <3>9, FS_EmptySet
      <4>2. /\ IsFiniteSet(W \cup H)
            /\ Cardinality(W \cup H) = Cardinality(W) + Cardinality(H) - Cardinality(W \cap H)
        BY <3>5, <3>10, FS_Union
      <4> QED
        BY <3>5, <3>10, <4>1, <4>2
    <3>12. Cardinality(V) = Cardinality(W \cup H) + Cardinality(X)
      <4>1. Cardinality((W \cup H) \cap X) = 0
        BY <3>9, FS_EmptySet
      <4>2. PICK Y : Y = W \cup H
        OBVIOUS
      <4>3. Cardinality(Y \cup X) = Cardinality(Y) + Cardinality(X) - Cardinality(Y \cap X)
        BY <3>10, <3>11, <4>2, FS_Union
      <4> QED
        BY <3>5, <3>9, <3>10, <3>11, <4>1, <4>2, <4>3
    <3>13. f \notin twice
      BY <3>1 DEF OnePlace
    <3> QED
      BY <3>2, <3>5, <3>6, <3>7, <3>8, <3>10, <3>11, <3>12, <3>13
  <2> QED
    BY <2>1, <2>2, <2>3
<1>2. L!Init => LogInv
  BY LogInit
<1>3. LogInv /\ [L!Next]_L!vars => LogInv'
  BY LogNext
<1> QED
  BY <1>1, <1>2, <1>3, PTL DEF L!Spec

-----------------------------------------------------------------------------
(* The files of the logs: a record is in one for the days it is kept *)

CONSTANTS Writers, Prefixes, Configs, MaxNumber, DayLength, MonthLength, Sizes, MaxTime, MaxWrites
VARIABLES rotation, now, files, curSize, openDay, linked, alive, sweeps, recorded, overrun

F == INSTANCE LogFiles WITH cfg <- rotation, written <- recorded

Days == {0} \cup {F!Day(i) : i \in Nat}
Name == [of : Writers, day : Days, num : Nat]
Rotation == [daily : BOOLEAN, maxsize : Nat, maxdays : Nat]
Record == [of : Writers, n : Nat, at : Nat]
Sweep == [by : Writers, n : Nat, at : Nat, left : SUBSET (Name \cup {None}), old : Name \cup {None}]

(* A day takes some time, and no name of a file is the null value.         *)
FilesApart ==
  DayLength \in Nat \ {0} /\ MaxNumber \in Nat /\ Configs \subseteq [Writers -> Rotation] /\ None \notin Name

FilesTyped ==
  /\ rotation \in [Writers -> Rotation] /\ now \in Nat
  /\ recorded \subseteq Record /\ IsFiniteSet(recorded)
  /\ DOMAIN files \subseteq Name
  /\ \A name \in DOMAIN files : files[name].recs \subseteq recorded /\ files[name].mtime \in Nat
  /\ \A w \in linked : F!Current(w) \in DOMAIN files
  /\ sweeps \subseteq Sweep

(* A file has records of its writer, none of them newer than the file.     *)
OwnFiles ==
  \A name \in DOMAIN files :
    files[name].mtime <= now /\ \A r \in files[name].recs : r.of = name.of /\ r.at <= files[name].mtime

(* A goroutine that removes files does so on the day it was started, and   *)
(* files of its prefix only.                                               *)
SweepsRight ==
  \A s \in sweeps :
    /\ now < s.at + DayLength
    /\ \A name \in s.left : name # None => name.of \in Prefixes[s.by]
    /\ s.old # None => s.old.of \in Prefixes[s.by]

(* A writer that keeps files has its current file, which no such goroutine *)
(* is old enough to remove; what one is about to remove is old and there.  *)
NamesKept ==
  \A w \in Writers : F!Keeps(w) /\ w \notin overrun =>
    /\ w \in linked
    /\ \A s \in sweeps :
         /\ s.by = w => s.at <= files[F!Current(w)].mtime
         /\ s.old # None /\ s.old.of = w => s.old \in DOMAIN files /\ F!Old(w, s.old)

FilesInv == FilesTyped /\ OwnFiles /\ SweepsRight /\ NamesKept /\ F!RecordsKept

(* Nothing is written or rotated at first.                                 *)
LEMMA FilesInit == FilesApart /\ F!Init => FilesInv
<1> SUFFICES ASSUME FilesApart, F!Init PROVE FilesInv
  OBVIOUS
<1>1. /\ rotation \in Configs /\ now = 0 /\ linked = Writers /\ sweeps = {} /\ recorded = {} /\ overrun = {}
      /\ files = [name \in {F!Current(w) : w \in Writers} |-> [recs |-> {}, mtime |-> 0]]
  BY DEF F!Init
<1>2. \A w \in Writers : F!Current(w) \in Name
  BY DEF F!Current, Name, Days
<1>3. FilesTyped
  BY <1>1, <1>2, FS_EmptySet DEF FilesTyped, FilesApart
<1>4. OwnFiles /\ SweepsRight /\ NamesKept /\ F!RecordsKept
  BY <1>1 DEF OwnFiles, SweepsRight, NamesKept, F!RecordsKept
<1> QED
  BY <1>3, <1>4 DEF FilesInv

(* The days a record is kept are at least one.                             *)
LEMMA KeptADay ==
  ASSUME FilesApart, FilesTyped, NEW w \in Writers, F!Keeps(w)
  PROVE  DayLength * rotation[w].maxdays \in Nat /\ DayLength <= DayLength * rotation[w].maxdays
<1>1. rotation[w].maxdays \in Nat /\ rotation[w].maxdays > 0
  BY DEF F!Keeps, FilesTyped, Rotation
<1>2. PICK d \in Nat : d = rotation[w].maxdays /\ d > 0
  BY <1>1
<1>3. DayLength \in Nat
  BY DEF FilesApart
<1>4. DayLength * d \in Nat /\ DayLength <= DayLength * d
  BY <1>2, <1>3
<1> QED
  BY <1>2, <1>4

(* What is about to be removed is not the current file.                    *)
LEMMA CurrentIsYoung ==
  ASSUME FilesApart, FilesInv, NEW w \in Writers, F!Keeps(w), w \notin overrun,
         NEW s \in sweeps, s.old # None, s.old.of = w
  PROVE  s.by = w /\ s.old # F!Current(w) /\ s.old \in DOMAIN files /\ F!Old(w, s.old)
<1> USE DEF FilesInv
<1>1. s \in Sweep /\ s.by \in Writers /\ s.at \in Nat
  BY DEF FilesTyped, Sweep
<1>2. s.by = w
  BY <1>1 DEF SweepsRight, F!Keeps
<1>3. s.old \in DOMAIN files /\ F!Old(w, s.old)
  BY DEF NamesKept
<1>4. ~F!Old(w, F!Current(w))
  <2>1. s.at <= files[F!Current(w)].mtime /\ now < s.at + DayLength
    BY <1>2 DEF NamesKept, SweepsRight
  <2>2. w \in linked /\ files[F!Current(w)].mtime \in Nat /\ now \in Nat /\ DayLength \in Nat
    BY DEF NamesKept, FilesTyped, FilesApart
  <2>3. PICK d \in Nat : d = DayLength * rotation[w].maxdays /\ DayLength <= d
    BY KeptADay
  <2>4. ~(files[F!Current(w)].mtime + d < now)
    BY <1>1, <2>1, <2>2, <2>3
  <2> QED
    BY <2>3, <2>4 DEF F!Old
<1> QED
  BY <1>2, <1>3, <1>4

(* What a step that leaves the records and the overrun alone must keep.    *)
LEMMA SameRecords ==
  ASSUME FilesInv, UNCHANGED <<rotation, now, files, recorded, linked>>, overrun \subseteq overrun',
         sweeps' \subseteq Sweep, SweepsRight', NamesKept'
  PROVE  FilesInv'
<1> USE DEF FilesInv
<1>1. FilesTyped' /\ OwnFiles'
  BY DEF FilesTyped, OwnFiles, F!Current
<1>2. F!RecordsKept'
  BY DEF F!RecordsKept, F!Keeps
<1> QED
  BY <1>1, <1>2

(* The goroutines that remove files: a list, a look, the end of one.       *)
LEMMA SweepLists ==
  ASSUME FilesApart, FilesInv, NEW s \in sweeps, F!SweepList(s)
  PROVE  FilesInv'
<1> USE DEF FilesInv
<1> DEFINE t == [s EXCEPT !.left = {name \in DOMAIN files : name.of \in Prefixes[s.by]}]
<1>1. s \in Sweep /\ sweeps' = (sweeps \ {s}) \cup {t} /\ UNCHANGED <<rotation, now, files, recorded, linked, overrun>>
  BY DEF FilesTyped, F!SweepList, F!Become
<1>2. t \in Sweep /\ t.by = s.by /\ t.at = s.at /\ t.old = s.old /\ t.left = {name \in DOMAIN files : name.of \in Prefixes[s.by]}
  BY <1>1 DEF Sweep, FilesTyped
<1> HIDE DEF t
<1>3. sweeps' \subseteq Sweep
  BY <1>1, <1>2 DEF FilesTyped
<1>4. SweepsRight'
  BY <1>1, <1>2 DEF SweepsRight
<1>5. NamesKept'
  BY <1>1, <1>2 DEF NamesKept, F!Keeps, F!Old, F!Current
<1> QED
  BY <1>1, <1>3, <1>4, <1>5, SameRecords

(* A goroutine that removes files looks at one more name.                  *)
LEMMA SweepLooks ==
  ASSUME FilesApart, FilesInv, NEW s \in sweeps, NEW name \in s.left, name # None, F!SweepLook(s, name)
  PROVE  FilesInv'
<1> USE DEF FilesInv
<1> DEFINE o == IF name \in DOMAIN files /\ F!Old(s.by, name) THEN name ELSE None
           t == [s EXCEPT !.left = @ \ {name}, !.old = o]
<1>1. s \in Sweep /\ sweeps' = (sweeps \ {s}) \cup {t} /\ UNCHANGED <<rotation, now, files, recorded, linked, overrun>>
  BY DEF FilesTyped, F!SweepLook, F!Become
<1>2. o \in Name \cup {None} /\ (o # None => o = name /\ name \in DOMAIN files /\ F!Old(s.by, name))
  BY <1>1 DEF Sweep, FilesTyped
<1> HIDE DEF o
<1>3. t \in Sweep /\ t.by = s.by /\ t.at = s.at /\ t.old = o /\ t.left = s.left \ {name}
  BY <1>1, <1>2 DEF Sweep
<1> HIDE DEF t
<1>4. sweeps' \subseteq Sweep
  BY <1>1, <1>3 DEF FilesTyped
<1>5. SweepsRight'
  BY <1>1, <1>2, <1>3 DEF SweepsRight
<1>6. NamesKept'
  <2> SUFFICES ASSUME NEW w \in Writers, F!Keeps(w), w \notin overrun
               PROVE  w \in linked /\ \A x \in sweeps' :
                        /\ x.by = w => x.at <= files[F!Current(w)].mtime
                        /\ x.old # None /\ x.old.of = w => x.old \in DOMAIN files /\ F!Old(w, x.old)
    BY <1>1 DEF NamesKept, F!Keeps, F!Old, F!Current
  <2>1. ASSUME o # None, o.of = w PROVE o \in DOMAIN files /\ F!Old(w, o)
    <3>1. s.by \in Writers /\ name.of \in Prefixes[s.by]
      BY <1>1 DEF SweepsRight, Sweep
    <3>2. s.by = w
      BY <1>2, <2>1, <3>1 DEF F!Keeps
    <3> QED
      BY <1>2, <2>1, <3>2
  <2> QED
    BY <1>1, <1>3, <2>1 DEF NamesKept
<1> QED
  BY <1>1, <1>4, <1>5, <1>6, SameRecords

(* A goroutine that has no name left is done.                              *)
LEMMA SweepEnds ==
  ASSUME FilesApart, FilesInv, NEW s \in sweeps, F!SweepEnd(s)
  PROVE  FilesInv'
<1> USE DEF FilesInv
<1>1. sweeps' = sweeps \ {s} /\ UNCHANGED <<rotation, now, files, recorded, linked, overrun>>
  BY DEF F!SweepEnd, F!Become
<1>2. sweeps' \subseteq Sweep /\ SweepsRight'
  BY <1>1 DEF FilesTyped, SweepsRight
<1>3. NamesKept'
  BY <1>1 DEF NamesKept, F!Keeps, F!Old, F!Current
<1> QED
  BY <1>1, <1>2, <1>3, SameRecords

(* A file that is removed is old, and so are its records, unless its       *)
(* writer does not keep them or another goroutine removes it too.          *)
LEMMA SweepRemoves ==
  ASSUME FilesApart, FilesInv, NEW s \in sweeps, F!SweepRemove(s)
  PROVE  FilesInv'
<1> USE DEF FilesInv
<1> DEFINE t == [s EXCEPT !.old = None]
<1>1. /\ s \in Sweep /\ s.old # None /\ sweeps' = (sweeps \ {s}) \cup {t}
      /\ UNCHANGED <<rotation, now, recorded>>
      /\ files' = F!Drop(files, s.old) /\ linked' = {w \in linked : F!Current(w) # s.old}
      /\ overrun' = IF \E x \in sweeps \ {s} : x.old = s.old THEN overrun \cup {s.old.of} ELSE overrun
  BY DEF FilesTyped, F!SweepRemove, F!Become
<1>2. t \in Sweep /\ t.by = s.by /\ t.at = s.at /\ t.old = None /\ t.left = s.left
  BY <1>1 DEF Sweep
<1> HIDE DEF t
<1>3. DOMAIN files' = DOMAIN files \ {s.old} /\ \A name \in DOMAIN files' : files'[name] = files[name]
  BY <1>1 DEF F!Drop
<1>4. overrun \subseteq overrun'
  BY <1>1
<1>5. FilesTyped'
  BY <1>1, <1>2, <1>3 DEF FilesTyped, F!Current
<1>6. OwnFiles'
  BY <1>1, <1>3 DEF OwnFiles
<1>7. SweepsRight'
  BY <1>1, <1>2 DEF SweepsRight
<1>8. NamesKept'
  <2> SUFFICES ASSUME NEW w \in Writers, F!Keeps(w), w \notin overrun'
               PROVE  w \in linked' /\ \A x \in sweeps' :
                        /\ x.by = w => x.at <= files'[F!Current(w)].mtime
                        /\ x.old # None /\ x.old.of = w => x.old \in DOMAIN files' /\ F!Old(w, x.old)'
    BY <1>1 DEF NamesKept, F!Keeps, F!Current
  <2>1. w \notin overrun /\ w \in linked /\ F!Current(w) \in DOMAIN files
    BY <1>4 DEF NamesKept, FilesTyped
  <2>2. s.old # F!Current(w)
    <3>1. CASE s.old.of = w
      BY <1>1, <2>1, <3>1, CurrentIsYoung
    <3>2. CASE s.old.of # w
      BY <3>2 DEF F!Current
    <3> QED
      BY <3>1, <3>2
  <2>3. w \in linked' /\ files'[F!Current(w)] = files[F!Current(w)]
    BY <1>1, <1>3, <2>1, <2>2
  <2>4. ASSUME NEW x \in sweeps', x.by = w PROVE x.at <= files'[F!Current(w)].mtime
    BY <1>1, <1>2, <2>1, <2>3, <2>4 DEF NamesKept
  <2>5. ASSUME NEW x \in sweeps', x.old # None, x.old.of = w PROVE x.old \in DOMAIN files' /\ F!Old(w, x.old)'
    <3>1. x \in sweeps \ {s}
      BY <1>1, <1>2, <2>5
    <3>2. x.old # s.old
      BY <1>1, <2>5, <3>1
    <3>3. x.old \in DOMAIN files /\ F!Old(w, x.old)
      BY <2>1, <2>5, <3>1 DEF NamesKept
    <3>4. x.old \in DOMAIN files' /\ files'[x.old] = files[x.old]
      BY <1>3, <3>2, <3>3
    <3> QED
      BY <1>1, <3>3, <3>4 DEF F!Old
  <2> QED
    BY <2>3, <2>4, <2>5
<1>9. F!RecordsKept'
  <2> SUFFICES ASSUME NEW r \in recorded, F!Keeps(r.of), r.of \notin overrun',
                      now <= r.at + DayLength * rotation[r.of].maxdays
               PROVE  \E name \in DOMAIN files' : r \in files'[name].recs
    BY <1>1 DEF F!RecordsKept, F!Keeps
  <2>1. PICK name \in DOMAIN files : r \in files[name].recs
    BY <1>4 DEF F!RecordsKept
  <2>2. r \in Record /\ r.of \in Writers /\ r.at \in Nat
    BY DEF FilesTyped, Record
  <2>3. r.of = name.of /\ r.at <= files[name].mtime /\ files[name].mtime \in Nat
    BY <2>1 DEF OwnFiles, FilesTyped
  <2>4. name # s.old
    <3> SUFFICES ASSUME name = s.old PROVE FALSE
      OBVIOUS
    <3>1. F!Old(r.of, name)
      BY <1>1, <1>4, <2>2, <2>3 DEF NamesKept
    <3>2. PICK d \in Nat : d = DayLength * rotation[r.of].maxdays
      BY <2>2, KeptADay
    <3>3. files[name].mtime + d < now /\ now <= r.at + d /\ now \in Nat
      BY <3>1, <3>2 DEF F!Old, FilesTyped
    <3> QED
      BY <2>2, <2>3, <3>3
  <2> QED
    BY <1>3, <2>1, <2>4
<1> QED
  BY <1>5, <1>6, <1>7, <1>8, <1>9

(* Time goes on: no such goroutine takes a day.                            *)
LEMMA TimeGoesOn ==
  ASSUME FilesApart, FilesInv, F!Tick
  PROVE  FilesInv'
<1> USE DEF FilesInv
<1>1. /\ now' = now + 1 /\ now \in Nat /\ UNCHANGED <<rotation, files, recorded, linked, sweeps, overrun>>
      /\ \A s \in sweeps : now + 1 < s.at + DayLength
  BY DEF F!Tick, FilesTyped
<1>2. FilesTyped'
  BY <1>1 DEF FilesTyped, F!Current
<1>3. OwnFiles'
  <2> SUFFICES ASSUME NEW name \in DOMAIN files PROVE files[name].mtime <= now + 1
    BY <1>1 DEF OwnFiles
  <2>1. files[name].mtime <= now /\ files[name].mtime \in Nat
    BY DEF OwnFiles, FilesTyped
  <2> QED
    BY <1>1, <2>1
<1>4. SweepsRight'
  BY <1>1 DEF SweepsRight
<1>5. ASSUME NEW w \in Writers, F!Keeps(w), NEW name \in DOMAIN files, F!Old(w, name) PROVE F!Old(w, name)'
  <2>1. PICK d \in Nat : d = DayLength * rotation[w].maxdays
    BY <1>5, KeptADay
  <2>2. files[name].mtime + d < now /\ files[name].mtime \in Nat
    BY <1>5, <2>1 DEF F!Old, FilesTyped
  <2>3. files[name].mtime + d < now + 1
    BY <1>1, <2>2
  <2> QED
    BY <1>1, <2>1, <2>3 DEF F!Old
<1>6. NamesKept'
  <2> SUFFICES ASSUME NEW w \in Writers, F!Keeps(w), w \notin overrun
               PROVE  w \in linked /\ \A s \in sweeps :
                        /\ s.by = w => s.at <= files[F!Current(w)].mtime
                        /\ s.old # None /\ s.old.of = w => s.old \in DOMAIN files /\ F!Old(w, s.old)'
    BY <1>1 DEF NamesKept, F!Keeps, F!Current
  <2> QED
    BY <1>5 DEF NamesKept
<1>7. F!RecordsKept'
  <2> SUFFICES ASSUME NEW r \in recorded, F!Keeps(r.of), r.of \notin overrun,
                      now + 1 <= r.at + DayLength * rotation[r.of].maxdays
               PROVE  \E name \in DOMAIN files : r \in files[name].recs
    BY <1>1 DEF F!RecordsKept, F!Keeps
  <2>1. r.of \in Writers /\ r.at \in Nat
    BY DEF FilesTyped, Record
  <2>2. PICK d \in Nat : d = DayLength * rotation[r.of].maxdays
    BY <2>1, KeptADay
  <2>3. now <= r.at + d
    BY <1>1, <2>1, <2>2
  <2> QED
    BY <2>2, <2>3 DEF F!RecordsKept
<1> QED
  BY <1>2, <1>3, <1>4, <1>6, <1>7

(* The writers count as everybody does.                                    *)
LEMMA SameCount == \A S : F!Cardinality(S) = Cardinality(S)
BY DEF F!Cardinality, Cardinality

(* The record that a writer is given now.                                  *)
LEMMA NewRecord ==
  ASSUME FilesTyped, NEW w \in Writers
  PROVE  /\ F!New(w) \in Record /\ F!New(w).of = w /\ F!New(w).at = now
         /\ IsFiniteSet(recorded \cup {F!New(w)}) /\ Cardinality(recorded) \in Nat
<1>1. Cardinality(recorded) \in Nat
  BY FS_CardinalityType DEF FilesTyped
<1>2. IsFiniteSet(recorded \cup {F!New(w)})
  BY FS_AddElement DEF FilesTyped
<1>3. F!New(w) = [of |-> w, n |-> Cardinality(recorded) + 1, at |-> now]
  BY SameCount DEF F!New
<1>4. [of |-> w, n |-> Cardinality(recorded) + 1, at |-> now] \in Record
  BY <1>1 DEF Record, FilesTyped
<1> QED
  BY <1>1, <1>2, <1>3, <1>4

(* A record that goes to the current file.                                 *)
LEMMA WriteKept ==
  ASSUME FilesApart, FilesInv, NEW w \in Writers, NEW m, F!Write(w, m)
  PROVE  FilesInv'
<1> USE DEF FilesInv
<1> DEFINE c == F!Current(w)
<1>1. /\ UNCHANGED <<rotation, now, linked, sweeps, overrun>> /\ recorded' = recorded \cup {F!New(w)}
      /\ files' = IF w \in linked THEN [files EXCEPT ![c] = F!Added(@, F!New(w))] ELSE files
  BY DEF F!Write
<1>2. PICK r \in Record : r = F!New(w) /\ r.of = w /\ r.at = now /\ IsFiniteSet(recorded')
  BY <1>1, NewRecord
<1>3. now \in Nat
  BY DEF FilesTyped
<1>4. DOMAIN files' = DOMAIN files /\ \A name \in DOMAIN files : name # c => files'[name] = files[name]
  BY <1>1
<1>5. w \in linked => c \in DOMAIN files /\ files'[c].recs = files[c].recs \cup {r} /\ files'[c].mtime = now
  BY <1>1, <1>2 DEF FilesTyped, F!Added
<1>6. w \notin linked => files' = files
  BY <1>1
<1>7. c.of = w
  BY DEF F!Current
<1> HIDE DEF c
<1>8. FilesTyped'
  <2>1. ASSUME NEW name \in DOMAIN files' PROVE files'[name].recs \subseteq recorded' /\ files'[name].mtime \in Nat
    <3>1. CASE w \in linked /\ name = c
      BY <1>1, <1>2, <1>3, <1>5, <3>1 DEF FilesTyped
    <3>2. CASE files'[name] = files[name]
      BY <1>1, <1>4, <3>2 DEF FilesTyped
    <3> QED
      BY <1>4, <1>6, <3>1, <3>2
  <2>2. \A v \in linked' : F!Current(v)' \in DOMAIN files'
    BY <1>1, <1>4 DEF FilesTyped, F!Current
  <2>3. recorded' \subseteq Record
    BY <1>1, <1>2 DEF FilesTyped
  <2> QED
    BY <1>1, <1>2, <1>4, <2>1, <2>2, <2>3 DEF FilesTyped
<1>9. OwnFiles'
  <2> SUFFICES ASSUME NEW name \in DOMAIN files'
               PROVE  files'[name].mtime <= now /\ \A q \in files'[name].recs : q.of = name.of /\ q.at <= files'[name].mtime
    BY <1>1 DEF OwnFiles
  <2>1. CASE w \in linked /\ name = c
    <3>1. ASSUME NEW q \in files[c].recs PROVE q.of = c.of /\ q.at <= now
      <4>1. q.of = c.of /\ q.at <= files[c].mtime /\ files[c].mtime <= now
        BY <1>5, <2>1, <3>1 DEF OwnFiles
      <4>2. q.at \in Nat /\ files[c].mtime \in Nat
        BY <1>5, <2>1, <3>1 DEF FilesTyped, Record
      <4> QED
        BY <1>3, <4>1, <4>2
    <3> QED
      BY <1>2, <1>3, <1>5, <1>7, <2>1, <3>1
  <2>2. CASE files'[name] = files[name]
    BY <1>4, <2>2 DEF OwnFiles
  <2> QED
    BY <1>4, <1>6, <2>1, <2>2
<1>10. SweepsRight'
  BY <1>1 DEF SweepsRight
<1>11. NamesKept'
  <2> SUFFICES ASSUME NEW v \in Writers, F!Keeps(v), v \notin overrun
               PROVE  v \in linked /\ \A s \in sweeps :
                        /\ s.by = v => s.at <= files'[F!Current(v)].mtime
                        /\ s.old # None /\ s.old.of = v => s.old \in DOMAIN files' /\ F!Old(v, s.old)'
    BY <1>1 DEF NamesKept, F!Keeps, F!Current
  <2>1. v \in linked /\ F!Current(v) \in DOMAIN files
    BY DEF NamesKept, FilesTyped
  <2>2. ASSUME NEW s \in sweeps, s.by = v PROVE s.at <= files'[F!Current(v)].mtime
    <3>1. s.at <= files[F!Current(v)].mtime /\ files[F!Current(v)].mtime <= now
      BY <2>1, <2>2 DEF NamesKept, OwnFiles
    <3>2. s.at \in Nat /\ files[F!Current(v)].mtime \in Nat
      BY <2>1 DEF FilesTyped, Sweep
    <3>3. files'[F!Current(v)] = files[F!Current(v)] \/ files'[F!Current(v)].mtime = now
      BY <1>4, <1>5, <1>6, <2>1
    <3> QED
      BY <1>3, <3>1, <3>2, <3>3
  <2>3. ASSUME NEW s \in sweeps, s.old # None, s.old.of = v PROVE s.old \in DOMAIN files' /\ F!Old(v, s.old)'
    <3>1. s.old # F!Current(v) /\ s.old \in DOMAIN files /\ F!Old(v, s.old)
      BY <2>3, CurrentIsYoung
    <3>2. s.old # c
      BY <1>7, <2>3, <3>1 DEF c
    <3>3. files'[s.old] = files[s.old]
      BY <1>4, <3>1, <3>2
    <3> QED
      BY <1>1, <1>4, <3>1, <3>3 DEF F!Old
  <2> QED
    BY <2>1, <2>2, <2>3
<1>12. F!RecordsKept'
  <2> SUFFICES ASSUME NEW q \in recorded', F!Keeps(q.of), q.of \notin overrun,
                      now <= q.at + DayLength * rotation[q.of].maxdays
               PROVE  \E name \in DOMAIN files' : q \in files'[name].recs
    BY <1>1 DEF F!RecordsKept, F!Keeps
  <2>1. CASE q = r
    BY <1>2, <1>4, <1>5, <2>1 DEF NamesKept
  <2>2. CASE q \in recorded
    <3>1. PICK name \in DOMAIN files : q \in files[name].recs
      BY <2>2 DEF F!RecordsKept
    <3>2. q \in files'[name].recs
      BY <1>4, <1>5, <1>6, <3>1
    <3> QED
      BY <1>4, <3>1, <3>2
  <2> QED
    BY <1>1, <1>2, <2>1, <2>2
<1> QED
  BY <1>8, <1>9, <1>10, <1>11, <1>12

(* A set of numbers has a least one.                                       *)
Below == {ss \in Nat \X Nat : ss[1] < ss[2]}
LEMMA LeastNumber ==
  ASSUME NEW T \in SUBSET Nat, T # {}
  PROVE  \E x \in T : \A y \in T : x <= y
<1>1. IsWellFoundedOn(Below, Nat)
  BY NatLessThanWellFounded DEF OpToRel, Below
<1>2. PICK x \in T : \A y \in T : <<y, x>> \notin Below
  BY <1>1, WFMin
<1>3. ASSUME NEW y \in T, y < x PROVE <<y, x>> \in Below
  <2>1. <<y, x>> \in Nat \X Nat /\ <<y, x>>[1] < <<y, x>>[2]
    BY <1>3
  <2> QED
    BY <2>1 DEF Below
<1>4. \A y \in T : ~(y < x)
  BY <1>2, <1>3
<1>5. \A y \in T : x <= y
  BY <1>4
<1> QED
  BY <1>5

(* A rotated file gets a name that is none of the files', while there is   *)
(* a number that is free.                                                  *)
LEMMA NumberFree ==
  ASSUME FilesApart, NEW w \in Writers
  PROVE  /\ F!Number(w) \in Nat
         /\ F!Free(w) # {} => [of |-> w, day |-> F!Day(now), num |-> F!Number(w)] \notin DOMAIN files /\ F!Number(w) # 0
<1>1. MaxNumber \in Nat
  BY DEF FilesApart
<1>2. CASE F!Free(w) = {}
  BY <1>1, <1>2 DEF F!Number
<1>3. CASE F!Free(w) # {}
  <2>1. F!Free(w) \subseteq 1..MaxNumber
    BY DEF F!Free
  <2>2. F!Free(w) \in SUBSET Nat
    BY <1>1, <2>1
  <2>3. \E x \in F!Free(w) : \A y \in F!Free(w) : x <= y
    BY <1>3, <2>2, LeastNumber
  <2>4. F!Number(w) = CHOOSE x \in F!Free(w) : \A y \in F!Free(w) : x <= y
    BY <1>3 DEF F!Number, F!Min
  <2>5. F!Number(w) \in F!Free(w)
    BY <2>3, <2>4
  <2>6. F!Number(w) \in 1..MaxNumber
    BY <2>1, <2>5
  <2> QED
    BY <1>1, <2>5, <2>6 DEF F!Free
<1> QED
  BY <1>2, <1>3

(* A rotation gives the current file another name and starts a new one.    *)
LEMMA RotateKept ==
  ASSUME FilesApart, FilesInv, NEW w \in Writers, NEW m, F!Rotate(w, m), w \in linked
  PROVE  FilesInv'
<1> USE DEF FilesInv
<1> DEFINE c == F!Current(w)
           b == [of |-> w, day |-> F!Day(now), num |-> F!Number(w)]
           t == [by |-> w, n |-> Cardinality(recorded), at |-> now, left |-> {None}, old |-> None]
<1>1. /\ UNCHANGED <<rotation, now, linked>> /\ recorded' = recorded \cup {F!New(w)} /\ sweeps' = sweeps \cup {t}
      /\ files' = F!Put(F!Put(files, b, files[c]), c, [recs |-> {F!New(w)}, mtime |-> now])
      /\ overrun' = IF F!Free(w) = {} THEN overrun \cup {w} ELSE overrun
  BY SameCount DEF F!Rotate
<1>2. PICK r \in Record : r = F!New(w) /\ r.of = w /\ r.at = now /\ IsFiniteSet(recorded')
  BY <1>1, NewRecord
<1>3. now \in Nat /\ DayLength \in Nat /\ DayLength > 0 /\ c \in DOMAIN files
  BY DEF FilesTyped, FilesApart
<1>4. b \in Name /\ b.of = w /\ c.of = w /\ c \in Name
  <2>1. F!Number(w) \in Nat /\ F!Day(now) \in Days
    BY <1>3, NumberFree DEF Days
  <2> QED
    BY <2>1 DEF F!Current, Name, Days
<1>5. w \notin overrun' => b \notin DOMAIN files /\ b # c
  <2> SUFFICES ASSUME w \notin overrun' PROVE b \notin DOMAIN files /\ b # c
    OBVIOUS
  <2>1. F!Free(w) # {}
    BY <1>1
  <2>2. b \notin DOMAIN files /\ F!Number(w) # 0
    BY <2>1, NumberFree
  <2> QED
    BY <1>3, <2>2
<1>6. t \in Sweep /\ t.by = w /\ t.at = now /\ t.left = {None} /\ t.old = None
  BY <1>3, NewRecord DEF Sweep
<1> HIDE DEF t
<1>7. /\ DOMAIN files' = DOMAIN files \cup {b, c}
      /\ files'[c] = [recs |-> {r}, mtime |-> now]
      /\ b # c => files'[b] = files[c]
      /\ \A name \in DOMAIN files : name # c /\ name # b => files'[name] = files[name]
  BY <1>1, <1>2 DEF F!Put
<1> HIDE DEF b, c
<1>8. files'[c].recs = {r} /\ files'[c].mtime = now
  BY <1>7
<1>9. overrun \subseteq overrun'
  BY <1>1
<1>10. FilesTyped'
  <2>1. ASSUME NEW name \in DOMAIN files' PROVE files'[name].recs \subseteq recorded' /\ files'[name].mtime \in Nat
    <3>1. CASE name = c
      BY <1>1, <1>2, <1>3, <1>8, <3>1
    <3>2. CASE name = b /\ b # c
      BY <1>1, <1>3, <1>7, <3>2 DEF FilesTyped
    <3>3. CASE name # b /\ name # c
      BY <1>1, <1>7, <2>1, <3>3 DEF FilesTyped
    <3> QED
      BY <3>1, <3>2, <3>3
  <2>2. \A v \in linked' : F!Current(v)' \in DOMAIN files'
    BY <1>1, <1>7 DEF FilesTyped, F!Current
  <2>3. recorded' \subseteq Record /\ sweeps' \subseteq Sweep /\ DOMAIN files' \subseteq Name
    BY <1>1, <1>2, <1>4, <1>6, <1>7 DEF FilesTyped
  <2> QED
    BY <1>1, <1>2, <2>1, <2>2, <2>3 DEF FilesTyped
<1>11. OwnFiles'
  <2> SUFFICES ASSUME NEW name \in DOMAIN files'
               PROVE  files'[name].mtime <= now /\ \A q \in files'[name].recs : q.of = name.of /\ q.at <= files'[name].mtime
    BY <1>1 DEF OwnFiles
  <2>1. CASE name = c
    BY <1>2, <1>3, <1>4, <1>8, <2>1
  <2>2. CASE name = b /\ b # c
    BY <1>3, <1>4, <1>7, <2>2 DEF OwnFiles
  <2>3. CASE name # b /\ name # c
    BY <1>7, <2>3 DEF OwnFiles
  <2> QED
    BY <2>1, <2>2, <2>3
<1>12. SweepsRight'
  BY <1>1, <1>3, <1>6 DEF SweepsRight
<1>13. ASSUME NEW v \in Writers, v # w, F!Current(v) \in DOMAIN files PROVE files'[F!Current(v)] = files[F!Current(v)]
  BY <1>4, <1>7, <1>13 DEF F!Current
<1>14. NamesKept'
  <2> SUFFICES ASSUME NEW v \in Writers, F!Keeps(v), v \notin overrun'
               PROVE  v \in linked /\ \A s \in sweeps' :
                        /\ s.by = v => s.at <= files'[F!Current(v)].mtime
                        /\ s.old # None /\ s.old.of = v => s.old \in DOMAIN files' /\ F!Old(v, s.old)'
    BY <1>1 DEF NamesKept, F!Keeps, F!Current
  <2>1. v \notin overrun /\ v \in linked /\ F!Current(v) \in DOMAIN files
    BY <1>9 DEF NamesKept, FilesTyped
  <2>2. ASSUME NEW s \in sweeps', s.by = v PROVE s.at <= files'[F!Current(v)].mtime
    <3>1. CASE v = w
      <4>1. files'[F!Current(v)].mtime = now
        BY <1>8, <3>1 DEF c
      <4>2. CASE s \in sweeps
        <5>1. s.at <= files[F!Current(v)].mtime /\ files[F!Current(v)].mtime <= now
          BY <2>1, <2>2, <4>2 DEF NamesKept, OwnFiles
        <5>2. s.at \in Nat /\ files[F!Current(v)].mtime \in Nat
          BY <2>1, <4>2 DEF FilesTyped, Sweep
        <5> QED
          BY <1>3, <4>1, <5>1, <5>2
      <4>3. CASE s = t
        BY <1>3, <1>6, <4>1, <4>3
      <4> QED
        BY <1>1, <4>2, <4>3
    <3>2. CASE v # w
      <4>1. s \in sweeps
        BY <1>1, <1>6, <2>2, <3>2
      <4> QED
        BY <1>13, <2>1, <2>2, <3>2, <4>1 DEF NamesKept
    <3> QED
      BY <3>1, <3>2
  <2>3. ASSUME NEW s \in sweeps', s.old # None, s.old.of = v PROVE s.old \in DOMAIN files' /\ F!Old(v, s.old)'
    <3>1. s \in sweeps
      BY <1>1, <1>6, <2>3
    <3>2. s.old # F!Current(v) /\ s.old \in DOMAIN files /\ F!Old(v, s.old)
      BY <2>1, <2>3, <3>1, CurrentIsYoung
    <3>3. s.old # c /\ s.old # b
      BY <1>4, <1>5, <2>3, <3>2 DEF c
    <3>4. files'[s.old] = files[s.old]
      BY <1>7, <3>2, <3>3
    <3> QED
      BY <1>1, <1>7, <3>2, <3>4 DEF F!Old
  <2> QED
    BY <2>1, <2>2, <2>3
<1>15. F!RecordsKept'
  <2> SUFFICES ASSUME NEW q \in recorded', F!Keeps(q.of), q.of \notin overrun',
                      now <= q.at + DayLength * rotation[q.of].maxdays
               PROVE  \E name \in DOMAIN files' : q \in files'[name].recs
    BY <1>1 DEF F!RecordsKept, F!Keeps
  <2>1. CASE q = r
    BY <1>7, <1>8, <2>1
  <2>2. CASE q \in recorded
    <3>1. PICK name \in DOMAIN files : q \in files[name].recs
      BY <1>9, <2>2 DEF F!RecordsKept
    <3>2. q.of = name.of
      BY <3>1 DEF OwnFiles
    <3>3. CASE name = c
      <4>1. b # c /\ q \in files'[b].recs
        BY <1>4, <1>5, <1>7, <3>1, <3>2, <3>3
      <4> QED
        BY <1>7, <4>1
    <3>4. CASE name # c
      <4>1. name # b
        BY <1>4, <1>5, <3>1, <3>2
      <4>2. q \in files'[name].recs /\ name \in DOMAIN files'
        BY <1>7, <3>1, <3>4, <4>1
      <4> QED
        BY <4>2
    <3> QED
      BY <3>3, <3>4
  <2> QED
    BY <1>1, <1>2, <2>1, <2>2
<1> QED
  BY <1>10, <1>11, <1>12, <1>14, <1>15

(* Every step keeps the invariant.                                         *)
LEMMA FilesNext == FilesApart /\ FilesInv /\ [F!Next]_(F!vars) => FilesInv'
<1> SUFFICES ASSUME FilesApart, FilesInv, [F!Next]_(F!vars) PROVE FilesInv'
  OBVIOUS
<1>1. ASSUME UNCHANGED <<rotation, now, files, recorded, linked, sweeps, overrun>> PROVE FilesInv'
  <2>1. sweeps' \subseteq Sweep /\ SweepsRight'
    BY <1>1 DEF FilesInv, FilesTyped, SweepsRight
  <2>2. NamesKept'
    BY <1>1 DEF FilesInv, NamesKept, F!Keeps, F!Old, F!Current
  <2> QED
    BY <1>1, <2>1, <2>2, SameRecords
<1>2. ASSUME NEW w \in Writers, NEW m, F!Rotate(w, m) PROVE FilesInv'
  <2>1. CASE w \in linked
    BY <1>2, <2>1, RotateKept
  <2>2. CASE w \notin linked
    BY <1>1, <1>2, <2>2 DEF F!Rotate
  <2> QED
    BY <2>1, <2>2
<1>3. ASSUME NEW w \in Writers, F!WriteFails(w) PROVE FilesInv'
  BY <1>1, <1>3 DEF F!WriteFails
<1>4. CASE F!Next
  BY <1>2, <1>3, <1>4, WriteKept, SweepLists, SweepRemoves, SweepEnds, SweepLooks, TimeGoesOn DEF F!Next
<1>5. CASE UNCHANGED F!vars
  BY <1>1, <1>5 DEF F!vars
<1> QED
  BY <1>4, <1>5

(* A writer that keeps files for some days, and whose files no other       *)
(* removes, has what it wrote on those days in a file, as long as the      *)
(* numbers of a day suffice and no two goroutines remove one file          *)
(* (wlog/file.go rotate, deleteOldFiles).                                  *)
THEOREM FilesKept == ASSUME FilesApart PROVE F!Spec => []F!RecordsKept
<1>1. F!Init => FilesInv
  BY FilesInit
<1>2. FilesInv /\ [F!Next]_(F!vars) => FilesInv'
  BY FilesNext
<1>3. FilesInv => F!RecordsKept
  BY DEF FilesInv
<1> QED
  BY <1>1, <1>2, <1>3, PTL DEF F!Spec
=============================================================================
