--------------------------- MODULE LifecycleProofs ---------------------------
(***************************************************************************)
(* Proofs about Lifecycle: the lock on the pid file does what it is for,   *)
(* for any number of processes, signals, reloads, commands and crashes.    *)
(***************************************************************************)
EXTENDS Lifecycle, TLAPS

PartType ==
  /\ main \in [Procs -> MainStates]
  /\ handler \in [Procs -> HandlerStates]
  /\ hammer \in [Procs -> BOOLEAN]

(* A process has no handler, and is not to go, before it has the lock.     *)
Young == \A p \in Procs :
  main[p] \in {"none", "spawn", "reloaded", "lock", "write", "handle"}
    => handler[p] = "off" /\ ~hammer[p]

(* Between the lock and the pid written to the file.                       *)
WriterLocks == \A p \in Procs : main[p] = "write" => lock = p

IndInv == PartType /\ Young /\ WriterLocks /\ MasterNamed

USE DEF MainStates, HandlerStates, PartType, Young, WriterLocks, MasterNamed, Master

(* At first there is no process.                                           *)
LEMMA InitInv == Init => IndInv
  BY DEF Init, IndInv

(* The end of a process, however it comes, is the end of its claims.       *)
LEMMA ExitInv == ASSUME IndInv, NEW p \in Procs, Exit(p) PROVE IndInv'
  BY NamesAssumption DEF IndInv, Exit

(* The steps of a main goroutine.                                          *)
LEMMA MainInv == ASSUME IndInv, NEW p \in Procs, MainStep(p) PROVE IndInv'
<1> USE NamesAssumption DEF IndInv, GoTo, HandlerTo, shared, history
<1>1. CASE Spawned(p)
  BY <1>1 DEF Spawned
<1>2. CASE SignalParent(p)
  <2> DEFINE o == parent[p]
  <2>1. CASE GoTo(p, "serve") /\ UNCHANGED <<handler, hammer, parent, shared>>
    BY <2>1, <1>2 DEF SignalParent
  <2>2. CASE GoTo(p, "lock") /\ Lost(o)
    BY <2>2, <1>2 DEF SignalParent, Lost
  <2>3. CASE GoTo(p, "lock") /\ Interrupt(o)
    <3>1. CASE o \in Procs
      <4>1. CASE Running(o)
        <5>1. main[p] = "reloaded" /\ handler' = [handler EXCEPT ![o] = "shutdown"]
              /\ hammer' = [hammer EXCEPT ![o] = TRUE]
          BY <1>2, <2>3, <4>1 DEF SignalParent, Interrupt
        <5> QED
          BY <2>3, <3>1, <4>1, <5>1 DEF Running, Interrupt
      <4>2. CASE ~Running(o)
        BY <1>2, <2>3, <4>2 DEF SignalParent, Interrupt
      <4> QED
        BY <4>1, <4>2
    <3>2. CASE o \notin Procs
      <4>1. handler' = handler /\ hammer' = hammer
        BY <2>3, <3>2 DEF Interrupt
      <4> QED
        BY <4>1, <2>3, <1>2 DEF SignalParent, Interrupt
    <3> QED
      BY <3>1, <3>2
  <2> QED
    BY <1>2, <2>1, <2>2, <2>3 DEF SignalParent
<1>3. CASE TakeLock(p)
  BY <1>3 DEF TakeLock
<1>4. CASE AlreadyRunning(p)
  BY <1>4 DEF AlreadyRunning
<1>5. CASE WritePid(p)
  BY <1>5 DEF WritePid
<1>6. CASE GoHandle(p)
  BY <1>6 DEF GoHandle
<1>7. CASE SetRunning(p)
  BY <1>7 DEF SetRunning
<1>8. CASE Serve(p)
  <2>1. CASE Exit(p)
    BY <2>1, ExitInv
  <2>2. CASE main' = [main EXCEPT ![p] = "up"] /\ UNCHANGED <<handler, hammer, lock, pidfile>>
    BY <2>2, <1>8 DEF Serve
  <2> QED
    BY <1>8, <2>1, <2>2 DEF Serve
<1> QED
  BY <1>1, <1>2, <1>3, <1>4, <1>5, <1>6, <1>7, <1>8 DEF MainStep

(* The steps of a signal handler.                                          *)
LEMMA HandlerInv == ASSUME IndInv, NEW p \in Procs, HandlerStep(p) PROVE IndInv'
<1> USE NamesAssumption DEF IndInv, HandlerTo, shared, history
<1>1. CASE Notify(p)
  BY <1>1 DEF Notify
<1>2. CASE Receive(p)
  BY <1>2 DEF Receive
<1>3. CASE ReloadPanics(p)
  BY <1>3 DEF ReloadPanics
<1>4. CASE ReloadUnlock(p)
  BY <1>4 DEF ReloadUnlock
<1>5. CASE ReloadDone(p)
  BY <1>5 DEF ReloadDone
<1>6. CASE \E q \in Procs : ReloadStart(p, q)
  BY <1>6 DEF ReloadStart
<1> QED
  BY <1>1, <1>2, <1>3, <1>4, <1>5, <1>6 DEF HandlerStep

(* Every other step.                                                       *)
LEMMA NextInv == IndInv /\ [Next]_vars => IndInv'
<1> SUFFICES ASSUME IndInv, [Next]_vars PROVE IndInv'
  OBVIOUS
<1>1. CASE UNCHANGED vars
  BY <1>1 DEF vars, IndInv
<1>2. CASE Probe \/ ProbeExit
  BY <1>2, NamesAssumption DEF Probe, ProbeExit, IndInv, history
<1>3. ASSUME NEW p \in Procs, Launch(p) PROVE IndInv'
  BY <1>3 DEF Launch, IndInv, GoTo, shared
<1>4. ASSUME NEW p \in Procs, Stop(p) PROVE IndInv'
  <2>1. CASE Killed(p)
    BY <2>1, ExitInv DEF Killed
  <2>2. CASE UNCHANGED main /\ Lost(p)
    BY <2>2 DEF Lost, IndInv, shared
  <2>3. CASE UNCHANGED main /\ Interrupt(p)
    BY <2>3 DEF Interrupt, Hears, Running, HandlerTo, IndInv, shared
  <2> QED
    BY <1>4, <2>1, <2>2, <2>3 DEF Stop
<1>5. ASSUME NEW p \in Procs, HangUp(p) PROVE IndInv'
  <2>1. CASE Killed(p)
    BY <2>1, ExitInv DEF Killed
  <2>2. CASE UNCHANGED main /\ Lost(p)
    BY <2>2 DEF Lost, IndInv, shared
  <2>3. CASE Hears(p) /\ HandlerTo(p, "reload") /\ UNCHANGED <<main, hammer, parent, shared, mishap>>
    BY <2>3 DEF Hears, HandlerTo, IndInv, shared
  <2> QED
    BY <1>5, <2>1, <2>2, <2>3 DEF HangUp
<1>6. ASSUME NEW p \in Procs, HammerExit(p) \/ ShutdownExit(p) \/ Crash(p) PROVE IndInv'
  BY <1>6, ExitInv DEF HammerExit, ShutdownExit, Crash
<1>7. ASSUME NEW p \in Procs, SpawnFails(p) PROVE IndInv'
  <2>1. CASE Exit(p)
    BY <2>1, ExitInv
  <2>2. CASE GoTo(p, "serve") /\ UNCHANGED <<handler, hammer, parent, shared>>
    BY <2>2, <1>7 DEF SpawnFails, GoTo, IndInv, shared
  <2> QED
    BY <1>7, <2>1, <2>2 DEF SpawnFails
<1>8. ASSUME NEW p \in Procs, ReloadFails(p) PROVE IndInv'
  BY <1>8 DEF ReloadFails, HandlerTo, IndInv, shared
<1> QED
  BY <1>1, <1>2, <1>3, <1>4, <1>5, <1>6, <1>7, <1>8, MainInv, HandlerInv DEF Next, Accident

(* Who took the lock and has not begun to hand over holds it, and is the   *)
(* one the pid file names (lockfile.go:49-59, daemon.go:597-608).          *)
THEOREM LockRight == Spec => []MasterNamed
<1>1. IndInv => MasterNamed
  BY DEF IndInv
<1> QED
  BY <1>1, InitInv, NextInv, PTL DEF Spec

(* So there is never more than one such process (daemon.go:272).           *)
OneMaster == \A p, q \in Procs : Master(p) /\ Master(q) => p = q

(* The lock keeps masters apart.                                           *)
THEOREM MastersApart == Spec => []OneMaster
<1>1. MasterNamed => OneMaster
  BY DEF OneMaster
<1> QED
  BY <1>1, LockRight, PTL
-----------------------------------------------------------------------------
(* Types.                                                                  *)

(* A process that exits keeps the types.                                   *)
LEMMA ExitType ==
  ASSUME TypeOK, NEW p \in Procs, Exit(p), servers' \in BOOLEAN, signals' \in 0..MaxSignals,
         told' \subseteq Procs, mishap' \in BOOLEAN, panicked' \in BOOLEAN
  PROVE  TypeOK'
  BY NamesAssumption DEF TypeOK, Exit

(* Every step keeps the types.                                             *)
LEMMA NextType == TypeOK /\ [Next]_vars => TypeOK'
<1> SUFFICES ASSUME TypeOK, [Next]_vars PROVE TypeOK'
  OBVIOUS
<1> USE NamesAssumption, BoundAssumption DEF TypeOK, GoTo, HandlerTo, shared, history
<1>1. CASE UNCHANGED vars
  BY <1>1 DEF vars
<1>2. CASE Probe \/ ProbeExit
  BY <1>2 DEF Probe, ProbeExit
<1>3. ASSUME NEW p \in Procs, MainStep(p) PROVE TypeOK'
  <2>1. CASE Spawned(p) \/ TakeLock(p) \/ AlreadyRunning(p) \/ WritePid(p) \/ GoHandle(p) \/ SetRunning(p)
    BY <2>1 DEF Spawned, TakeLock, AlreadyRunning, WritePid, GoHandle, SetRunning
  <2>2. CASE SignalParent(p)
    BY <2>2 DEF SignalParent, Lost, Interrupt
  <2>3. CASE Serve(p)
    <3>1. CASE Exit(p)
      BY <2>3, <3>1, ExitType DEF Serve
    <3>2. CASE ~Exit(p)
      BY <2>3, <3>2 DEF Serve
    <3> QED
      BY <3>1, <3>2
  <2> QED
    BY <1>3, <2>1, <2>2, <2>3 DEF MainStep
<1>4. ASSUME NEW p \in Procs, HandlerStep(p) PROVE TypeOK'
  <2>1. CASE Notify(p)
    BY <2>1 DEF Notify
  <2>5. CASE Receive(p)
    BY <2>5 DEF Receive
  <2>6. CASE ReloadDone(p)
    BY <2>6 DEF ReloadDone
  <2>2. CASE ReloadPanics(p)
    BY <2>2 DEF ReloadPanics
  <2>3. CASE ReloadUnlock(p)
    BY <2>3 DEF ReloadUnlock
  <2>4. ASSUME NEW q \in Procs, ReloadStart(p, q) PROVE TypeOK'
    BY <2>4 DEF ReloadStart
  <2> QED
    BY <1>4, <2>1, <2>2, <2>3, <2>4, <2>5, <2>6 DEF HandlerStep
<1>5. ASSUME NEW p \in Procs, Launch(p) PROVE TypeOK'
  BY <1>5 DEF Launch
<1>6. ASSUME NEW p \in Procs, Stop(p) \/ HangUp(p) PROVE TypeOK'
  <2>1. /\ signals' \in 0..MaxSignals /\ told' \subseteq Procs /\ mishap' \in BOOLEAN
        /\ servers' \in BOOLEAN /\ panicked' \in BOOLEAN
    <3>1. CASE Stop(p)
      BY <3>1 DEF Stop
    <3>2. CASE HangUp(p)
      <4>1. signals' \in 0..MaxSignals /\ servers' = servers /\ told' = told /\ panicked' = panicked
        BY <3>2 DEF HangUp
      <4>2. mishap' = TRUE \/ mishap' = mishap
        BY <3>2 DEF HangUp
      <4> QED
        BY <4>1, <4>2
    <3> QED
      BY <1>6, <3>1, <3>2
  <2>2. CASE Killed(p)
    BY <2>1, <2>2, ExitType DEF Killed
  <2>3. CASE ~Killed(p)
    <3>1. UNCHANGED main
      BY <1>6, <2>3 DEF Stop, HangUp
    <3>2. /\ UNCHANGED <<parent, lock, pidfile, address>>
          /\ \/ handler' = handler /\ hammer' = hammer
             \/ HandlerTo(p, "shutdown") /\ hammer' = [hammer EXCEPT ![p] = TRUE]
             \/ HandlerTo(p, "reload") /\ hammer' = hammer
      BY <1>6, <2>3 DEF Stop, HangUp, Lost, Interrupt
    <3> QED
      BY <2>1, <3>1, <3>2
  <2> QED
    BY <2>2, <2>3
<1>7. ASSUME NEW p \in Procs, HammerExit(p) \/ ShutdownExit(p) \/ Crash(p) PROVE TypeOK'
  BY <1>7, ExitType DEF HammerExit, ShutdownExit, Crash
<1>8. ASSUME NEW p \in Procs, SpawnFails(p) PROVE TypeOK'
  <2>1. CASE Exit(p)
    BY <1>8, <2>1, ExitType DEF SpawnFails
  <2>2. CASE ~Exit(p)
    BY <1>8, <2>2 DEF SpawnFails
  <2> QED
    BY <2>1, <2>2
<1>9. ASSUME NEW p \in Procs, ReloadFails(p) PROVE TypeOK'
  BY <1>9 DEF ReloadFails
<1> QED
  BY <1>1, <1>2, <1>3, <1>4, <1>5, <1>6, <1>7, <1>8, <1>9 DEF Next, Accident

(* The variables of all processes have their types.                        *)
THEOREM TypesRight == Spec => []TypeOK
<1>1. Init => TypeOK
  <2> SUFFICES ASSUME Init PROVE TypeOK
    OBVIOUS
  <2>1. signals \in 0..MaxSignals
    BY BoundAssumption DEF Init
  <2> QED
    BY <2>1 DEF Init, TypeOK
<1> QED
  BY <1>1, NextType, PTL DEF Spec

-----------------------------------------------------------------------------
(* A process is about to go once Reload is through with it or it has been  *)
(* interrupted.                                                            *)
Going(p) == hammer[p] \/ handler[p] \in {"sleep", "shutdown"}
Stays(p) == Alive(p) /\ ~Going(p)

(* Nobody asked for the end and nothing went wrong.                        *)
Quiet == told = {} /\ ~mishap /\ ~panicked

(* Then, of the processes of a program that was started, one stays: who    *)
(* goes has a successor, which has no handler yet that could be told to.   *)
Succession == Quiet /\ (\E p \in Procs : main[p] # "none") => \E p \in Procs : Stays(p)

(* The end of a process that was to go is not the end of one that stays.   *)
LEMMA ExitStays ==
  ASSUME IndInv, Succession, NEW p \in Procs, Exit(p), Going(p), UNCHANGED history
  PROVE  Succession'
<1> SUFFICES ASSUME Quiet' PROVE \E q \in Procs : Stays(q)'
  BY DEF Succession
<1>1. CASE main[p] = "none"
  BY <1>1 DEF IndInv, Going
<1>2. CASE main[p] # "none"
  <2>1. PICK q \in Procs : Stays(q)
    BY <1>2 DEF Succession, Quiet, history
  <2>2. q # p
    BY <2>1 DEF Stays
  <2> QED
    BY <2>1, <2>2 DEF Stays, Alive, Going, Exit
<1> QED
  BY <1>1, <1>2

(* Every step keeps who is to survive whom.                                *)
LEMMA NextSuccession ==
  ASSUME IndInv, Succession, [Next]_vars
  PROVE  Succession'
<1> SUFFICES ASSUME Quiet', \E p \in Procs : main'[p] # "none"
             PROVE  \E p \in Procs : Stays(p)'
  BY DEF Succession
<1> USE NamesAssumption DEF Quiet, Stays, Going, Alive, GoTo, HandlerTo, shared, history
<1>0. ASSUME NEW p \in Procs, main[p] # "none", Quiet PROVE \E r \in Procs : Stays(r)
  BY <1>0 DEF Succession
<1>1. CASE UNCHANGED vars \/ Probe \/ ProbeExit
  BY <1>1, <1>0 DEF vars, Probe, ProbeExit
<1>2. ASSUME NEW p \in Procs, Launch(p) PROVE \E r \in Procs : Stays(r)'
  BY <1>2 DEF Launch, IndInv
<1>3. ASSUME NEW p \in Procs, MainStep(p) PROVE \E r \in Procs : Stays(r)'
  <2>1. CASE Spawned(p) \/ TakeLock(p) \/ AlreadyRunning(p) \/ WritePid(p) \/ GoHandle(p) \/ SetRunning(p)
    <3>1. /\ main[p] \in {"spawn", "lock", "write", "handle", "state"}
          /\ \E to \in {"lock", "write", "serve", "handle", "state"} : GoTo(p, to)
          /\ Quiet /\ hammer' = hammer
          /\ handler' = handler \/ HandlerTo(p, "start")
      BY <2>1 DEF Spawned, TakeLock, AlreadyRunning, WritePid, GoHandle, SetRunning
    <3>2. PICK r \in Procs : Stays(r)
      BY <1>0, <3>1
    <3>3. Stays(r)'
      BY <3>1, <3>2 DEF IndInv
    <3> QED
      BY <3>3
  <2>2. CASE SignalParent(p)
    <3>1. main[p] = "reloaded" /\ handler[p] = "off" /\ ~hammer[p]
      BY <2>2 DEF SignalParent, IndInv
    <3>2. handler'[p] = "off" /\ ~hammer'[p]
      BY <2>2, <3>1 DEF SignalParent, Lost, Interrupt, Hears, IndInv
    <3>3. main'[p] \in {"lock", "serve"}
      BY <2>2 DEF SignalParent, IndInv
    <3> QED
      BY <3>2, <3>3
  <2>3. CASE Serve(p)
    <3>1. main[p] = "serve" /\ GoTo(p, "up") /\ Quiet /\ UNCHANGED <<handler, hammer>>
      BY <2>3 DEF Serve
    <3>2. PICK r \in Procs : Stays(r)
      BY <1>0, <3>1
    <3>3. Stays(r)'
      BY <3>1, <3>2 DEF IndInv
    <3> QED
      BY <3>3
  <2> QED
    BY <1>3, <2>1, <2>2, <2>3 DEF MainStep
<1>4. ASSUME NEW p \in Procs, handler[p] # "off" PROVE main[p] # "none"
  BY <1>4 DEF IndInv
<1>5. ASSUME NEW p \in Procs, HandlerStep(p) PROVE \E r \in Procs : Stays(r)'
  <2>1. CASE Notify(p) \/ Receive(p) \/ ReloadUnlock(p)
    <3>1. /\ handler[p] \in {"start", "busy", "reload"} /\ Quiet
          /\ \E to \in {"busy", "wait", "unlocked"} : HandlerTo(p, to)
          /\ UNCHANGED <<main, hammer>>
      BY <2>1 DEF Notify, Receive, ReloadUnlock
    <3>2. PICK r \in Procs : Stays(r)
      BY <1>0, <1>4, <3>1
    <3>3. Stays(r)'
      BY <3>1, <3>2 DEF IndInv
    <3> QED
      BY <3>3
  <2>2. CASE ReloadPanics(p)
    BY <2>2 DEF ReloadPanics
  <2>3. CASE ReloadDone(p)
    <3>1. handler[p] = "sleep" /\ Quiet
      BY <2>3 DEF ReloadDone
    <3>2. PICK r \in Procs : Stays(r)
      BY <1>0, <1>4, <3>1
    <3>3. r # p
      BY <3>1, <3>2
    <3> QED
      BY <2>3, <3>2, <3>3 DEF ReloadDone
  <2>4. ASSUME NEW q \in Procs, ReloadStart(p, q) PROVE Stays(q)'
    BY <2>4 DEF ReloadStart, IndInv
  <2> QED
    BY <1>5, <2>1, <2>2, <2>3, <2>4 DEF HandlerStep
<1>6. ASSUME NEW p \in Procs, Stop(p) PROVE FALSE
  BY <1>6 DEF Stop
<1>7. ASSUME NEW p \in Procs, HangUp(p) PROVE \E r \in Procs : Stays(r)'
  <2>1. /\ main[p] # "none" /\ Quiet /\ UNCHANGED <<main, hammer>>
        /\ handler' = handler \/ HandlerTo(p, "reload")
    BY <1>7 DEF HangUp, Lost
  <2>2. PICK r \in Procs : Stays(r)
    BY <1>0, <2>1
  <2>3. Stays(r)'
    BY <2>1, <2>2 DEF IndInv
  <2> QED
    BY <2>3
<1>8. ASSUME NEW p \in Procs, HammerExit(p) \/ ShutdownExit(p) PROVE \E r \in Procs : Stays(r)'
  <2>1. Exit(p) /\ Going(p) /\ UNCHANGED history
    BY <1>8 DEF HammerExit, ShutdownExit
  <2>2. Succession'
    BY <2>1, ExitStays
  <2> QED
    BY <2>2 DEF Succession
<1>9. ASSUME NEW p \in Procs, Accident(p) PROVE FALSE
  BY <1>9 DEF Accident, Crash, SpawnFails, ReloadFails
<1> QED
  BY <1>1, <1>2, <1>3, <1>5, <1>6, <1>7, <1>8, <1>9 DEF Next

(* A program that was started, that nobody asked to stop and that met no   *)
(* accident is still there (daemon.go:451-645, signal.go:33-50).           *)
THEOREM ProgramSurvives == Spec => []ServiceSurvives
<1>1. Init => Succession
  BY DEF Init, Succession
<1>2. Succession => ServiceSurvives
  BY DEF Succession, ServiceSurvives, Gone, Quiet, Stays, Alive
<1>3. IndInv /\ Succession /\ [Next]_vars => Succession'
  BY NextSuccession
<1> QED
  BY <1>1, <1>2, <1>3, InitInv, NextInv, PTL DEF Spec
=============================================================================
