------------------------------ MODULE Lifecycle ------------------------------
(***************************************************************************)
(* The life of a program that runs as a daemon, over the processes it runs *)
(* in: start, the lock on the pid file, signals, reload and shutdown.      *)
(* daemon/daemon.go, signal.go, lockfile.go, daemon.go, command.go, and    *)
(* wgo.go for what Run goes on to do.                                      *)
(*                                                                         *)
(* Each process has a main goroutine, a signal handler and, once it is to  *)
(* go, a hammer that ends it after ten seconds.  Processes meet in the     *)
(* lock (flock), the pid file, the signals they send and the address their *)
(* servers listen on.  No order between the steps of two processes is      *)
(* assumed from the milliseconds they sleep.                               *)
(***************************************************************************)
EXTENDS Naturals, FiniteSets, TLC

CONSTANTS Procs,      \* processes that may ever exist
          Command,    \* a run of the program only to give a command
          None,
          MayFail,    \* whether processes crash and system calls fail
          MaxSignals  \* bound on the signals sent by operators

ASSUME NamesAssumption == Command \notin Procs /\ None \notin Procs /\ Command # None
ASSUME BoundAssumption == MayFail \in BOOLEAN /\ MaxSignals \in Nat

VARIABLES servers,  \* whether the program has servers, or only works: fixed
          main,     \* where the main goroutine of each process is
          handler,  \* where handleSignals is
          hammer,   \* whether hammerTime was started
          parent,   \* the process that started this one, for a reload
          lock,     \* who holds the lock on the pid file
          pidfile,  \* whose pid is in it
          address,  \* who listens
          signals,  \* number of signals sent by operators
          told,     \* history: the processes operators asked to stop
          mishap,   \* history: a crash, a failed call or an unhandled signal
          panicked  \* history: the servers of the program made it panic

vars == <<servers, main, handler, hammer, parent, lock, pidfile, address, signals, told, mishap, panicked>>
shared == <<lock, pidfile, address>>
history == <<servers, signals, told, mishap, panicked>>

MainStates == {"none", "spawn", "reloaded", "lock", "write", "handle", "state",
               "serve", "up", "exited"}
HandlerStates == {"off", "start", "busy", "wait", "reload", "unlocked", "sleep", "shutdown"}

Alive(p) == main[p] \notin {"none", "exited"}

(* d.state = StateRunning, of a process with a handler.                    *)
Running(p) == main[p] \in {"serve", "up"}

(* It took the lock and has not given it up for a successor.               *)
Master(p) ==
  /\ main[p] \in {"handle", "state", "serve", "up"}
  /\ main[p] = "handle" \/ handler[p] # "off"
  /\ ~hammer[p]
  /\ handler[p] \notin {"unlocked", "sleep"}

(* A process that ends leaves the lock and the address.                    *)
Exit(p) ==
  /\ main' = [main EXCEPT ![p] = "exited"]
  /\ handler' = [handler EXCEPT ![p] = "off"]
  /\ hammer' = [hammer EXCEPT ![p] = FALSE]
  /\ lock' = IF lock = p THEN None ELSE lock
  /\ address' = IF address = p THEN None ELSE address
  /\ UNCHANGED <<parent, pidfile>>

(* Processes left to start, less those a reload at work is about to.       *)
Spare ==
  Cardinality({p \in Procs : main[p] = "none"}) >
    Cardinality({p \in Procs : handler[p] \in {"reload", "unlocked"}})

GoTo(p, where) == main' = [main EXCEPT ![p] = where]
HandlerTo(p, where) == handler' = [handler EXCEPT ![p] = where]

-----------------------------------------------------------------------------
(* Faulty variants, each of which breaks one of the properties below.      *)

(* The process that is not alone exits, as Fatal may be read to do.        *)
AlreadyRunningExits(p) ==
  /\ main[p] = "lock"
  /\ lock # None
  /\ Exit(p)
  /\ UNCHANGED history

(* The pid file is written first and locked then.                          *)
AlreadyRunningWrites(p) ==
  /\ main[p] = "lock"
  /\ lock # None
  /\ pidfile' = p
  /\ GoTo(p, "serve")
  /\ UNCHANGED <<handler, hammer, parent, lock, address, history>>

(* The hammer is only started when there is no successor to do its work.   *)
NoHammer(p) ==
  /\ handler[p] = "sleep"
  /\ HandlerTo(p, "busy")
  /\ UNCHANGED <<main, hammer, parent, shared, history>>

(* A command looks by way of LockPidFile, and leaves its own pid.          *)
ProbeWrites ==
  /\ lock = None
  /\ lock' = Command
  /\ pidfile' = Command
  /\ UNCHANGED <<main, handler, hammer, parent, address, history>>

-----------------------------------------------------------------------------
(* The main goroutine *)

Init ==
  /\ servers \in BOOLEAN
  /\ main = [p \in Procs |-> "none"]
  /\ handler = [p \in Procs |-> "off"]
  /\ hammer = [p \in Procs |-> FALSE]
  /\ parent = [p \in Procs |-> None]
  /\ lock = None
  /\ pidfile = None
  /\ address = None
  /\ signals = 0
  /\ told = {}
  /\ mishap = FALSE
  /\ panicked = FALSE

(* The program is started.  The stages of Spawn, each of which starts the  *)
(* next and exits, count as one process.                                   *)
Launch(p) ==
  /\ main[p] = "none"
  /\ Spare
  /\ GoTo(p, "spawn")
  /\ UNCHANGED <<handler, hammer, parent, shared, history>>

Spawned(p) ==
  /\ main[p] = "spawn"
  /\ GoTo(p, "lock")
  /\ UNCHANGED <<handler, hammer, parent, shared, history>>

(* Spawn fails.  In the first stage it returns the error, which daemonize  *)
(* logs before Run goes on; in a later one it exits.                       *)
SpawnFails(p) ==
  /\ MayFail
  /\ main[p] = "spawn"
  /\ \/ /\ GoTo(p, "serve")
        /\ UNCHANGED <<handler, hammer, parent, shared>>
     \/ Exit(p)
  /\ mishap' = TRUE
  /\ UNCHANGED <<servers, signals, told, panicked>>

(* What a signal does to a process.  The channel of the handler has no     *)
(* buffer: what comes while the handler is not waiting is lost.  Without a *)
(* handler the process is ended.                                           *)
Hears(p) == handler[p] = "wait"

Killed(p) ==
  /\ handler[p] \in {"off", "start"}
  /\ Exit(p)

Lost(p) ==
  /\ handler[p] \notin {"off", "start"} /\ ~Hears(p)
  /\ UNCHANGED <<handler, hammer, parent, shared>>

Interrupt(p) ==
  /\ Hears(p)
  /\ IF Running(p)
     THEN /\ hammer' = [hammer EXCEPT ![p] = TRUE]
          /\ HandlerTo(p, "shutdown")
     ELSE UNCHANGED <<handler, hammer>>
  /\ UNCHANGED <<parent, shared>>

(* reloaded: a successor interrupts its parent before it takes the lock.   *)
(* If the parent is gone there is an error, and again Run goes on.         *)
SignalParent(q) ==
  /\ main[q] = "reloaded"
  /\ LET p == parent[q]
     IN  IF Alive(p)
         THEN GoTo(q, "lock") /\ (Lost(p) \/ Interrupt(p))
         ELSE GoTo(q, "serve") /\ UNCHANGED <<handler, hammer, parent, shared>>
  /\ UNCHANGED history

(* LockPidFile: flock, without waiting, ...                                *)
TakeLock(p) ==
  /\ main[p] = "lock"
  /\ lock = None
  /\ lock' = p
  /\ GoTo(p, "write")
  /\ UNCHANGED <<handler, hammer, parent, pidfile, address, history>>

(* ... which fails when another process has it.  The error is logged by    *)
(* daemonize, through a Fatal that only logs, and Run goes on.             *)
AlreadyRunning(p) ==
  /\ main[p] = "lock"
  /\ lock # None
  /\ GoTo(p, "serve")
  /\ UNCHANGED <<handler, hammer, parent, shared, history>>

WritePid(p) ==
  /\ main[p] = "write"
  /\ pidfile' = p
  /\ GoTo(p, "handle")
  /\ UNCHANGED <<handler, hammer, parent, lock, address, history>>

(* MakeDaemon: go d.handleSignals(), ...                                   *)
GoHandle(p) ==
  /\ main[p] = "handle"
  /\ GoTo(p, "state")
  /\ HandlerTo(p, "start")
  /\ UNCHANGED <<hammer, parent, shared, history>>

(* ... and d.state = StateRunning.                                         *)
SetRunning(p) ==
  /\ main[p] = "state"
  /\ GoTo(p, "serve")
  /\ UNCHANGED <<handler, hammer, parent, shared, history>>

(* serve: works are started; servers listen, and panic if they cannot.     *)
Serve(p) ==
  /\ main[p] = "serve"
  /\ \/ /\ ~servers
        /\ GoTo(p, "up")
        /\ UNCHANGED <<handler, hammer, parent, shared, panicked>>
     \/ /\ servers /\ address = None
        /\ address' = p
        /\ GoTo(p, "up")
        /\ UNCHANGED <<handler, hammer, parent, lock, pidfile, panicked>>
     \/ /\ servers /\ address # None
        /\ Exit(p)
        /\ panicked' = TRUE
  /\ UNCHANGED <<servers, signals, told, mishap>>

-----------------------------------------------------------------------------
(* The signal handler and the hammer *)

Notify(p) ==
  /\ handler[p] = "start"
  /\ HandlerTo(p, "busy")
  /\ UNCHANGED <<main, hammer, parent, shared, history>>

Receive(p) ==
  /\ handler[p] = "busy"
  /\ HandlerTo(p, "wait")
  /\ UNCHANGED <<main, hammer, parent, shared, history>>

(* Reload: the listeners of servers are not of the type it asserts they    *)
(* are; the panic is recovered.                                            *)
ReloadPanics(p) ==
  /\ handler[p] = "reload"
  /\ servers /\ main[p] = "up"
  /\ HandlerTo(p, "sleep")
  /\ panicked' = TRUE
  /\ UNCHANGED <<servers, main, hammer, parent, shared, signals, told, mishap>>

(* The pid file is closed, which unlocks it if this is the first time.     *)
ReloadUnlock(p) ==
  /\ handler[p] = "reload"
  /\ ~(servers /\ main[p] = "up")
  /\ lock' = IF lock = p THEN None ELSE lock
  /\ HandlerTo(p, "unlocked")
  /\ UNCHANGED <<main, hammer, parent, pidfile, address, history>>

ReloadStart(p, q) ==
  /\ handler[p] = "unlocked"
  /\ main[q] = "none"
  /\ main' = [main EXCEPT ![q] = "reloaded"]
  /\ parent' = [parent EXCEPT ![q] = p]
  /\ HandlerTo(p, "sleep")
  /\ UNCHANGED <<hammer, shared, history>>

(* An error of Reload before or after it unlocked is only logged.          *)
ReloadFails(p) ==
  /\ MayFail
  /\ handler[p] \in {"reload", "unlocked"}
  /\ HandlerTo(p, "sleep")
  /\ mishap' = TRUE
  /\ UNCHANGED <<servers, main, hammer, parent, shared, signals, told, panicked>>

(* However Reload ended, after it slept the hammer is started.             *)
ReloadDone(p) ==
  /\ handler[p] = "sleep"
  /\ hammer' = [hammer EXCEPT ![p] = TRUE]
  /\ HandlerTo(p, "busy")
  /\ UNCHANGED <<main, parent, shared, history>>

(* shutdown: it may hang in a work or a server.                            *)
ShutdownExit(p) ==
  /\ handler[p] = "shutdown"
  /\ Exit(p)
  /\ UNCHANGED history

HammerExit(p) ==
  /\ hammer[p]
  /\ Exit(p)
  /\ UNCHANGED history

-----------------------------------------------------------------------------
(* Operators and accidents *)

(* kill, or a command that found the program running.                      *)
Stop(p) ==
  /\ Alive(p)
  /\ signals < MaxSignals
  /\ Killed(p) \/ (UNCHANGED main /\ (Lost(p) \/ Interrupt(p)))
  /\ signals' = signals + 1
  /\ told' = told \cup {p}
  /\ UNCHANGED <<servers, mishap, panicked>>

HangUp(p) ==
  /\ Alive(p)
  /\ signals < MaxSignals
  /\ \/ /\ Killed(p)
        /\ mishap' = TRUE
     \/ /\ Lost(p)
        /\ UNCHANGED <<main, mishap>>
     \/ /\ Hears(p)
        /\ Spare
        /\ HandlerTo(p, "reload")
        /\ UNCHANGED <<main, hammer, parent, shared, mishap>>
  /\ signals' = signals + 1
  /\ UNCHANGED <<servers, told, panicked>>

(* CheckStatus of a command takes the lock if it is free and keeps it      *)
(* until the command exits.                                                *)
Probe ==
  /\ lock = None
  /\ lock' = Command
  /\ UNCHANGED <<main, handler, hammer, parent, pidfile, address, history>>

ProbeExit ==
  /\ lock = Command
  /\ lock' = None
  /\ UNCHANGED <<main, handler, hammer, parent, pidfile, address, history>>

Crash(p) ==
  /\ MayFail
  /\ Alive(p)
  /\ Exit(p)
  /\ mishap' = TRUE
  /\ UNCHANGED <<servers, signals, told, panicked>>

-----------------------------------------------------------------------------

MainStep(p) ==
  \/ Spawned(p) \/ SignalParent(p)
  \/ TakeLock(p) \/ AlreadyRunning(p)
  \/ WritePid(p) \/ GoHandle(p) \/ SetRunning(p) \/ Serve(p)

HandlerStep(p) ==
  \/ Notify(p) \/ Receive(p)
  \/ ReloadPanics(p) \/ ReloadUnlock(p) \/ ReloadDone(p)
  \/ \E q \in Procs : ReloadStart(p, q)

Accident(p) ==
  \/ SpawnFails(p) \/ ReloadFails(p) \/ Crash(p)

Next ==
  \/ Probe \/ ProbeExit
  \/ \E p \in Procs :
       \/ Launch(p) \/ Stop(p) \/ HangUp(p)
       \/ MainStep(p) \/ HandlerStep(p) \/ HammerExit(p)
       \/ ShutdownExit(p)
       \/ Accident(p)

Spec == Init /\ [][Next]_vars

(* Goroutines run and the hammer falls; a shutdown need not end.           *)
Fairness ==
  \A p \in Procs :
    WF_vars(MainStep(p)) /\ WF_vars(HandlerStep(p)) /\ WF_vars(HammerExit(p))

FairSpec == Spec /\ Fairness

-----------------------------------------------------------------------------
(* Properties *)

TypeOK ==
  /\ main \in [Procs -> MainStates]
  /\ handler \in [Procs -> HandlerStates]
  /\ hammer \in [Procs -> BOOLEAN]
  /\ parent \in [Procs -> Procs \cup {None}]
  /\ lock \in Procs \cup {Command, None}
  /\ pidfile \in Procs \cup {None}
  /\ address \in Procs \cup {None}
  /\ servers \in BOOLEAN
  /\ signals \in 0..MaxSignals
  /\ told \subseteq Procs
  /\ mishap \in BOOLEAN
  /\ panicked \in BOOLEAN

(* A process that took the lock keeps it until it gives it up for a        *)
(* successor, and the pid file, by which commands find it, names it:       *)
(* whatever other processes, reloads of reloads and commands do            *)
(* (lockfile.go:49-73, daemon.go:597-608).                                 *)
MasterNamed == \A p \in Procs : Master(p) => lock = p /\ pidfile = p

(* A process that reloads or shuts down goes, even if no successor tells   *)
(* it to, its signal is lost or the shutdown hangs (signal.go:33-50).      *)
OldGenerationGoes ==
  \A p \in Procs : handler[p] \in {"reload", "shutdown"} ~> main[p] = "exited"

(* A program that was started and not asked to stop is still there: a      *)
(* reload hands over to a successor whoever takes the lock in between, and *)
(* a successor that cannot have it goes on without (daemon.go:451-645).    *)
Gone == (\E p \in Procs : main[p] = "exited") /\ \A p \in Procs : ~Alive(p)
ServiceSurvives == Gone => told # {} \/ mishap \/ panicked

(* "Restarts itself, unlocking the pid file" (daemon.go:541-543), with     *)
(* servers too.                                                            *)
ReloadRestarts == Gone => told # {} \/ mishap
=============================================================================
