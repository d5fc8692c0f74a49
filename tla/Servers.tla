------------------------------ MODULE Servers -------------------------------
(***************************************************************************)
(* The servers of one process: serve starts a goroutine for each, which    *)
(* prepares it, listens under the server's lock, puts the listener into    *)
(* the daemon's pool and serves; a panic of any of them ends the process.  *)
(* A shutdown closes them, each in a goroutine, and exits.                 *)
(*                                                                         *)
(* A listener is known by its server.  The pool begins empty: Reload,      *)
(* which is to hand it to the next process, panics when it has one in it   *)
(* (ReloadPanics of Lifecycle), so that no process inherits any.  net, tls *)
(* and the engines' serving loops are external: a loop ends with an error  *)
(* when its listener is closed or fails.                                   *)
(***************************************************************************)
EXTENDS Naturals, Sequences, FiniteSetsExt, Functions

CONSTANTS Servers,
          Setups,      \* configurations: for each server [port, full, https]; full: its address is as net prints it
          MaxRequests, \* bound: of one server
          None

VARIABLES cfg,
          boot,     \* its goroutine: prepare, lock, listen, load, store, tls, unlock, serve, panic
          closer,   \* that of shutdown: none, lock, close, wait, done
          mu,       \* who holds s.lock: boot, closer, None
          listener, \* s.listener is set
          open,     \* servers whose socket listens
          lp,       \* the daemon's pool
          header,   \* what AddListener has read of it
          active,   \* requests that are being served
          served,   \* how many were accepted
          main,     \* run, shutdown, exit, crash
          raced,    \* history: two goroutines were in AddListener at once
          mishap    \* history: the system refused an address or a key, or failed to accept

vars == <<cfg, boot, closer, mu, listener, open, lp, header, active, served, main, raced, mishap>>

Alive == main \in {"run", "shutdown"}

-----------------------------------------------------------------------------
(* Faulty variants of definitions below, for the mutants of the runs.      *)

(* The listener takes the place of the last one.                           *)
AppendOver(read, s) == Append(SubSeq(read, 1, Len(read) - 1), s)

(* The lock is given up by a defer: when the server has served.            *)
UnlockedLate(s) == mu

-----------------------------------------------------------------------------

Init ==
  /\ cfg \in Setups
  /\ boot = [s \in Servers |-> "prepare"] /\ closer = [s \in Servers |-> "none"]
  /\ mu = [s \in Servers |-> None] /\ listener = [s \in Servers |-> FALSE] /\ open = {}
  /\ lp = <<>> /\ header = [s \in Servers |-> <<>>]
  /\ active = [s \in Servers |-> 0] /\ served = [s \in Servers |-> 0]
  /\ main = "run" /\ raced = FALSE /\ mishap = FALSE

Go(s, at, to) == Alive /\ boot[s] = at /\ boot' = [boot EXCEPT ![s] = to]

Prepare(s) ==
  /\ Go(s, "prepare", "lock")
  /\ UNCHANGED <<cfg, closer, mu, listener, open, lp, header, active, served, main, raced, mishap>>

Lock(s) ==
  /\ Go(s, "lock", "listen") /\ mu[s] = None
  /\ mu' = [mu EXCEPT ![s] = "boot"]
  /\ UNCHANGED <<cfg, closer, listener, open, lp, header, active, served, main, raced, mishap>>

(* GetListener compares the address as configured with that of the         *)
(* listener as it is printed.                                              *)
Found(s) == cfg[s].full /\ \E i \in DOMAIN lp : cfg[lp[i]].port = cfg[s].port
InUse(s) == \E o \in open : cfg[o].port = cfg[s].port

(* A listener that was found is not stored in the server.                  *)
UseFound(s) ==
  /\ Found(s) /\ Go(s, "listen", "unlock")
  /\ UNCHANGED <<cfg, closer, mu, listener, open, lp, header, active, served, main, raced, mishap>>

WrapListener(s) == [listener EXCEPT ![s] = TRUE]
Listen(s) ==
  /\ ~Found(s) /\ ~InUse(s) /\ Go(s, "listen", "load")
  /\ listener' = WrapListener(s) /\ open' = open \cup {s}
  /\ UNCHANGED <<cfg, closer, mu, lp, header, active, served, main, raced, mishap>>

(* The lock is kept; the process ends.                                     *)
ListenFails(s) ==
  /\ ~Found(s) /\ Go(s, "listen", "panic")
  /\ mishap' = (mishap \/ ~InUse(s))
  /\ UNCHANGED <<cfg, closer, mu, listener, open, lp, header, active, served, main, raced>>

(* AddListener: append reads the pool and writes it; the goroutines of     *)
(* several servers do so at once.  The pool holds no nil.                  *)
AppendTo(read, s) == Append(read, s)
Load(s) ==
  /\ Go(s, "load", "store")
  /\ header' = [header EXCEPT ![s] = lp]
  /\ raced' = (raced \/ \E o \in Servers : boot[o] = "store")
  /\ UNCHANGED <<cfg, closer, mu, listener, open, lp, active, served, main, mishap>>
Store(s) ==
  /\ Go(s, "store", IF cfg[s].https THEN "tls" ELSE "unlock")
  /\ lp' = AppendTo(header[s], s)
  /\ UNCHANGED <<cfg, closer, mu, listener, open, header, active, served, main, raced, mishap>>

Tls(s) ==
  /\ \/ Go(s, "tls", "unlock") /\ UNCHANGED mishap
     \/ Go(s, "tls", "panic") /\ mishap' = TRUE
  /\ UNCHANGED <<cfg, closer, mu, listener, open, lp, header, active, served, main, raced>>

(* Without a listener in the server, its engine serves a nil one.          *)
Unlocked(s) == [mu EXCEPT ![s] = None]
Unlock(s) ==
  /\ Go(s, "unlock", IF listener[s] THEN "serve" ELSE "panic")
  /\ mu' = Unlocked(s)
  /\ UNCHANGED <<cfg, closer, listener, open, lp, header, active, served, main, raced, mishap>>

-----------------------------------------------------------------------------
(* Serving *)

Accept(s) ==
  /\ Alive /\ boot[s] = "serve" /\ s \in open /\ served[s] < MaxRequests
  /\ active' = [active EXCEPT ![s] = @ + 1] /\ served' = [served EXCEPT ![s] = @ + 1]
  /\ UNCHANGED <<cfg, boot, closer, mu, listener, open, lp, header, main, raced, mishap>>

Answer(s) ==
  /\ Alive /\ active[s] > 0
  /\ active' = [active EXCEPT ![s] = @ - 1]
  /\ UNCHANGED <<cfg, boot, closer, mu, listener, open, lp, header, served, main, raced, mishap>>

(* The loop ends: its listener was closed, or Accept failed.               *)
Return(s) ==
  /\ Go(s, "serve", "panic")
  /\ mishap' = (mishap \/ s \in open)
  /\ UNCHANGED <<cfg, closer, mu, listener, open, lp, header, active, served, main, raced>>

Panic(s) ==
  /\ Alive /\ boot[s] = "panic"
  /\ main' = "crash"
  /\ UNCHANGED <<cfg, boot, closer, mu, listener, open, lp, header, active, served, raced, mishap>>

-----------------------------------------------------------------------------
(* shutdown; the works have ended.                                         *)

Shutdown ==
  /\ main = "run"
  /\ main' = "shutdown" /\ closer' = [s \in Servers |-> "lock"]
  /\ UNCHANGED <<cfg, boot, mu, listener, open, lp, header, active, served, raced, mishap>>

Close(s) ==
  /\ Alive /\ closer[s] = "lock" /\ mu[s] = None
  /\ mu' = [mu EXCEPT ![s] = "closer"] /\ closer' = [closer EXCEPT ![s] = "close"]
  /\ UNCHANGED <<cfg, boot, listener, open, lp, header, active, served, main, raced, mishap>>

CloseListener(s) ==
  /\ Alive /\ closer[s] = "close"
  /\ open' = IF listener[s] THEN open \ {s} ELSE open
  /\ mu' = [mu EXCEPT ![s] = None] /\ closer' = [closer EXCEPT ![s] = "wait"]
  /\ UNCHANGED <<cfg, boot, listener, lp, header, active, served, main, raced, mishap>>

(* IsIdle: its group counts no connection, so it does not wait; without a  *)
(* listener there is no group.                                             *)
IsIdle(s) ==
  /\ Alive /\ closer[s] = "wait"
  /\ IF listener[s] THEN closer' = [closer EXCEPT ![s] = "done"] /\ UNCHANGED main
     ELSE main' = "crash" /\ UNCHANGED closer
  /\ UNCHANGED <<cfg, boot, mu, listener, open, lp, header, active, served, raced, mishap>>

Exit ==
  /\ main = "shutdown" /\ \A s \in Servers : closer[s] = "done"
  /\ main' = "exit"
  /\ UNCHANGED <<cfg, boot, closer, mu, listener, open, lp, header, active, served, raced, mishap>>

Boot(s) == Prepare(s) \/ Lock(s) \/ UseFound(s) \/ Listen(s) \/ ListenFails(s) \/ Load(s) \/ Store(s) \/ Tls(s) \/ Unlock(s)
             \/ Panic(s)
Closer(s) == Close(s) \/ CloseListener(s) \/ IsIdle(s)
Next ==
  \/ \E s \in Servers : Boot(s) \/ Accept(s) \/ Answer(s) \/ Return(s) \/ Closer(s)
  \/ Shutdown \/ Exit

Spec == Init /\ [][Next]_vars

(* The goroutines run; requests and signals come or not.                   *)
Fairness ==
  /\ \A s \in Servers : WF_vars(Boot(s)) /\ WF_vars(Closer(s)) /\ WF_vars(s \notin open /\ Return(s))
  /\ WF_vars(Exit)
FairSpec == Spec /\ Fairness

-----------------------------------------------------------------------------
(* Properties *)

TypeOK ==
  /\ cfg \in Setups /\ listener \in [Servers -> BOOLEAN] /\ open \subseteq Servers /\ lp \in Seq(Servers)
  /\ mu \in [Servers -> {"boot", "closer", None}] /\ main \in {"run", "shutdown", "exit", "crash"}

(* The daemon's pool has every listener, so that a reload hands it over,   *)
(* and has it once, unless two servers were adding theirs at the same time *)
(* (daemon.go AddListener).                                                *)
Stored(s) == listener[s] /\ boot[s] \notin {"prepare", "lock", "listen", "load", "store"}
PoolComplete ==
  ~raced => \A s \in Servers : Stored(s) => Cardinality({i \in DOMAIN lp : lp[i] = s}) = 1

(* The process does not die of its servers before it is told to end, as    *)
(* long as their addresses differ and the system gives what is asked for   *)
(* (wgo.go serve).                                                         *)
Apart == \A s, o \in Servers : s # o => cfg[s].port # cfg[o].port
DiesOnlyKnownWays == main = "crash" /\ ~mishap /\ Apart => \E s \in Servers : closer[s] # "none"

(* A shutdown ends the process, in one way or the other: no lock that a    *)
(* server keeps stops it (daemon.go shutdown, server.go Close).            *)
ShutdownEnds == main = "shutdown" ~> ~Alive
=============================================================================
