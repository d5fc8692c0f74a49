----------------------------- MODULE MCProcess ------------------------------
(***************************************************************************)
(* What must happen in the end, in five independent parts of a process:    *)
(* its worker pool, its servers, its router, its loggers and its proxy.    *)
(* Which one runs is chosen at first; the others rest in a state that has  *)
(* no step.                                                                *)
(***************************************************************************)
EXTENDS WorkerPool, TLC

VARIABLES part,
          cfg, boot, closer, mu, listener, open, lp, header, active, served, main, raced, mishap,
          tree, routes, depth, listening, find,
          log, told, todo, chan, given, at, hand, conn, written, twice, dropped, failed,
          engine, pc, ask, forwarded, client, watcher, cancelled, answer, read, cut,
          slot, array, buffer, sent, hijacked, copiers, errc, kept, spoilt

serverVars == <<cfg, boot, closer, mu, listener, open, lp, header, active, served, main, raced, mishap>>
routerVars == <<tree, routes, depth, listening, find>>
logVars == <<log, told, todo, chan, given, at, hand, conn, written, twice, dropped, failed>>
proxyVars == <<engine, pc, ask, forwarded, client, watcher, cancelled, answer, read, cut,
               slot, array, buffer, sent, hijacked, copiers, errc, kept, spoilt>>
allVars == <<part, vars, serverVars, routerVars, logVars, proxyVars>>

CONSTANTS None, NoRoute

-----------------------------------------------------------------------------

(* Two servers, of the same address, or of two and the first with TLS.      *)
Setup(port, full, https) == [port |-> port, full |-> full, https |-> https]
Setups ==
  {[s \in {"a", "b"} |-> Setup(1, TRUE, FALSE)],
   [s \in {"a", "b"} |-> IF s = "a" THEN Setup(1, FALSE, TRUE) ELSE Setup(2, FALSE, FALSE)]}
S == INSTANCE Servers WITH Servers <- {"a", "b"}, MaxRequests <- 1

(* A route with a name among others, and paths it is and is not for.       *)
M == INSTANCE Router WITH
  Methods <- {"GET"}, Patterns <- {<<"/", "a">>, <<"/", "a", "/", ":x">>, <<"/", "b", "/", "*">>}, Names <- {":x"},
  Contexts <- {1}, MaxRoutes <- 3, open <- listening,
  Paths <- {<<"/">>, <<"/", "a">>, <<"/", "a", "/", "b">>, <<"/", "a", "/", "b", "/", "b">>, <<"/", "b", "/">>}

(* One filter of each type.                                                *)
Loggers == {[f \in {"x"} |-> [type |-> type, levels |-> {1}]] : type \in {"file", "console", "syslog"}}
L == INSTANCE Logging WITH
  Tags <- {"x"}, Senders <- {1, 2}, Threads <- {1}, Levels <- {1, 2}, BufferLength <- 1,
  MaxRecords <- 2, MayFail <- TRUE, sent <- told

(* A plain request, one that asks for another protocol and OPTIONS.        *)
Ask(upgrade, options) ==
  [key |-> "a", cached |-> TRUE, headers |-> {}, listed |-> {}, upgrade |-> upgrade, options |-> options]
X == INSTANCE Proxy WITH
  Engines <- {"standard", "fasthttp"}, Inputs <- {Ask(TRUE, FALSE), Ask(FALSE, FALSE), Ask(FALSE, TRUE)},
  Requests <- {1}, Slots <- {"s"}, Arrays <- 1..3, MaxParts <- 2,
  Kinds <- {"plain", "stream", "switch"}, MayLeave <- TRUE

-----------------------------------------------------------------------------

PoolRests ==
  /\ worker = [w \in Workers |-> "gone"] /\ quitting = {} /\ pool = <<>> /\ dispatching = TRUE
  /\ caller = [j \in Jobs |-> "idle"] /\ parent = [j \in Jobs |-> NoWorker]
  /\ place = [j \in Jobs |-> "none"] /\ lent = [j \in Jobs |-> NoWorker]
  /\ response = [j \in Jobs |-> "empty"]
ServersRest ==
  /\ cfg = CHOOSE c \in Setups : TRUE
  /\ boot = [s \in {"a", "b"} |-> "panic"] /\ closer = [s \in {"a", "b"} |-> "none"]
  /\ mu = [s \in {"a", "b"} |-> None] /\ listener = [s \in {"a", "b"} |-> FALSE] /\ open = {}
  /\ lp = <<>> /\ header = [s \in {"a", "b"} |-> <<>>]
  /\ active = [s \in {"a", "b"} |-> 0] /\ served = [s \in {"a", "b"} |-> 0]
  /\ main = "exit" /\ raced = FALSE /\ mishap = FALSE
RouterRests ==
  /\ tree = <<>> /\ routes = {} /\ depth = 0 /\ listening = FALSE
  /\ find = <<[at |-> "idle"]>>
LogRests ==
  /\ log = [f \in {"x"} |-> [type |-> "file", levels |-> {1}]]
  /\ told = [s \in {1, 2} |-> 2] /\ todo = [s \in {1, 2} |-> {}]
  /\ chan = [f \in {"x"} |-> <<>>] /\ given = [f \in {"x"} |-> {}]
  /\ at = [g \in {<<"x", 1>>} |-> "stop"] /\ hand = [g \in {<<"x", 1>>} |-> None] /\ conn = {}
  /\ written = [f \in {"x"} |-> {}] /\ twice = {} /\ dropped = {} /\ failed = {}
ProxyRests ==
  /\ engine = "standard" /\ pc = <<"done">> /\ ask = <<Ask(FALSE, FALSE)>> /\ forwarded = <<{}>> /\ client = <<FALSE>>
  /\ watcher = <<"none">> /\ cancelled = <<FALSE>> /\ answer = <<[kind |-> "plain", parts |-> 0]>> /\ read = <<0>>
  /\ cut = <<FALSE>> /\ slot = <<None>> /\ array = [s \in {"s"} |-> None] /\ buffer = << <<>> >> /\ sent = << <<>> >> /\ hijacked = <<FALSE>>
  /\ copiers = <<[d \in {"toBackend", "fromBackend"} |-> "none"]>> /\ errc = <<0>> /\ kept = [k \in {"a"} |-> None] /\ spoilt = {}

ProcessInit ==
  \/ part = "pool" /\ Init /\ ServersRest /\ RouterRests /\ LogRests /\ ProxyRests
  \/ part = "servers" /\ PoolRests /\ S!Init /\ RouterRests /\ LogRests /\ ProxyRests
  \/ part = "router" /\ PoolRests /\ ServersRest /\ M!Init /\ LogRests /\ ProxyRests
  \/ part = "log" /\ PoolRests /\ ServersRest /\ RouterRests /\ L!Init /\ ProxyRests
  \/ part = "proxy" /\ PoolRests /\ ServersRest /\ RouterRests /\ LogRests /\ X!Init

ProcessNext ==
  \/ part = "pool" /\ Next /\ UNCHANGED <<part, serverVars, routerVars, logVars, proxyVars>>
  \/ part = "servers" /\ S!Next /\ UNCHANGED <<part, vars, routerVars, logVars, proxyVars>>
  \/ part = "router" /\ M!Next /\ UNCHANGED <<part, vars, serverVars, logVars, proxyVars>>
  \/ part = "log" /\ L!Next /\ UNCHANGED <<part, vars, serverVars, routerVars, proxyVars>>
  \/ part = "proxy" /\ X!Next /\ UNCHANGED <<part, vars, serverVars, routerVars, logVars>>

(* The fairness each module states and its comments account for.           *)
ProcessSpec == ProcessInit /\ [][ProcessNext]_allVars /\ Fairness /\ S!Fairness /\ M!Fairness /\ L!Fairness /\ X!Fairness

-----------------------------------------------------------------------------

(* The types of the part that runs.                                        *)
ProcessTypeOK ==
  /\ part = "pool" => TypeOK
  /\ part = "servers" => S!TypeOK
  /\ part = "router" => M!TypeOK
  /\ part = "log" => L!TypeOK

(* The worker pool implements JobService: what its callers see is that     *)
(* service, and while it is not ended the jobs get done (WorkerPool).      *)
PoolServes == ServiceSafety /\ ServiceLive

(* Of the worker pool: whoever waits, waits not for ever: a requester for  *)
(* its answer, a worker told to quit for its job (WorkerPool).             *)
EveryWaitEnds == EveryRequestReturns /\ EveryWorkerQuits

(* Of the servers: the daemon's pool has each listener once, and the       *)
(* process dies of them in the known ways only (Servers).                  *)
ServersRight == S!PoolComplete /\ S!DiesOnlyKnownWays

(* A shutdown ends the process (Servers).                                  *)
ShutdownEnds == S!ShutdownEnds

(* Of the router: the jumps of Find come to an end (Router).               *)
EveryRequestServed == M!EveryRequestServed

(* Of the loggers: no record is lost, but where a write fails, and who     *)
(* logs is not held up for ever (Logging).                                 *)
LogsRight == []L!NothingLost /\ L!SendersGoOn

(* Of the proxy: a client gets one answer in order, also when protocols    *)
(* are switched, and no goroutine is left behind by a request (Proxy).     *)
NothingLeft == []X!GetsOneAnswer /\ X!NothingLeft
=============================================================================
