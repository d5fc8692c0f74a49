----------------------------- MODULE MCServices -----------------------------
(***************************************************************************)
(* What happens to the things that are asked of a process, one at a time:  *)
(* jobs with their contexts, the set-up of routes, routes and the requests *)
(* for them, answers and their cache, requests to a backend, requests of a *)
(* client and times of a cron expression.  Which one runs is chosen at     *)
(* first; the others rest.                                                 *)
(***************************************************************************)
EXTENDS JobContext, SequencesExt, TLC

CONSTANTS None, Slots, NoRoute, Star

VARIABLES part,
          servers, rests, pools, defaults, given, meant, wish, setups,
          tree, routes, depth, open, find,
          server, serving, wants, slot, writes, res, con, mem, cached, answer, logged,
          engine, proxying, asked, forwarded, client, watcher, cancelled, backend, read, cut, held, array, buffer, passed,
          hijacked, copiers, errc, kept, spoilt,
          conf, ask, req, buffers, calling, attempt, opened, got, last, clean, pure, calls,
          spec, schedule, start, time, added, yearLimit, timing, level, next

setupVars == <<servers, rests, pools, defaults, given, meant, wish, setups>>
routerVars == <<tree, routes, depth, open, find>>
answerVars == <<server, serving, wants, slot, writes, res, con, mem, cached, answer, logged>>
proxyVars == <<engine, proxying, asked, forwarded, client, watcher, cancelled, backend, read, cut, held, array, buffer, passed,
               hijacked, copiers, errc, kept, spoilt>>
clientVars == <<conf, ask, req, buffers, calling, attempt, opened, got, last, clean, pure, calls>>
timeVars == <<spec, schedule, start, time, added, yearLimit, timing, level, next>>
serviceVars == <<part, allVars, setupVars, routerVars, answerVars, proxyVars, clientVars, timeVars>>

-----------------------------------------------------------------------------
(* Jobs: "" is the method push and req use for the default handler,        *)
(* "chain" has two handlers.                                               *)

MCMethods == {"", "chain"}
MCRoutes == [m \in {"chain"} |-> 2]
Symmetric == Permutations(Workers) \cup Permutations(Jobs) \cup Permutations(Contexts) \cup Permutations(Slots)

-----------------------------------------------------------------------------
(* Routes that a program adds: of a model, one of another package, and of  *)
(* a path; on servers that come with middlewares or without                *)

E == INSTANCE Endpoints WITH
  Models <- {"a", "b"}, Plural <- [m \in {"a", "b"} |-> IF m = "a" THEN "as" ELSE "bs"], InPackage <- {"a"},
  Given <- [m \in {"a", "b"} |-> IF m = "a" THEN {"as", "c"} ELSE {"bs"}], Verbs <- {"GET", "LIST"},
  Flags <- {{"GET"}, {}}, Tags <- {"Access", "x"}, Paths <- {"p"}, Modes <- {"https", "rpc"}, MaxCalls <- 3, calls <- setups

-----------------------------------------------------------------------------
(* Routes and requests *)

(* Routes such as rest/router.go adds and a wildcard; neither a wildcard   *)
(* nor another character stands where a name does.                         *)
RestPatterns ==
  { <<"/">>, <<"/", "a">>, <<"/", "a", "/", ":x">>, <<"/", "a", "/", ":x", "/", "b">>,
    <<"/", "a", "b", "/", ":x">>, <<"/", "b", "/", "*">> }

(* Paths of up to three segments, of which the second may be empty.        *)
Path(segments) == FlattenSeq([i \in DOMAIN segments |-> <<"/">> \o segments[i]])
First == { <<"a">>, <<"b">>, <<"a", "b">> }
MCPaths ==
  { <<"/">> } \cup {Path(<<s>>) : s \in First}
  \cup {Path(<<s, t>>) : s \in First, t \in {<<>>, <<"a">>, <<"b">>}}
  \cup {Path(<<s, t, <<"b">> >>) : s \in {<<"a">>, <<"b">>}, t \in {<<>>, <<"b">>}}
M == INSTANCE Router WITH
  Methods <- {"GET", "PUT"}, Patterns <- RestPatterns, Names <- {":x"}, Contexts <- {1}, Paths <- MCPaths, MaxRoutes <- 2

-----------------------------------------------------------------------------
(* Answers: of a cached route, one that is not and one that is not there   *)

Handler(parts, ends, noCache, user, status) ==
  [parts |-> parts, ends |-> ends, noCache |-> noCache, user |-> user, status |-> status]
Input(route, accepts, user, handler) == [route |-> route, accepts |-> accepts, user |-> user, handler |-> handler]
Server(e, accessor, cache) == [engine |-> e, accessor |-> accessor, cache |-> cache]
Inputs ==
  {Input("a", TRUE, "", Handler(1, "ok", FALSE, "", 200)), Input("a", FALSE, "u", Handler(2, "ok", FALSE, "", 201)),
   Input("a", TRUE, "", Handler(1, "ok", TRUE, "v", 200)), Input("a", TRUE, "", Handler(1, "error", FALSE, "", 200)),
   Input("plain", TRUE, "u", Handler(2, "panic", FALSE, "v", 200))}
Servers == {Server("fasthttp", TRUE, TRUE), Server("standard", FALSE, FALSE), Server("grpc", TRUE, TRUE)}
A == INSTANCE Responses WITH
  Configs <- Servers, MaxRequests <- 3, conf <- server, pc <- serving, input <- wants

-----------------------------------------------------------------------------
(* Requests that are passed on: with headers that are not, and with and    *)
(* without the cache                                                       *)

Passed(key, keep, headers, listed) ==
  [key |-> key, cached |-> keep, headers |-> headers, listed |-> listed, upgrade |-> FALSE, options |-> FALSE]
Kept == Passed("a", TRUE, {"Connection", "X-A"}, {"X-A"})
X == INSTANCE Proxy WITH
  Engines <- {"standard", "fasthttp"}, Requests <- {1, 2}, Arrays <- 1..4, MaxParts <- 1, MayLeave <- TRUE,
  Kinds <- {"plain", "stream", "switch"}, Inputs <- {Kept},
  pc <- proxying, ask <- asked, answer <- backend, sent <- passed, slot <- held

(* Three, of which one may get the response that another one had.          *)
Y == INSTANCE Proxy WITH
  Engines <- {"standard", "fasthttp"}, Requests <- {1, 2, 3}, Arrays <- 1..5, MaxParts <- 1, MayLeave <- FALSE,
  Kinds <- {"plain"}, Inputs <- {Kept, Passed("b", FALSE, {}, {})},
  pc <- proxying, ask <- asked, answer <- backend, sent <- passed, slot <- held

-----------------------------------------------------------------------------
(* Requests of a client: with and without retries, a hook and a rest.Client *)

One(v) == [n \in {"k", "l"} |-> IF n = "k" THEN v ELSE None]
Both(v) == [n \in {"k", "l"} |-> v]
Client(inner, retries, conditions, cookies, length, hook) ==
  [inner |-> inner, retries |-> retries, conditions |-> conditions, cookies |-> cookies,
   query |-> One(1), header |-> One(1), length |-> length, hook |-> hook]
Clients ==
  {[Client(TRUE, 0, FALSE, 0, FALSE, FALSE) EXCEPT !.query = One(None), !.header = One(None)]}
  \cup {Client(FALSE, n, c, o, n > 0, h) : n \in {0, 2}, c \in BOOLEAN, o \in {0, 1}, h \in BOOLEAN}
Call(m, q, f, b) == [method |-> m, query |-> q, header |-> q, form |-> f, body |-> b]
Asks ==
  {Call("GET", One(2), One(None), "none"), Call("GET", One(None), One(None), "bytes"), Call("GET", One(None), One(None), "reader"),
   Call("POST", One(None), One(3), "none"), Call("POST", One(2), One(3), "bytes"), Call("POST", Both(2), One(None), "none")}
  \cup {Call("POST", One(None), One(None), b) : b \in {"bytes", "struct", "reader", "file"}}
H == INSTANCE HttpClient WITH Names <- {"k", "l"}, MaxCalls <- 2, pool <- buffers, pc <- calling, sent <- got

-----------------------------------------------------------------------------
(* Times: a clock of two seconds, three minutes and two hours and years of *)
(* seven to nine days in three months, of which the second is short but in *)
(* one year; weeks have three days                                         *)

Within(low, high) == [min |-> low, max |-> high]
Bounds ==
  [second |-> Within(0, 1), minute |-> Within(0, 2), hour |-> Within(0, 1),
   dom |-> Within(1, 3), month |-> Within(1, 3), dow |-> Within(0, 2)]
MonthDays(y, m) == IF m = 2 THEN IF y = 2 THEN 2 ELSE 1 ELSE 3
Dates ==
  FlattenSeq([i \in 1..24 |->
    LET y == (i - 1) \div 3
        m == ((i - 1) % 3) + 1
    IN  [d \in 1..MonthDays(y, m) |-> [year |-> y, month |-> m, day |-> d]]])
Calendar == [d \in DOMAIN Dates |-> [year |-> Dates[d].year, month |-> Dates[d].month, day |-> Dates[d].day, weekday |-> d % 3]]

Every == [low |-> Star, high |-> None, step |-> None]
Only(v) == [low |-> v, high |-> None, step |-> None]
Expr(s, m, h, d, mo, w) == [kind |-> "fields", fields |-> << <<s>>, <<m>>, <<h>>, <<d>>, <<mo>>, <<w>> >>]
Specs ==
  {Expr(s, m, h, d, mo, w) :
     s \in {Every, Only(1)}, m \in {Only(1), [low |-> 1, high |-> 2, step |-> None], [low |-> Star, high |-> None, step |-> 2]},
     h \in {Every, Only(1)}, d \in {Every, Only(2), Only(3)}, mo \in {Every, Only(2)}, w \in {Every, Only(1)}}
  \cup {[kind |-> "name", name |-> n] : n \in {"yearly", "monthly", "weekly", "daily", "hourly"}}
  \cup {[kind |-> "every", delay |-> d] : d \in {0, 1, 2, 5}}
  \cup {[kind |-> "fields", fields |-> f] : f \in
          {<< <<Every>>, <<>>, <<Only(0), Only(1)>>, <<Only(3)>>, <<Only(3)>> >>,
           << <<Only(2)>>, <<Every>>, <<Only(0), Only(1)>>, <<Only(3)>>, <<Only(3)>> >>,
           << <<Only(1)>>, <<Every>>, <<Only(0), Only(1)>>, <<[low |-> 1, high |-> None, step |-> 2]>>, <<Only(3)>> >>,
           << <<Only(1)>> >>}}
Parsers ==
  {[places |-> {"second", "minute", "hour", "dom", "month", "dow"}, optional |-> TRUE],
   [places |-> {"minute", "hour", "dom", "month", "dow"}, optional |-> FALSE]}
C == INSTANCE Schedule WITH YearsAhead <- 5, Nows <- {0, 1, 23, 40, 62, 130}, pc <- timing, t <- time

-----------------------------------------------------------------------------

SetupRests ==
  /\ servers = <<>> /\ rests = <<>> /\ pools = 0 /\ defaults = <<>> /\ given = {} /\ meant = <<>> /\ wish = {} /\ setups = 0
RouterRests == tree = <<>> /\ routes = {} /\ depth = 0 /\ open = FALSE /\ find = <<>>
AnswersRest ==
  /\ server = <<>> /\ serving = <<>> /\ wants = <<>> /\ slot = <<>> /\ writes = <<>> /\ res = <<>> /\ con = <<>>
  /\ mem = <<>> /\ cached = <<>> /\ answer = <<>> /\ logged = <<>>
ProxyRests ==
  /\ engine = None /\ proxying = <<>> /\ asked = <<>> /\ forwarded = <<>> /\ client = <<>> /\ watcher = <<>>
  /\ cancelled = <<>> /\ backend = <<>> /\ read = <<>> /\ cut = <<>> /\ held = <<>> /\ array = <<>> /\ buffer = <<>> /\ passed = <<>>
  /\ hijacked = <<>> /\ copiers = <<>> /\ errc = <<>> /\ kept = <<>> /\ spoilt = {}
ClientRests ==
  /\ conf = None /\ ask = None /\ req = None /\ buffers = <<>> /\ calling = None /\ attempt = 0 /\ opened = None
  /\ got = <<>> /\ last = None /\ clean = FALSE /\ pure = FALSE /\ calls = 0

TimesRest ==
  /\ spec = None /\ schedule = None /\ start = None /\ time = None /\ added = FALSE /\ yearLimit = None
  /\ timing = None /\ level = 0 /\ next = None

(* The pool rests before its start.                                        *)
ServicesInit ==
  /\ JInit
  /\ part \in {"jobs", "setup", "routes", "answers", "proxy", "reuse", "client", "times"}
  /\ IF part = "setup" THEN E!Init ELSE SetupRests
  /\ IF part = "routes" THEN M!Init ELSE RouterRests
  /\ IF part = "answers" THEN A!Init ELSE AnswersRest
  /\ IF part = "proxy" THEN X!Init ELSE IF part = "reuse" THEN Y!Init ELSE ProxyRests
  /\ IF part = "client" THEN H!Init ELSE ClientRests
  /\ IF part = "times" THEN C!Init ELSE TimesRest

ServicesNext ==
  \/ part = "jobs" /\ JNext /\ UNCHANGED <<part, setupVars, routerVars, answerVars, proxyVars, clientVars, timeVars>>
  \/ part = "setup" /\ E!Next /\ UNCHANGED <<part, allVars, routerVars, answerVars, proxyVars, clientVars, timeVars>>
  \/ part = "routes" /\ M!Next /\ UNCHANGED <<part, allVars, setupVars, answerVars, proxyVars, clientVars, timeVars>>
  \/ part = "answers" /\ A!Next /\ UNCHANGED <<part, allVars, setupVars, routerVars, proxyVars, clientVars, timeVars>>
  \/ part = "proxy" /\ X!Next /\ UNCHANGED <<part, allVars, setupVars, routerVars, answerVars, clientVars, timeVars>>
  \/ part = "reuse" /\ Y!Next /\ UNCHANGED <<part, allVars, setupVars, routerVars, answerVars, clientVars, timeVars>>
  \/ part = "client" /\ H!Next /\ UNCHANGED <<part, allVars, setupVars, routerVars, answerVars, proxyVars, timeVars>>
  \/ part = "times" /\ C!Next /\ UNCHANGED <<part, allVars, setupVars, routerVars, answerVars, proxyVars, clientVars>>

ServicesSpec == ServicesInit /\ [][ServicesNext]_serviceVars

-----------------------------------------------------------------------------

(* The types of the part that runs.                                        *)
ServicesTypeOK == JTypeOK /\ (part = "setup" => E!TypeOK) /\ (part = "routes" => M!TypeOK) /\ (part = "client" => H!TypeOK)

(* Of the routes: those of a model are what its last registration and the  *)
(* middlewares of all models say, and options stay with the routes they    *)
(* were set for (Endpoints); and whatever was added, in whatever order,    *)
(* the search takes a route that matches if there is one, with its values  *)
(* (Router).                                                               *)
RequestRouted ==
  /\ part = "setup" => E!RoutesAsRegistered /\ E!CachedAsAsked
  /\ part = "routes" => M!NoPanic /\ M!RunsMatching /\ M!FindsMatching /\ M!ValuesRight

(* Of the answers: a client gets one handler's, and the access record is   *)
(* of the request (Responses).                                             *)
AnswersRight == part = "answers" => A!AnswersWhole /\ A!RecordsOwn

(* Of the proxy: a client gets one answer in order, but for the arrays     *)
(* that kept responses share on the standard engine (Proxy).               *)
GetsOneAnswer == (part = "proxy" => X!GetsOneAnswer) /\ (part = "reuse" => Y!GetsOneAnswer)

(* Of the client: every attempt sends what was asked, and a buffer is not  *)
(* used twice (HttpClient).                                                *)
ClientRight == part = "client" => H!SentAsAsked /\ H!BuffersApart

(* Of the times: the next time of a schedule is the first after now that   *)
(* its expression means, if there is one in the years looked at (Schedule).*)
NextIsFirst == part = "times" => C!NextIsFirst
=============================================================================
