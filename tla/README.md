# wgo in TLA+

A verification project for wgo, a Go framework for HTTP and RPC services with
background jobs, cron, a local cache, storage, a REST layer over a relational
mapper, and loggers. TLC checks the modules on small instances, TLAPS proves the
theorems for every instance. Paths are relative to `src/`.

1. The system: its parts, their state, their operations
2. How the parts interact, and what is hard about them
3. The modules: how they correspond to the code
4. The runs: what each shows, its bounds, the fairness assumed
5. The proofs
6. What the work found out about the code
7. What is not modelled, and the plan

`PROJECT.json` holds the same by name: components, runs, the lines every
definition models, a mutant for every property, findings, hazards, theorems.
`tlc -config MCCron.cfg MCCron.tla` repeats a run, `tlapm CronProofs.tla` a proof.

## 1. The system

| part | source | state it keeps | operations | what makes it correct | modules |
|---|---|---|---|---|---|
| worker pool | `work.go` | queue, buffered pool of worker channels, workers, response channels | Start, push, req, dispatch, End | a job runs at most once, on an idle worker; a requester gets the outcome of its own job or a timeout; workers never block but at their select | `WorkerPool`, `JobService` |
| jobs and contexts | `work.go`, `context.go` | the job of a context, payload, result | NewJob, Chain, Continue, SetResult | a handler works on the job its worker received | `JobContext` |
| local cache | `cache/` | 256 buckets of 16 slots of 8 entries | Set, Get, Del, Clear | a Get finds the value stored last under that key, or nothing | `LocalCache`, `LossyMap` |
| cron | `cron/cron.go` | entries, three channels, `running` | Start, Stop, Schedule, Entries, run | a job runs once at each of its times; no call blocks for ever | `Cron` |
| cron schedules | `cron/spec.go`, `parser.go`, `constantdelay.go` | a set of values per field | Parse, Next | the first time after now that the expression means | `Schedule` |
| process lifecycle | `daemon/`, `daemon.go`, `command.go` | stage, state, lock on the pid file, signal channel | MakeDaemon, handleSignals, Reload, shutdown, commands | one process holds the lock and is named by the pid file; a reload hands over; who is to go goes | `Lifecycle` |
| servers, listeners | `server/`, `listener/`, `wgo.go` | listener, lock, connections, the daemon's list of listeners | serve, ListenAndServe, AddListener, Close, IsIdle, shutdown | the list has every listener; Close ends what ListenAndServe began; the process does not die of a server | `Servers` |
| set-up of routes | `http.go`, `server.go`, `whttp/mux.go`, `rest/router.go` | servers, groups, routes with options, registered models | GET..Any, Group, Cache, Register, AddModel, AddMiddleware | a model is served as it was registered last, on every server | `Endpoints` |
| router, mux | `whttp/router.go`, `mux.go` | route tree, pool of contexts | Add, Find, Serve | a request runs the handler of a route that matches, with its values | `Router` |
| responses, middlewares, response cache, RPC | `whttp/`, `wrpc/`, `middlewares.go`, `access.go`, `cache.go` | pools of responses and contexts, cached copies | engine, mux, Recover, Prepare, Access, Cache, handler | a client gets the whole answer of one handler; the access record is of that request | `Responses` |
| reverse proxy | `whttp/proxy.go` | response, buffers, cached copies, copying goroutines | forward, copy, switch protocols | a client gets the parts of one answer in order; no goroutine is left behind | `Proxy` |
| REST requests and records | `rest/router.go`, `action.go`, `model.go`, `cache.go` | rows, cache of records, the request's *REST | POST, PATCH, PUT, DELETE, GetRecord, Write, UpdateRecord, FlushRecord | a bound on how stale a cached record is; one row per create; the answer tells what was done | `Records` |
| REST queries | `rest/query.go`, `model.go`, `gorp/builder.go` | conditions of a request | Init, NewCondition, DoWhere, List, Row, GetCount | what is given was asked for; the pages hold all of it | `Query` |
| REST reports | `rest/report.go`, `es.go` | the tree of aggregations | Build, fetch | a number of the report is that of the documents selected | `Report` |
| transactions | `rest/db.go`, `gorp/gorp.go` | transaction, stack of savepoints, versions | Begin, Commit, Rollback, Insert, Get, Update, Delete | what was rolled back is gone; no change is lost but in known ways | `Transactions` |
| mapper | `gorp/`, `rest/model.go`, `utils/struct.go` | columns of a struct, the row | ReadStructColumns, Fill, Valid, Save, Row, Protect | a row reads as the client was told; no answer shows a secret | `Columns`, `ModelRow` |
| storage, lock, sessions | `storage/`, `rest/session.go` | redis nodes | Put, Get, Delete, Lock, sessions | what was put stays until it is ended, and then not; one holder of a lock | `Storage` |
| logging | `wlog/` | writers' channels and goroutines, connections, files | LogWrite, run, rotate, deleteOldFiles | no record is lost but where a write fails; loggers are not held up | `Logging`, `LogFiles` |
| HTTP client | `resty/`, `rest/client.go` | request, pool of buffers | R, Execute, Backoff, middlewares | every attempt sends what was asked | `HttpClient` |
| binding, configuration, utilities | `whttp/binder.go`, `environ/`, `utils/` | - | conversions | - | - |

## 2. Interactions, and what is hard

*Calls.* `Run` (`wgo.go`) starts the daemon, the cron, the worker pools and the
servers. A server hands a request to its engine, that to its mux, the mux finds
a handler and runs it inside the middlewares; the REST middlewares put a *REST
into the context, and REST handlers use gorp, the local cache, redis and other
services. Handlers and cron jobs push jobs. Everything logs.

*Messages.* The pool, the cron, the loggers and the signal handler are goroutines
that meet others on channels: an unbuffered queue, a buffered pool of channels
and one response channel per job in `work.go`; three unbuffered channels, one of
them used in both directions, in `cron/cron.go`; a buffered channel per log
writer, into which a syslog writer puts back what it could not send; an
unbuffered channel of signals, where `signal.Notify` drops what nobody awaits.

*Shared state.* The job field of a context; `func` of a route node, written by
every request that finds it; responses, contexts and buffers that pools hand
from one request to the next; the buckets of the cache; the cron's `running`,
read without synchronisation; the daemon's list of listeners, appended to by
every server's goroutine; rows, redis and log files, which other processes and
goroutines write too; between processes the lock, the pid file and the address.

*Callbacks.* A job handler may request a job of the pool it runs in; a hook may
create the row its request is about to create; a panic in a handler or in Reload
is recovered and made an error, one in a server's goroutine ends the process.

*Hard behaviours*, with the module that has them:

- goroutines that meet on channels, timeouts that race answers, workers that
  quit with their channel still in the pool (`WorkerPool`), contexts that are
  used again while a worker is at their former job (`JobContext`);
- a binary search over entries that are overwritten in place, equal hashes,
  expiry, a Clear that passes bucket by bucket (`LocalCache`);
- callers that cross on one channel, a Stop seen by two, an entry added as the
  timer fires (`Cron`); units of time that wrap around (`Schedule`);
- lost signals, two generations of processes, commands that take the lock to
  look, crashes between any two steps (`Lifecycle`); locks that are kept on error
  paths, appends to one list at once, Close before listen (`Servers`);
- set-up calls in any order, some of which add all routes again (`Endpoints`); a
  search that jumps back, nodes written while requests are served (`Router`);
- pooled objects that keep what the last request left, views of one array
  (`Responses`), buffers of an attempt before (`HttpClient`);
- answers that break off, clients that go, two copiers of which one is awaited
  (`Proxy`);
- a cache filled after a read that is no longer true, flushed after an update,
  under one of several names, with a replica that lags (`Records`); savepoints
  whose error is dropped (`Transactions`); rows that come and go between pages
  (`Query`); two readers of one struct that must agree (`Columns`), two sides of
  one tree of aggregations that must (`Report`);
- deletes that come late, replies that are lost, a service that is asked when
  redis fails (`Storage`);
- queues that are full, a goroutine that stopped, rotations that remove each
  other's files (`Logging`, `LogFiles`).

## 3. The modules

Every module names the actor's steps after the functions of the code. A step is
what happens between two points at which another goroutine, process or request
can be seen: a channel operation, a lock, a system call, a database or cache
access. The first comment of a module says what one step stands for.

Definitions under "faulty variants" are not part of any specification. Each is
the mutated form of a definition, as a plausible bug would have it, and shows
that a property can fail; `PROJECT.json` says which.

**WorkerPool** (`work.go`). `worker[w]` is the worker's goroutine: `register`
and `select` are the two halves of its loop, `run` is inside `handler.Do`.
`pool` is `wp.pool`; a channel of a worker is identified with the worker.
`place[j]` follows the goroutine dispatch spawned for a job, `lent[j]` is the
channel it took. `caller[j]` is who created the job: `push` returns when the
dispatcher has it, `req` waits for the response or its ticker. `Submit(j, kind,
by)` with `by` a worker is a handler calling back. Submissions before Start,
during and after End are allowed, as nothing in the code prevents them.
**JobService** is what pushers and requesters may rely on, without goroutines:
at most once, at most Capacity at a time, own outcome or timeout, one answer.

**JobContext** extends `WorkerPool` by what handlers see. `current[c]` is
`c.job`, replaced by `NewJob` before the job goes to the queue; handlers reach
payload and result through it, while `Do` answers with the result of the job the
worker received.

**LocalCache** (`cache/`). Set, Get and Del hold the lock of the bucket
throughout: one step each. `EntryIdx` is the loop of `entryIdx`, unrolled for
eight entries; `Lookup` the scan after it; `Clear` locks one bucket after the
other. `Hash` is any function to bucket, slot and 16-bit hash; expiry times are
modulo 2^32 (`TimeMod`), and TimeAssumption keeps them from wrapping around.
**LossyMap** is what users rely on: a map that may forget.

**Cron** (`cron/cron.go`). `runner` is the goroutine in `run`, `reply` between
receiving a request for the entries and sending the copy. A caller that read
`running` as true is then at `add`, `ask` or `stop`, whatever happens to the
runner meanwhile. `Cross` is a caller that, waiting for its answer, receives the
request of another. Time passes only when nothing is due.

**Schedule** (`cron/spec.go`, `parser.go`, `constantdelay.go`). A field is a
sequence of ranges; parsing makes a set of values of it, Next is a state machine
whose levels are the labelled loops of the code, month down to second. The
calendar is a constant, so that years can be short.

**Lifecycle** (`daemon/`, `daemon.go`, `command.go`, `wgo.go`). Per process the
main goroutine, the signal handler and the hammer. A process made by a reload
begins at `reloaded`: it interrupts its parent and then goes for the lock like
any other. `lock` is the flock on the pid file, which ends with the process.

**Servers** (`wgo.go` serve, `server/server.go`, `daemon.go` AddListener).
`boot[s]` is the goroutine serve starts for a server, from prepare over the lock
to the serving loop; `mu[s]` is the server's mutex with its holder, which the
error paths keep; `lp` is the daemon's list, which AddListener reads and then
replaces in two steps; `closer[s]` is the goroutine of a shutdown. The list begins
empty, as no process inherits a listener: Reload panics when it has one to hand
over (`ReloadPanics` of `Lifecycle`).

**Endpoints** (`http.go`, `server.go`, `whttp/mux.go`, `rest/router.go`). The
calls a program makes before it serves, each a step that changes all servers it
is for. `servers[i].routes` is keyed by path and method, as the last route wins.
`rests[m]` is what Register keeps of a model; AddMiddleware adds the routes of
all of them again. `meant` and `wish` are history: what the calls asked for.

**Router** (`whttp/`). The tree is a function from texts to nodes: a node is
known by the text on the way to it. `Insert` is one call of `insert`, with the
split of a node. `find[c]` is Find's local variables and the context's values;
each turn of its loop is a step, the gotos are the values of `at`. `End` stores
the handler in the node, `Handle` is Serve reading it back.

**Responses** (`whttp/`, `wrpc/`, `middlewares.go`, `access.go`, `cache.go`).
`pc[r]` is how far the request is in the chain engine, mux, middlewares,
handler. `res` and `con` are the pooled response and context of a slot, with what
the reset functions leave of the request before. A buffer is a view of an array
in `mem`, so that an assignment of a buffer shares the array, as in Go. The
three engines differ in when a status is sent and how a copy is made.

**Proxy** (`whttp/proxy.go`, with the pooled responses of the engines). `read` and
`sent` are the parts of an answer that were taken from the backend and given to
the client; `copiers` are the two goroutines of a switched connection and `errc`
what they report; `watcher` cancels a request whose client is gone; `kept` is the
cache of the middleware. A request has a pooled response (`slot`) and that an
`array`, which stays with it. `CopyTo`, which fills the cache and answers from it,
shares the array on the standard engine and takes a new one on fasthttp's; a
write goes to the array in place or to a new one, and in place it writes over
what others have there (`WriteOver`). `spoilt` is history: whose parts were
written over.

**Records** (`rest/`). `table` is what the writer has, `past` what rows were
before: with it the replica's answer (`Readable`) is any row replaced at most
`Lag` ago. `cache` is the local cache, by key and name: names are what GetRecord
makes of the primary key, of another key or of a set of columns. `req[r]` is the
pipeline of one request, `at` the next access it makes; what a hook may refuse,
and when, is `Refuse`, `Conclude` and `HookInserts`. A WillCreate hook that
creates the row is taken not to fail afterwards.

**Query** (`rest/query.go`, `rest/model.go`, `gorp/builder*.go`). Parameters are
taken out of a map in any order and merged into conditions (`env`); the WHERE
clause is a set of clauses, each a set of atoms; count and page are two accesses,
and rows change between pages. Secret and hidden columns are in `shown` if given.
ParseCondition makes a time of a value that has the form of one (`times` of a
condition), and DoWhere has a clause for a time under Lt only. The count a HEAD
gives is what the pooled model's Count holds, unless that is 0.

**Report** (`rest/report.go`, `rest/es.go`). Build and fetch are written as two
passes over one declaration, with the wrappers `wraps` as their agreement;
Elasticsearch is given by the meaning of its aggregations.

**Transactions** (`rest/db.go`, `gorp/gorp.go`). A model holds one struct and one
transaction. `marks` are the database's savepoints, `points` the stack
rest.Transaction keeps; a savepoint can fail, and the code drops that error.
`undo` is what a rollback brings back. What a struct had read is history, kept to
say which change a write replaces.

**Columns, ModelRow** (`gorp/`, `rest/model.go`, `utils/struct.go`). `Columns`
has typeStructColumns and readStructColumns side by side, and the conversions
ToDb and FromDb. `ModelRow` is a sequence of requests for one row: fill, check
with the keepers of fields, INSERT or UPDATE, SELECT, answer. Plain string and
int columns and logic columns are taken to be NOT NULL with a default.

**Storage** (`storage/`, `rest/session.go`). Each try of a Put, each Get and the
goroutine of a Delete is a step at a node that may fail, before or after it did
what it was told. A session that redis does not have is asked of the account
service and put. DelSession deletes from redis only: the service gets to know
sessions and forgets them by itself (`Known`, `Forgotten`), and may still know one
that was ended. `undone` is history: the ended sessions that can come back, and
why.

**Logging, LogFiles** (`wlog/`). `Logging` has the channels and the goroutines
that empty them, one for a file or a console, several for a syslog, with their
connections and what they give back. `LogFiles` has the names of files: a
rotation takes the next free number of the day and starts a goroutine (`sweeps`)
that walks the directory in the order of names and removes what is old.

**HttpClient** (`resty/`, `rest/client.go`). `req` is the resty.Request with what
attempts leave in it: query, headers, the reader, the buffer drawn from the pool.
Cookies and headers are those of the client and of the call.

## 4. The runs

The parts of a process share memory only where section 3 says so, and most
properties speak of one part. Three runs therefore put several modules into one
state with a variable `part`: one part runs, chosen at first, the others rest in
a state without a step. A property of a part is then that of its module.

| run | shows | instance |
|---|---|---|
| `process` | by part: the pool implements JobService, fairness included, every wait ends, and until End obtained channels are of idle workers; the list of listeners is complete, the process dies in known ways, and a shutdown ends it; Find ends; records are not lost and senders not held up; a proxied request gets its own answer and leaves nothing behind | 1 worker, 2 jobs, nested, End; 2 servers on one address or two, one with TLS; 3 routes, 5 paths; 2 senders, 2 levels, a channel of one, failing writes; 1 request with an upgrade, without, or OPTIONS |
| `services` | by part: workers never block, results are one's own; routes are as registered and requests are routed; answers are whole and records own; a proxied answer in order, arrays that kept copies share included; what was asked is sent; Next is first | 2 workers, 2 jobs, 2 contexts, no End; 3 set-up calls on HTTP servers and an RPC one, 2 models, 2 verbs; 2 routes out of 6 patterns and 2 methods, 17 paths; 3 requests of 5 kinds, 2 slots, 3 engines; 2 proxied requests of one key, plain, streamed or switched, and 3 of two kinds, on 2 pooled responses; 2 calls with 3 attempts; over 150 expressions on a calendar of 8 years |
| `stores` | by part: the cache is a LossyMap, with one entry a slot; what a rollback takes back and leaves, and versions; a row reads as told; queries and pages; reports; sessions; log files | 3 keys of one slot, 2 of them with hash 0, expiry 0 to 2, time to 3; 2 models, 1 transaction, 1 row, 3 writes, 2 savepoints; 3 models and the layouts of 3 more structs, 2 requests in turn; pairs of 34 parameters, some on a time, tables of up to 4 rows; 8 reports of 3 sets of documents; 2 processes, a session and a lock, 5 failures, an account service; 2 writers with one prefix, 2 records over 3 units of time |
| `cron` | nothing missed, nothing early, late or twice; one receiver for every reply; calls return | 2 callers, 3 jobs (one never due), Stop and Start, time to 3 |
| `lifecycle` | the master holds the lock and is named; a reload does not end the program; old processes go | 3 processes, 1 signal, crashes and failures |
| `records` | how stale cached records may be; one row per create; answers | 2 requests, 3 keys, 2 names, expiry 2, delay 1, lag 1, time to 6 |
| `context_reuse`, `cron_entries`, `lifecycle_reload`, `router_race`, `cached_copy`, `lock` | violations, see section 6 | |

*Why the bounds are enough.* In the pool the hazards take two workers, a job at
each; with one worker a nested request is what blocks all workers, which is the
case `process` has: one job is requested by the handler of the other. In the
cache a slot never has to be filled: two keys with one hash and one key with
another are all relations of hashes. Two callers of the cron are enough to cross
on a channel; in three seconds entries of periods one and two run several times
and fall due together. Three processes are a parent, its successor and an
intruder; what one signal does not reach, a reload of a reload, the proofs cover.
Two servers are enough to append at once, to want one address and to be at
different places when a shutdown comes. Of two routes one shares the other's
nodes in every way. Three requests for answers are one that fills the cache, one
that takes a pooled response after it and one that is answered from the cache.
Three set-up calls are two registrations and a middleware for all, or an option
of a route between them, in any order. A row needs one key, as each row has its
own lock and version; two savepoints nest, and three writes are an insert and two
updates by models that have read it at one version, or an insert and a change
under each savepoint. Three proxied requests are one whose copy is kept, one that
is answered by the copy or writes to its array, and one that does the other. Two
parameters show every merge, as conditions
merge in pairs. The calendar has a month that lacks a day in most years, which is
what the limit of five years is for. Five failures fail all tries of one Put.

In `records` the two requests are a reader and a writer, or two writers; Expire
is two seconds, Lag and MaxDelay are one, so that reading, caching and hitting
happen at times of their own, over six seconds. That no third request changes
this is proved (section 5).

Requests, jobs and processes are used once each, so most instances come to rest;
deadlock is looked for in `cron`, where a state without a next step would be a
blocked system, and not where programs may stop.

*Fairness.* Weak fairness of a step means that a goroutine that can go on does;
the Go scheduler, the timers and the operating system's scheduler see to that.
Pool: workers, dispatcher, job goroutines and handlers, which are taken to
return; tickers fire. Nobody has to submit or to End. Servers: the goroutines of
start and close, and the exit; a serving loop whose listener is closed returns.
Requests and signals need not come. Router: a goroutine that serves goes on.
Proxy: the watcher and the copiers; a copier whose connections are closed ends,
one whose connections live need not. Cron: the runner's steps. Where goroutines
queue for a channel (senders to the cron's runner and to the loggers, and the
loggers' goroutines that put back) fairness is strong: queues of channels are
first in, first out and a select picks at random among the ready. Lifecycle: main
goroutines, handlers and the hammer, which is a timer; not ShutdownExit, as a
work or server may hang for ever, and no operator.

*Mutants.* Every property of a passing run has a mutant in `PROJECT.json`: a
definition of the model replaced by one with a plausible bug, under which TLC
finds the property violated with the run's own configuration.

## 5. The proofs

The theorems hold for any finite set of workers, any jobs, keys, callers,
processes, servers, requests, hash functions and delays, under the named
assumptions of the modules (finite sets, distinct null values, positive expiry).
Each follows from an inductive invariant by initial states, every step, and the
temporal rule.

- `WorkerPoolProofs`: IndInv is TypeOK, ChannelInOnePlace, RespondNeverBlocks
  and Progress. That registering never blocks is not inductive: it follows from
  ChannelInOnePlace because the pool then holds distinct workers, none of them
  the one that registers (a pigeonhole argument over sequences without
  repetition). Progress is needed because a job's response channel is empty only
  as long as the job is not done.
  `ImplementsService`: every step is one of JobService or changes nothing its
  callers see. Hand is Run, which has room: running jobs have a worker each, and
  none has the one that is at its select. Tell needs ToldWhenDone, that an
  outcome is only known when the job is done. The proof is of JobService!Safety,
  whether the pool is ended or not; that jobs get done is left to TLC.
  The second part is about `JobContext`, under NoDataAssumption. `Alone` says of
  an unfinished job which no other of its context met unfinished that the context
  has it and nobody else's, `Course` what its handlers have done to its payload
  and result so far, `SentRight` that the outcome on its way is that: OwnResult
  follows.
  A step of the pool with its data is a step of the pool (`PoolImplemented`), so
  that all of the first part holds of `JobContext` too.
- `LocalCacheProofs`: in a slot with nothing before its last position every
  lookup ends there (`LookupIsLast`): for hash 0 the scan passes seven empty
  entries, for any other the binary search goes right three times. So Set
  writes there, and OneEntryPerSlot with TypeOK is inductive.
  `ImplementsLossyMap`: what Found gives is then the last entry's value
  (`FoundIs`), and every step stores one key, removes one or forgets. A Set
  replaces another key's entry or none; Tick only makes entries expire, as the
  clock is below what expiry times wrap around at (`InTime`).
- `CronProofs`: ReplyHasReceiver and FlagAgrees together are inductive: who
  waits for a reply is at `receive` only while the runner is at `reply`, and
  that takes the flag being right about the runner. A crossing hands the duty to
  receive from one caller to the other. The second part is about times: DataInv
  says that entries have jobs of their own, that none's time has passed when the
  runner sleeps, and that its timer is set to the first of them.
  `LoopSorts` says what sorting gives, in whatever order it leaves equal entries:
  the same entries, those that are due first. So the timer is set to the least
  time, nothing is due while the runner sleeps (NoneMissed), and what it runs is
  due at that moment (RunsOnTime).
- `CronProofs`, third part, of an instance of `Schedule`: a minute, an hour, a day
  and a month are units (`UnitIn`), each made of smaller ones, so that a time is in
  the unit of the second before or the first of its own (`NextUnit`), and `Turn`
  says that a turn of a field's loop goes to the first second of the next unit.
  LoopAt is what holds in the loop: no second before `t` is wanted, the larger
  fields have one of their values, and, once something was added, a field that has
  not is at the start of its unit. The last is why Next may floor a time only
  once: a field that wrapped around begins a larger unit, or it is still in the
  one that was looked at. With what parsing makes of the ranges (`MeetsMatches`)
  this gives NextIsFirst. The hypotheses, `TimesRight`, are that bounds and ranges
  are of numbers and that the calendar has consecutive days, months that begin
  with day 1 and a new year in the first month, and goes on after the years Next
  looks at. They hold of the calendar of the run.
- `LifecycleProofs`: MasterNamed is not inductive. `Young` says that a process
  has no handler and no hammer before it has the lock, so that a master is one
  that got there the one way; `WriterLocks` covers the time between the lock and
  the pid in the file. MastersApart follows: one lock, one master. For
  ServiceSurvives, Succession says that as long as nobody was told to stop and
  nothing crashed or panicked, one process stays: who goes has a successor, and
  that has no handler yet which could be told to. The types are an invariant of
  their own.
- `ProcessProofs`: of `Servers`, PoolRight says, while no two servers were in AddListener at
  once, that a listener that was stored is in the list once, that one that was
  not is not there, and that who is about to write the list has read it as it is.
  ListenersRight says where a server's goroutine is when it has a listener,
  PoolListens that the list has listeners only: a server finds its own there or
  none. PanicsRight follows a server of an address of its own: it gets to its
  panic only when it is being closed, which gives DiesOnlyKnownWays.
- `ProcessProofs`, second part, of an instance of `Proxy`: CourseOf says which
  parts are in the response, flushed or in its buffer, at each place of a request:
  none before there is an answer, the first ones of it while it is copied, and
  from then on those of the answer it serves (`Given`), which may be another
  request's of its key. It is said of the requests that are not spoilt; KeptOf says
  the same of the cache. What was given stays given, as the answer of a request
  that is past its copying does not change (`Stays`). BodiesApart is why requests
  are spoilt only where responses are kept, on the standard engine: until then no
  array is of two responses or of a response and a copy, so that who writes in
  place meets nobody. The two together give GetsOneAnswer at the last place. The
  hypothesis is that MaxParts is a natural number.
- `ProcessProofs`, third part, of an instance of `Logging`: `Somewhere` says of a
  filter that what it was given is in its channel, in a hand, written or lost, and
  `OnePlace` that while no write failed a record is at one of these, once in the
  channel and in one hand. HandsRight says that nobody is at a second attempt
  before a write failed; GivenRight that a sender's next record is new to the
  filters it is still to give it to, without which giving could double one. The
  number in NothingLost is then that of a union of disjoint sets. NoneApart is
  the hypothesis: no record is the null value.
- `ProcessProofs`, fourth part, of an instance of `LogFiles`: a file has records of
  its own writer, none newer than the file (OwnFiles), and a goroutine that removes
  files is done within the day it was started on (SweepsRight, from Tick). NamesKept
  follows for a writer that keeps files and has had no overrun: a goroutine that may
  remove its files was started by its own rotation, at which its current file was
  new, so that this is never old enough to go (`CurrentIsYoung`); and a file that
  is about to be removed is the one that was found old, as nobody else removes it
  and a rotation takes a number that is free (`NumberFree`). So what goes is old,
  and its records with it (`SweepRemoves`). The hypotheses are that a day takes
  time, that the rotations are settings of writers and that no file's name is the
  null value.
- `ServicesProofs`, of `Storage`: KeptRight says that a kept session is at its node, that no
  delete of its key is on its way and that nobody puts something else there;
  EndedRight that an ended session, but one that can come back (`undone`), is about
  to be deleted, or gone and nobody is about to put it. Both theorems assume
  KeysApart: the keys of locks are keys, and "no
  text" is none of the texts that are stored. Locks and sessions share no key.
- `ServicesProofs`, second part, of an instance of `HttpClient`: RequestRight says
  what the attempts of a call may leave of what was set for it: the parameters
  and headers it merged, which merging again does not change, a content type
  that is not set or the right one, and a body that is the call's or a reader
  that was copied. So what Prepare makes of it is what was asked, at whichever
  attempt. BuffersRight follows a buffer from the pool to the request and back:
  the one that an attempt opened is none that the request still has, or they are
  both of this attempt. The buffer that is taken is the least of the pool, which
  exists by well-founded induction. The hypotheses are that a call's
  body is of the kinds resty has and that no buffer is the null value.
- `ServicesProofs`, third part, of an instance of `Responses`: the heart is
  ArraysApart. No array is behind the buffers of two responses, or of a response
  and of one that is cached, so that a write, which goes into an array in place
  when there is room, changes one body (`WriteKeeps`, `BodiesStay`). CourseRight
  says what is in the response and the context at each place of a request, as
  Progress after n parts, whole when it leaves; EntryRight says that a cached
  response is the whole answer of a request that may stand for whoever finds it
  under its key. `StepOf` and `Keeps` are what every step of one request leaves
  alone. The hypothesis that matters is that no server of the standard engine has
  a response cache: its copies share their array, ArraysApart fails, and the run
  `cached_copy` shows the consequence.
- `RecordsProofs`: FillsRight remembers, for a request between its read and its
  fill, that the row it has was readable when it was read, MaxDelay ago at most.
  CacheRight turns that into a bound on the expiry of each entry, not on the
  clock: the bound of BoundedStaleness follows when the entry is hit.
  ChangersRight says where a request that changed a row can be; RaceRight is
  StaleOnlyInRace of expired entries too. `MovesOn`, `Changes`, `Caches` and
  `Deletes` are the four kinds of steps.
- `RecordsProofs`, second part: `Honest` says of a
  request at every place whether it has written, so that the answer it gets is
  true; RowsKnown that a request which updates a row has one, through a record in
  the cache too, which is why AnswersRight cannot be shown without what the cache
  holds. OnceInv says who has written nothing so far; an insert comes only after
  that, and a hook's insert sets `saved`. `RowsStay` and `RowChanges` are the two
  kinds of steps.

- `TransactionsProofs`: a row that a rollback leaves is the row before the first
  change it takes back (`BeforeFirst`), and going back twice is going back once
  (`BeforeCut`). AllFree is the heart: no row that a transaction would leave if
  it went back to one of its marks was changed under the savepoint of that mark,
  or by the transaction if it went back to its start. Then what a rollback takes
  back is in no row (Clean), in none that another rollback would restore, and
  comes back never, as the names of savepoints are used once (NamesApart).
  MarksOrdered and LocksApart say that rolling back one transaction restores
  nothing of another's and nothing younger marks stand for. The stack of
  rest.Transaction may have names the database does not know. HandlesApart is a
  hypothesis: transactions are told from savepoints, which are numbers here.
- `TransactionsProofs`, second part, for LostOnlyKnownWays: `Keeps` compares a
  struct with a row of its life, which is not older than the struct and, when it
  has the struct's version by another change, has it by one from a struct with
  version 0. `Fits` says so of the row that is there and of those that may come
  back. The latter may be older than the struct, but only when `Above` holds:
  whatever could bring them back, the transaction or a savepoint before them that
  is still on its stack, takes back the struct's change too. InOrder is this of
  every struct that stands for a change not rolled back and of every row, as a Get
  makes a struct of any of them, rows that others have locked included. An insert
  begins a life and an update raises the version, unless it is from a struct with
  version 0, which leaves it at 1 (`Follows`): a row that came of such a struct, and
  one that such a struct matches, is at version 1. So a struct that matches a row and
  has not its last change is one of the named ways (`ReplacesRight`).

Only model-checked: liveness under fairness, which the prover does not do
(EveryWaitEnds, ServiceLive, ShutdownEnds, EveryRequestServed, SendersGoOn,
NothingLeft, EveryCallReturns, OldGenerationGoes); what the standard engine does
with a response cache (`ResponsesRight` assumes it has none); and the modules
built of folds and recursion over sequences and trees: Router, Endpoints, Query,
Report, Columns, ModelRow.

## 6. What the work found out about the code

Findings that a run shows by a counterexample:

- `context_reuse` (`work.go:126`): a request times out while a worker still runs
  it; the next request on its context replaces the job, and the handlers of the
  first read and write the second.
- `cron_entries` (`cron/cron.go:131`): Entries sends and receives on one
  unbuffered channel; a second caller's request is taken for the first one's
  answer, which is then nil. That a runner about to reply has one receiver, and
  only one, however requests cross, is proved.
- `lifecycle_reload` (`daemon/daemon.go:573`): Reload asserts that listeners are
  *net.TCPListener, but servers add a wrapper; the panic is recovered, no
  successor starts, and the hammer ends the process all the same.
- `router_race` (`whttp/router.go:673`): Find stores the handler of its method
  in the node all methods share; Serve of another request runs it.
- `cached_copy` (`whttp/standard/response.go:55`): CopyTo of the standard engine
  copies the buffer's header, not its bytes: the copy in the cache is written
  over by the next request that gets the pooled response. The proxy keeps and
  answers by the same CopyTo (`whttp/proxy.go:169`, `whttp/proxy.go:198`).
- `lock` (`storage/lock.go:35`): a lock is a Put that never tells that the key
  exists, so everybody who asks gets it.

Seen while modelling, and part of the models where they say so (a property with
"known ways" names them as the cases it does not speak of):

- *Cache.* A slot holds one entry, not the sixteen of the comment at
  `cache/bucket.go:51` (proved): an insertion always evicts.
- *Router.* `r.depth` (`whttp/router.go:304`) is one, as `Add` inserts the first
  name alone first, and contexts have `depth` values: a route with two names is
  never found. Find goes back one level; a wildcard or a static text at the place
  of a name, or an empty last segment, is not found reliably; `/:x` with `/a/:x`
  and the path `/a//` reaches a nil node. The patterns of the runs are those of
  the REST package, which avoid all this.
- *Set-up.* A model registered without methods has all of them, so what Register
  and AddModel do to close routes opens them (`rest/router.go:88`).
  AddMiddleware for all models adds routes for models of other packages too and
  drops the middlewares a model was registered with. A server made after Init has
  no middlewares and then drops those of its routes (`whttp/mux.go:157`). Those
  of a group are never used (`http.go:102`), and Any of a group gives no routes.
- *Lifecycle, servers.* A second instance that cannot take the lock goes on to
  serve, as Fatal only logs. Two servers that append their listeners at once lose
  one from the list (`daemon/daemon.go:658`). A listener that was found in the list
  is not the one that is served and closed (`server/server.go:262`).
- *Records.* DELETE leaves the cache alone, an update flushes the name made of
  the primary key only and only in its own process: all else is bounded by
  CACHE_EXPIRE. GetRecord does not tell a database error from a missing row, so
  Write then tries to create it. A Did hook that fails answers "not ok" although
  the row is written. Write cannot create again what is logically deleted.
- *Transactions.* The error of a savepoint is dropped (`rest/model.go:977`). A
  struct that was not read has version 0, and its update matches rows at version 1,
  which it does not stand for, and leaves them there.
- *Queries.* The start, end and date of a URL are ignored by every kind of
  request. A Not also puts its values in as an Is, which no row meets. Parameters
  on one column replace each other in the order of a map. A value in the form of a
  time on a `*time.Time` column becomes a time.Time (`rest/query.go:260`), for which
  Is, Not and Gt have no clause (`rest/model.go:342`, `rest/model.go:405`): the
  condition is lost, and rows come that were not asked for. A HEAD believes the
  Count that the pooled model still has (`rest/model.go:1631`), which its reset
  leaves alone (`rest/rest.go:153`).
- *Rows.* rest and gorp read tags, names with acronyms and names that are "-"
  each in its own way; of structs embedded two levels deep the place is wrong; a
  `[]int` cannot be read; a text in an interface comes back as what it looks like
  in JSON; a plain number that was not sent is written as 0; a row whose logic
  column is NULL is invisible; the existence keeper panics at a nil model.
- *Storage.* Put returns nil after five failed tries (`storage/storage.go:73`). A
  Delete that is on its way removes what is put after it. DelSession does not tell
  the account service (`rest/session.go:110`), so that the next request of an ended
  session may have it back from there (`rest/session.go:53`); nor is its Delete
  tried again. ReleaseLock leaves a lock in redis when its Get fails.
- *Logging.* A file writer's goroutine returns after a write error, and its
  callers block when the channel is full. A record may be written twice to a
  syslog. A file writer removes files of another whose name begins with its own,
  and two removing goroutines may take one name, the second a newer file.
- *Proxy.* An answer that was cut off is kept as if it were whole; of one that was
  flushed as it came or switched protocols an empty body is kept, and the next
  request gets that. On the standard engine a kept response shares its array with the
  pooled response it was copied from, and with those it answers: a later request,
  cached or not, that gets one of these writes over the parts of the others. Its
  CopyTo leaves the status behind, too, so that what is answered from the cache has
  the status of the response it is copied into.
- *Client.* A reader is sent once only, and later attempts send none.

## 7. What is not modelled, and the plan

Left out of the modelled parts: counters of the cache and keys over 65535 bytes;
the race on the slice of cron entries itself and Location; a job pushed to a pool
that does not exist; PushTo, which is a push per pool; the stages of Spawn,
SignalHooks, inherited files and pipes, and inherited listeners, as Reload never
gets to hand one over; Start of the cron by two goroutines at once, which read and
write `running` without a lock (`cron/cron.go:143`), as the framework starts it
once; the serving loops of net/http, fasthttp
and gRPC; rendering, static files, gzip and the other middlewares; URL rewriting,
trailers, and the status and headers of kept responses in the proxy;
Elasticsearch searches of lists, dictionaries and
exports; keys of several columns and SQL dialects; redirects, TLS and the reading
of answers in resty; Increment and dialling of redis; the copy of a record to
Elasticsearch in a goroutine of its own; formatting of logs.

Not modelled, with reasons: the binding of requests fills a struct from a form by
reflection and keeps no state; the configuration is read at start into
structures that do not change, and its watcher is a client of an external
service; the utilities are conversions, and SafeMap is a map behind a lock of its
own, one step of the modules that use it; examples, vendored code and deployment
are not part of the framework.

*What could follow*, in this order:

1. A composition of `Lifecycle` and `Servers`, with listeners inherited over a
   reload, once Reload gets that far.
2. `Records` over `Transactions`: CreateRow and UpdateRow use the writer's
   connection and not the transaction of the request.
3. Two pools at once in `Responses`, whose contexts and responses are drawn
   together now.
