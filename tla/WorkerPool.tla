----------------------------- MODULE WorkerPool -----------------------------
(***************************************************************************)
(* The worker pool of work.go: callers hand jobs to an unbuffered queue,   *)
(* the dispatcher spawns one goroutine per job, each such goroutine takes  *)
(* the channel of a registered worker out of the buffered pool and hands   *)
(* its job over, and the worker runs the handler, fills the job's response *)
(* channel and registers again.  Everything between two channel operations *)
(* of one goroutine is one action; a send and the receive it meets on an   *)
(* unbuffered channel are one action too.                                  *)
(*                                                                         *)
(* A channel of a worker is identified with the worker.  What a handler    *)
(* computes is left to module JobContext; here it returns a result or      *)
(* fails (an error returned and a panic recovered have the same effect).   *)
(***************************************************************************)
EXTENDS Naturals, Sequences, FiniteSets

CONSTANTS Workers,   \* the wp.max workers of the pool
          Jobs,      \* the jobs ever created
          NoWorker,  \* stands for "no worker"
          MayEnd     \* whether End may be called

ASSUME WorkersAssumption == IsFiniteSet(Workers) /\ NoWorker \notin Workers
ASSUME MayEndAssumption == MayEnd \in BOOLEAN

VARIABLES worker,      \* what each worker goroutine is doing
          quitting,    \* workers with a goroutine blocked on quit <- true
          pool,        \* the buffered channel of worker channels
          dispatching, \* dispatch() has been started
          caller,      \* what the goroutine that created the job is doing
          parent,      \* the worker whose handler created the job, if any
          place,       \* how far the job got
          lent,        \* the worker whose channel the job's goroutine took
          response     \* the job's response channel, of capacity one

vars == <<worker, quitting, pool, dispatching, caller, parent, place, lent, response>>

WorkerStates == {"off", "register", "select", "run", "gone"}
Blocked == {"push", "req", "wait"}      \* caller states inside push() or req()
Outcomes == {"result", "error"}
CallerStates == {"idle", "returned", "timedout"} \cup Blocked \cup Outcomes
Places == {"none", "obtain", "hand", "work", "done"}

MaxWorkers == Cardinality(Workers)

(* A worker whose handler is inside a nested push or req.                  *)
InCall(w) == \E j \in Jobs : parent[j] = w /\ caller[j] \in Blocked

-----------------------------------------------------------------------------
(* Faulty variants of some of the steps below.  No specification uses them *)
(* as they stand: put in the place of the real step, each makes one of the *)
(* properties at the end of the module fail.                               *)

(* The channel is taken as a result before anything was sent on it.        *)
AnswerUnchecked(j) ==
  /\ caller[j] = "wait"
  /\ caller' = [caller EXCEPT ![j] = response[j]]
  /\ UNCHANGED <<worker, quitting, pool, dispatching, parent, place, lent, response>>

(* A ticker that never fires, such as the nil channel of time.Tick(0).     *)
TimeoutNever(j) == FALSE /\ UNCHANGED vars

(* The quit signal ends the select but not the loop around it.             *)
QuitSelectOnly(w) ==
  /\ worker[w] = "select"
  /\ w \in quitting
  /\ worker' = [worker EXCEPT ![w] = "register"]
  /\ quitting' = quitting \ {w}
  /\ UNCHANGED <<pool, dispatching, caller, parent, place, lent, response>>

(* The worker's channel is looked up, not received.                        *)
ObtainPeek(j) ==
  /\ place[j] = "obtain"
  /\ pool # <<>>
  /\ lent' = [lent EXCEPT ![j] = Head(pool)]
  /\ place' = [place EXCEPT ![j] = "hand"]
  /\ UNCHANGED <<worker, quitting, pool, dispatching, caller, parent, response>>

(* A worker that had an error waits for a job without registering first.   *)
RespondAndWait(j, outcome) ==
  /\ place[j] = "work"
  /\ ~InCall(lent[j])
  /\ response[j] = "empty"
  /\ response' = [response EXCEPT ![j] = outcome]
  /\ place' = [place EXCEPT ![j] = "done"]
  /\ worker' = [worker EXCEPT ![lent[j]] = IF outcome = "error" THEN "select" ELSE "register"]
  /\ UNCHANGED <<quitting, pool, dispatching, caller, parent, lent>>

-----------------------------------------------------------------------------

Init ==
  /\ worker = [w \in Workers |-> "off"]
  /\ quitting = {}
  /\ pool = <<>>
  /\ dispatching = FALSE
  /\ caller = [j \in Jobs |-> "idle"]
  /\ parent = [j \in Jobs |-> NoWorker]
  /\ place = [j \in Jobs |-> "none"]
  /\ lent = [j \in Jobs |-> NoWorker]
  /\ response = [j \in Jobs |-> "empty"]

(* Start: one goroutine per worker ...                                     *)
StartWorker(w) ==
  /\ worker[w] = "off"
  /\ worker' = [worker EXCEPT ![w] = "register"]
  /\ UNCHANGED <<quitting, pool, dispatching, caller, parent, place, lent, response>>

(* ... and then the dispatcher.                                            *)
StartDispatch ==
  /\ ~dispatching
  /\ \A w \in Workers : worker[w] # "off"
  /\ dispatching' = TRUE
  /\ UNCHANGED <<worker, quitting, pool, caller, parent, place, lent, response>>

(* A job is created and its creator blocks on the queue.  The creator is a *)
(* goroutine of the application (by = NoWorker) or the handler a worker is *)
(* running, which can be inside one call at a time.                        *)
Submit(j, kind, by) ==
  /\ caller[j] = "idle"
  /\ by # NoWorker => worker[by] = "run" /\ ~InCall(by)
  /\ caller' = [caller EXCEPT ![j] = kind]
  /\ parent' = [parent EXCEPT ![j] = by]
  /\ UNCHANGED <<worker, quitting, pool, dispatching, place, lent, response>>

(* The dispatcher receives the job and spawns its goroutine.  push returns *)
(* to its caller; req goes on to wait for the response.                    *)
Accept(j) ==
  /\ dispatching
  /\ caller[j] \in {"push", "req"}
  /\ caller' = [caller EXCEPT ![j] = IF @ = "req" THEN "wait" ELSE "returned"]
  /\ place' = [place EXCEPT ![j] = "obtain"]
  /\ UNCHANGED <<worker, quitting, pool, dispatching, parent, lent, response>>

(* channel := <-wp.pool                                                    *)
Obtain(j) ==
  /\ place[j] = "obtain"
  /\ pool # <<>>
  /\ lent' = [lent EXCEPT ![j] = Head(pool)]
  /\ pool' = Tail(pool)
  /\ place' = [place EXCEPT ![j] = "hand"]
  /\ UNCHANGED <<worker, quitting, dispatching, caller, parent, response>>

(* channel <- job meets job := <-jw.channel                                *)
Hand(j) ==
  /\ place[j] = "hand"
  /\ worker[lent[j]] = "select"
  /\ worker' = [worker EXCEPT ![lent[j]] = "run"]
  /\ place' = [place EXCEPT ![j] = "work"]
  /\ UNCHANGED <<quitting, pool, dispatching, caller, parent, lent, response>>

(* handler.Do returns: the outcome is sent on the response channel and the *)
(* worker goes back to the top of its loop.                                *)
Respond(j, outcome) ==
  /\ place[j] = "work"
  /\ ~InCall(lent[j])
  /\ response[j] = "empty"
  /\ response' = [response EXCEPT ![j] = outcome]
  /\ place' = [place EXCEPT ![j] = "done"]
  /\ worker' = [worker EXCEPT ![lent[j]] = "register"]
  /\ UNCHANGED <<quitting, pool, dispatching, caller, parent, lent>>

(* jw.pool <- jw.channel, on a channel of capacity wp.max                  *)
Register(w) ==
  /\ worker[w] = "register"
  /\ Len(pool) < MaxWorkers
  /\ pool' = Append(pool, w)
  /\ worker' = [worker EXCEPT ![w] = "select"]
  /\ UNCHANGED <<quitting, dispatching, caller, parent, place, lent, response>>

(* req receives the response ...                                           *)
Answer(j) ==
  /\ caller[j] = "wait"
  /\ response[j] # "empty"
  /\ caller' = [caller EXCEPT ![j] = response[j]]
  /\ response' = [response EXCEPT ![j] = "empty"]
  /\ UNCHANGED <<worker, quitting, pool, dispatching, parent, place, lent>>

(* ... or gives up when its ticker fires, whichever the select picks.      *)
Timeout(j) ==
  /\ caller[j] = "wait"
  /\ caller' = [caller EXCEPT ![j] = "timedout"]
  /\ UNCHANGED <<worker, quitting, pool, dispatching, parent, place, lent, response>>

(* End spawns, for every worker started so far, a goroutine that blocks on *)
(* the worker's quit channel.  Shutdown calls it once.                     *)
End ==
  /\ MayEnd
  /\ quitting = {} /\ "gone" \notin {worker[w] : w \in Workers}
  /\ quitting' = {w \in Workers : worker[w] # "off"}
  /\ UNCHANGED <<worker, pool, dispatching, caller, parent, place, lent, response>>

(* <-jw.quit: the worker returns; its channel stays wherever it is.        *)
Quit(w) ==
  /\ worker[w] = "select"
  /\ w \in quitting
  /\ worker' = [worker EXCEPT ![w] = "gone"]
  /\ quitting' = quitting \ {w}
  /\ UNCHANGED <<pool, dispatching, caller, parent, place, lent, response>>

-----------------------------------------------------------------------------

WorkerNext(w) == StartWorker(w) \/ Register(w) \/ Quit(w)

JobNext(j) ==
  \/ \E kind \in {"push", "req"}, by \in Workers \cup {NoWorker} : Submit(j, kind, by)
  \/ Accept(j)
  \/ Obtain(j)
  \/ Hand(j)
  \/ \E outcome \in Outcomes : Respond(j, outcome)
  \/ Answer(j)
  \/ Timeout(j)

Next ==
  \/ \E w \in Workers : WorkerNext(w)
  \/ StartDispatch
  \/ End
  \/ \E j \in Jobs : JobNext(j)

Spec == Init /\ [][Next]_vars

(* Goroutines that can run do run, handlers return and tickers fire.       *)
(* Nobody has to submit a job or to end the pool.                          *)
Fairness ==
  /\ \A w \in Workers : WF_vars(WorkerNext(w))
  /\ WF_vars(StartDispatch)
  /\ \A j \in Jobs :
       /\ WF_vars(Accept(j))
       /\ WF_vars(Obtain(j))
       /\ WF_vars(Hand(j))
       /\ WF_vars(\E outcome \in Outcomes : Respond(j, outcome))
       /\ WF_vars(Answer(j) \/ Timeout(j))

FairSpec == Spec /\ Fairness

-----------------------------------------------------------------------------
(* Properties *)

TypeOK ==
  /\ worker \in [Workers -> WorkerStates]
  /\ quitting \subseteq Workers
  /\ pool \in Seq(Workers)
  /\ dispatching \in BOOLEAN
  /\ caller \in [Jobs -> CallerStates]
  /\ parent \in [Jobs -> Workers \cup {NoWorker}]
  /\ place \in [Jobs -> Places]
  /\ lent \in [Jobs -> Workers \cup {NoWorker}]
  /\ response \in [Jobs -> {"empty"} \cup Outcomes]

Ended == quitting # {} \/ \E w \in Workers : worker[w] = "gone"

Waiting(w) == \E i \in 1..Len(pool) : pool[i] = w        \* w's channel is in the pool
Held(w) == \E j \in Jobs : place[j] = "hand" /\ lent[j] = w \* or held by a job goroutine

(* The channel of a worker is in one place at a time, and never lost: once *)
(* in the pool, or held by one job goroutine, or with its worker while     *)
(* that registers or runs a job.  This is what makes the buffered channel  *)
(* of work.go:292 large enough and a job reach one worker only.            *)
ChannelInOnePlace ==
  /\ \A a, b \in 1..Len(pool) : pool[a] = pool[b] => a = b
  /\ \A j, k \in Jobs :
       place[j] = "hand" /\ place[k] = "hand" /\ lent[j] = lent[k] => j = k
  /\ \A w \in Workers :
       /\ Waiting(w) => ~Held(w)
       /\ worker[w] \in {"off", "register", "run"} => ~Waiting(w) /\ ~Held(w)
       /\ worker[w] = "select" => Waiting(w) \/ Held(w)

(* A worker that is back at the top of its loop never waits there: the     *)
(* pool has room for its channel (work.go:254).                            *)
RegisterNeverBlocks ==
  \A w \in Workers : worker[w] = "register" => Len(pool) < MaxWorkers

(* A worker runs one job at a time, and sending that job's outcome never   *)
(* blocks it, also when the requester gave up long ago (work.go:69, 71).   *)
RespondNeverBlocks ==
  \A j \in Jobs : place[j] = "work" =>
    /\ response[j] = "empty"
    /\ worker[lent[j]] = "run"
    /\ \A k \in Jobs : place[k] = "work" /\ lent[k] = lent[j] => k = j

(* So a worker is never held up: not by the pool, not by its requesters.   *)
WorkersNeverBlock == RegisterNeverBlocks /\ RespondNeverBlocks

(* What keeps the above inductive: a job has a channel while it is handed  *)
(* over or run, is nowhere before it is accepted, and has no response      *)
(* before it is done.                                                      *)
Progress ==
  \A j \in Jobs :
    /\ place[j] \in {"hand", "work"} => lent[j] \in Workers
    /\ caller[j] \in {"idle", "push", "req"} => place[j] = "none"
    /\ place[j] # "done" => response[j] = "empty"

IndInv == TypeOK /\ ChannelInOnePlace /\ RespondNeverBlocks /\ Progress

(* "try to obtain a worker job channel that is available. this will block  *)
(* until a worker is idle" (work.go:358-359): the channel obtained belongs *)
(* to a worker that is at its select, ready for the job.                   *)
ObtainedWorkerIsIdle ==
  \A j \in Jobs : place[j] = "hand" => worker[lent[j]] = "select"

(* That much is true as long as the pool is not ended.                     *)
IdleUntilEnd == ~Ended => ObtainedWorkerIsIdle

(* A requester does not wait for ever, whatever becomes of its job.        *)
EveryRequestReturns ==
  \A j \in Jobs : caller[j] = "wait" ~> caller[j] \in {"timedout"} \cup Outcomes

(* A worker told to quit does so, after the job it is at if there is one.  *)
EveryWorkerQuits ==
  \A w \in Workers : w \in quitting ~> worker[w] = "gone"

(* The pool implements JobService: a job is queued from the moment its     *)
(* creator is at the queue until a worker has received it.                 *)
Service == INSTANCE JobService WITH
  Capacity <- MaxWorkers,
  status <- [j \in Jobs |->
               IF place[j] = "done" THEN "handled"
               ELSE IF place[j] = "work" THEN "running"
               ELSE IF caller[j] = "idle" THEN "idle" ELSE "queued"],
  outcome <- [j \in Jobs |->
               IF caller[j] \in Outcomes THEN caller[j]
               ELSE IF response[j] # "empty" THEN response[j] ELSE "none"],
  answer <- [j \in Jobs |->
               IF caller[j] \in {"req", "wait"} THEN "pending"
               ELSE IF caller[j] \in {"timedout"} \cup Outcomes THEN caller[j]
               ELSE "none"]

(* Callers see the service promised, whatever End does ...                 *)
ServiceSafety == Service!Safety
(* ... and, while the pool is not ended, jobs also get done.               *)
ServiceLive == []~Ended => Service!Progress
=============================================================================
