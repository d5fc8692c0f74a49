----------------------------- MODULE JobContext -----------------------------
(***************************************************************************)
(* What the handlers of work.go see and produce.  A handler gets a         *)
(* *Context, not a job: it reaches its payload and its result through      *)
(* c.Job(), the job most recently created on that context (work.go:126),   *)
(* while Do answers with the job the worker received.  The module extends  *)
(* WorkerPool: its worker, dispatcher and caller steps are taken over and  *)
(* the run of a handler is split into its steps.                           *)
(*                                                                         *)
(* A payload is identified by the job it was made for and the number of    *)
(* handlers it went through.                                               *)
(***************************************************************************)
EXTENDS WorkerPool

CONSTANTS Contexts, \* the contexts jobs are created on
          NoJob,    \* a context before its first job
          NoData,   \* a nil payload, a nil result
          Methods,  \* the job methods callers use
          Routes    \* Routes[m]: number of handlers added for method m

ASSUME RoutesAssumption ==
  /\ Methods # {} /\ DOMAIN Routes \subseteq Methods
  /\ \A m \in DOMAIN Routes : Routes[m] \in Nat
ASSUME NoJobAssumption == NoJob \notin Jobs
ASSUME NoDataAssumption == NoData \notin [of : Jobs, n : Nat]

VARIABLES context,  \* job.context
          current,  \* the job field of each context
          method,   \* job.method
          payload,  \* job.payload
          result,   \* job.result
          stage,    \* the handler of the chain that runs, 0 before the first
          step,     \* how far that handler got
          input,    \* the payload it read
          sent,     \* what was sent on job.response
          tangled   \* history: jobs that shared their context with another unfinished job

jobVars == <<context, current, method, payload, result, stage, step, input, sent, tangled>>
allVars == <<vars, jobVars>>

Steps == {"read", "write", "written"}
NoContext == NoJob
Data == [of : Jobs, n : Nat] \cup {NoData}

(* A route without handlers, like no route, leaves the default handler     *)
(* (work.go:259-261).                                                      *)
Handlers(m) == IF m \in DOMAIN Routes /\ Routes[m] > 0 THEN Routes[m] ELSE 1

(* The job a handler running for j gets from c.Job().                      *)
Seen(j) == current[context[j]]

OnContext(c) == {k \in Jobs : context[k] = c}
Processed(d) == IF d = NoData THEN NoData ELSE [d EXCEPT !.n = @ + 1]

-----------------------------------------------------------------------------
(* Faulty variants of two of the steps below, as in WorkerPool.            *)

InHandler(j) == place[j] = "work" /\ ~InCall(lent[j])

(* The result is dropped, the next handler gets the payload once more.     *)
ContinueSamePayload(j) ==
  /\ InHandler(j)
  /\ step[j] = "written"
  /\ stage[j] < Handlers(method[j])
  /\ result' = [result EXCEPT ![Seen(j)] = NoData]
  /\ stage' = [stage EXCEPT ![j] = @ + 1]
  /\ step' = [step EXCEPT ![j] = "read"]
  /\ UNCHANGED <<vars, context, current, method, payload, input, sent, tangled>>

(* What is sent is taken for that of the context, not of the job.          *)
FinishForContext(j, outcome) ==
  /\ outcome = "result" => step[j] = "written" /\ stage[j] = Handlers(method[j])
  /\ Respond(j, outcome)
  /\ sent' = [sent EXCEPT ![j] = [of |-> context[j], n |-> 0]]
  /\ UNCHANGED <<context, current, method, payload, result, stage, step, input, tangled>>

-----------------------------------------------------------------------------

JInit ==
  /\ Init
  /\ context = [j \in Jobs |-> NoContext]
  /\ current = [c \in Contexts |-> NoJob]
  /\ method = [j \in Jobs |-> CHOOSE m \in Methods : TRUE]
  /\ payload = [j \in Jobs |-> NoData]
  /\ result = [j \in Jobs |-> NoData]
  /\ stage = [j \in Jobs |-> 0]
  /\ step = [j \in Jobs |-> "read"]
  /\ input = [j \in Jobs |-> NoData]
  /\ sent = [j \in Jobs |-> NoData]
  /\ tangled = {}

(* The contexts a caller may create a job on: a new one (the package's     *)
(* Push and Req), the handler's own, or that of a request goroutine, which *)
(* is inside one call at a time.                                           *)
MayUse(by, c) ==
  \/ current[c] = NoJob
  \/ /\ by # NoWorker
     /\ \E k \in OnContext(c) : place[k] = "work" /\ lent[k] = by
  \/ /\ by = NoWorker
     /\ ~ \E k \in OnContext(c) : parent[k] = NoWorker /\ caller[k] \in Blocked

(* NewJob replaces the job of the context before it goes to the queue.     *)
NewJob(j, kind, by, c, m) ==
  /\ Submit(j, kind, by)
  /\ MayUse(by, c)
  /\ context' = [context EXCEPT ![j] = c]
  /\ current' = [current EXCEPT ![c] = j]
  /\ method' = [method EXCEPT ![j] = m]
  /\ payload' = [payload EXCEPT ![j] = [of |-> j, n |-> 0]]
  /\ LET unfinished == {k \in OnContext(c) : place[k] # "done"}
     IN  tangled' = IF unfinished = {} THEN tangled ELSE tangled \cup unfinished \cup {j}
  /\ UNCHANGED <<result, stage, step, input, sent>>

(* The worker picks the handlers of the job's method and enters the first. *)
Enter(j) ==
  /\ Hand(j)
  /\ stage' = [stage EXCEPT ![j] = 1]
  /\ UNCHANGED <<context, current, method, payload, result, step, input, sent, tangled>>

(* A handler reads c.Job().Payload() ...                                   *)
ReadPayload(j) ==
  /\ InHandler(j)
  /\ step[j] = "read"
  /\ input' = [input EXCEPT ![j] = payload[Seen(j)]]
  /\ step' = [step EXCEPT ![j] = "write"]
  /\ UNCHANGED <<vars, context, current, method, payload, result, stage, sent, tangled>>

(* ... and calls c.Job().SetResult.                                        *)
SetResult(j) ==
  /\ InHandler(j)
  /\ step[j] = "write"
  /\ result' = [result EXCEPT ![Seen(j)] = Processed(input[j])]
  /\ step' = [step EXCEPT ![j] = "written"]
  /\ UNCHANGED <<vars, context, current, method, payload, stage, input, sent, tangled>>

(* Between two handlers of a chain: c.Job().Continue().                    *)
Continue(j) ==
  /\ InHandler(j)
  /\ step[j] = "written"
  /\ stage[j] < Handlers(method[j])
  /\ payload' = [payload EXCEPT ![Seen(j)] = result[Seen(j)]]
  /\ result' = [result EXCEPT ![Seen(j)] = NoData]
  /\ stage' = [stage EXCEPT ![j] = @ + 1]
  /\ step' = [step EXCEPT ![j] = "read"]
  /\ UNCHANGED <<vars, context, current, method, input, sent, tangled>>

(* Do: a chain that came to its end answers with the result of the job the *)
(* worker received, one that failed or panicked anywhere with the error.   *)
Finish(j, outcome) ==
  /\ outcome = "result" => step[j] = "written" /\ stage[j] = Handlers(method[j])
  /\ Respond(j, outcome)
  /\ sent' = [sent EXCEPT ![j] = IF outcome = "result" THEN result[j] ELSE NoData]
  /\ UNCHANGED <<context, current, method, payload, result, stage, step, input, tangled>>

-----------------------------------------------------------------------------

PoolOnly ==
  /\ \/ \E w \in Workers : WorkerNext(w)
     \/ StartDispatch
     \/ End
     \/ \E j \in Jobs : Accept(j) \/ Obtain(j) \/ Answer(j) \/ Timeout(j)
  /\ UNCHANGED jobVars

HandlerNext(j) ==
  \/ ReadPayload(j)
  \/ SetResult(j)
  \/ Continue(j)
  \/ \E outcome \in Outcomes : Finish(j, outcome)

JNext ==
  \/ PoolOnly
  \/ \E j \in Jobs :
       \/ \E kind \in {"push", "req"}, by \in Workers \cup {NoWorker},
             c \in Contexts, m \in Methods : NewJob(j, kind, by, c, m)
       \/ Enter(j)
       \/ HandlerNext(j)

JSpec == JInit /\ [][JNext]_allVars

-----------------------------------------------------------------------------
(* Properties *)

JTypeOK ==
  /\ TypeOK
  /\ context \in [Jobs -> Contexts \cup {NoContext}]
  /\ current \in [Contexts -> Jobs \cup {NoJob}]
  /\ method \in [Jobs -> Methods]
  /\ payload \in [Jobs -> Data] /\ result \in [Jobs -> Data]
  /\ input \in [Jobs -> Data] /\ sent \in [Jobs -> Data]
  /\ stage \in [Jobs -> Nat] /\ step \in [Jobs -> Steps]
  /\ tangled \subseteq Jobs

(* A requester that got a result got the one of its own job, after every   *)
(* handler of its method, unless another job of the same context was       *)
(* unfinished meanwhile.                                                   *)
OwnResult ==
  \A j \in Jobs : caller[j] = "result" /\ j \notin tangled
                    => sent[j] = [of |-> j, n |-> Handlers(method[j])]

(* A context on which nothing but requests is done, one after the other.   *)
OnlyRequests(c) ==
  \A k \in OnContext(c) : caller[k] \notin {"push", "returned"} /\ parent[k] = NoWorker

(* "the result of the previous stage is the payload of the next" (the      *)
(* comments of work.go:75 and work.go:230): what a handler of a chain      *)
(* reads is what the handler before it made of the same job, on contexts   *)
(* used for synchronous requests only.                                     *)
NextPayloadIsLastResult ==
  \A j \in Jobs :
    place[j] = "work" /\ step[j] = "write" /\ OnlyRequests(context[j])
      => input[j] = [of |-> j, n |-> stage[j] - 1]
=============================================================================
