-------------------------- MODULE WorkerPoolProofs --------------------------
(***************************************************************************)
(* Proofs about WorkerPool, for any finite set of workers and any set of   *)
(* jobs: the channel of a worker is in one place at a time, hence neither  *)
(* registering nor responding ever blocks a worker, until the pool is      *)
(* ended a job is only ever handed to an idle worker, and what the callers *)
(* see is JobService.  Then about JobContext, which keeps to the steps of  *)
(* WorkerPool: a requester gets the result of its own job.                 *)
(***************************************************************************)
EXTENDS JobContext, SequenceTheorems, FiniteSetTheorems, TLAPS

(* The first state is right.                                               *)
LEMMA InitInv == Init => IndInv
<1> SUFFICES ASSUME Init PROVE IndInv
  OBVIOUS
<1>1. TypeOK
  BY EmptySeq DEF Init, TypeOK, WorkerStates, CallerStates, Places, Outcomes, Blocked
<1>2. Len(pool) = 0
  BY EmptySeq DEF Init
<1>3. ChannelInOnePlace
  BY <1>2 DEF Init, ChannelInOnePlace, Waiting, Held
<1>4. RespondNeverBlocks /\ Progress
  BY DEF Init, RespondNeverBlocks, Progress
<1> QED
  BY <1>1, <1>3, <1>4 DEF IndInv

(* Every step keeps the types.                                             *)
LEMMA NextType ==
  ASSUME TypeOK, [Next]_vars
  PROVE  TypeOK'
<1> USE DEF TypeOK, WorkerStates, CallerStates, Places, Outcomes, Blocked
<1>1. ASSUME NEW w \in Workers, StartWorker(w) PROVE TypeOK'
  BY <1>1 DEF StartWorker
<1>2. ASSUME NEW w \in Workers, Register(w) PROVE TypeOK'
  BY <1>2 DEF Register
<1>3. ASSUME NEW w \in Workers, Quit(w) PROVE TypeOK'
  BY <1>3 DEF Quit
<1>4. CASE StartDispatch
  BY <1>4 DEF StartDispatch
<1>5. CASE End
  BY <1>5 DEF End
<1>6. ASSUME NEW j \in Jobs, NEW kind \in {"push", "req"},
             NEW by \in Workers \cup {NoWorker}, Submit(j, kind, by)
      PROVE  TypeOK'
  BY <1>6 DEF Submit
<1>7. ASSUME NEW j \in Jobs, Accept(j) PROVE TypeOK'
  BY <1>7 DEF Accept
<1>8. ASSUME NEW j \in Jobs, Obtain(j) PROVE TypeOK'
  BY <1>8, HeadTailProperties DEF Obtain
<1>9. ASSUME NEW j \in Jobs, Hand(j) PROVE TypeOK'
  BY <1>9 DEF Hand
<1>10. ASSUME NEW j \in Jobs, NEW outcome \in Outcomes, Respond(j, outcome) PROVE TypeOK'
  BY <1>10 DEF Respond
<1>11. ASSUME NEW j \in Jobs, Answer(j) PROVE TypeOK'
  BY <1>11 DEF Answer
<1>12. ASSUME NEW j \in Jobs, Timeout(j) PROVE TypeOK'
  BY <1>12 DEF Timeout
<1>13. CASE UNCHANGED vars
  BY <1>13 DEF vars
<1> QED
  BY <1>1, <1>2, <1>3, <1>4, <1>5, <1>6, <1>7, <1>8, <1>9, <1>10, <1>11, <1>12, <1>13
  DEF Next, WorkerNext, JobNext

(***************************************************************************)
(* A step of any process keeps the invariant.  Only Obtain and Register    *)
(* touch the pool; for the others the pool part is carried over.           *)
(***************************************************************************)
LEMMA NextInv ==
  ASSUME IndInv, [Next]_vars
  PROVE  IndInv'
<1> USE DEF IndInv
<1>0. TypeOK'
  BY NextType
<1>a. Len(pool) \in Nat /\ \A i \in 1..Len(pool) : pool[i] \in Workers
  BY LenProperties, ElementOfSeq DEF TypeOK
<1>1. ASSUME NEW w \in Workers, StartWorker(w)
      PROVE  IndInv'
  <2>1. ChannelInOnePlace'
    BY <1>1 DEF StartWorker, TypeOK, ChannelInOnePlace, Waiting, Held
  <2>2. RespondNeverBlocks'
    BY <1>1 DEF StartWorker, TypeOK, RespondNeverBlocks, Progress
  <2>3. Progress'
    BY <1>1 DEF StartWorker, TypeOK, Progress, Outcomes
  <2> QED
    BY <1>0, <2>1, <2>2, <2>3
<1>2. ASSUME NEW w \in Workers, Quit(w)
      PROVE  IndInv'
  <2>1. ChannelInOnePlace'
    BY <1>2 DEF Quit, TypeOK, ChannelInOnePlace, Waiting, Held
  <2>2. RespondNeverBlocks'
    BY <1>2 DEF Quit, TypeOK, RespondNeverBlocks, Progress
  <2>3. Progress'
    BY <1>2 DEF Quit, TypeOK, Progress, Outcomes
  <2> QED
    BY <1>0, <2>1, <2>2, <2>3
<1>3. CASE StartDispatch
  <2>1. ChannelInOnePlace'
    BY <1>3 DEF StartDispatch, ChannelInOnePlace, Waiting, Held
  <2>2. RespondNeverBlocks'
    BY <1>3 DEF StartDispatch, TypeOK, RespondNeverBlocks, Progress
  <2>3. Progress'
    BY <1>3 DEF StartDispatch, TypeOK, Progress, Outcomes
  <2> QED
    BY <1>0, <2>1, <2>2, <2>3
<1>4. CASE End
  <2>1. ChannelInOnePlace'
    BY <1>4 DEF End, ChannelInOnePlace, Waiting, Held
  <2>2. RespondNeverBlocks'
    BY <1>4 DEF End, TypeOK, RespondNeverBlocks, Progress
  <2>3. Progress'
    BY <1>4 DEF End, TypeOK, Progress, Outcomes
  <2> QED
    BY <1>0, <2>1, <2>2, <2>3
<1>5. ASSUME NEW j \in Jobs, NEW kind \in {"push", "req"},
             NEW by \in Workers \cup {NoWorker}, Submit(j, kind, by)
      PROVE  IndInv'
  <2>1. ChannelInOnePlace'
    BY <1>5 DEF Submit, ChannelInOnePlace, Waiting, Held
  <2>2. RespondNeverBlocks'
    BY <1>5 DEF Submit, TypeOK, RespondNeverBlocks, Progress
  <2>3. Progress'
    BY <1>5 DEF Submit, TypeOK, Progress, Outcomes
  <2> QED
    BY <1>0, <2>1, <2>2, <2>3
<1>6. ASSUME NEW j \in Jobs, Accept(j)
      PROVE  IndInv'
  <2>1. ChannelInOnePlace'
    BY <1>6 DEF Accept, TypeOK, ChannelInOnePlace, Waiting, Held, Progress
  <2>2. RespondNeverBlocks'
    BY <1>6 DEF Accept, TypeOK, RespondNeverBlocks, Progress
  <2>3. Progress'
    BY <1>6 DEF Accept, TypeOK, Progress, Outcomes
  <2> QED
    BY <1>0, <2>1, <2>2, <2>3
<1>7. ASSUME NEW j \in Jobs, Hand(j)
      PROVE  IndInv'
  <2>1. ChannelInOnePlace'
    BY <1>7 DEF Hand, TypeOK, ChannelInOnePlace, Waiting, Held, Progress, RespondNeverBlocks
  <2>2. RespondNeverBlocks'
    BY <1>7 DEF Hand, TypeOK, RespondNeverBlocks, Progress
  <2>3. Progress'
    BY <1>7 DEF Hand, TypeOK, Progress, Outcomes
  <2> QED
    BY <1>0, <2>1, <2>2, <2>3
<1>8. ASSUME NEW j \in Jobs, NEW outcome \in Outcomes, Respond(j, outcome)
      PROVE  IndInv'
  <2>1. ChannelInOnePlace'
    BY <1>8 DEF Respond, TypeOK, ChannelInOnePlace, Waiting, Held, Progress, RespondNeverBlocks
  <2>2. RespondNeverBlocks'
    BY <1>8 DEF Respond, TypeOK, RespondNeverBlocks, Progress
  <2>3. Progress'
    BY <1>8 DEF Respond, TypeOK, Progress, Outcomes
  <2> QED
    BY <1>0, <2>1, <2>2, <2>3
<1>9. ASSUME NEW j \in Jobs, Answer(j)
      PROVE  IndInv'
  <2>1. ChannelInOnePlace'
    BY <1>9 DEF Answer, ChannelInOnePlace, Waiting, Held
  <2>2. RespondNeverBlocks'
    BY <1>9 DEF Answer, TypeOK, RespondNeverBlocks, Progress
  <2>3. Progress'
    BY <1>9 DEF Answer, TypeOK, Progress, Outcomes
  <2> QED
    BY <1>0, <2>1, <2>2, <2>3
<1>10. ASSUME NEW j \in Jobs, Timeout(j)
      PROVE  IndInv'
  <2>1. ChannelInOnePlace'
    BY <1>10 DEF Timeout, ChannelInOnePlace, Waiting, Held
  <2>2. RespondNeverBlocks'
    BY <1>10 DEF Timeout, TypeOK, RespondNeverBlocks, Progress
  <2>3. Progress'
    BY <1>10 DEF Timeout, TypeOK, Progress, Outcomes
  <2> QED
    BY <1>0, <2>1, <2>2, <2>3
<1>11. ASSUME NEW j \in Jobs, Obtain(j) PROVE IndInv'
  <2> DEFINE w == Head(pool)
  <2>1. /\ Len(pool) > 0 /\ Len(pool') = Len(pool) - 1
        /\ w \in Workers /\ w = pool[1]
        /\ \A i \in 1..Len(pool') : pool'[i] = pool[i + 1]
    BY <1>11, <1>a, HeadTailProperties, EmptySeq DEF Obtain, TypeOK
  <2>2. /\ place' = [place EXCEPT ![j] = "hand"]
        /\ lent' = [lent EXCEPT ![j] = w]
        /\ place[j] = "obtain"
        /\ UNCHANGED <<worker, caller, response>>
    BY <1>11 DEF Obtain
  <2> HIDE DEF w
  <2>3. Waiting(w) /\ worker[w] \in {"select", "gone"} /\ ~Held(w)
    BY <2>1 DEF Waiting, ChannelInOnePlace, TypeOK, WorkerStates
  <2>4. \A v \in Workers : Held(v)' <=> (Held(v) \/ v = w)
    BY <2>2 DEF Held, TypeOK
  <2>5. \A a, b \in 1..Len(pool') : pool'[a] = pool'[b] => a = b
    BY <2>1, <1>a DEF ChannelInOnePlace
  <2>6. \A v \in Workers : Waiting(v)' <=> (Waiting(v) /\ v # w)
    <3>1. ASSUME NEW v \in Workers, Waiting(v)' PROVE Waiting(v) /\ v # w
      <4>1. PICK i \in 1..Len(pool') : pool'[i] = v
        BY <3>1 DEF Waiting
      <4>2. i + 1 \in 1..Len(pool) /\ pool[i + 1] = v /\ i + 1 # 1 /\ 1 \in 1..Len(pool)
        BY <4>1, <2>1, <1>a
      <4> QED
        BY <4>2, <2>1 DEF Waiting, ChannelInOnePlace
    <3>2. ASSUME NEW v \in Workers, Waiting(v), v # w PROVE Waiting(v)'
      <4>1. PICK i \in 1..Len(pool) : pool[i] = v
        BY <3>2 DEF Waiting
      <4>2. i - 1 \in 1..Len(pool') /\ pool'[i - 1] = v
        BY <4>1, <3>2, <2>1, <1>a
      <4> QED
        BY <4>2 DEF Waiting
    <3> QED
      BY <3>1, <3>2
  <2>7. \A i, k \in Jobs : /\ place'[i] = "hand" /\ place'[k] = "hand"
                           /\ lent'[i] = lent'[k]
                           => i = k
    BY <2>2, <2>3 DEF ChannelInOnePlace, Held, TypeOK
  <2>8. ChannelInOnePlace'
    BY <2>2, <2>3, <2>4, <2>5, <2>6, <2>7 DEF ChannelInOnePlace
  <2>9. RespondNeverBlocks'
    BY <2>2 DEF RespondNeverBlocks, TypeOK
  <2>10. Progress'
    BY <2>1, <2>2 DEF Progress, TypeOK
  <2> QED
    BY <1>0, <2>8, <2>9, <2>10
<1>12. ASSUME NEW w \in Workers, Register(w) PROVE IndInv'
  <2>1. /\ Len(pool') = Len(pool) + 1
        /\ pool'[Len(pool) + 1] = w
        /\ \A i \in 1..Len(pool) : pool'[i] = pool[i]
        /\ worker[w] = "register" /\ worker' = [worker EXCEPT ![w] = "select"]
        /\ UNCHANGED <<caller, place, lent, response>>
    BY <1>12, <1>a DEF Register, TypeOK
  <2>2. ~Waiting(w) /\ ~Held(w)
    BY <2>1 DEF ChannelInOnePlace
  <2>3. \A v \in Workers : Held(v)' <=> Held(v)
    BY <2>1 DEF Held
  <2>4. \A v \in Workers : Waiting(v)' <=> (Waiting(v) \/ v = w)
    BY <2>1, <1>a DEF Waiting
  <2>5. \A a, b \in 1..Len(pool') : pool'[a] = pool'[b] => a = b
    BY <2>1, <2>2, <1>a DEF ChannelInOnePlace, Waiting
  <2>6. ChannelInOnePlace'
    BY <2>1, <2>2, <2>3, <2>4, <2>5 DEF ChannelInOnePlace, TypeOK
  <2>7. RespondNeverBlocks' /\ Progress'
    BY <2>1 DEF RespondNeverBlocks, Progress, TypeOK
  <2> QED
    BY <1>0, <2>6, <2>7
<1>13. CASE UNCHANGED vars
  BY <1>0, <1>13 DEF vars, ChannelInOnePlace, Waiting, Held, RespondNeverBlocks, Progress
<1> QED
  BY <1>1, <1>2, <1>3, <1>4, <1>5, <1>6, <1>7, <1>8, <1>9, <1>10, <1>11, <1>12, <1>13
  DEF Next, WorkerNext, JobNext

(* Every worker and job, in every reachable state.                         *)
THEOREM Invariance == Spec => []IndInv
  BY InitInv, NextInv, PTL DEF Spec

(***************************************************************************)
(* An injective sequence over a finite set that misses an element of it is *)
(* shorter than the set is large.                                          *)
(***************************************************************************)
LEMMA RoomForOneMore ==
  ASSUME NEW S, IsFiniteSet(S), NEW w \in S, NEW q \in Seq(S),
         \A a, b \in 1..Len(q) : q[a] = q[b] => a = b,
         \A i \in 1..Len(q) : q[i] # w
  PROVE  Len(q) < Cardinality(S)
<1> DEFINE T == S \ {w}
<1>1. Len(q) \in Nat /\ q \in [1..Len(q) -> T] /\ DOMAIN q = 1..Len(q)
  BY LenProperties
<1>2. IsFiniteSet(T) /\ Cardinality(T) = Cardinality(S) - 1 /\ Cardinality(S) \in Nat
  BY FS_RemoveElement, FS_CardinalityType
<1>3. q \in Injection(1..Len(q), T)
  BY <1>1 DEF Injection, IsInjective
<1>4. Cardinality(1..Len(q)) = Len(q)
  BY <1>1, FS_Interval
<1>5. Cardinality(1..Len(q)) <= Cardinality(T)
  BY <1>2, <1>3, FS_Injection
<1> QED
  BY <1>1, <1>2, <1>4, <1>5

(* A worker at the top of its loop can always put its channel into the     *)
(* pool (work.go:254).                                                     *)
THEOREM RegisterFree == Spec => []RegisterNeverBlocks
<1>1. IndInv => RegisterNeverBlocks
  <2> SUFFICES ASSUME IndInv, NEW w \in Workers, worker[w] = "register"
               PROVE  Len(pool) < Cardinality(Workers)
    BY DEF RegisterNeverBlocks, MaxWorkers
  <2>1. /\ pool \in Seq(Workers)
        /\ \A a, b \in 1..Len(pool) : pool[a] = pool[b] => a = b
        /\ \A i \in 1..Len(pool) : pool[i] # w
    BY DEF IndInv, TypeOK, ChannelInOnePlace, Waiting
  <2> QED
    BY <2>1, RoomForOneMore, WorkersAssumption
<1> QED
  BY <1>1, Invariance, PTL

(* A worker can always send the outcome of the job it ran and goes on, and *)
(* runs one job at a time (work.go:66-73).                                 *)
THEOREM RespondFree == Spec => []RespondNeverBlocks
<1>1. IndInv => RespondNeverBlocks
  BY DEF IndInv
<1> QED
  BY <1>1, Invariance, PTL

(* So no worker is ever held up by the pool or by a requester.             *)
THEOREM NeverBlocked == Spec => []WorkersNeverBlock
BY RegisterFree, RespondFree, PTL DEF WorkersNeverBlock

(* Until End is called, the channel a job goroutine takes out of the pool  *)
(* is that of a worker waiting for a job (work.go:358-363).                *)
THEOREM IdleWorkers == Spec => []IdleUntilEnd
<1>1. IndInv => IdleUntilEnd
  <2> SUFFICES ASSUME IndInv, ~Ended, NEW j \in Jobs, place[j] = "hand"
               PROVE  worker[lent[j]] = "select"
    BY DEF IdleUntilEnd, ObtainedWorkerIsIdle
  <2>1. lent[j] \in Workers /\ Held(lent[j])
    BY DEF IndInv, Progress, Held
  <2>2. worker[lent[j]] \in WorkerStates \ {"off", "register", "run", "gone"}
    BY <2>1 DEF IndInv, TypeOK, ChannelInOnePlace, Ended
  <2> QED
    BY <2>2 DEF WorkerStates
<1> QED
  BY <1>1, Invariance, PTL
-----------------------------------------------------------------------------
(* A requester is only told an outcome after its job was handled.          *)
ToldWhenDone == \A j \in Jobs : caller[j] \in Outcomes => place[j] = "done"

(* Nobody is told anything at the start.                                   *)
LEMMA ToldInit == Init => ToldWhenDone
BY DEF Init, ToldWhenDone, Outcomes

(* An answer is received after the job was handled.                        *)
LEMMA ToldNext ==
  ASSUME IndInv, ToldWhenDone, [Next]_vars
  PROVE  ToldWhenDone'
<1> USE DEF ToldWhenDone, Outcomes
<1>1. ASSUME NEW w \in Workers, WorkerNext(w) PROVE ToldWhenDone'
  BY <1>1 DEF WorkerNext, StartWorker, Register, Quit
<1>2. CASE StartDispatch \/ End \/ UNCHANGED vars
  BY <1>2 DEF StartDispatch, End, vars
<1>3. ASSUME NEW j \in Jobs, JobNext(j) PROVE ToldWhenDone'
  <2>1. ASSUME NEW kind \in {"push", "req"}, NEW by \in Workers \cup {NoWorker}, Submit(j, kind, by)
        PROVE  ToldWhenDone'
    BY <2>1 DEF Submit, IndInv, TypeOK
  <2>2. CASE Accept(j)
    BY <2>2 DEF Accept, IndInv, TypeOK
  <2>3. CASE Obtain(j)
    BY <2>3 DEF Obtain, IndInv, TypeOK
  <2>4. CASE Hand(j)
    BY <2>4 DEF Hand, IndInv, TypeOK
  <2>5. ASSUME NEW outcome \in Outcomes, Respond(j, outcome) PROVE ToldWhenDone'
    BY <2>5 DEF Respond, IndInv, TypeOK
  <2>6. CASE Answer(j)
    BY <2>6 DEF Answer, IndInv, TypeOK, Progress
  <2>7. CASE Timeout(j)
    BY <2>7 DEF Timeout, IndInv, TypeOK
  <2> QED
    BY <1>3, <2>1, <2>2, <2>3, <2>4, <2>5, <2>6, <2>7 DEF JobNext
<1> QED
  BY <1>1, <1>2, <1>3 DEF Next

(* A worker at its select leaves room for one more running job: every      *)
(* running job has a worker of its own, and that one is not at its select. *)
LEMMA RoomToRun ==
  ASSUME IndInv, NEW w \in Workers, worker[w] = "select"
  PROVE  Cardinality({j \in Jobs : place[j] = "work"}) < MaxWorkers
<1> DEFINE R == {j \in Jobs : place[j] = "work"}
           T == Workers \ {w}
           f == [j \in R |-> lent[j]]
<1>1. f \in Injection(R, T)
  BY DEF IndInv, Progress, RespondNeverBlocks, Injection, IsInjective
<1>2. IsFiniteSet(T) /\ Cardinality(T) = Cardinality(Workers) - 1 /\ Cardinality(Workers) \in Nat
  BY FS_RemoveElement, FS_CardinalityType, WorkersAssumption
<1> HIDE DEF R, T, f
<1>3. IsFiniteSet(R) /\ Cardinality(R) <= Cardinality(T)
  BY <1>1, <1>2, FS_Injection
<1>4. Cardinality(R) \in Nat
  BY <1>3, FS_CardinalityType
<1>5. Cardinality(R) < MaxWorkers
  BY <1>2, <1>3, <1>4 DEF MaxWorkers
<1> QED
  BY <1>5 DEF R

(* What the callers see of the pool's state, job by job.                   *)
StatusOf(j) == IF place[j] = "done" THEN "handled"
               ELSE IF place[j] = "work" THEN "running"
               ELSE IF caller[j] = "idle" THEN "idle" ELSE "queued"
OutcomeOf(j) == IF caller[j] \in Outcomes THEN caller[j]
                ELSE IF response[j] # "empty" THEN response[j] ELSE "none"
AnswerOf(j) == IF caller[j] \in {"req", "wait"} THEN "pending"
               ELSE IF caller[j] \in {"timedout"} \cup Outcomes THEN caller[j]
               ELSE "none"
View == <<[j \in Jobs |-> StatusOf(j)], [j \in Jobs |-> OutcomeOf(j)], [j \in Jobs |-> AnswerOf(j)]>>

(* The mapped variables of JobService are what is seen.                    *)
LEMMA ViewIs == UNCHANGED View => UNCHANGED Service!svars
BY DEF Service!svars, View, StatusOf, OutcomeOf, AnswerOf

(* A step of the pool is one of the service, or its callers see nothing.   *)
LEMMA StepIsService ==
  ASSUME IndInv, ToldWhenDone, [Next]_vars
  PROVE  [Service!SNext]_(Service!svars)
<1> USE DEF Outcomes
<1>t. /\ caller \in [Jobs -> CallerStates] /\ place \in [Jobs -> Places]
      /\ response \in [Jobs -> {"empty"} \cup Outcomes] /\ lent \in [Jobs -> Workers \cup {NoWorker}]
      /\ worker \in [Workers -> WorkerStates]
  BY DEF IndInv, TypeOK
<1>a. \A j \in Jobs : /\ caller[j] \in {"idle", "push", "req"} => place[j] = "none"
                      /\ place[j] # "done" => response[j] = "empty"
                      /\ caller[j] \in Outcomes => place[j] = "done"
  BY DEF IndInv, Progress, ToldWhenDone
<1> DEFINE st == [i \in Jobs |-> StatusOf(i)]
           oc == [i \in Jobs |-> OutcomeOf(i)]
           an == [i \in Jobs |-> AnswerOf(i)]
<1>1. ASSUME NEW j \in Jobs, NEW kind \in {"push", "req"}, NEW by \in Workers \cup {NoWorker},
             Submit(j, kind, by)
      PROVE  Service!SNext
  <2> DEFINE expected == IF kind = "req" THEN "pending" ELSE "none"
  <2>1. /\ \A i \in Jobs : StatusOf(i)' = IF i = j THEN "queued" ELSE StatusOf(i)
        /\ \A i \in Jobs : OutcomeOf(i)' = OutcomeOf(i)
        /\ \A i \in Jobs : AnswerOf(i)' = IF i = j THEN expected ELSE AnswerOf(i)
        /\ StatusOf(j) = "idle"
    BY <1>1, <1>t, <1>a DEF Submit, StatusOf, OutcomeOf, AnswerOf
  <2>2. st' = [st EXCEPT ![j] = "queued"] /\ oc' = oc /\ an' = [an EXCEPT ![j] = expected] /\ st[j] = "idle"
    BY <2>1
  <2>3. Service!Create(j, expected)
    BY <2>2 DEF Service!Create, StatusOf, OutcomeOf, AnswerOf
  <2> QED
    BY <2>3 DEF Service!SNext
<1>2. ASSUME NEW j \in Jobs, Accept(j) \/ Obtain(j) PROVE UNCHANGED View
  <2>1. \A i \in Jobs : StatusOf(i)' = StatusOf(i) /\ OutcomeOf(i)' = OutcomeOf(i) /\ AnswerOf(i)' = AnswerOf(i)
    BY <1>2, <1>t, <1>a DEF Accept, Obtain, StatusOf, OutcomeOf, AnswerOf
  <2> QED
    BY <2>1 DEF View
<1>3. ASSUME NEW j \in Jobs, Hand(j) PROVE Service!SNext
  <2>1. /\ \A i \in Jobs : StatusOf(i)' = IF i = j THEN "running" ELSE StatusOf(i)
        /\ \A i \in Jobs : OutcomeOf(i)' = OutcomeOf(i) /\ AnswerOf(i)' = AnswerOf(i)
        /\ StatusOf(j) = "queued"
    BY <1>3, <1>t, <1>a DEF Hand, StatusOf, OutcomeOf, AnswerOf
  <2>2. st' = [st EXCEPT ![j] = "running"] /\ oc' = oc /\ an' = an /\ st[j] = "queued"
    BY <2>1
  <2>3. {i \in Jobs : st[i] = "running"} = {i \in Jobs : place[i] = "work"}
    BY DEF StatusOf
  <2>4. lent[j] \in Workers /\ worker[lent[j]] = "select"
    BY <1>3 DEF Hand, IndInv, Progress
  <2>5. Cardinality({i \in Jobs : st[i] = "running"}) < MaxWorkers
    BY <2>3, <2>4, RoomToRun
  <2>6. Service!Running = {i \in Jobs : st[i] = "running"}
    BY DEF Service!Running, StatusOf
  <2>7. Service!Cardinality(Service!Running) < MaxWorkers
    <3>1. \A S : Service!Cardinality(S) = Cardinality(S)
      BY DEF Service!Cardinality, Cardinality
    <3> QED
      BY <2>5, <2>6, <3>1
  <2>8. Service!Run(j)
    BY <2>2, <2>7 DEF Service!Run, StatusOf, OutcomeOf, AnswerOf
  <2> QED
    BY <2>8 DEF Service!SNext
<1>4. ASSUME NEW j \in Jobs, NEW o \in Outcomes, Respond(j, o) PROVE Service!SNext
  <2>1. /\ \A i \in Jobs : StatusOf(i)' = IF i = j THEN "handled" ELSE StatusOf(i)
        /\ \A i \in Jobs : OutcomeOf(i)' = IF i = j THEN o ELSE OutcomeOf(i)
        /\ \A i \in Jobs : AnswerOf(i)' = AnswerOf(i)
        /\ StatusOf(j) = "running"
    BY <1>4, <1>t, <1>a DEF Respond, StatusOf, OutcomeOf, AnswerOf
  <2>2. st' = [st EXCEPT ![j] = "handled"] /\ oc' = [oc EXCEPT ![j] = o] /\ an' = an /\ st[j] = "running"
    BY <2>1
  <2>3. Service!Finish(j, o)
    BY <2>2 DEF Service!Finish, StatusOf, OutcomeOf, AnswerOf
  <2> QED
    BY <2>3 DEF Service!SNext
<1>5. ASSUME NEW j \in Jobs, Answer(j) PROVE Service!SNext
  <2>1. /\ \A i \in Jobs : StatusOf(i)' = StatusOf(i) /\ OutcomeOf(i)' = OutcomeOf(i)
        /\ \A i \in Jobs : AnswerOf(i)' = IF i = j THEN OutcomeOf(j) ELSE AnswerOf(i)
        /\ StatusOf(j) = "handled" /\ AnswerOf(j) = "pending"
    BY <1>5, <1>t, <1>a DEF Answer, StatusOf, OutcomeOf, AnswerOf
  <2>2. st' = st /\ oc' = oc /\ an' = [an EXCEPT ![j] = oc[j]] /\ st[j] = "handled" /\ an[j] = "pending"
    BY <2>1
  <2>3. Service!Tell(j)
    BY <2>2 DEF Service!Tell, StatusOf, OutcomeOf, AnswerOf
  <2> QED
    BY <2>3 DEF Service!SNext
<1>6. ASSUME NEW j \in Jobs, Timeout(j) PROVE Service!SNext
  <2>1. /\ \A i \in Jobs : StatusOf(i)' = StatusOf(i) /\ OutcomeOf(i)' = OutcomeOf(i)
        /\ \A i \in Jobs : AnswerOf(i)' = IF i = j THEN "timedout" ELSE AnswerOf(i)
        /\ AnswerOf(j) = "pending"
    BY <1>6, <1>t, <1>a DEF Timeout, StatusOf, OutcomeOf, AnswerOf
  <2>2. st' = st /\ oc' = oc /\ an' = [an EXCEPT ![j] = "timedout"] /\ an[j] = "pending"
    BY <2>1
  <2>3. Service!GiveUp(j)
    BY <2>2 DEF Service!GiveUp, StatusOf, OutcomeOf, AnswerOf
  <2> QED
    BY <2>3 DEF Service!SNext
<1>7. ASSUME (\E w \in Workers : WorkerNext(w)) \/ StartDispatch \/ End \/ UNCHANGED vars
      PROVE  UNCHANGED View
  <2>1. caller' = caller /\ place' = place /\ response' = response
    BY <1>7 DEF WorkerNext, StartWorker, Register, Quit, StartDispatch, End, vars
  <2> QED
    BY <2>1 DEF View, StatusOf, OutcomeOf, AnswerOf
<1>8. ASSUME NEW j \in Jobs, JobNext(j) PROVE Service!SNext \/ UNCHANGED View
  BY <1>8, <1>1, <1>2, <1>3, <1>4, <1>5, <1>6 DEF JobNext
<1>9. Service!SNext \/ UNCHANGED View
  BY <1>7, <1>8 DEF Next
<1> QED
  BY <1>9, ViewIs

(* The pool implements JobService, whenever it is ended: a job is run at   *)
(* most once, no more jobs run than there are workers, and who asks is     *)
(* told the outcome of that very job once, or that time is up (work.go).   *)
THEOREM ImplementsService == Spec => ServiceSafety
<1>1. Init => Service!SInit
  BY DEF Init, Service!SInit, Outcomes
<1> QED
  BY <1>1, InitInv, NextInv, ToldInit, ToldNext, StepIsService, PTL DEF Spec, ServiceSafety, Service!Safety

-----------------------------------------------------------------------------
(***************************************************************************)
(* JobContext, for any contexts, methods and routes: a requester whose job *)
(* did not share its context with another unfinished one is given the      *)
(* result of its own job.                                                  *)
(***************************************************************************)
(* A job that was created, and is not done yet.                            *)
Created(j) == caller[j] # "idle"
Unfinished(j) == Created(j) /\ place[j] # "done"

(* A job is on a context, and a context's job was created on it.           *)
ContextsJobs == \A c \in Contexts, j \in Jobs : current[c] = j => Created(j) /\ context[j] = c
ContextsRight ==
  /\ \A j \in Jobs : Created(j) => context[j] \in Contexts /\ current[context[j]] \in Jobs
  /\ ContextsJobs

(* Two unfinished jobs of a context are tangled; alone, a job is the one   *)
(* its context has.                                                        *)
Alone ==
  \A j \in Jobs : Unfinished(j) /\ j \notin tangled =>
    /\ current[context[j]] = j
    /\ \A k \in Jobs : Unfinished(k) /\ context[k] = context[j] => k = j

(* What a job has come to, with nobody else at its payload and result.     *)
OwnData(j) ==
  IF place[j] # "work" THEN payload[j] = [of |-> j, n |-> 0]
  ELSE /\ step[j] = "read" => payload[j] = [of |-> j, n |-> stage[j] - 1]
       /\ step[j] = "write" => input[j] = [of |-> j, n |-> stage[j] - 1]
       /\ step[j] = "written" => result[j] = [of |-> j, n |-> stage[j]]

Course ==
  \A j \in Jobs :
    /\ place[j] \notin {"work", "done"} => step[j] = "read"
    /\ place[j] = "work" => stage[j] # 0
    /\ Unfinished(j) /\ j \notin tangled => OwnData(j)

(* The outcome on its way to the requester is that of the job.             *)
SentRight ==
  \A j \in Jobs :
    "result" \in {response[j], caller[j]} /\ j \notin tangled
      => sent[j] = [of |-> j, n |-> Handlers(method[j])]

JIndInv == JTypeOK /\ IndInv /\ ToldWhenDone /\ ContextsRight /\ Alone /\ Course /\ SentRight

(* Nothing is created at the start.                                        *)
LEMMA JobsInit == JInit => JIndInv
<1> USE NoJobAssumption, RoutesAssumption
<1> SUFFICES ASSUME JInit PROVE JIndInv
  OBVIOUS
<1>1. IndInv /\ ToldWhenDone
  BY InitInv, ToldInit DEF JInit
<1>2. JTypeOK
  BY <1>1 DEF JInit, IndInv, JTypeOK, Data, Steps, NoContext
<1>3. ContextsRight /\ Alone /\ Course /\ SentRight
  BY DEF JInit, Init, ContextsRight, ContextsJobs, Alone, Course, SentRight, Created, Unfinished
<1> QED
  BY <1>1, <1>2, <1>3 DEF JIndInv

(* Whatever its handlers do, the pool goes on as WorkerPool says.          *)
LEMMA StepIsPools ==
  ASSUME [JNext]_allVars
  PROVE  [Next]_vars
<1>1. CASE PoolOnly
  BY <1>1 DEF PoolOnly, Next, JobNext
<1>2. ASSUME NEW j \in Jobs, NEW kind \in {"push", "req"}, NEW by \in Workers \cup {NoWorker},
             NEW c \in Contexts, NEW m \in Methods, NewJob(j, kind, by, c, m)
      PROVE  [Next]_vars
  BY <1>2 DEF NewJob, Next, JobNext
<1>3. ASSUME NEW j \in Jobs, Enter(j) PROVE [Next]_vars
  BY <1>3 DEF Enter, Next, JobNext
<1>4. ASSUME NEW j \in Jobs, HandlerNext(j) PROVE [Next]_vars
  <2>1. CASE ReadPayload(j) \/ SetResult(j) \/ Continue(j)
    BY <2>1 DEF ReadPayload, SetResult, Continue
  <2>2. ASSUME NEW outcome \in Outcomes, Finish(j, outcome) PROVE [Next]_vars
    BY <2>2 DEF Finish, Next, JobNext
  <2> QED
    BY <1>4, <2>1, <2>2 DEF HandlerNext
<1> QED
  BY <1>1, <1>2, <1>3, <1>4 DEF JNext, allVars

(* What the pool does to jobs and callers when handlers have no part in it.*)
LEMMA PoolMoves ==
  ASSUME IndInv, PoolOnly
  PROVE  /\ \A j \in Jobs : Created(j)' = Created(j)
         /\ \A j \in Jobs : (place[j]' = "done") = (place[j] = "done")
         /\ \A j \in Jobs : (place[j]' = "work") = (place[j] = "work")
         /\ \A j \in Jobs : "result" \in {response[j]', caller[j]'} => "result" \in {response[j], caller[j]}
<1> USE DEF Created, IndInv, TypeOK
<1>1. ASSUME NEW w \in Workers, WorkerNext(w) PROVE UNCHANGED <<caller, place, response>>
  BY <1>1 DEF WorkerNext, StartWorker, Register, Quit
<1>2. CASE StartDispatch \/ End
  BY <1>2 DEF StartDispatch, End
<1>3. ASSUME NEW k \in Jobs, Accept(k), NEW j \in Jobs
      PROVE  /\ Created(j)' = Created(j) /\ (place[j]' = "done") = (place[j] = "done")
             /\ (place[j]' = "work") = (place[j] = "work")
             /\ "result" \in {response[j]', caller[j]'} => "result" \in {response[j], caller[j]}
  BY <1>3 DEF Accept, Progress
<1>4. ASSUME NEW k \in Jobs, Obtain(k), NEW j \in Jobs
      PROVE  /\ Created(j)' = Created(j) /\ (place[j]' = "done") = (place[j] = "done")
             /\ (place[j]' = "work") = (place[j] = "work")
             /\ "result" \in {response[j]', caller[j]'} => "result" \in {response[j], caller[j]}
  BY <1>4 DEF Obtain
<1>5. ASSUME NEW k \in Jobs, Answer(k) \/ Timeout(k), NEW j \in Jobs
      PROVE  /\ Created(j)' = Created(j) /\ (place[j]' = "done") = (place[j] = "done")
             /\ (place[j]' = "work") = (place[j] = "work")
             /\ "result" \in {response[j]', caller[j]'} => "result" \in {response[j], caller[j]}
  BY <1>5 DEF Answer, Timeout, Outcomes
<1> QED
  BY <1>1, <1>2, <1>3, <1>4, <1>5 DEF PoolOnly

(* A job in the pool was created.                                          *)
LEMMA InPoolCreated ==
  ASSUME IndInv, NEW j \in Jobs, place[j] # "none"
  PROVE  Created(j)
BY DEF IndInv, Progress, Created

(* A handler works on the job its context has; that of a job which shares  *)
(* its context with no unfinished one is that job, and nobody else's.      *)
LEMMA SeenJob ==
  ASSUME JIndInv, NEW j \in Jobs, place[j] = "work"
  PROVE  /\ Seen(j) \in Jobs /\ Created(j) /\ Unfinished(j)
         /\ j \notin tangled => Seen(j) = j
         /\ \A k \in Jobs : Unfinished(k) /\ k \notin tangled /\ Seen(j) = k => k = j
<1>1. Created(j) /\ Unfinished(j)
  BY InPoolCreated DEF JIndInv, Unfinished
<1>2. Seen(j) \in Jobs /\ context[Seen(j)] = context[j]
  BY <1>1 DEF JIndInv, ContextsRight, ContextsJobs, Seen
<1> QED
  BY <1>1, <1>2 DEF JIndInv, Alone, Seen

(* The contexts and tangles of jobs, when no job is created.               *)
LEMMA SameContexts ==
  ASSUME ContextsRight, Alone, UNCHANGED <<context, current, tangled>>,
         \A j \in Jobs : Created(j)' = Created(j),
         \A j \in Jobs : place[j] = "done" => place[j]' = "done"
  PROVE  ContextsRight' /\ Alone'
<1>1. ContextsRight'
  BY DEF ContextsRight, ContextsJobs
<1>2. \A j \in Jobs : Unfinished(j)' => Unfinished(j)
  BY DEF Unfinished
<1>3. Alone'
  BY <1>2 DEF Alone
<1> QED
  BY <1>1, <1>3

(* A payload that went through one more handler.                           *)
LEMMA ProcessedIs ==
  ASSUME NEW j \in Jobs, NEW n \in Nat
  PROVE  Processed([of |-> j, n |-> n]) = [of |-> j, n |-> n + 1]
<1>1. [of |-> j, n |-> n] # NoData
  BY NoDataAssumption
<1> QED
  BY <1>1 DEF Processed

(* A handler makes data of data.                                           *)
LEMMA ProcessedType ==
  ASSUME NEW d \in Data
  PROVE  Processed(d) \in Data
BY DEF Processed, Data

(***************************************************************************)
(* A step keeps the invariant: of a new job, because it tangles whatever   *)
(* it might disturb; of a handler, because it works on its own job or on   *)
(* one that is tangled or done.                                            *)
(***************************************************************************)
LEMMA JobsNext ==
  ASSUME JIndInv, [JNext]_allVars
  PROVE  JIndInv'
<1> USE DEF JIndInv
<1>0. IndInv' /\ ToldWhenDone' /\ TypeOK'
  BY StepIsPools, NextInv, ToldNext DEF IndInv
<1>1. CASE PoolOnly
  <2>1. UNCHANGED <<context, current, method, payload, result, stage, step, input, sent, tangled>>
    BY <1>1 DEF PoolOnly, jobVars
  <2>2. JTypeOK'
    BY <1>0, <2>1 DEF JTypeOK
  <2>3. ContextsRight' /\ Alone'
    BY <1>1, <2>1, PoolMoves, SameContexts
  <2>4. Course'
    <3> SUFFICES ASSUME NEW j \in Jobs
                 PROVE  /\ place[j]' \notin {"work", "done"} => step[j] = "read"
                        /\ place[j]' = "work" => stage[j] # 0
                        /\ Unfinished(j)' /\ j \notin tangled => OwnData(j)'
      BY <2>1 DEF Course
    <3>1. Unfinished(j)' = Unfinished(j) /\ (place[j]' = "done") = (place[j] = "done") /\ (place[j]' = "work") = (place[j] = "work")
      BY <1>1, PoolMoves DEF Unfinished
    <3>2. OwnData(j)' = OwnData(j)
      BY <2>1, <3>1 DEF OwnData
    <3> QED
      BY <3>1, <3>2 DEF Course
  <2>5. SentRight'
    BY <1>1, <2>1, PoolMoves DEF SentRight
  <2> QED
    BY <1>0, <2>2, <2>3, <2>4, <2>5
<1>2. ASSUME NEW j \in Jobs, NEW kind \in {"push", "req"}, NEW by \in Workers \cup {NoWorker},
             NEW c \in Contexts, NEW m \in Methods, NewJob(j, kind, by, c, m)
      PROVE  JIndInv'
  <2>1. /\ caller[j] = "idle" /\ caller' = [caller EXCEPT ![j] = kind] /\ UNCHANGED <<place, response>>
        /\ context' = [context EXCEPT ![j] = c] /\ current' = [current EXCEPT ![c] = j]
        /\ method' = [method EXCEPT ![j] = m] /\ payload' = [payload EXCEPT ![j] = [of |-> j, n |-> 0]]
        /\ UNCHANGED <<result, stage, step, input, sent>>
    BY <1>2 DEF NewJob, Submit
  <2>2. /\ tangled \subseteq tangled' /\ tangled' \subseteq Jobs
        /\ \A k \in Jobs : context[k] = c /\ place[k] # "done" => {k, j} \subseteq tangled'
    BY <1>2 DEF NewJob, OnContext, JTypeOK
  <2>3. place[j] = "none" /\ response[j] = "empty"
    BY <2>1 DEF IndInv, Progress
  <2>4. \A k \in Jobs : Created(k)' = (Created(k) \/ k = j)
    BY <2>1 DEF Created, JTypeOK, TypeOK
  <2>5. \A k \in Jobs : Unfinished(k)' = (Unfinished(k) \/ k = j)
    BY <2>1, <2>3, <2>4 DEF Unfinished
  <2>6. JTypeOK'
    BY <1>0, <2>1, <2>2 DEF JTypeOK, Data
  <2>7. ContextsRight'
    <3>1. ASSUME NEW k \in Jobs, Created(k)' PROVE context'[k] \in Contexts /\ current'[context'[k]] \in Jobs
      <4>1. CASE k = j
        BY <2>1, <4>1 DEF JTypeOK
      <4>2. CASE k # j
        <5>1. context[k] \in Contexts /\ current[context[k]] \in Jobs
          BY <2>4, <3>1, <4>2 DEF ContextsRight
        <5>2. context'[k] = context[k]
          BY <2>1, <4>2 DEF JTypeOK
        <5> QED
          BY <2>1, <5>1, <5>2 DEF JTypeOK
      <4> QED
        BY <4>1, <4>2
    <3>2. ASSUME NEW d \in Contexts, NEW i \in Jobs, current'[d] = i PROVE Created(i)' /\ context'[i] = d
      <4>1. CASE d = c
        <5>1. i = j
          BY <2>1, <3>2, <4>1 DEF JTypeOK
        <5> QED
          BY <2>1, <2>4, <4>1, <5>1 DEF JTypeOK
      <4>2. CASE d # c
        <5>1. current[d] = i
          BY <2>1, <3>2, <4>2 DEF JTypeOK
        <5>2. Created(i) /\ context[i] = d
          BY <5>1 DEF ContextsRight, ContextsJobs
        <5>3. i # j
          BY <2>1, <5>2 DEF Created
        <5> QED
          BY <2>1, <2>4, <5>2, <5>3 DEF JTypeOK
      <4> QED
        BY <4>1, <4>2
    <3>3. \A k \in Jobs : Created(k)' => context'[k] \in Contexts /\ current'[context'[k]] \in Jobs
      BY <3>1
    <3>4. \A d \in Contexts, i \in Jobs : current'[d] = i => Created(i)' /\ context'[i] = d
      BY <3>2
    <3>5. ContextsJobs'
      BY <3>4 DEF ContextsJobs
    <3> QED
      BY <3>3, <3>5 DEF ContextsRight
  <2>8. Alone'
    <3> SUFFICES ASSUME NEW k \in Jobs, Unfinished(k)', k \notin tangled'
                 PROVE  /\ current'[context'[k]] = k
                        /\ \A i \in Jobs : Unfinished(i)' /\ context'[i] = context'[k] => i = k
      BY DEF Alone
    <3>1. CASE k = j
      <4>1. context'[k] = c /\ current'[c] = j
        BY <2>1, <3>1 DEF JTypeOK
      <4>2. ASSUME NEW i \in Jobs, Unfinished(i)', context'[i] = c, i # j PROVE FALSE
        BY <2>1, <2>2, <2>5, <3>1, <4>2 DEF JTypeOK, Unfinished
      <4> QED
        BY <3>1, <4>1, <4>2
    <3>2. CASE k # j
      <4>1. Unfinished(k) /\ k \notin tangled
        BY <2>2, <2>5, <3>2
      <4>2. context'[k] = context[k] /\ context[k] # c /\ context[k] \in Contexts
        BY <2>1, <2>2, <3>2, <4>1 DEF JTypeOK, Unfinished, ContextsRight
      <4>3. current'[context[k]] = k
        BY <2>1, <4>1, <4>2 DEF JTypeOK, Alone
      <4>4. ASSUME NEW i \in Jobs, Unfinished(i)', context'[i] = context[k] PROVE i = k
        <5>1. i # j
          BY <2>1, <4>2, <4>4 DEF JTypeOK
        <5>2. Unfinished(i) /\ context[i] = context[k]
          BY <2>1, <2>5, <4>4, <5>1 DEF JTypeOK
        <5> QED
          BY <4>1, <5>2 DEF Alone
      <4> QED
        BY <4>2, <4>3, <4>4
    <3> QED
      BY <3>1, <3>2
  <2>9. Course'
    <3> SUFFICES ASSUME NEW k \in Jobs
                 PROVE  /\ place[k] \notin {"work", "done"} => step[k] = "read"
                        /\ place[k] = "work" => stage[k] # 0
                        /\ Unfinished(k)' /\ k \notin tangled' => OwnData(k)'
      BY <2>1 DEF Course
    <3>1. CASE k = j
      BY <2>1, <2>3, <3>1 DEF Course, OwnData, JTypeOK
    <3>2. CASE k # j
      <4>1. OwnData(k)' = OwnData(k)
        BY <2>1, <3>2 DEF OwnData, JTypeOK
      <4> QED
        BY <2>2, <2>5, <3>2, <4>1 DEF Course
    <3> QED
      BY <3>1, <3>2
  <2>10. SentRight'
    <3> SUFFICES ASSUME NEW k \in Jobs, "result" \in {response'[k], caller'[k]}, k \notin tangled'
                 PROVE  sent'[k] = [of |-> k, n |-> Handlers(method'[k])]
      BY DEF SentRight, Handlers
    <3>1. k # j
      BY <2>1, <2>3 DEF JTypeOK, TypeOK
    <3>2. "result" \in {response[k], caller[k]} /\ method'[k] = method[k] /\ k \notin tangled
      BY <2>1, <2>2, <3>1 DEF JTypeOK, TypeOK
    <3> QED
      BY <2>1, <3>2 DEF SentRight
  <2> QED
    BY <1>0, <2>6, <2>7, <2>8, <2>9, <2>10
<1>3. ASSUME NEW j \in Jobs, Enter(j) PROVE JIndInv'
  <2>1. /\ place[j] = "hand" /\ place' = [place EXCEPT ![j] = "work"] /\ UNCHANGED <<caller, response>>
        /\ stage' = [stage EXCEPT ![j] = 1]
        /\ UNCHANGED <<context, current, method, payload, result, step, input, sent, tangled>>
    BY <1>3 DEF Enter, Hand
  <2>2. JTypeOK'
    BY <1>0, <2>1 DEF JTypeOK
  <2>3. ContextsRight' /\ Alone'
    BY <2>1, SameContexts DEF Created, JTypeOK, TypeOK
  <2>4. Course'
    <3> SUFFICES ASSUME NEW k \in Jobs
                 PROVE  /\ place'[k] \notin {"work", "done"} => step[k] = "read"
                        /\ place'[k] = "work" => stage'[k] # 0
                        /\ Unfinished(k)' /\ k \notin tangled => OwnData(k)'
      BY <2>1 DEF Course
    <3>1. Unfinished(k)' = Unfinished(k)
      BY <2>1 DEF Unfinished, Created, JTypeOK, TypeOK
    <3>2. CASE k = j
      <4>1. place'[k] = "work" /\ stage'[k] = 1 /\ step[k] = "read" /\ payload' = payload /\ step' = step
        BY <2>1, <3>2 DEF JTypeOK, TypeOK, Course
      <4>2. OwnData(k) => payload[k] = [of |-> k, n |-> 0]
        BY <2>1, <3>2 DEF OwnData
      <4>3. stage'[k] - 1 = 0
        BY <4>1
      <4>4. payload[k] = [of |-> k, n |-> 0] => OwnData(k)'
        BY <4>1, <4>3 DEF OwnData
      <4>5. Unfinished(k) /\ k \notin tangled => OwnData(k)
        BY DEF Course
      <4>6. Unfinished(k)' /\ k \notin tangled => OwnData(k)'
        BY <3>1, <4>2, <4>4, <4>5
      <4> QED
        BY <4>1, <4>6
    <3>3. CASE k # j
      <4>1. OwnData(k)' = OwnData(k)
        BY <2>1, <3>3 DEF OwnData, JTypeOK, TypeOK
      <4> QED
        BY <2>1, <3>1, <3>3, <4>1 DEF Course, JTypeOK, TypeOK
    <3> QED
      BY <3>2, <3>3
  <2>5. SentRight'
    BY <2>1 DEF SentRight
  <2> QED
    BY <1>0, <2>2, <2>3, <2>4, <2>5
<1>4. ASSUME NEW j \in Jobs, HandlerNext(j) PROVE JIndInv'
  <2>0. place[j] = "work" /\ UNCHANGED <<caller, context, current, method, tangled>>
    BY <1>4 DEF HandlerNext, ReadPayload, SetResult, Continue, Finish, Respond, InHandler, vars
  <2>1. /\ Seen(j) \in Jobs /\ Created(j) /\ Unfinished(j) /\ (j \notin tangled => Seen(j) = j)
        /\ \A k \in Jobs : Unfinished(k) /\ k \notin tangled /\ Seen(j) = k => k = j
    BY <2>0, SeenJob
  <2>2. stage[j] \in Nat /\ stage[j] # 0 /\ stage[j] - 1 \in Nat
    BY <2>0 DEF Course, JTypeOK
  <2>3. CASE ReadPayload(j)
    <3>1. /\ step[j] = "read" /\ input' = [input EXCEPT ![j] = payload[Seen(j)]]
          /\ step' = [step EXCEPT ![j] = "write"] /\ UNCHANGED <<place, response, payload, result, stage, sent>>
      BY <2>3 DEF ReadPayload, vars
    <3>2. JTypeOK'
      BY <1>0, <2>0, <2>1, <3>1 DEF JTypeOK, Steps
    <3>3. ContextsRight' /\ Alone'
      BY <2>0, <3>1, SameContexts DEF Created
    <3>4. ASSUME NEW k \in Jobs, Unfinished(k), k \notin tangled PROVE OwnData(k)'
      <4>1. CASE k = j
        BY <2>0, <2>1, <3>1, <3>4, <4>1 DEF OwnData, Course, JTypeOK
      <4>2. CASE k # j
        BY <3>1, <3>4, <4>2 DEF OwnData, Course, JTypeOK
      <4> QED
        BY <4>1, <4>2
    <3>5. Course'
      BY <2>0, <3>1, <3>4 DEF Course, Unfinished, Created, JTypeOK
    <3>6. SentRight'
      BY <2>0, <3>1 DEF SentRight
    <3> QED
      BY <1>0, <3>2, <3>3, <3>5, <3>6
  <2>4. CASE SetResult(j)
    <3>1. /\ step[j] = "write" /\ result' = [result EXCEPT ![Seen(j)] = Processed(input[j])]
          /\ step' = [step EXCEPT ![j] = "written"] /\ UNCHANGED <<place, response, payload, input, stage, sent>>
      BY <2>4 DEF SetResult, vars
    <3>2. JTypeOK'
      <4>1. Processed(input[j]) \in Data
        BY ProcessedType DEF JTypeOK
      <4> QED
        BY <1>0, <2>0, <2>1, <3>1, <4>1 DEF JTypeOK, Steps
    <3>3. ContextsRight' /\ Alone'
      BY <2>0, <3>1, SameContexts DEF Created
    <3>4. ASSUME NEW k \in Jobs, Unfinished(k), k \notin tangled PROVE OwnData(k)'
      <4>1. CASE k = j
        <5>1. input[j] = [of |-> j, n |-> stage[j] - 1] /\ Seen(j) = j
          BY <2>0, <2>1, <3>1, <3>4, <4>1 DEF OwnData, Course
        <5>2. Processed(input[j]) = [of |-> j, n |-> stage[j]]
          BY <2>2, <5>1, ProcessedIs
        <5>3. result'[j] = [of |-> j, n |-> stage[j]] /\ step'[j] = "written"
          BY <3>1, <5>1, <5>2 DEF JTypeOK
        <5> QED
          BY <2>0, <3>1, <4>1, <5>3 DEF OwnData
      <4>2. CASE k # j
        <5>1. Seen(j) # k
          BY <2>1, <3>4, <4>2
        <5> QED
          BY <3>1, <3>4, <4>2, <5>1 DEF OwnData, Course, JTypeOK
      <4> QED
        BY <4>1, <4>2
    <3>5. Course'
      BY <2>0, <3>1, <3>4 DEF Course, Unfinished, Created, JTypeOK
    <3>6. SentRight'
      BY <2>0, <3>1 DEF SentRight
    <3> QED
      BY <1>0, <3>2, <3>3, <3>5, <3>6
  <2>5. CASE Continue(j)
    <3>1. /\ step[j] = "written" /\ payload' = [payload EXCEPT ![Seen(j)] = result[Seen(j)]]
          /\ result' = [result EXCEPT ![Seen(j)] = NoData] /\ stage' = [stage EXCEPT ![j] = @ + 1]
          /\ step' = [step EXCEPT ![j] = "read"] /\ UNCHANGED <<place, response, input, sent>>
      BY <2>5 DEF Continue, vars
    <3>2. JTypeOK'
      BY <1>0, <2>0, <2>1, <2>2, <3>1 DEF JTypeOK, Steps, Data
    <3>3. ContextsRight' /\ Alone'
      BY <2>0, <3>1, SameContexts DEF Created
    <3>4. ASSUME NEW k \in Jobs, Unfinished(k), k \notin tangled PROVE OwnData(k)'
      <4>1. CASE k = j
        <5>1. result[j] = [of |-> j, n |-> stage[j]] /\ Seen(j) = j
          BY <2>0, <2>1, <3>1, <3>4, <4>1 DEF OwnData, Course
        <5>2. payload'[j] = [of |-> j, n |-> stage'[j] - 1] /\ step'[j] = "read"
          BY <2>2, <3>1, <5>1 DEF JTypeOK
        <5> QED
          BY <2>0, <3>1, <4>1, <5>2 DEF OwnData
      <4>2. CASE k # j
        <5>1. Seen(j) # k
          BY <2>1, <3>4, <4>2
        <5> QED
          BY <3>1, <3>4, <4>2, <5>1 DEF OwnData, Course, JTypeOK
      <4> QED
        BY <4>1, <4>2
    <3>5. Course'
      BY <2>0, <2>2, <3>1, <3>4 DEF Course, Unfinished, Created, JTypeOK
    <3>6. SentRight'
      BY <2>0, <3>1 DEF SentRight
    <3> QED
      BY <1>0, <3>2, <3>3, <3>5, <3>6
  <2>6. ASSUME NEW outcome \in Outcomes, Finish(j, outcome) PROVE JIndInv'
    <3>1. /\ outcome = "result" => step[j] = "written" /\ stage[j] = Handlers(method[j])
          /\ sent' = [sent EXCEPT ![j] = IF outcome = "result" THEN result[j] ELSE NoData]
          /\ UNCHANGED <<payload, result, stage, step, input>>
          /\ place' = [place EXCEPT ![j] = "done"] /\ response' = [response EXCEPT ![j] = outcome]
          /\ response[j] = "empty"
      BY <2>6 DEF Finish, Respond
    <3>2. JTypeOK'
      BY <1>0, <2>0, <3>1 DEF JTypeOK, Data
    <3>3. ContextsRight' /\ Alone'
      BY <2>0, <3>1, SameContexts DEF Created, JTypeOK, TypeOK
    <3>4. Course'
      <4> SUFFICES ASSUME NEW k \in Jobs
                   PROVE  /\ place'[k] \notin {"work", "done"} => step[k] = "read"
                          /\ place'[k] = "work" => stage[k] # 0
                          /\ Unfinished(k)' /\ k \notin tangled => OwnData(k)'
        BY <2>0, <3>1 DEF Course
      <4>1. CASE k = j
        BY <3>1, <4>1 DEF Unfinished, JTypeOK, TypeOK
      <4>2. CASE k # j
        <5>1. OwnData(k)' = OwnData(k) /\ Unfinished(k)' = Unfinished(k) /\ place'[k] = place[k]
          BY <2>0, <3>1, <4>2 DEF OwnData, Unfinished, Created, JTypeOK, TypeOK
        <5> QED
          BY <5>1 DEF Course
      <4> QED
        BY <4>1, <4>2
    <3>5. ASSUME NEW k \in Jobs, "result" \in {response'[k], caller[k]}, k \notin tangled
          PROVE  sent'[k] = [of |-> k, n |-> Handlers(method[k])]
      <4>1. CASE k = j
        <5>1. caller[j] # "result"
          BY <2>0 DEF ToldWhenDone, Outcomes
        <5>2. outcome = "result"
          BY <3>1, <3>5, <4>1, <5>1 DEF JTypeOK, TypeOK
        <5>3. result[j] = [of |-> j, n |-> stage[j]]
          BY <2>0, <2>1, <3>1, <3>5, <4>1, <5>2 DEF OwnData, Course
        <5> QED
          BY <3>1, <4>1, <5>2, <5>3 DEF JTypeOK
      <4>2. CASE k # j
        BY <3>1, <3>5, <4>2 DEF SentRight, JTypeOK, TypeOK
      <4> QED
        BY <4>1, <4>2
    <3>6. SentRight'
      BY <2>0, <3>5 DEF SentRight
    <3> QED
      BY <1>0, <3>2, <3>3, <3>4, <3>6
  <2> QED
    BY <1>4, <2>3, <2>4, <2>5, <2>6 DEF HandlerNext
<1>5. CASE UNCHANGED allVars
  BY <1>0, <1>5 DEF allVars, jobVars, vars, JTypeOK, ContextsRight, ContextsJobs, Alone, Course, SentRight, Created, Unfinished, OwnData
<1> QED
  BY <1>1, <1>2, <1>3, <1>4, <1>5 DEF JNext

(* Every job and context, in every reachable state.                        *)
THEOREM JobsRight == JSpec => []JIndInv
  BY JobsInit, JobsNext, PTL DEF JSpec

(* The variables of the pool and of its jobs have their types.             *)
THEOREM JobTypes == JSpec => []JTypeOK
<1>1. JIndInv => JTypeOK
  BY DEF JIndInv
<1> QED
  BY <1>1, JobsRight, PTL

(* A requester that got a result got that of its own job, after every      *)
(* handler of its method, unless another job of the context was unfinished *)
(* meanwhile (work.go:75-109, 126).                                        *)
THEOREM ResultIsOwn == JSpec => []OwnResult
<1>1. JIndInv => OwnResult
  BY DEF JIndInv, SentRight, OwnResult
<1> QED
  BY <1>1, JobsRight, PTL

(* What handlers do is done within the steps of the pool: the pool with    *)
(* its handlers implements WorkerPool, ...                                 *)
THEOREM PoolImplemented == JSpec => Spec
<1>1. JInit => Init
  BY DEF JInit
<1> QED
  BY <1>1, StepIsPools, PTL DEF JSpec, Spec

(* ... so no handler, whatever it shares, makes a worker wait, ...         *)
THEOREM HandlersNeverBlock == JSpec => []WorkersNeverBlock
  BY PoolImplemented, NeverBlocked, PTL

(* ... and callers see the service promised.                               *)
THEOREM HandlersImplementService == JSpec => ServiceSafety
  BY PoolImplemented, ImplementsService, PTL
=============================================================================
