-------------------------------- MODULE Cron --------------------------------
(***************************************************************************)
(* The scheduler of cron/cron.go.  Goroutines of the application schedule  *)
(* jobs, ask for the entries, start and stop; the runner is the goroutine  *)
(* in run().  They meet on three unbuffered channels, and the callers read *)
(* c.running first, without synchronisation: what they do next is a step   *)
(* of its own, taken with what they read.                                  *)
(*                                                                         *)
(* Time is counted in the seconds schedules are made of and passes only    *)
(* when the runner has nothing to do.  0 is the zero time, "never".        *)
(***************************************************************************)
EXTENDS Naturals, Sequences, FiniteSets, Functions, TLC

CONSTANTS Callers,  \* goroutines of the application
          Jobs,     \* the jobs that may be scheduled
          Delay,    \* Delay[j]: seconds between two runs of j, 0 if never
          NoJob,
          MayStop,  \* whether Stop may be called
          MaxTime   \* bound on the clock

ASSUME DelayAssumption == Delay \in [Jobs -> Nat]
ASSUME NoneAssumption == NoJob \notin Jobs
ASSUME BoundAssumption == MaxTime \in Nat \ {0} /\ MayStop \in BOOLEAN

VARIABLES running, \* c.running
          runner,  \* where the goroutine in run() is
          entries, \* c.entries
          timer,   \* when the runner's timer fires, if it does before long
          clock,
          doing,   \* what each caller is at
          adding,  \* the job a caller sends on c.add
          answer   \* what Entries returned last

vars == <<running, runner, entries, timer, clock, doing, adding, answer>>
scheduler == <<runner, entries, timer>>

RunnerStates == {"off", "start", "select", "reply"}
CallerStates == {"idle", "add", "ask", "receive", "stop", "stopped"}
Entry == [job : Jobs, next : Nat, prev : Nat]

NextTime(j, t) == IF Delay[j] = 0 THEN 0 ELSE t + Delay[j]

(* Variants of the next two definitions that are wrong, used like those    *)
(* further below to see properties fail: zero times are less than any      *)
(* other, as they are as numbers, ...                                      *)
LessPlain(e, f) == e.next < f.next

(* ... and every entry is run when the timer of the first fires.           *)
DueAll(e) == e.next # 0

(* byTime.Less: the zero time comes last.                                  *)
Less(e, f) == e.next # 0 /\ (f.next = 0 \/ e.next < f.next)

Due(e) == e.next # 0 /\ e.next <= clock

Scheduled == {entries[i].job : i \in DOMAIN entries} \cup {adding[p] : p \in Callers}

(* byTime.Less orders the entries but for those it does not tell apart,    *)
(* which sort.Sort leaves in any order.                                    *)
Sorted(es) == \A i, k \in DOMAIN es : i < k => ~Less(es[k], es[i])
Orders(es) == {[i \in DOMAIN es |-> es[f[i]]] : f \in Bijection(DOMAIN es, DOMAIN es)}

(* The top of the runner's loop: sort, and set the timer for the first.    *)
Loop(es) ==
  /\ entries' \in {s \in Orders(es) : Sorted(s)}
  /\ timer' = IF entries' = <<>> THEN 0 ELSE entries'[1].next
  /\ runner' = "select"

-----------------------------------------------------------------------------
(* Faulty variants, each of which breaks one of the properties below.      *)

(* A caller whose request was received, by whomever, has its answer.       *)
CrossBoth(p, q) ==
  /\ doing[p] = "receive"
  /\ doing[q] = "ask"
  /\ doing' = [doing EXCEPT ![p] = "idle", ![q] = "idle"]
  /\ answer' = [answer EXCEPT ![p] = "nil", ![q] = "nil"]
  /\ UNCHANGED <<running, scheduler, clock, adding>>

(* The flag is reset before the runner has stopped.                        *)
StopFlagFirst(p) ==
  /\ MayStop
  /\ doing[p] = "idle"
  /\ running
  /\ running' = FALSE
  /\ doing' = [doing EXCEPT ![p] = "stop"]
  /\ UNCHANGED <<scheduler, clock, adding, answer>>

-----------------------------------------------------------------------------

Init ==
  /\ running = FALSE
  /\ runner = "off"
  /\ entries = <<>>
  /\ timer = 0
  /\ clock = 1
  /\ doing = [p \in Callers |-> "idle"]
  /\ adding = [p \in Callers |-> NoJob]
  /\ answer = [p \in Callers |-> "none"]

(* Start, or Run in a goroutine of its own; a no-op when running.  It      *)
(* reads and sets running without a lock; that is one step here because    *)
(* only the start of the framework calls it, once (src/cron.go).  Two that *)
(* meet would leave two runners, which is not modelled.                    *)
Start ==
  /\ ~running
  /\ running' = TRUE
  /\ runner' = "start"
  /\ UNCHANGED <<entries, timer, clock, doing, adding, answer>>

BeginRun ==
  /\ runner = "start"
  /\ Loop([i \in DOMAIN entries |->
             [entries[i] EXCEPT !.next = NextTime(entries[i].job, clock)]])
  /\ UNCHANGED <<running, clock, doing, adding, answer>>

(* Schedule of a job that is not scheduled yet: at once when not running,  *)
(* otherwise the entry goes through the add channel.                       *)
Schedule(p, j) ==
  /\ doing[p] = "idle"
  /\ j \notin Scheduled
  /\ \/ /\ running
        /\ doing' = [doing EXCEPT ![p] = "add"]
        /\ adding' = [adding EXCEPT ![p] = j]
        /\ UNCHANGED entries
     \/ /\ ~running
        /\ entries' = Append(entries, [job |-> j, next |-> 0, prev |-> 0])
        /\ UNCHANGED <<doing, adding>>
  /\ UNCHANGED <<running, runner, timer, clock, answer>>

Add(p) ==
  /\ runner = "select"
  /\ doing[p] = "add"
  /\ Loop(Append(entries, [job |-> adding[p], next |-> NextTime(adding[p], clock), prev |-> 0]))
  /\ doing' = [doing EXCEPT ![p] = "idle"]
  /\ adding' = [adding EXCEPT ![p] = NoJob]
  /\ UNCHANGED <<running, clock, answer>>

(* The timer fires: run the entries that are due, up to the first that is  *)
(* not.                                                                    *)
RunDue ==
  /\ runner = "select"
  /\ timer # 0 /\ timer <= clock
  /\ LET Runs(i) == \A k \in 1..i : Due(entries[k])
     IN  Loop([i \in DOMAIN entries |->
                 IF Runs(i) THEN [entries[i] EXCEPT !.prev = entries[i].next,
                                                    !.next = NextTime(entries[i].job, clock)]
                            ELSE entries[i]])
  /\ UNCHANGED <<running, clock, doing, adding, answer>>

(* Entries of a running cron: first send on the snapshot channel, ...      *)
AskEntries(p) ==
  /\ doing[p] = "idle"
  /\ running
  /\ doing' = [doing EXCEPT ![p] = "ask"]
  /\ UNCHANGED <<running, scheduler, clock, adding, answer>>

(* ... which the runner receives, making its copy of the entries; ...      *)
TakeRequest(p) ==
  /\ runner = "select"
  /\ doing[p] = "ask"
  /\ runner' = "reply"
  /\ doing' = [doing EXCEPT ![p] = "receive"]
  /\ UNCHANGED <<running, entries, timer, clock, adding, answer>>

(* ... then receive from the same channel.                                 *)
Reply(p) ==
  /\ runner = "reply"
  /\ doing[p] = "receive"
  /\ runner' = "select"
  /\ doing' = [doing EXCEPT ![p] = "idle"]
  /\ answer' = [answer EXCEPT ![p] = "entries"]
  /\ UNCHANGED <<running, entries, timer, clock, adding>>

(* Another caller's request is as good to receive.                         *)
Cross(p, q) ==
  /\ doing[p] = "receive"
  /\ doing[q] = "ask"
  /\ doing' = [doing EXCEPT ![p] = "idle", ![q] = "receive"]
  /\ answer' = [answer EXCEPT ![p] = "nil"]
  /\ UNCHANGED <<running, scheduler, clock, adding>>

(* Stop of a running cron: send on the stop channel, then reset running.   *)
Stop(p) ==
  /\ MayStop
  /\ doing[p] = "idle"
  /\ running
  /\ doing' = [doing EXCEPT ![p] = "stop"]
  /\ UNCHANGED <<running, scheduler, clock, adding, answer>>

EndRun(p) ==
  /\ runner = "select"
  /\ doing[p] = "stop"
  /\ runner' = "off"
  /\ timer' = 0
  /\ doing' = [doing EXCEPT ![p] = "stopped"]
  /\ UNCHANGED <<running, entries, clock, adding, answer>>

StopDone(p) ==
  /\ doing[p] = "stopped"
  /\ running' = FALSE
  /\ doing' = [doing EXCEPT ![p] = "idle"]
  /\ UNCHANGED <<scheduler, clock, adding, answer>>

Tick ==
  /\ clock < MaxTime
  /\ runner \in {"off", "select"}
  /\ timer = 0 \/ timer > clock
  /\ clock' = clock + 1
  /\ UNCHANGED <<running, scheduler, doing, adding, answer>>

-----------------------------------------------------------------------------

CallerNext(p) ==
  \/ \E j \in Jobs : Schedule(p, j)
  \/ AskEntries(p)
  \/ Stop(p)
  \/ StopDone(p)

Meet(p) ==
  \/ Add(p)
  \/ TakeRequest(p)
  \/ Reply(p)
  \/ EndRun(p)
  \/ \E q \in Callers : Cross(p, q)

Next ==
  \/ Start
  \/ BeginRun
  \/ RunDue
  \/ Tick
  \/ \E p \in Callers : CallerNext(p) \/ Meet(p)

Spec == Init /\ [][Next]_vars

(* The runner keeps running.  A sender that waits is served in its turn,   *)
(* as channel queues are first in first out and select picks at random,    *)
(* although the runner is not at its select all the time: strong fairness. *)
Fairness ==
  /\ WF_vars(BeginRun) /\ WF_vars(RunDue)
  /\ \A p \in Callers :
       /\ WF_vars(Reply(p)) /\ WF_vars(StopDone(p))
       /\ SF_vars(Add(p)) /\ SF_vars(TakeRequest(p)) /\ SF_vars(EndRun(p))

FairSpec == Spec /\ Fairness

-----------------------------------------------------------------------------
(* Properties *)

TypeOK ==
  /\ running \in BOOLEAN
  /\ runner \in RunnerStates
  /\ entries \in Seq(Entry)
  /\ timer \in Nat
  /\ clock \in Nat
  /\ doing \in [Callers -> CallerStates]
  /\ adding \in [Callers -> Jobs \cup {NoJob}]
  /\ answer \in [Callers -> {"none", "nil", "entries"}]

(* However the requests of callers cross on the snapshot channel           *)
(* (cron.go:130-131, 215-216), the runner sends one reply for every caller *)
(* that is to receive one: neither waits for the other in vain.            *)
ReplyHasReceiver ==
  /\ runner = "reply" => \E p \in Callers : doing[p] = "receive"
  /\ \A p, q \in Callers :
       doing[p] = "receive" => /\ runner = "reply"
                               /\ doing[q] = "receive" => p = q

(* The flag callers go by is right, but while the one Stop that the runner *)
(* obeyed has yet to reset it (cron.go:234-235).                           *)
FlagAgrees ==
  /\ ~running => runner = "off"
  /\ running /\ runner = "off" => \E p \in Callers : doing[p] = "stopped"
  /\ \A p, q \in Callers :
       doing[p] = "stopped" => /\ running /\ runner = "off"
                               /\ doing[q] = "stopped" => p = q

(* While the runner is at its select no activation has been missed,        *)
(* whatever entries were added, asked for or run at the same time and      *)
(* however often the cron was stopped and started (cron.go:183-207).       *)
NoneMissed ==
  runner = "select" =>
    \A i \in DOMAIN entries : entries[i].next = 0 \/ entries[i].next >= clock

(* A job is run at its next activation time, no earlier and no later, and  *)
(* never twice at one time (cron.go:199-206).                              *)
RunsOnTime ==
  [][\A i \in DOMAIN entries, k \in DOMAIN entries' :
       entries[i].job = entries'[k].job /\ entries[i].prev # entries'[k].prev
         => entries'[k].prev = clock /\ entries[i].next = clock
            /\ entries'[k].next # clock]_vars

(* No call waits for ever for a runner that runs, however the requests of  *)
(* several callers cross (cron.go:119-135).                                *)
EveryCallReturns ==
  \A p \in Callers : doing[p] # "idle" ~> doing[p] = "idle" \/ runner = "off"

(* "Entries returns a snapshot of the cron entries" (cron.go:127).         *)
EntriesIsSnapshot == \A p \in Callers : answer[p] # "nil"
=============================================================================
