----------------------------- MODULE JobService -----------------------------
(***************************************************************************)
(* What the worker pool of work.go promises to those who push jobs and     *)
(* request answers, with no goroutine or channel in sight: a submitted job *)
(* is run at most once, at most Capacity jobs run at a time, a requester   *)
(* is told the outcome of its own job and only after it was handled, or    *)
(* is told that time is up, and is told one thing only.                    *)
(***************************************************************************)
EXTENDS Naturals, FiniteSets

CONSTANTS Jobs, Capacity

VARIABLES status,  \* progress of each job
          outcome, \* what its handler came to
          answer   \* what its creator was told

svars == <<status, outcome, answer>>

SInit ==
  /\ status = [j \in Jobs |-> "idle"]
  /\ outcome = [j \in Jobs |-> "none"]
  /\ answer = [j \in Jobs |-> "none"]

Running == {j \in Jobs : status[j] = "running"}

(* push expects no answer, req does.                                       *)
Create(j, expected) ==
  /\ status[j] = "idle"
  /\ status' = [status EXCEPT ![j] = "queued"]
  /\ answer' = [answer EXCEPT ![j] = expected]
  /\ UNCHANGED outcome

Run(j) ==
  /\ status[j] = "queued"
  /\ Cardinality(Running) < Capacity
  /\ status' = [status EXCEPT ![j] = "running"]
  /\ UNCHANGED <<outcome, answer>>

Finish(j, o) ==
  /\ status[j] = "running"
  /\ status' = [status EXCEPT ![j] = "handled"]
  /\ outcome' = [outcome EXCEPT ![j] = o]
  /\ UNCHANGED answer

Tell(j) ==
  /\ status[j] = "handled"
  /\ answer[j] = "pending"
  /\ answer' = [answer EXCEPT ![j] = outcome[j]]
  /\ UNCHANGED <<status, outcome>>

GiveUp(j) ==
  /\ answer[j] = "pending"
  /\ answer' = [answer EXCEPT ![j] = "timedout"]
  /\ UNCHANGED <<status, outcome>>

SNext == \E j \in Jobs :
  \/ \E expected \in {"none", "pending"} : Create(j, expected)
  \/ Run(j)
  \/ \E o \in {"result", "error"} : Finish(j, o)
  \/ Tell(j)
  \/ GiveUp(j)

Safety == SInit /\ [][SNext]_svars

(* Jobs get done and requesters are told.                                  *)
Progress ==
  \A j \in Jobs :
    /\ WF_svars(Run(j))
    /\ WF_svars(\E o \in {"result", "error"} : Finish(j, o))
    /\ WF_svars(Tell(j) \/ GiveUp(j))

Service == Safety /\ Progress
=============================================================================
