------------------------------- MODULE MCCron -------------------------------
(* Instances of Cron for TLC: of three jobs one is never due.              *)
EXTENDS Cron

MCDelay == [j \in Jobs |-> j - 1]
Symmetric == Permutations(Callers)
=============================================================================
