----------------------------- MODULE CronProofs -----------------------------
(***************************************************************************)
(* Proofs about Cron: the runner, the callers and the running flag agree   *)
(* on who is to speak next on which channel, and every job is run at its   *)
(* times, for any callers, jobs and delays.  And about Schedule, which     *)
(* gives these times: Next returns the first second that its expression    *)
(* means, for any expression and calendar.                                 *)
(***************************************************************************)
EXTENDS Cron, FiniteSetTheorems, SequenceTheorems, WellFoundedInduction, TLAPS

(* The part of the type invariant that matters here.                       *)
PartType ==
  /\ running \in BOOLEAN
  /\ runner \in RunnerStates
  /\ doing \in [Callers -> CallerStates]

IndInv == PartType /\ ReplyHasReceiver /\ FlagAgrees

(* Nothing happens to a cron that is not started.                          *)
LEMMA InitInv == Init => IndInv
  BY DEF Init, IndInv, PartType, RunnerStates, CallerStates, ReplyHasReceiver, FlagAgrees

(* Every action keeps the three in step (cron.go:114-236).                 *)
LEMMA NextInv == IndInv /\ [Next]_vars => IndInv'
<1> SUFFICES ASSUME IndInv, [Next]_vars PROVE IndInv'
  OBVIOUS
<1> USE DEF IndInv, PartType, RunnerStates, CallerStates, ReplyHasReceiver, FlagAgrees
<1>1. CASE Start
  BY <1>1 DEF Start
<1>2. CASE BeginRun
  BY <1>2 DEF BeginRun, Loop
<1>3. CASE RunDue
  BY <1>3 DEF RunDue, Loop
<1>4. CASE Tick
  BY <1>4 DEF Tick, scheduler
<1>5. ASSUME NEW p \in Callers, CallerNext(p) PROVE IndInv'
  <2>1. CASE \E j \in Jobs : Schedule(p, j)
    BY <2>1 DEF Schedule
  <2>2. CASE AskEntries(p)
    BY <2>2 DEF AskEntries, scheduler
  <2>3. CASE Stop(p)
    BY <2>3 DEF Stop, scheduler
  <2>4. CASE StopDone(p)
    BY <2>4 DEF StopDone, scheduler
  <2> QED
    BY <1>5, <2>1, <2>2, <2>3, <2>4 DEF CallerNext
<1>6. ASSUME NEW p \in Callers, Meet(p) PROVE IndInv'
  <2>1. CASE Add(p)
    BY <2>1 DEF Add, Loop
  <2>2. CASE TakeRequest(p)
    BY <2>2 DEF TakeRequest
  <2>3. CASE Reply(p)
    BY <2>3 DEF Reply
  <2>4. CASE EndRun(p)
    BY <2>4 DEF EndRun
  <2>5. CASE \E q \in Callers : Cross(p, q)
    BY <2>5 DEF Cross, scheduler
  <2> QED
    BY <1>6, <2>1, <2>2, <2>3, <2>4, <2>5 DEF Meet
<1>7. CASE UNCHANGED vars
  BY <1>7 DEF vars
<1> QED
  BY <1>1, <1>2, <1>3, <1>4, <1>5, <1>6, <1>7 DEF Next

(* The invariant of the protocol on the three channels.                    *)
THEOREM Protocol == Spec => []IndInv
  BY InitInv, NextInv, PTL DEF Spec

(* A runner that replies has exactly one caller to reply to                *)
(* (cron.go:128-135, 215-216).                                             *)
THEOREM ReplyReceived == Spec => []ReplyHasReceiver
<1>1. IndInv => ReplyHasReceiver
  BY DEF IndInv
<1> QED
  BY <1>1, Protocol, PTL

(* The running flag is right but while one Stop is to reset it             *)
(* (cron.go:229-236).                                                      *)
THEOREM FlagRight == Spec => []FlagAgrees
<1>1. IndInv => FlagAgrees
  BY DEF IndInv
<1> QED
  BY <1>1, Protocol, PTL
-----------------------------------------------------------------------------
(* The entries.  No job has two, nor one besides the one that is added.    *)

JobsApart(es) == \A i, k \in DOMAIN es : es[i].job = es[k].job => i = k

Apart ==
  /\ JobsApart(entries)
  /\ \A p \in Callers, i \in DOMAIN entries : entries[i].job # adding[p]
  /\ \A p, q \in Callers : adding[p] = adding[q] /\ adding[p] # NoJob => p = q
  /\ \A p \in Callers : doing[p] = "add" => adding[p] \in Jobs

(* No entry is late at the time now ...                                    *)
Fresh(es, t) == \A i \in DOMAIN es : es[i].next = 0 \/ es[i].next >= t

(* ... and while the runner is in its loop its timer is not for a later    *)
(* time than that of any entry.                                            *)
TimerFirst ==
  \A i \in DOMAIN entries : entries[i].next # 0 => timer # 0 /\ timer <= entries[i].next

InLoop == runner \in {"select", "reply"}

DataInv ==
  /\ TypeOK
  /\ clock # 0
  /\ Apart
  /\ InLoop => Fresh(entries, clock) /\ TimerFirst

(* What the next time of an entry may be.                                  *)
LEMMA NextTimes ==
  ASSUME NEW j \in Jobs, NEW t \in Nat
  PROVE  NextTime(j, t) \in Nat /\ (NextTime(j, t) = 0 \/ NextTime(j, t) > t)
  BY DelayAssumption DEF NextTime

(* A list of entries of the same length is one, too.                       *)
LEMMA MapIsSeq ==
  ASSUME NEW es \in Seq(Entry), NEW fs, DOMAIN fs = DOMAIN es, fs = [i \in DOMAIN fs |-> fs[i]],
         \A i \in DOMAIN es : fs[i] \in Entry
  PROVE  fs \in Seq(Entry)
<1>1. DOMAIN es = 1..Len(es) /\ Len(es) \in Nat
  BY LenProperties
<1>2. fs \in [1..Len(es) -> Entry]
  BY <1>1
<1> QED
  BY <1>1, <1>2, SeqDef

(* The top of the loop leaves the same entries, the first of which is the  *)
(* next to run.                                                            *)
LEMMA LoopSorts ==
  ASSUME NEW es \in Seq(Entry), Loop(es)
  PROVE  /\ entries' \in Seq(Entry) /\ DOMAIN entries' = DOMAIN es
         /\ \E f \in [DOMAIN es -> DOMAIN es] :
              /\ \A a, b \in DOMAIN es : f[a] = f[b] => a = b
              /\ \A i \in DOMAIN es : entries'[i] = es[f[i]]
         /\ timer' \in Nat /\ TimerFirst' /\ runner' = "select"
<1>1. PICK f \in Bijection(DOMAIN es, DOMAIN es) :
        entries' = [i \in DOMAIN es |-> es[f[i]]] /\ Sorted(entries')
  BY DEF Loop, Orders
<1>2. f \in [DOMAIN es -> DOMAIN es] /\ \A a, b \in DOMAIN es : f[a] = f[b] => a = b
  BY DEF Bijection, Injection, IsInjective
<1>3. DOMAIN es = 1..Len(es) /\ Len(es) \in Nat
  BY LenProperties
<1>4. \A i \in DOMAIN es : entries'[i] = es[f[i]] /\ entries'[i] \in Entry
  <2> SUFFICES ASSUME NEW i \in DOMAIN es PROVE entries'[i] = es[f[i]] /\ entries'[i] \in Entry
    OBVIOUS
  <2>1. entries'[i] = es[f[i]]
    BY <1>1
  <2>2. f[i] \in 1..Len(es)
    BY <1>2, <1>3
  <2> QED
    BY <2>1, <2>2, ElementOfSeq
<1>5. entries' \in Seq(Entry) /\ DOMAIN entries' = DOMAIN es
  BY <1>1, <1>4, MapIsSeq
<1>6. timer' = IF entries' = <<>> THEN 0 ELSE entries'[1].next
  BY DEF Loop
<1>7. ASSUME entries' # <<>> PROVE 1 \in DOMAIN es
  BY <1>3, <1>5, <1>7, EmptySeq, LenProperties
<1>8. timer' \in Nat
  BY <1>4, <1>6, <1>7 DEF Entry
<1>9. TimerFirst'
  <2> SUFFICES ASSUME NEW i \in DOMAIN es, entries'[i].next # 0
               PROVE  timer' # 0 /\ timer' <= entries'[i].next
    BY <1>5 DEF TimerFirst
  <2>1. entries' # <<>>
    BY <1>5, EmptySeq
  <2>2. 1 \in DOMAIN es /\ timer' = entries'[1].next
    BY <1>6, <1>7, <2>1
  <2>3. entries'[i].next \in Nat /\ entries'[1].next \in Nat
    BY <1>4, <2>2 DEF Entry
  <2>4. CASE i = 1
    BY <2>2, <2>3, <2>4
  <2>5. CASE i # 1
    <3>1. ~Less(entries'[i], entries'[1])
      BY <1>1, <1>3, <1>5, <2>2, <2>5 DEF Sorted
    <3> QED
      BY <2>2, <2>3, <3>1 DEF Less
  <2> QED
    BY <2>4, <2>5
<1> QED
  BY <1>2, <1>4, <1>5, <1>8, <1>9 DEF Loop

(* So it keeps what holds of every entry, and jobs apart.                  *)
LEMMA LoopKeeps ==
  ASSUME NEW es \in Seq(Entry), Loop(es), JobsApart(es), NEW t, Fresh(es, t)
  PROVE  /\ JobsApart(entries') /\ Fresh(entries', t)
         /\ \A i \in DOMAIN entries' : \E k \in DOMAIN es : entries'[i] = es[k]
<1>1. PICK f \in [DOMAIN es -> DOMAIN es] :
        /\ \A a, b \in DOMAIN es : f[a] = f[b] => a = b
        /\ \A i \in DOMAIN es : entries'[i] = es[f[i]]
  BY LoopSorts
<1>2. DOMAIN entries' = DOMAIN es
  BY LoopSorts
<1>3. JobsApart(entries')
  <2> SUFFICES ASSUME NEW i \in DOMAIN es, NEW k \in DOMAIN es, entries'[i].job = entries'[k].job
               PROVE  i = k
    BY <1>2 DEF JobsApart
  <2>1. f[i] = f[k]
    BY <1>1 DEF JobsApart
  <2> QED
    BY <1>1, <2>1
<1>4. Fresh(entries', t)
  BY <1>1, <1>2 DEF Fresh
<1> QED
  BY <1>1, <1>2, <1>3, <1>4
(* The entries that BeginRun and RunDue make, and that Add does.           *)
Begun == [i \in DOMAIN entries |-> [entries[i] EXCEPT !.next = NextTime(entries[i].job, clock)]]
Runs(i) == \A k \in 1..i : Due(entries[k])
Ran == [i \in DOMAIN entries |->
          IF Runs(i) THEN [entries[i] EXCEPT !.prev = entries[i].next, !.next = NextTime(entries[i].job, clock)]
                     ELSE entries[i]]
Added(p) == Append(entries, [job |-> adding[p], next |-> NextTime(adding[p], clock), prev |-> 0])

(* What is known of a sequence of entries, ...                             *)
LEMMA SeqTyped ==
  ASSUME NEW es \in Seq(Entry)
  PROVE  /\ DOMAIN es = 1..Len(es) /\ Len(es) \in Nat
         /\ \A i \in DOMAIN es : es[i] \in Entry
  BY LenProperties, ElementOfSeq

(* ... and so of the entries, ...                                          *)
LEMMA EntriesTyped ==
  ASSUME TypeOK
  PROVE  /\ DOMAIN entries = 1..Len(entries) /\ Len(entries) \in Nat
         /\ \A i \in DOMAIN entries : entries[i] \in Entry
  BY SeqTyped DEF TypeOK

(* ... of those BeginRun makes, which are still to be run when they were, ... *)
LEMMA BegunRight ==
  ASSUME DataInv
  PROVE  /\ Begun \in Seq(Entry) /\ DOMAIN Begun = DOMAIN entries
         /\ \A i \in DOMAIN entries : Begun[i].job = entries[i].job /\ Begun[i].prev = entries[i].prev
         /\ JobsApart(Begun) /\ Fresh(Begun, clock)
<1>1. ASSUME NEW i \in DOMAIN entries
      PROVE  /\ Begun[i] \in Entry /\ Begun[i].job = entries[i].job /\ Begun[i].prev = entries[i].prev
             /\ Begun[i].next = 0 \/ Begun[i].next >= clock
  <2>1. entries[i] \in Entry /\ clock \in Nat
    BY EntriesTyped DEF DataInv, TypeOK
  <2>2. NextTime(entries[i].job, clock) \in Nat
        /\ (NextTime(entries[i].job, clock) = 0 \/ NextTime(entries[i].job, clock) > clock)
    BY <2>1, NextTimes DEF Entry
  <2> QED
    BY <2>1, <2>2 DEF Begun, Entry
<1>2. DOMAIN Begun = DOMAIN entries /\ Begun = [i \in DOMAIN Begun |-> Begun[i]]
  BY DEF Begun
<1>3. Begun \in Seq(Entry)
  BY <1>1, <1>2, MapIsSeq DEF DataInv, TypeOK
<1> QED
  BY <1>1, <1>2, <1>3 DEF JobsApart, Fresh, DataInv, Apart

(* ... and of those RunDue makes: it runs an entry at its time.            *)
LEMMA RanRight ==
  ASSUME DataInv, InLoop
  PROVE  /\ Ran \in Seq(Entry) /\ DOMAIN Ran = DOMAIN entries
         /\ \A i \in DOMAIN entries : Ran[i].job = entries[i].job
         /\ JobsApart(Ran) /\ Fresh(Ran, clock)
         /\ \A i \in DOMAIN entries : Ran[i].prev # entries[i].prev
              => Ran[i].prev = clock /\ entries[i].next = clock /\ Ran[i].next # clock
<1>0. clock \in Nat /\ clock # 0 /\ Fresh(entries, clock)
  BY DEF DataInv, TypeOK
<1>1. ASSUME NEW i \in DOMAIN entries
      PROVE  /\ Ran[i] \in Entry /\ Ran[i].job = entries[i].job
             /\ Ran[i].next = 0 \/ Ran[i].next >= clock
             /\ Ran[i].prev # entries[i].prev
                  => Ran[i].prev = clock /\ entries[i].next = clock /\ Ran[i].next # clock
  <2>1. entries[i] \in Entry
    BY EntriesTyped DEF DataInv
  <2>2. NextTime(entries[i].job, clock) \in Nat
        /\ (NextTime(entries[i].job, clock) = 0 \/ NextTime(entries[i].job, clock) > clock)
    BY <1>0, <2>1, NextTimes DEF Entry
  <2>3. CASE Runs(i)
    <3>1. Ran[i] = [entries[i] EXCEPT !.prev = entries[i].next, !.next = NextTime(entries[i].job, clock)]
      BY <2>3 DEF Ran
    <3>2. i \in 1..i
      BY EntriesTyped DEF DataInv
    <3>3. Due(entries[i])
      BY <2>3, <3>2 DEF Runs
    <3>4. entries[i].next = clock
      BY <1>0, <2>1, <3>3 DEF Due, Fresh, Entry
    <3>5. /\ Ran[i] = [job |-> entries[i].job, next |-> NextTime(entries[i].job, clock), prev |-> entries[i].next]
          /\ entries[i].job \in Jobs /\ entries[i].next \in Nat
      BY <2>1, <3>1 DEF Entry
    <3>6. Ran[i] \in Entry
      BY <2>2, <3>5 DEF Entry
    <3> QED
      BY <1>0, <2>2, <3>4, <3>5, <3>6
  <2>4. CASE ~Runs(i)
    <3>1. Ran[i] = entries[i]
      BY <2>4 DEF Ran
    <3> QED
      BY <1>0, <2>1, <3>1 DEF Fresh
  <2> QED
    BY <2>3, <2>4
<1>2. DOMAIN Ran = DOMAIN entries /\ Ran = [i \in DOMAIN Ran |-> Ran[i]]
  BY DEF Ran
<1>3. Ran \in Seq(Entry)
  BY <1>1, <1>2, MapIsSeq DEF DataInv, TypeOK
<1> QED
  BY <1>1, <1>2, <1>3 DEF JobsApart, Fresh, DataInv, Apart

(* An entry of another job, appended by Add or by Schedule.                *)
LEMMA AppendRight ==
  ASSUME DataInv, NEW e \in Entry, \A i \in DOMAIN entries : entries[i].job # e.job
  PROVE  /\ Append(entries, e) \in Seq(Entry) /\ JobsApart(Append(entries, e))
         /\ DOMAIN Append(entries, e) = 1..(Len(entries) + 1)
         /\ \A i \in DOMAIN entries : Append(entries, e)[i] = entries[i]
         /\ Append(entries, e)[Len(entries) + 1] = e
<1> DEFINE es == Append(entries, e)
<1>1. /\ es \in Seq(Entry) /\ Len(es) = Len(entries) + 1
      /\ \A i \in 1..Len(entries) : es[i] = entries[i]
      /\ es[Len(entries) + 1] = e
  BY AppendProperties DEF DataInv, TypeOK
<1>2. DOMAIN entries = 1..Len(entries) /\ Len(entries) \in Nat
  BY EntriesTyped DEF DataInv
<1>3. DOMAIN es = 1..(Len(entries) + 1)
  BY <1>1, LenProperties
<1> HIDE DEF es
<1>4. JobsApart(es)
  <2> SUFFICES ASSUME NEW i \in DOMAIN es, NEW k \in DOMAIN es, es[i].job = es[k].job PROVE i = k
    BY DEF JobsApart
  <2>1. CASE i \in 1..Len(entries) /\ k \in 1..Len(entries)
    BY <1>1, <1>2, <2>1 DEF DataInv, Apart, JobsApart
  <2>2. CASE i = Len(entries) + 1 /\ k \in 1..Len(entries)
    BY <1>1, <1>2, <2>2
  <2>3. CASE i \in 1..Len(entries) /\ k = Len(entries) + 1
    BY <1>1, <1>2, <2>3
  <2> QED
    BY <1>2, <1>3, <2>1, <2>2, <2>3
<1> QED
  BY <1>1, <1>2, <1>3, <1>4 DEF es
(* A turn of the runner's loop over entries of the same jobs.              *)
LEMMA TurnData ==
  ASSUME DataInv, NEW es \in Seq(Entry), Loop(es), JobsApart(es), Fresh(es, clock), DOMAIN es = DOMAIN entries,
         \A i \in DOMAIN entries : es[i].job = entries[i].job, UNCHANGED <<running, clock, doing, adding, answer>>
  PROVE  DataInv'
<1>1. /\ entries' \in Seq(Entry) /\ timer' \in Nat /\ TimerFirst' /\ runner' = "select"
  BY LoopSorts
<1>2. JobsApart(entries') /\ Fresh(entries', clock) /\ \A i \in DOMAIN entries' : \E k \in DOMAIN es : entries'[i] = es[k]
  BY LoopKeeps
<1>3. TypeOK'
  BY <1>1 DEF DataInv, TypeOK, RunnerStates
<1>4. ASSUME NEW q \in Callers, NEW i \in DOMAIN entries' PROVE entries'[i].job # adding[q]
  <2>1. PICK k \in DOMAIN entries : entries'[i].job = entries[k].job
    BY <1>2
  <2> QED
    BY <2>1 DEF DataInv, Apart
<1>5. Apart'
  BY <1>2, <1>4 DEF DataInv, Apart
<1> QED
  BY <1>1, <1>2, <1>3, <1>5 DEF DataInv

(* Every step keeps the scheduler's data right.                            *)
LEMMA StepData ==
  ASSUME IndInv, DataInv, [Next]_vars
  PROVE  DataInv'
<1> USE NoneAssumption
<1>1. CASE Start
  BY <1>1 DEF Start, DataInv, TypeOK, Apart, RunnerStates, InLoop
<1>2. CASE BeginRun
  <2>1. Loop(Begun) /\ UNCHANGED <<running, clock, doing, adding, answer>>
    BY <1>2 DEF BeginRun, Begun
  <2> QED
    BY <2>1, BegunRight, TurnData
<1>3. CASE RunDue
  <2>1. Loop(Ran) /\ InLoop /\ UNCHANGED <<running, clock, doing, adding, answer>>
    BY <1>3 DEF RunDue, Ran, Runs, InLoop
  <2> QED
    BY <2>1, RanRight, TurnData
<1>4. CASE Tick
  <2>1. /\ clock' = clock + 1 /\ UNCHANGED <<running, runner, entries, timer, doing, adding, answer>>
        /\ timer = 0 \/ timer > clock
    BY <1>4 DEF Tick, scheduler
  <2>2. TypeOK' /\ clock' # 0
    BY <2>1 DEF DataInv, TypeOK
  <2>3. Apart'
    BY <2>1 DEF DataInv, Apart
  <2>4. ASSUME InLoop PROVE Fresh(entries, clock + 1)
    <3> SUFFICES ASSUME NEW i \in DOMAIN entries, entries[i].next # 0 PROVE entries[i].next >= clock + 1
      BY DEF Fresh
    <3>1. entries[i].next \in Nat /\ clock \in Nat /\ timer \in Nat
      BY EntriesTyped DEF DataInv, TypeOK, Entry
    <3>2. timer # 0 /\ timer <= entries[i].next
      BY <2>4 DEF DataInv, TimerFirst
    <3> QED
      BY <2>1, <3>1, <3>2
  <2> QED
    BY <2>1, <2>2, <2>3, <2>4 DEF DataInv, InLoop, TimerFirst
<1>5. ASSUME NEW p \in Callers, CallerNext(p) PROVE DataInv'
  <2>1. ASSUME NEW j \in Jobs, Schedule(p, j) PROVE DataInv'
    <3>0. doing[p] = "idle" /\ j \notin Scheduled /\ UNCHANGED <<running, runner, timer, clock, answer>>
      BY <2>1 DEF Schedule
    <3>1. (\A i \in DOMAIN entries : entries[i].job # j) /\ \A q \in Callers : adding[q] # j
      BY <3>0 DEF Scheduled
    <3>2. CASE running
      <4>1. /\ doing' = [doing EXCEPT ![p] = "add"] /\ adding' = [adding EXCEPT ![p] = j] /\ entries' = entries
        BY <2>1, <3>2 DEF Schedule
      <4>2. TypeOK'
        BY <3>0, <4>1 DEF DataInv, TypeOK, CallerStates
      <4>3. Apart'
        BY <3>1, <4>1 DEF DataInv, TypeOK, Apart
      <4> QED
        BY <3>0, <4>1, <4>2, <4>3 DEF DataInv, InLoop, TimerFirst
    <3>3. CASE ~running
      <4> DEFINE e == [job |-> j, next |-> 0, prev |-> 0]
      <4>1. entries' = Append(entries, e) /\ doing' = doing /\ adding' = adding /\ runner = "off"
        BY <2>1, <3>3 DEF Schedule, IndInv, FlagAgrees
      <4>2. e \in Entry /\ e.job = j
        BY DEF Entry
      <4> HIDE DEF e
      <4>3. /\ entries' \in Seq(Entry) /\ JobsApart(entries') /\ DOMAIN entries' = 1..(Len(entries) + 1)
            /\ \A i \in DOMAIN entries : entries'[i] = entries[i]
            /\ entries'[Len(entries) + 1] = e
        BY <3>1, <4>1, <4>2, AppendRight
      <4>4. TypeOK'
        BY <3>0, <4>1, <4>3 DEF DataInv, TypeOK
      <4>5. \A q \in Callers, i \in DOMAIN entries' : entries'[i].job # adding[q]
        <5>1. DOMAIN entries = 1..Len(entries) /\ Len(entries) \in Nat
          BY EntriesTyped DEF DataInv
        <5>2. ASSUME NEW i \in DOMAIN entries' PROVE i \in DOMAIN entries \/ i = Len(entries) + 1
          BY <4>3, <5>1
        <5> QED
          BY <3>1, <4>2, <4>3, <5>2 DEF DataInv, Apart
      <4>6. Apart'
        BY <4>1, <4>3, <4>5 DEF DataInv, Apart
      <4> QED
        BY <3>0, <4>1, <4>4, <4>6 DEF DataInv, InLoop
    <3> QED
      BY <3>2, <3>3 DEF DataInv, TypeOK
  <2>2. ASSUME NEW to \in CallerStates \ {"add"}, doing' = [doing EXCEPT ![p] = to], running' \in BOOLEAN,
               UNCHANGED <<runner, entries, timer, clock, adding, answer>>
        PROVE  DataInv'
    <3>1. TypeOK'
      BY <2>2 DEF DataInv, TypeOK
    <3>2. Apart'
      BY <2>2 DEF DataInv, TypeOK, Apart
    <3> QED
      BY <2>2, <3>1, <3>2 DEF DataInv, InLoop, TimerFirst
  <2>3. CASE AskEntries(p)
    BY <2>2, <2>3 DEF AskEntries, scheduler, CallerStates, DataInv, TypeOK
  <2>4. CASE Stop(p)
    BY <2>2, <2>4 DEF Stop, scheduler, CallerStates, DataInv, TypeOK
  <2>5. CASE StopDone(p)
    BY <2>2, <2>5 DEF StopDone, scheduler, CallerStates
  <2> QED
    BY <1>5, <2>1, <2>3, <2>4, <2>5 DEF CallerNext
<1>6. ASSUME NEW p \in Callers, Meet(p) PROVE DataInv'
  <2>1. CASE Add(p)
    <3> DEFINE e == [job |-> adding[p], next |-> NextTime(adding[p], clock), prev |-> 0]
    <3>0. /\ Loop(Append(entries, e)) /\ InLoop /\ doing[p] = "add"
          /\ doing' = [doing EXCEPT ![p] = "idle"] /\ adding' = [adding EXCEPT ![p] = NoJob]
          /\ UNCHANGED <<running, clock, answer>>
      BY <2>1 DEF Add, InLoop
    <3>1. adding[p] \in Jobs /\ clock \in Nat
      BY <3>0 DEF DataInv, Apart, TypeOK
    <3>2. e \in Entry /\ e.job = adding[p] /\ (e.next = 0 \/ e.next > clock)
      BY <3>1, NextTimes DEF Entry
    <3> HIDE DEF e
    <3> DEFINE es == Append(entries, e)
    <3>3. /\ es \in Seq(Entry) /\ JobsApart(es) /\ DOMAIN es = 1..(Len(entries) + 1)
          /\ \A i \in DOMAIN entries : es[i] = entries[i]
          /\ es[Len(entries) + 1] = e
      BY <3>2, AppendRight DEF DataInv, Apart
    <3> HIDE DEF es
    <3>4. DOMAIN entries = 1..Len(entries) /\ Len(entries) \in Nat
      BY EntriesTyped DEF DataInv
    <3>5. ASSUME NEW i \in DOMAIN es PROVE es[i] = e \/ (i \in DOMAIN entries /\ es[i] = entries[i])
      BY <3>3, <3>4
    <3>6. Fresh(es, clock)
      <4> SUFFICES ASSUME NEW i \in DOMAIN es PROVE es[i].next = 0 \/ es[i].next >= clock
        BY DEF Fresh
      <4>1. CASE es[i] = e
        BY <3>1, <3>2, <4>1 DEF Entry
      <4>2. CASE i \in DOMAIN entries /\ es[i] = entries[i]
        BY <3>0, <4>2 DEF DataInv, Fresh
      <4> QED
        BY <3>5, <4>1, <4>2
    <3>7. Loop(es)
      BY <3>0 DEF es
    <3>8. /\ entries' \in Seq(Entry) /\ timer' \in Nat /\ TimerFirst' /\ runner' = "select"
      BY <3>3, <3>7, LoopSorts
    <3>9. /\ JobsApart(entries') /\ Fresh(entries', clock)
          /\ \A i \in DOMAIN entries' : \E k \in DOMAIN es : entries'[i] = es[k]
      BY <3>3, <3>6, <3>7, LoopKeeps
    <3>10. TypeOK'
      BY <3>0, <3>8 DEF DataInv, TypeOK, RunnerStates, CallerStates
    <3>11. ASSUME NEW q \in Callers, NEW i \in DOMAIN entries' PROVE entries'[i].job # adding'[q]
      <4>1. PICK k \in DOMAIN es : entries'[i] = es[k]
        BY <3>9
      <4>2. entries'[i] \in Entry
        BY <3>8, SeqTyped
      <4>3. CASE q = p
        BY <3>0, <4>2, <4>3 DEF DataInv, TypeOK, Entry
      <4>4. CASE q # p
        <5>1. adding'[q] = adding[q]
          BY <3>0, <4>4 DEF DataInv, TypeOK
        <5>2. CASE es[k] = e
          BY <3>1, <3>2, <4>1, <4>4, <5>1, <5>2 DEF DataInv, Apart
        <5>3. CASE k \in DOMAIN entries /\ es[k] = entries[k]
          BY <4>1, <5>1, <5>3 DEF DataInv, Apart
        <5> QED
          BY <3>5, <5>2, <5>3
      <4> QED
        BY <4>3, <4>4
    <3>12. Apart'
      <4>1. \A q, r \in Callers : adding'[q] = adding'[r] /\ adding'[q] # NoJob => q = r
        BY <3>0 DEF DataInv, TypeOK, Apart
      <4>2. \A q \in Callers : doing'[q] = "add" => adding'[q] \in Jobs
        BY <3>0 DEF DataInv, TypeOK, Apart
      <4> QED
        BY <3>9, <3>11, <4>1, <4>2 DEF Apart
    <3> QED
      BY <3>0, <3>8, <3>9, <3>10, <3>12 DEF DataInv
  <2>2. ASSUME UNCHANGED <<running, entries, clock, adding>>, runner' \in RunnerStates,
               runner' \in {"select", "reply"} => InLoop /\ timer' = timer,
               timer' \in Nat, answer' \in [Callers -> {"none", "nil", "entries"}],
               doing' \in [Callers -> CallerStates],
               \A q \in Callers : doing'[q] = "add" => doing[q] = "add"
        PROVE  DataInv'
    <3>1. TypeOK'
      BY <2>2 DEF DataInv, TypeOK
    <3>2. Apart'
      BY <2>2 DEF DataInv, Apart
    <3> QED
      BY <2>2, <3>1, <3>2 DEF DataInv, InLoop, TimerFirst
  <2>3. CASE TakeRequest(p)
    BY <2>2, <2>3 DEF TakeRequest, DataInv, TypeOK, RunnerStates, CallerStates, InLoop
  <2>4. CASE Reply(p)
    BY <2>2, <2>4 DEF Reply, DataInv, TypeOK, RunnerStates, CallerStates, InLoop
  <2>5. CASE EndRun(p)
    BY <2>2, <2>5 DEF EndRun, DataInv, TypeOK, RunnerStates, CallerStates, InLoop
  <2>6. ASSUME NEW q \in Callers, Cross(p, q) PROVE DataInv'
    BY <2>2, <2>6 DEF Cross, scheduler, DataInv, TypeOK, RunnerStates, CallerStates, InLoop
  <2> QED
    BY <1>6, <2>1, <2>3, <2>4, <2>5, <2>6 DEF Meet
<1>7. CASE UNCHANGED vars
  BY <1>7 DEF vars, DataInv, TypeOK, Apart, InLoop, TimerFirst
<1> QED
  BY <1>1, <1>2, <1>3, <1>4, <1>5, <1>6, <1>7 DEF Next

(* They are right before there are any.                                    *)
LEMMA InitData == Init => DataInv
<1> SUFFICES ASSUME Init PROVE DataInv
  OBVIOUS
<1>1. entries \in Seq(Entry) /\ DOMAIN entries = {}
  BY EmptySeq, LenProperties DEF Init
<1>2. TypeOK
  BY <1>1 DEF Init, TypeOK, RunnerStates, CallerStates
<1> QED
  BY <1>1, <1>2 DEF Init, DataInv, Apart, JobsApart, InLoop

(* The scheduler's data are right in every reachable state.                *)
THEOREM EntriesRight == Spec => [](IndInv /\ DataInv)
<1>1. IndInv /\ DataInv /\ [Next]_vars => DataInv'
  BY StepData
<1> QED
  BY <1>1, InitInv, NextInv, InitData, PTL DEF Spec

(* The variables of the scheduler have their types.                        *)
THEOREM TypesRight == Spec => []TypeOK
<1>1. DataInv => TypeOK
  BY DEF DataInv
<1> QED
  BY <1>1, EntriesRight, PTL

(* While the runner is at its select no activation has been missed         *)
(* (cron.go:183-207).                                                      *)
THEOREM NothingMissed == Spec => []NoneMissed
<1>1. DataInv => NoneMissed
  BY DEF DataInv, NoneMissed, InLoop, Fresh
<1> QED
  BY <1>1, EntriesRight, PTL

(* One step of RunsOnTime.                                                 *)
OnTime(i, k) ==
  entries[i].job = entries'[k].job /\ entries[i].prev # entries'[k].prev
    => entries'[k].prev = clock /\ entries[i].next = clock /\ entries'[k].next # clock

(* The entry of a job in a turn of the loop is the one of the job before.  *)
LEMMA TurnEntry ==
  ASSUME DataInv, NEW es \in Seq(Entry), Loop(es), JobsApart(es), Fresh(es, clock), DOMAIN es = DOMAIN entries,
         \A a \in DOMAIN entries : es[a].job = entries[a].job,
         NEW i \in DOMAIN entries, NEW k \in DOMAIN entries', entries[i].job = entries'[k].job
  PROVE  entries'[k] = es[i]
<1>1. PICK m \in DOMAIN es : entries'[k] = es[m]
  BY LoopKeeps
<1>2. m = i
  BY <1>1 DEF DataInv, Apart, JobsApart
<1> QED
  BY <1>1, <1>2

(* Only RunDue changes when an entry was last run.                         *)
LEMMA StepOnTime ==
  ASSUME IndInv, DataInv, [Next]_vars, NEW i \in DOMAIN entries, NEW k \in DOMAIN entries'
  PROVE  OnTime(i, k)
<1> SUFFICES ASSUME entries[i].job = entries'[k].job
             PROVE  \/ entries'[k].prev = entries[i].prev
                    \/ entries'[k].prev = clock /\ entries[i].next = clock /\ entries'[k].next # clock
  BY DEF OnTime
<1>0. entries[i] \in Entry /\ entries[i].job \in Jobs
  BY EntriesTyped DEF DataInv, Entry
<1>1. CASE UNCHANGED entries
  BY <1>1 DEF DataInv, Apart, JobsApart
<1>2. CASE BeginRun
  <2>1. Loop(Begun)
    BY <1>2 DEF BeginRun, Begun
  <2>2. entries'[k] = Begun[i]
    BY <2>1, BegunRight, TurnEntry
  <2> QED
    BY <2>2, BegunRight
<1>3. CASE RunDue
  <2>1. Loop(Ran) /\ InLoop
    BY <1>3 DEF RunDue, Ran, Runs, InLoop
  <2>2. entries'[k] = Ran[i]
    BY <2>1, RanRight, TurnEntry
  <2> QED
    BY <2>1, <2>2, RanRight
<1>4. ASSUME NEW e \in Entry, \A a \in DOMAIN entries : entries[a].job # e.job,
             \E m \in DOMAIN Append(entries, e) : entries'[k] = Append(entries, e)[m]
      PROVE  entries'[k].prev = entries[i].prev
  <2>1. PICK m \in DOMAIN Append(entries, e) : entries'[k] = Append(entries, e)[m]
    BY <1>4
  <2>2. /\ DOMAIN Append(entries, e) = 1..(Len(entries) + 1)
        /\ \A a \in DOMAIN entries : Append(entries, e)[a] = entries[a]
        /\ Append(entries, e)[Len(entries) + 1] = e
    BY <1>4, AppendRight
  <2>3. DOMAIN entries = 1..Len(entries) /\ Len(entries) \in Nat
    BY EntriesTyped DEF DataInv
  <2>4. m \in DOMAIN entries
    BY <1>4, <2>1, <2>2, <2>3
  <2>5. m = i
    BY <2>1, <2>2, <2>4 DEF DataInv, Apart, JobsApart
  <2> QED
    BY <2>1, <2>2, <2>5
<1>5. ASSUME NEW p \in Callers, Add(p) PROVE entries'[k].prev = entries[i].prev
  <2> DEFINE e == [job |-> adding[p], next |-> NextTime(adding[p], clock), prev |-> 0]
  <2>1. Loop(Append(entries, e)) /\ InLoop /\ adding[p] \in Jobs /\ clock \in Nat
    BY <1>5 DEF Add, InLoop, DataInv, Apart, TypeOK
  <2>2. e \in Entry /\ e.job = adding[p] /\ (e.next = 0 \/ e.next > clock)
    BY <2>1, NextTimes DEF Entry
  <2> HIDE DEF e
  <2>3. \A a \in DOMAIN entries : entries[a].job # e.job
    BY <2>2 DEF DataInv, Apart
  <2>4. Append(entries, e) \in Seq(Entry) /\ JobsApart(Append(entries, e))
    BY <2>2, <2>3, AppendRight
  <2>5. PICK f \in [DOMAIN Append(entries, e) -> DOMAIN Append(entries, e)] :
          \A a \in DOMAIN Append(entries, e) : entries'[a] = Append(entries, e)[f[a]]
    BY <2>1, <2>4, LoopSorts
  <2>6. DOMAIN entries' = DOMAIN Append(entries, e)
    BY <2>1, <2>4, LoopSorts
  <2>7. \E m \in DOMAIN Append(entries, e) : entries'[k] = Append(entries, e)[m]
    BY <2>5, <2>6
  <2> QED
    BY <1>4, <2>2, <2>3, <2>7
<1>6. ASSUME NEW p \in Callers, NEW j \in Jobs, Schedule(p, j)
      PROVE  entries'[k].prev = entries[i].prev
  <2>1. CASE running
    BY <1>1, <1>6, <2>1 DEF Schedule, DataInv, Apart, JobsApart
  <2>2. CASE ~running
    <3> DEFINE e == [job |-> j, next |-> 0, prev |-> 0]
    <3>1. entries' = Append(entries, e) /\ e \in Entry /\ e.job = j
      BY <1>6, <2>2 DEF Schedule, Entry
    <3>2. \A a \in DOMAIN entries : entries[a].job # j
      BY <1>6 DEF Schedule, Scheduled
    <3> HIDE DEF e
    <3> QED
      BY <1>4, <3>1, <3>2
  <2> QED
    BY <2>1, <2>2 DEF DataInv, TypeOK
<1>7. ASSUME NEW p \in Callers, CallerNext(p) \/ Meet(p)
      PROVE  entries'[k].prev = entries[i].prev
  <2>1. (\E j \in Jobs : Schedule(p, j)) \/ Add(p) \/ UNCHANGED entries
    BY <1>7 DEF CallerNext, Meet, AskEntries, Stop, StopDone, TakeRequest, Reply, EndRun, Cross, scheduler
  <2>2. CASE UNCHANGED entries
    BY <2>2 DEF DataInv, Apart, JobsApart
  <2> QED
    BY <1>5, <1>6, <2>1, <2>2
<1>8. CASE Start \/ Tick \/ UNCHANGED vars
  BY <1>1, <1>8 DEF Start, Tick, scheduler, vars
<1> QED
  BY <1>2, <1>3, <1>7, <1>8 DEF Next

(* A job is run at its next activation time, no earlier and no later, and  *)
(* never twice at one time (cron.go:199-206).                              *)
THEOREM TimesKept == Spec => RunsOnTime
<1>1. ASSUME IndInv, DataInv, [Next]_vars
      PROVE  [\A i \in DOMAIN entries, k \in DOMAIN entries' :
                entries[i].job = entries'[k].job /\ entries[i].prev # entries'[k].prev
                  => entries'[k].prev = clock /\ entries[i].next = clock
                     /\ entries'[k].next # clock]_vars
  BY <1>1, StepOnTime DEF OnTime
<1> QED
  BY <1>1, EntriesRight, PTL DEF Spec, RunsOnTime

-----------------------------------------------------------------------------
(* The times of a schedule: Next returns the first that the expression     *)
(* means                                                                   *)

CONSTANTS Bounds, Calendar, YearsAhead, Parsers, Specs, Nows, Star, None
VARIABLES spec, schedule, start, t, added, yearLimit, pc, level, next

N == INSTANCE Schedule

(* What whole division gives.                                              *)
LEMMA Division ==
  ASSUME NEW s \in Nat, NEW a \in Nat \ {0}
  PROVE  s \div a \in Nat /\ s % a \in 0..(a - 1) /\ s = a * (s \div a) + (s % a)
<1>1. s % a \in 0..(a - 1)
  OBVIOUS
<1>2. s \div a \in Int /\ s = a * (s \div a) + (s % a)
  OBVIOUS
<1>3. s \div a >= 0
  OBVIOUS
<1> QED
  BY <1>1, <1>2, <1>3

(* A product of a number below another is below the product by one unit.   *)
LEMMA Multiples ==
  ASSUME NEW a \in Nat, NEW p \in Int, NEW q \in Int, p < q
  PROVE  a * p + a <= a * q
<1>1. PICK d \in Nat : q = p + 1 + d
  <2>1. q - p - 1 \in Nat /\ q = p + 1 + (q - p - 1)
    OBVIOUS
  <2> QED
    BY <2>1
<1>2. a * q = a * p + a + a * d
  BY <1>1
<1>3. a * d >= 0
  BY <1>1
<1>4. a * p \in Int /\ a * q \in Int /\ a * d \in Int
  BY <1>1
<1> QED
  BY <1>2, <1>3, <1>4

(* Quotient and remainder are determined.                                  *)
LEMMA Quotient ==
  ASSUME NEW s \in Nat, NEW a \in Nat \ {0}, NEW q \in Int, NEW r \in 0..(a - 1), s = a * q + r
  PROVE  s \div a = q /\ s % a = r
<1>1. s \div a \in Nat /\ s % a \in 0..(a - 1) /\ s = a * (s \div a) + (s % a)
  BY Division
<1> DEFINE k == s \div a
<1>2. a * k \in Int /\ a * q \in Int /\ k \in Int
  BY <1>1
<1>3. ~(k < q)
  <2>1. k < q => a * k + a <= a * q
    BY <1>1, Multiples
  <2> QED
    BY <1>1, <1>2, <2>1
<1>4. ~(q < k)
  <2>1. q < k => a * q + a <= a * k
    BY <1>1, Multiples
  <2> QED
    BY <1>1, <1>2, <2>1
<1>5. k = q
  BY <1>2, <1>3, <1>4
<1> HIDE DEF k
<1>6. s = a * k + (s % a)
  BY <1>1 DEF k
<1>7. s % a = r
  BY <1>1, <1>2, <1>5, <1>6
<1> QED
  BY <1>5, <1>7 DEF k

(* A unit of m smaller ones: dividing by it is dividing twice, and what is *)
(* left of it counts the smaller ones.                                     *)
Multiple(b, a, m) == b = a * m
Quo(s, a) == s \div a
Rem(s, a) == s % a
(* What is left of the larger unit counts the smaller ones.                *)
LEMMA UnitsApart ==
  ASSUME NEW s \in Nat, NEW a \in Nat \ {0}, NEW m \in Nat \ {0}, NEW b \in Int, Multiple(b, a, m)
  PROVE  /\ b \in Nat \ {0}
         /\ Quo(s, b) = Quo(Quo(s, a), m)
         /\ Quo(Rem(s, b), a) = Rem(Quo(s, a), m)
<1>0. b = a * m
  BY DEF Multiple
<1>1. PICK q \in Nat, r \in Nat : q = s \div a /\ r \in 0..(a - 1) /\ s = a * q + r
  <2>1. s \div a \in Nat /\ s % a \in 0..(a - 1) /\ s = a * (s \div a) + (s % a)
    BY Division
  <2> QED
    BY <2>1
<1>2. PICK k \in Nat, j \in Nat : k = q \div m /\ j = q % m /\ j \in 0..(m - 1) /\ q = m * k + j
  <2>1. q \div m \in Nat /\ q % m \in 0..(m - 1) /\ q = m * (q \div m) + (q % m)
    BY Division
  <2> QED
    BY <2>1
<1>3. b \in Nat \ {0}
  <2>1. 0 < m
    OBVIOUS
  <2>2. a * 0 + a <= a * m
    BY <2>1, Multiples
  <2> QED
    BY <1>0, <2>2
<1>4. a * j \in Nat /\ a * j + a <= b
  <2>1. j < m /\ j \in Int
    BY <1>2
  <2>2. a * j + a <= a * m
    BY <2>1, Multiples
  <2> QED
    BY <1>0, <1>2, <2>2
<1>5. PICK x \in Nat : x = a * j + r /\ x \in 0..(b - 1)
  <2>1. a * j + r \in Nat /\ a * j + r \in 0..(b - 1)
    BY <1>1, <1>3, <1>4
  <2> QED
    BY <2>1
<1>6. s = b * k + x
  <2>1. PICK c \in Int : c = m * k
    OBVIOUS
  <2>2. q = c + j
    BY <1>2, <2>1
  <2>3. a * (c + j) = a * c + a * j
    OBVIOUS
  <2>4. a * c = b * k
    BY <1>0, <2>1
  <2>5. s = a * c + a * j + r
    BY <1>1, <2>2, <2>3
  <2> QED
    BY <1>3, <1>4, <1>5, <2>4, <2>5
<1>7. s \div b = k /\ s % b = x
  <2>1. k \in Int
    OBVIOUS
  <2> QED
    BY <1>3, <1>5, <1>6, <2>1, Quotient
<1>8. x \div a = j
  <2>1. j \in Int
    OBVIOUS
  <2> QED
    BY <1>1, <1>5, <2>1, Quotient
<1>9. s \div b = (s \div a) \div m
  BY <1>1, <1>2, <1>7
<1>10. (s % b) \div a = (s \div a) % m
  BY <1>1, <1>2, <1>7, <1>8
<1> QED
  BY <1>3, <1>9, <1>10 DEF Quo, Rem

(* The unit a second is in: its first second, the first of the next one,   *)
(* and the seconds between.                                                *)
LEMMA UnitOf ==
  ASSUME NEW s \in Nat, NEW a \in Nat \ {0}
  PROVE  LET from == s - (s % a) IN
         /\ from \in Nat /\ from <= s /\ s < from + a
         /\ from = a * (s \div a) /\ from % a = 0 /\ (from + a) % a = 0
         /\ from \div a = s \div a /\ (from + a) \div a = (s \div a) + 1
         /\ \A u \in from..(from + a - 1) : u \div a = s \div a
<1> DEFINE from == s - (s % a)
           q == s \div a
<1>1. q \in Nat /\ s % a \in 0..(a - 1) /\ s = a * q + (s % a)
  BY Division
<1>2. from = a * q /\ from \in Nat /\ from <= s /\ s < from + a
  BY <1>1
<1> HIDE DEF q, from
<1>3. ASSUME NEW u \in from..(from + a - 1) PROVE u \in Nat /\ u \div a = q /\ u % a = u - from
  <2>1. PICK r : r = u - from
    OBVIOUS
  <2>2. u \in Nat /\ r \in 0..(a - 1) /\ q \in Int /\ u = a * q + r
    BY <1>1, <1>2, <2>1
  <2>3. u \div a = q /\ u % a = r
    BY <2>2, Quotient
  <2> QED
    BY <2>1, <2>2, <2>3
<1>4. from \div a = q /\ from % a = 0
  <2>1. from \in from..(from + a - 1)
    BY <1>2
  <2> QED
    BY <1>2, <1>3, <2>1
<1>5. (from + a) \div a = q + 1 /\ (from + a) % a = 0
  <2>1. PICK x, k : x = from + a /\ k = q + 1
    OBVIOUS
  <2>2. x = a * k + 0 /\ x \in Nat /\ k \in Int /\ 0 \in 0..(a - 1)
    BY <1>1, <1>2, <2>1
  <2>3. x \div a = k /\ x % a = 0
    BY <2>2, Quotient
  <2> QED
    BY <2>1, <2>3
<1> QED
  BY <1>2, <1>3, <1>4, <1>5 DEF q, from

(* A second is in the unit of the one before, or the first of the next.    *)
LEMMA UnitStarts ==
  ASSUME NEW e \in Nat \ {0}, NEW a \in Nat \ {0}
  PROVE  e \div a = (e - 1) \div a \/ (e % a = 0 /\ e \div a = ((e - 1) \div a) + 1)
<1>1. PICK q \in Nat, r \in 0..(a - 1) : q = e \div a /\ r = e % a /\ e = a * q + r
  BY Division
<1>2. PICK x \in Nat : x = e - 1
  OBVIOUS
<1>3. CASE r # 0
  <2>1. PICK y \in 0..(a - 1) : y = r - 1
    BY <1>3
  <2>2. x = a * q + y /\ q \in Int
    BY <1>1, <1>2, <2>1
  <2>3. x \div a = q
    BY <2>2, Quotient
  <2> QED
    BY <1>1, <1>2, <2>3
<1>4. CASE r = 0
  <2>1. PICK y \in 0..(a - 1), k \in Int : y = a - 1 /\ k = q - 1
    OBVIOUS
  <2>2. a * q = a * k + a
    BY <2>1
  <2>3. x = a * k + y
    BY <1>1, <1>2, <1>4, <2>1, <2>2
  <2>4. x \div a = k
    BY <2>3, Quotient
  <2> QED
    BY <1>1, <1>2, <1>4, <2>1, <2>4
<1> QED
  BY <1>3, <1>4

(* Earlier times are in earlier units.                                     *)
LEMMA UnitOrder ==
  ASSUME NEW u \in Nat, NEW s \in Nat, NEW a \in Nat \ {0}, u <= s
  PROVE  u \div a <= s \div a
<1>1. PICK q \in Nat, r \in 0..(a - 1) : q = s \div a /\ s = a * q + r
  BY Division
<1>2. PICK k \in Nat, x \in 0..(a - 1) : k = u \div a /\ u = a * k + x
  BY Division
<1>3. ~(q < k)
  <2>1. q < k => a * q + a <= a * k
    BY Multiples
  <2>2. a * q \in Int /\ a * k \in Int
    OBVIOUS
  <2> QED
    BY <1>1, <1>2, <2>1, <2>2
<1> QED
  BY <1>1, <1>2, <1>3

(* What the constants are: bounds and ranges of whole numbers, and a       *)
(* calendar of consecutive days, whose months begin with a day 1, whose    *)
(* years begin with the first month, and which goes on after the last year *)
(* that Next looks at (parser.go, spec.go:18-46); None is not a time.      *)
PlaceNames == {"second", "minute", "hour", "dom", "month", "dow"}
Ranges == [low : Int \cup {Star}, high : Int \cup {None}, step : Nat \cup {None}]

BoundsRight ==
  /\ \A place \in PlaceNames : Bounds[place].min \in Int /\ Bounds[place].max \in Int
  /\ \A place \in {"second", "minute", "hour"} : Bounds[place].max \in Nat

SpecsRight ==
  \A e \in Specs :
    \/ e.kind = "every"
    \/ e.kind = "fields" /\ e.fields \in Seq(Seq(Ranges))
    \/ e.kind = "name" /\ e.name \in {"yearly", "monthly", "weekly", "daily", "hourly"}

Dates == [year : Int, month : Int, day : Nat \ {0}, weekday : Int]
SameMonth(c, d) == Calendar[c].year = Calendar[d].year /\ Calendar[c].month = Calendar[d].month

CalendarRight ==
  /\ Calendar \in Seq(Dates)
  /\ \A c, d \in DOMAIN Calendar : c <= d =>
       /\ Calendar[c].year <= Calendar[d].year
       /\ Calendar[c].year = Calendar[d].year => Calendar[c].month <= Calendar[d].month
       /\ SameMonth(c, d) => Calendar[d].day - Calendar[c].day = d - c
  /\ \A d \in DOMAIN Calendar :
       d - Calendar[d].day + 1 \in DOMAIN Calendar /\ SameMonth(d - Calendar[d].day + 1, d)
  /\ \A c, d \in DOMAIN Calendar :
       d = c + 1 /\ Calendar[c].year # Calendar[d].year => Calendar[d].month = Bounds["month"].min

Day(s) == (s \div N!PerDay) + 1
First(now) == now \div 2 + 1

NowsRight ==
  /\ Nows \subseteq Nat /\ YearsAhead \in Int
  /\ \A now \in Nows :
       /\ Day(First(now)) \in DOMAIN Calendar
       /\ \E d \in DOMAIN Calendar : Calendar[d].year > Calendar[Day(First(now))].year + YearsAhead

TimesRight == None \notin Nat /\ BoundsRight /\ SpecsRight /\ CalendarRight /\ NowsRight

(* The places of an expression and the fields of the loop.                 *)
LEMMA PlacesAre == N!Range(N!Places) = PlaceNames
<1>1. N!Places \in Seq(PlaceNames) /\ Len(N!Places) = 6 /\ DOMAIN N!Places = 1..6
  BY DEF N!Places, PlaceNames
<1> DEFINE P == N!Places
<1>6. P \in Seq(PlaceNames) /\ DOMAIN P = 1..Len(P)
  BY <1>1
<1> HIDE DEF P
<1>7. \A i \in DOMAIN P : P[i] \in PlaceNames
  BY <1>6
<1>2. N!Range(N!Places) \subseteq PlaceNames
  BY <1>7 DEF N!Range, P
<1>3. \A i \in 1..6 : N!Places[i] \in N!Range(N!Places)
  BY <1>1 DEF N!Range
<1>4. /\ N!Places[1] = "second" /\ N!Places[2] = "minute" /\ N!Places[3] = "hour"
      /\ N!Places[4] = "dom" /\ N!Places[5] = "month" /\ N!Places[6] = "dow"
  BY DEF N!Places
<1>5. PlaceNames \subseteq N!Range(N!Places)
  BY <1>3, <1>4 DEF PlaceNames
<1> QED
  BY <1>2, <1>5

(* The fields of the loop, from the largest unit on.                       *)
LEMMA LoopsAre ==
  /\ N!Loops[1] = "month" /\ N!Loops[2] = "day" /\ N!Loops[3] = "hour"
  /\ N!Loops[4] = "minute" /\ N!Loops[5] = "second" /\ Len(N!Loops) = 5
BY DEF N!Loops

(* The lengths of a minute, an hour and a day, each a number of the one    *)
(* before.                                                                 *)
LEMMA Lengths ==
  ASSUME BoundsRight
  PROVE  /\ N!PerMinute \in Nat \ {0} /\ N!PerHour \in Nat \ {0} /\ N!PerDay \in Nat \ {0}
         /\ \E m \in Nat \ {0} : N!PerHour = N!PerMinute * m
         /\ \E h \in Nat \ {0} : N!PerDay = N!PerHour * h
<1>1. PICK p, m, h \in Nat \ {0} : p = Bounds["second"].max + 1 /\ m = Bounds["minute"].max + 1 /\ h = Bounds["hour"].max + 1
  <2>1. /\ Bounds["second"].max + 1 \in Nat \ {0} /\ Bounds["minute"].max + 1 \in Nat \ {0}
        /\ Bounds["hour"].max + 1 \in Nat \ {0}
    BY DEF BoundsRight
  <2> QED
    BY <2>1
<1>2. N!PerMinute = p /\ N!PerHour = p * m /\ N!PerDay = (p * m) * h
  BY <1>1 DEF N!PerMinute, N!PerHour, N!PerDay
<1>3. PICK q \in Int : q = p * m
  OBVIOUS
<1>4. q \in Nat \ {0}
  BY <1>3, UnitsApart DEF Multiple
<1>5. PICK d \in Int : d = q * h
  OBVIOUS
<1>6. d \in Nat \ {0}
  BY <1>4, <1>5, UnitsApart DEF Multiple
<1> QED
  BY <1>1, <1>2, <1>3, <1>4, <1>5, <1>6

(* A field's values are those it means.                                    *)
LEMMA BitsRight ==
  ASSUME NEW low \in Int, NEW high \in Int, low <= high, NEW step \in Nat \ {0}, NEW v \in Int
  PROVE  v \in N!GetBits(low, high, step) <=> low <= v /\ v <= high /\ (v - low) % step = 0
<1>1. PICK w \in Nat : w = high - low
  OBVIOUS
<1>2. w \div step \in Nat /\ w % step \in 0..(step - 1) /\ w = step * (w \div step) + (w % step)
  BY Division
<1>3. PICK k \in Nat : k = w \div step
  BY <1>2
<1>4. step * k <= w /\ w < step * k + step /\ step * k \in Int
  BY <1>2, <1>3
<1>5. ASSUME v \in N!GetBits(low, high, step) PROVE low <= v /\ v <= high /\ (v - low) % step = 0
  <2>1. PICK i \in 0..k : v = low + i * step
    BY <1>1, <1>3, <1>5 DEF N!GetBits
  <2>2. i \in Nat /\ step * i \in Nat /\ i * step = step * i
    BY <2>1
  <2>3. step * i <= step * k
    <3>1. CASE i = k
      BY <3>1, <1>4
    <3>2. CASE i < k
      <4>1. step * i + step <= step * k
        BY <2>2, <3>2, Multiples
      <4> QED
        BY <4>1, <2>2, <1>4
    <3> QED
      BY <2>1, <3>1, <3>2
  <2>4. PICK x \in Nat : x = v - low
    BY <2>1, <2>2
  <2>5. x = step * i + 0 /\ 0 \in 0..(step - 1)
    BY <2>1, <2>2, <2>4
  <2>6. x % step = 0
    BY <2>2, <2>5, Quotient
  <2> QED
    BY <1>1, <1>4, <2>1, <2>2, <2>3, <2>4, <2>6
<1>6. ASSUME low <= v, v <= high, (v - low) % step = 0 PROVE v \in N!GetBits(low, high, step)
  <2>1. PICK x \in Nat : x = v - low
    BY <1>6
  <2>2. x \div step \in Nat /\ x = step * (x \div step) + (x % step)
    BY Division
  <2>3. PICK i \in Nat : i = x \div step
    BY <2>2
  <2>4. x = step * i /\ x <= w /\ step * i = i * step
    BY <1>1, <1>6, <2>1, <2>2, <2>3
  <2>5. ~(k < i)
    <3>1. k < i => step * k + step <= step * i
      BY Multiples
    <3> QED
      BY <1>4, <2>4, <3>1
  <2>6. i \in 0..k /\ v = low + i * step
    BY <2>1, <2>4, <2>5
  <2> QED
    BY <1>1, <1>3, <2>6 DEF N!GetBits
<1> QED
  BY <1>5, <1>6

(* A set of numbers has a least one.                                       *)
Smaller == {ss \in Nat \X Nat : ss[1] < ss[2]}
LEMMA LeastNumber ==
  ASSUME NEW T \in SUBSET Nat, T # {}
  PROVE  \E x \in T : \A y \in T : x <= y
<1>1. IsWellFoundedOn(Smaller, Nat)
  BY NatLessThanWellFounded DEF OpToRel, Smaller
<1>2. PICK x \in T : \A y \in T : <<y, x>> \notin Smaller
  BY <1>1, WFMin
<1>3. ASSUME NEW y \in T, y < x PROVE <<y, x>> \in Smaller
  <2>1. <<y, x>> \in Nat \X Nat /\ <<y, x>>[1] < <<y, x>>[2]
    BY <1>3
  <2> QED
    BY <2>1 DEF Smaller
<1>4. \A y \in T : ~(y < x)
  BY <1>2, <1>3
<1>5. \A y \in T : x <= y
  BY <1>4
<1> QED
  BY <1>5

(* Of some places of a sequence, one is the last.                          *)
LEMMA LastPlace ==
  ASSUME NEW n \in Nat, NEW T \in SUBSET (1..n), T # {}
  PROVE  N!Max(T) \in T
<1> DEFINE U == {n - j : j \in T}
<1>1. U \in SUBSET Nat /\ U # {}
  <2>1. \A j \in T : n - j \in Nat
    OBVIOUS
  <2> QED
    BY <2>1
<1>2. PICK x \in U : \A y \in U : x <= y
  BY <1>1, LeastNumber
<1>3. PICK j \in T : x = n - j
  BY <1>2
<1>4. \A k \in T : n - j <= n - k
  BY <1>2, <1>3
<1>5. \A k \in T : j >= k
  BY <1>4
<1> QED
  BY <1>3, <1>5 DEF N!Max

(* A field of an expression is made of ranges, given or not (parser.go     *)
(* expandFields, parseDescriptor).                                         *)
LEMMA FieldsRight ==
  ASSUME BoundsRight, SpecsRight, NEW e \in Specs, e.kind # "every", NEW p, NEW place \in PlaceNames
  PROVE  \A r \in N!Range(N!Fields(e, p)[place]) : r \in Ranges
<1>1. \A r \in N!Range(N!AnyValue) : r \in Ranges
  <2>1. N!AnyValue \in Seq(Ranges)
    BY DEF N!AnyValue, Ranges
  <2> QED
    BY <2>1 DEF N!Range
<1>2. ASSUME NEW v \in Int PROVE \A r \in N!Range(N!Only(v)) : r \in Ranges
  <2>1. N!Only(v) \in Seq(Ranges)
    BY DEF N!Only, Ranges
  <2> QED
    BY <2>1 DEF N!Range
<1>3. CASE e.kind = "fields"
  <2> DEFINE i == {j \in DOMAIN e.fields : N!Given(p)[j] = place}
  <2>1. e.fields \in Seq(Seq(Ranges))
    BY <1>3 DEF SpecsRight
  <2>2. N!Fields(e, p)[place] = IF i = {} THEN N!Default(place) ELSE e.fields[N!Max(i)]
    BY <1>3, PlacesAre DEF N!Fields, N!Expand
  <2>3. CASE i = {}
    <3>1. \A r \in N!Range(N!Default(place)) : r \in Ranges
      BY <1>1, <1>2 DEF N!Default
    <3> QED
      BY <2>2, <2>3, <3>1
  <2>4. CASE i # {}
    <3>1. PICK n \in Nat : n = Len(e.fields) /\ DOMAIN e.fields = 1..n
      BY <2>1
    <3>2. i \in SUBSET (1..n)
      BY <3>1
    <3>3. N!Max(i) \in i
      BY <2>4, <3>2, LastPlace
    <3>4. PICK j : j = N!Max(i)
      OBVIOUS
    <3>7. j \in DOMAIN e.fields
      BY <3>3, <3>4
    <3>8. e.fields[j] \in Seq(Ranges)
      BY <2>1, <3>7
    <3>5. PICK f \in Seq(Ranges) : f = N!Fields(e, p)[place]
      BY <2>2, <2>4, <3>4, <3>8
    <3>6. \A r \in N!Range(f) : r \in Ranges
      BY DEF N!Range
    <3> QED
      BY <3>5, <3>6
  <2> QED
    BY <2>3, <2>4
<1>4. CASE e.kind = "name"
  <2>1. N!Fields(e, p)[place] = IF place \in N!Descriptors[e.name] THEN N!Only(Bounds[place].min) ELSE N!AnyValue
    BY <1>4, PlacesAre DEF N!Fields, N!Described
  <2>2. Bounds[place].min \in Int
    BY DEF BoundsRight
  <2>3. \A r \in N!Range(N!Only(Bounds[place].min)) : r \in Ranges
    BY <1>2, <2>2
  <2> QED
    BY <1>1, <2>1, <2>3
<1> QED
  BY <1>3, <1>4 DEF SpecsRight

(* The bits of a field are the values it means (parser.go getField).       *)
LEMMA FieldMeans ==
  ASSUME NEW f, NEW b, b.min \in Int, b.max \in Int,
         \A r \in N!Range(f) : r \in Ranges /\ N!RangeOK(r, b), NEW v \in Int
  PROVE  v \in N!GetField(f, b).values <=> N!Means(f, b, v)
<1>1. ASSUME NEW r \in N!Range(f)
      PROVE  v \in N!GetBits(N!Low(r, b), N!High(r, b), N!Step(r)) <=>
               N!Low(r, b) <= v /\ v <= N!High(r, b) /\ (v - N!Low(r, b)) % N!Step(r) = 0
  <2>1. r \in Ranges /\ N!RangeOK(r, b)
    BY <1>1
  <2>2. r.low \in Int \cup {Star} /\ r.high \in Int \cup {None} /\ r.step \in Nat \cup {None}
    BY <2>1 DEF Ranges
  <2>3. PICK low \in Int : low = N!Low(r, b)
    BY <2>2 DEF N!Low
  <2>4. PICK high \in Int : high = N!High(r, b)
    BY <2>2 DEF N!High
  <2>5. PICK step \in Nat \ {0} : step = N!Step(r)
    BY <2>1, <2>2 DEF N!Step, N!RangeOK
  <2>6. low <= high
    BY <2>1, <2>3, <2>4 DEF N!RangeOK
  <2> QED
    BY <2>3, <2>4, <2>5, <2>6, BitsRight
<1>2. v \in N!GetField(f, b).values <=>
        \E r \in N!Range(f) : v \in N!GetBits(N!Low(r, b), N!High(r, b), N!Step(r))
  BY DEF N!GetField
<1> QED
  BY <1>1, <1>2 DEF N!Means

(* What an expression means is what Next compares (spec.go Next,           *)
(* dayMatches).                                                            *)
InCalendar(s) == s \in Nat /\ Day(s) \in DOMAIN Calendar
ParsedBy(p) ==
  /\ schedule = [place \in N!Range(N!Places) |-> N!GetField(N!Fields(spec, p)[place], Bounds[place])]
  /\ N!Valid(N!Fields(spec, p))

(* The values of a time are numbers.                                       *)
LEMMA ValuesRight ==
  ASSUME BoundsRight, CalendarRight, NEW s, InCalendar(s), NEW place \in PlaceNames
  PROVE  N!Value(place, s) \in Int
<1>1. N!PerMinute \in Nat \ {0} /\ N!PerHour \in Nat \ {0} /\ N!PerDay \in Nat \ {0} /\ s \in Nat
  BY Lengths DEF InCalendar
<1>2. N!Date(s) \in Dates
  <2>1. PICK d : d = Day(s)
    OBVIOUS
  <2>2. d \in DOMAIN Calendar /\ N!Date(s) = Calendar[d]
    BY <2>1 DEF InCalendar, N!Date, Day
  <2>3. Calendar \in Seq(Dates)
    BY DEF CalendarRight
  <2> QED
    BY <2>2, <2>3
<1>3. s % N!PerMinute \in Nat /\ s % N!PerHour \in Nat /\ s % N!PerDay \in Nat
  BY <1>1, Division
<1>4. PICK x, y \in Nat : x = s % N!PerHour /\ y = s % N!PerDay
  BY <1>3
<1>5. x \div N!PerMinute \in Int /\ y \div N!PerHour \in Int
  BY <1>1, Division
<1> QED
  BY <1>2, <1>3, <1>4, <1>5 DEF N!Value, PlaceNames, Dates

(* A time meets an expression if it has a value of each field of the loop. *)
LEMMA MeetsMatches ==
  ASSUME BoundsRight, SpecsRight, CalendarRight, NEW p, spec \in Specs, spec.kind # "every", ParsedBy(p),
         NEW s, InCalendar(s)
  PROVE  N!Meets(spec, p, s) <=> \A i \in 1..5 : N!Matches(N!Loops[i], schedule, s)
<1> DEFINE fs == N!Fields(spec, p)
<1>1. ASSUME NEW place \in PlaceNames
      PROVE  /\ N!Value(place, s) \in schedule[place].values <=> N!Means(fs[place], Bounds[place], N!Value(place, s))
             /\ schedule[place].star <=> N!Free(fs[place])
  <2>1. \A r \in N!Range(fs[place]) : r \in Ranges
    BY FieldsRight
  <2>2. \A r \in N!Range(fs[place]) : N!RangeOK(r, Bounds[place])
    BY PlacesAre DEF ParsedBy, N!Valid
  <2>3. Bounds[place].min \in Int /\ Bounds[place].max \in Int
    BY DEF BoundsRight
  <2>4. schedule[place] = N!GetField(fs[place], Bounds[place])
    BY PlacesAre DEF ParsedBy
  <2>5. PICK f, b : f = fs[place] /\ b = Bounds[place]
    OBVIOUS
  <2>6. PICK v \in Int : v = N!Value(place, s)
    BY ValuesRight
  <2>7. v \in N!GetField(f, b).values <=> N!Means(f, b, v)
    BY <2>1, <2>2, <2>3, <2>5, FieldMeans
  <2>8. N!GetField(f, b).star <=> N!Free(f)
    BY DEF N!GetField, N!Free
  <2> QED
    BY <2>4, <2>5, <2>6, <2>7, <2>8
<1> DEFINE met(place) == N!Means(fs[place], Bounds[place], N!Value(place, s))
           free(place) == N!Free(fs[place])
           within(place) == N!Value(place, s) \in schedule[place].values
           star(place) == schedule[place].star
<1>2. \A place \in PlaceNames : (within(place) <=> met(place)) /\ (star(place) <=> free(place))
  BY <1>1
<1>3. N!Meets(spec, p, s) <=>
        /\ met("second") /\ met("minute") /\ met("hour") /\ met("month")
        /\ met("dom") \/ met("dow")
        /\ free("dom") \/ free("dow") => met("dom") /\ met("dow")
  BY DEF N!Meets
<1>4. /\ N!Matches(N!Loops[1], schedule, s) <=> within("month")
      /\ N!Matches(N!Loops[3], schedule, s) <=> within("hour")
      /\ N!Matches(N!Loops[4], schedule, s) <=> within("minute")
      /\ N!Matches(N!Loops[5], schedule, s) <=> within("second")
  BY LoopsAre DEF N!Matches
<1>5. N!Matches(N!Loops[2], schedule, s) <=>
        IF star("dom") \/ star("dow") THEN within("dom") /\ within("dow") ELSE within("dom") \/ within("dow")
  BY LoopsAre DEF N!Matches, N!DayMatches
<1>6. (\A i \in 1..5 : N!Matches(N!Loops[i], schedule, s)) <=>
        /\ N!Matches(N!Loops[1], schedule, s) /\ N!Matches(N!Loops[2], schedule, s) /\ N!Matches(N!Loops[3], schedule, s)
        /\ N!Matches(N!Loops[4], schedule, s) /\ N!Matches(N!Loops[5], schedule, s)
  BY 1..5 = {1, 2, 3, 4, 5}
<1> HIDE DEF met, free, within, star
<1>7. /\ (within("second") <=> met("second")) /\ (within("minute") <=> met("minute")) /\ (within("hour") <=> met("hour"))
      /\ (within("month") <=> met("month")) /\ (within("dom") <=> met("dom")) /\ (within("dow") <=> met("dow"))
      /\ (star("dom") <=> free("dom")) /\ (star("dow") <=> free("dow"))
  BY <1>2 DEF PlaceNames
<1> QED
  BY <1>3, <1>4, <1>5, <1>6, <1>7

(* The unit of each field of the loop, in seconds from the day on, and     *)
(* which one a time is in.                                                 *)
Length(i) == CASE i = 2 -> N!PerDay [] i = 3 -> N!PerHour [] i = 4 -> N!PerMinute [] i = 5 -> 1
UnitIn(i, s) == IF i = 1 THEN <<N!Date(s).year, N!Date(s).month>> ELSE s \div Length(i)
Begins(i, s) == N!Floor(N!Loops[i], s) = s

(* Each of these lengths is a number of the next smaller one.              *)
LEMMA LengthsRight ==
  ASSUME BoundsRight
  PROVE  /\ \A i \in 2..5 : Length(i) \in Nat \ {0}
         /\ \A i \in 3..5 : \E m \in Nat \ {0} : Length(i - 1) = Length(i) * m
<1>1. /\ N!PerMinute \in Nat \ {0} /\ N!PerHour \in Nat \ {0} /\ N!PerDay \in Nat \ {0}
      /\ \E m \in Nat \ {0} : N!PerHour = N!PerMinute * m
      /\ \E h \in Nat \ {0} : N!PerDay = N!PerHour * h
  BY Lengths
<1>2. Length(2) = N!PerDay /\ Length(3) = N!PerHour /\ Length(4) = N!PerMinute /\ Length(5) = 1
  BY DEF Length
<1>3. \A i \in 2..5 : i = 2 \/ i = 3 \/ i = 4 \/ i = 5
  OBVIOUS
<1>4. \A i \in 2..5 : Length(i) \in Nat \ {0}
  BY <1>1, <1>2, <1>3
<1>5. ASSUME NEW i \in 3..5 PROVE \E m \in Nat \ {0} : Length(i - 1) = Length(i) * m
  <2>4. 3 - 1 = 2 /\ 4 - 1 = 3 /\ 5 - 1 = 4
    OBVIOUS
  <2>5. \E m \in Nat \ {0} : Length(2) = Length(3) * m
    BY <1>1, <1>2
  <2>6. \E m \in Nat \ {0} : Length(3) = Length(4) * m
    BY <1>1, <1>2
  <2>1. CASE i = 3
    BY <2>1, <2>4, <2>5
  <2>2. CASE i = 4
    BY <2>2, <2>4, <2>6
  <2>3. CASE i = 5
    <3>1. Length(4) = 1 * N!PerMinute
      BY <1>1, <1>2
    <3> QED
      BY <1>1, <1>2, <2>3, <3>1
  <2> QED
    BY <2>1, <2>2, <2>3
<1> QED
  BY <1>4, <1>5

(* Seconds are units of their own.                                         *)
LEMMA ByOne ==
  ASSUME NEW s \in Nat
  PROVE  s % 1 = 0 /\ s \div 1 = s
BY Quotient, s = 1 * s + 0, 0 \in 0..(1 - 1), 1 \in Nat \ {0}

(* The values, floors and units of the loop in terms of lengths.           *)
LEMMA LoopUnits ==
  ASSUME BoundsRight, NEW s \in Nat
  PROVE  /\ \A i \in 2..5 : N!Floor(N!Loops[i], s) = s - (s % Length(i)) /\ N!Unit(N!Loops[i], s) = Length(i)
         /\ \A i \in 3..5 : N!Value(N!Loops[i], s) = (s % Length(i - 1)) \div Length(i)
<1>1. Length(2) = N!PerDay /\ Length(3) = N!PerHour /\ Length(4) = N!PerMinute /\ Length(5) = 1
  BY DEF Length
<1>2. s % N!PerMinute \in Nat
  <2>1. PICK a \in Nat \ {0} : a = N!PerMinute
    BY Lengths
  <2>2. s % a \in Nat
    BY Division
  <2> QED
    BY <2>1, <2>2
<1>3. s % 1 = 0 /\ (s % N!PerMinute) \div 1 = s % N!PerMinute
  BY <1>2, ByOne
<1>4. ASSUME NEW i \in 2..5
      PROVE  N!Floor(N!Loops[i], s) = s - (s % Length(i)) /\ N!Unit(N!Loops[i], s) = Length(i)
  <2>1. CASE i = 2
    BY <1>1, <2>1, LoopsAre DEF N!Floor, N!Unit
  <2>2. CASE i = 3
    BY <1>1, <2>2, LoopsAre DEF N!Floor, N!Unit
  <2>3. CASE i = 4
    BY <1>1, <2>3, LoopsAre DEF N!Floor, N!Unit
  <2>4. CASE i = 5
    BY <1>1, <1>3, <2>4, LoopsAre DEF N!Floor, N!Unit
  <2> QED
    BY <2>1, <2>2, <2>3, <2>4
<1>5. ASSUME NEW i \in 3..5
      PROVE  N!Value(N!Loops[i], s) = (s % Length(i - 1)) \div Length(i)
  <2>2. CASE i = 3
    BY <1>1, <2>2, LoopsAre DEF N!Value
  <2>3. CASE i = 4
    BY <1>1, <2>3, LoopsAre DEF N!Value
  <2>4. CASE i = 5
    BY <1>1, <1>3, <2>4, LoopsAre DEF N!Value
  <2> QED
    BY <2>2, <2>3, <2>4
<1> QED
  BY <1>4, <1>5

(* Times of one unit are in one of each larger unit.                       *)
LEMMA OneUp ==
  ASSUME BoundsRight, NEW s \in Nat, NEW u \in Nat, NEW i \in 2..5, UnitIn(i, s) = UnitIn(i, u)
  PROVE  UnitIn(i - 1, s) = UnitIn(i - 1, u)
<1>1. s \div Length(i) = u \div Length(i)
  BY DEF UnitIn
<1>2. CASE i = 2
  BY <1>1, <1>2 DEF UnitIn, Length, N!Date
<1>3. CASE i # 2
  <2>1. PICK m \in Nat \ {0} : Length(i - 1) = Length(i) * m
    BY <1>3, LengthsRight
  <2>2. Length(i) \in Nat \ {0}
    BY LengthsRight
  <2>3. PICK a \in Nat \ {0} : a = Length(i)
    BY <2>2
  <2>6. PICK b \in Int : b = a * m /\ Multiple(b, a, m)
    BY DEF Multiple
  <2>4. Quo(s, b) = Quo(Quo(s, a), m)
    BY <2>6, UnitsApart
  <2>5. Quo(u, b) = Quo(Quo(u, a), m)
    BY <2>6, UnitsApart
  <2>7. Quo(s, a) = Quo(u, a)
    BY <1>1, <2>3 DEF Quo
  <2>8. Quo(s, b) = Quo(u, b)
    BY <2>4, <2>5, <2>7
  <2>9. b = Length(i - 1) /\ i - 1 # 1
    BY <1>3, <2>1, <2>3, <2>6
  <2> QED
    BY <2>8, <2>9 DEF UnitIn, Quo
<1> QED
  BY <1>2, <1>3

(* The same for every larger unit.                                         *)
LEMMA LargerUnits ==
  ASSUME BoundsRight, NEW s \in Nat, NEW u \in Nat, NEW i \in 1..5, NEW j \in 1..i, UnitIn(i, s) = UnitIn(i, u)
  PROVE  UnitIn(j, s) = UnitIn(j, u)
<1> DEFINE same(k) == UnitIn(k, s) = UnitIn(k, u)
<1>1. \A k \in 2..5 : same(k) => same(k - 1)
  BY OneUp
<1> HIDE DEF same
<1>2. (same(5) => same(4)) /\ (same(4) => same(3)) /\ (same(3) => same(2)) /\ (same(2) => same(1))
  <2>1. (same(5) => same(5 - 1)) /\ (same(4) => same(4 - 1)) /\ (same(3) => same(3 - 1)) /\ (same(2) => same(2 - 1))
    BY <1>1
  <2>2. 5 - 1 = 4 /\ 4 - 1 = 3 /\ 3 - 1 = 2 /\ 2 - 1 = 1
    OBVIOUS
  <2> QED
    BY <2>1, <2>2
<1>3. same(i)
  BY DEF same
<1>4. i \in {1, 2, 3, 4, 5} /\ j \in {1, 2, 3, 4, 5} /\ j <= i
  OBVIOUS
<1>5. same(j)
  <2>1. CASE i = 1
    BY <1>3, <1>4, <2>1
  <2>2. CASE i = 2
    BY <1>2, <1>3, <1>4, <2>2
  <2>3. CASE i = 3
    BY <1>2, <1>3, <1>4, <2>3
  <2>4. CASE i = 4
    BY <1>2, <1>3, <1>4, <2>4
  <2>5. CASE i = 5
    BY <1>2, <1>3, <1>4, <2>5
  <2> QED
    BY <1>4, <2>1, <2>2, <2>3, <2>4, <2>5
<1> QED
  BY <1>5 DEF same

(* Times of one unit have the same value in its field.                     *)
LEMMA UnitMatches ==
  ASSUME BoundsRight, NEW s \in Nat, NEW u \in Nat, NEW i \in 1..5, UnitIn(i, s) = UnitIn(i, u), NEW sc
  PROVE  N!Matches(N!Loops[i], sc, s) <=> N!Matches(N!Loops[i], sc, u)
<1>1. CASE i = 1
  <2>1. N!Date(s).month = N!Date(u).month
    BY <1>1 DEF UnitIn
  <2> QED
    BY <1>1, <2>1, LoopsAre DEF N!Matches, N!Value
<1>2. CASE i = 2
  <2>1. N!Date(s) = N!Date(u)
    BY <1>2 DEF UnitIn, Length, N!Date
  <2>2. N!Value("dom", s) = N!Value("dom", u) /\ N!Value("dow", s) = N!Value("dow", u)
    BY <2>1 DEF N!Value
  <2> QED
    BY <1>2, <2>2, LoopsAre DEF N!Matches, N!DayMatches
<1>3. CASE i \in 3..5
  <2>1. PICK m \in Nat \ {0} : Length(i - 1) = Length(i) * m
    BY <1>3, LengthsRight
  <2>2. PICK a \in Nat \ {0} : a = Length(i)
    BY LengthsRight, <1>3
  <2>8. PICK b \in Int : b = a * m /\ Multiple(b, a, m)
    BY DEF Multiple
  <2>3. Quo(Rem(s, b), a) = Rem(Quo(s, a), m)
    BY <2>8, UnitsApart
  <2>7. Quo(Rem(u, b), a) = Rem(Quo(u, a), m)
    BY <2>8, UnitsApart
  <2>4. Quo(s, a) = Quo(u, a)
    BY <1>3, <2>2 DEF UnitIn, Quo
  <2>9. Quo(Rem(s, b), a) = Quo(Rem(u, b), a)
    BY <2>3, <2>4, <2>7
  <2>10. N!Value(N!Loops[i], s) = (s % b) \div a /\ N!Value(N!Loops[i], u) = (u % b) \div a
    BY <1>3, <2>1, <2>2, <2>8, LoopUnits
  <2>5. N!Value(N!Loops[i], s) = N!Value(N!Loops[i], u)
    BY <2>9, <2>10 DEF Quo, Rem
  <2>6. N!Loops[i] # "day"
    BY <1>3, LoopsAre
  <2> QED
    BY <2>5, <2>6 DEF N!Matches
<1> QED
  BY <1>1, <1>2, <1>3

(* A time is the first of a unit.                                          *)
LEMMA BeginsWhen ==
  ASSUME BoundsRight, CalendarRight, NEW s, InCalendar(s)
  PROVE  /\ \A i \in 2..5 : Begins(i, s) <=> s % Length(i) = 0
         /\ Begins(1, s) <=> N!Date(s).day = 1 /\ s % N!PerDay = 0
<1>1. s \in Nat
  BY DEF InCalendar
<1>2. ASSUME NEW i \in 2..5 PROVE Begins(i, s) <=> s % Length(i) = 0
  <2>1. PICK a \in Nat \ {0} : a = Length(i)
    BY LengthsRight
  <2>9. s % a \in 0..(a - 1)
    BY <1>1, Division
  <2>2. PICK r \in Nat : r = s % a
    BY <2>9
  <2>3. N!Floor(N!Loops[i], s) = s - r
    BY <1>1, <2>1, <2>2, LoopUnits
  <2> QED
    BY <1>1, <2>1, <2>2, <2>3 DEF Begins
<1>3. Begins(1, s) <=> N!Date(s).day = 1 /\ s % N!PerDay = 0
  <2>1. PICK a \in Nat \ {0} : a = N!PerDay
    BY Lengths
  <2>9. s % a \in 0..(a - 1)
    BY <1>1, Division
  <2>2. PICK r \in Nat : r = s % a
    BY <2>9
  <2>3. PICK d \in Nat \ {0} : d = N!Date(s).day
    <3>1. PICK x : x = Day(s)
      OBVIOUS
    <3>2. x \in DOMAIN Calendar /\ N!Date(s) = Calendar[x]
      BY <3>1 DEF InCalendar, N!Date, Day
    <3>3. Calendar \in Seq(Dates)
      BY DEF CalendarRight
    <3>4. N!Date(s) \in Dates
      BY <3>2, <3>3
    <3> QED
      BY <3>4 DEF Dates
  <2>4. N!Floor(N!Loops[1], s) = s - (d - 1) * a - r
    BY <2>1, <2>2, <2>3, LoopsAre DEF N!Floor
  <2>5. PICK k \in Nat : k = (d - 1) * a /\ (d = 1 => k = 0) /\ (d # 1 => k >= a)
    <3>1. d = 1 => (d - 1) * a = 0
      OBVIOUS
    <3>2. CASE d # 1
      <4>1. 0 < d - 1 /\ 0 \in Int /\ d - 1 \in Int
        BY <3>2
      <4>2. PICK x \in Int : x = d - 1
        OBVIOUS
      <4>3. a * 0 + a <= a * x
        BY <4>1, <4>2, Multiples
      <4>4. a * x = (d - 1) * a /\ a * 0 = 0
        BY <4>2
      <4> QED
        BY <3>2, <4>3, <4>4
    <3>3. CASE d = 1
      BY <3>1, <3>3
    <3> QED
      BY <3>2, <3>3
  <2>6. N!Floor(N!Loops[1], s) = s - k - r
    BY <2>4, <2>5
  <2>7. s - k - r = s <=> d = 1 /\ r = 0
    BY <1>1, <2>5
  <2> QED
    BY <2>1, <2>2, <2>3, <2>6, <2>7 DEF Begins
<1> QED
  BY <1>2, <1>3

(* The first of a unit is the first of each smaller one.                   *)
LEMMA OneDown ==
  ASSUME BoundsRight, CalendarRight, NEW s, InCalendar(s), NEW i \in 1..4, Begins(i, s)
  PROVE  Begins(i + 1, s)
<1>1. s \in Nat
  BY DEF InCalendar
<1>2. CASE i = 1
  <2>1. s % Length(2) = 0
    BY <1>2, BeginsWhen DEF Length
  <2> QED
    BY <1>2, <2>1, BeginsWhen
<1>3. CASE i # 1
  <2>1. i + 1 \in 3..5 /\ (i + 1) - 1 = i /\ i \in 2..5
    BY <1>3
  <2>2. PICK j \in 3..5 : j = i + 1 /\ j - 1 = i
    BY <2>1
  <2>3. PICK m \in Nat \ {0} : Length(i) = Length(j) * m
    BY <2>2, LengthsRight
  <2>4. PICK a \in Nat \ {0}, b \in Nat \ {0} : a = Length(j) /\ b = Length(i)
    BY <2>1, LengthsRight
  <2>5. s % b = 0
    BY <2>1, <2>4, BeginsWhen
  <2>6. PICK k \in Nat : s = b * k + 0
    BY <1>1, <2>5, Division
  <2>7. PICK c \in Int : c = m * k
    OBVIOUS
  <2>8. a * c = (a * m) * k
    BY <2>7
  <2>9. s = a * c + 0 /\ 0 \in 0..(a - 1)
    BY <2>3, <2>4, <2>6, <2>8
  <2>10. s % a = 0
    BY <1>1, <2>9, Quotient
  <2>11. Begins(j, s)
    BY <2>2, <2>4, <2>10, BeginsWhen
  <2> QED
    BY <2>2, <2>11
<1> QED
  BY <1>2, <1>3

(* The same for every smaller unit.                                        *)
LEMMA SmallerUnits ==
  ASSUME BoundsRight, CalendarRight, NEW s, InCalendar(s), NEW i \in 1..5, NEW j \in i..5, Begins(i, s)
  PROVE  Begins(j, s)
<1> DEFINE at(k) == Begins(k, s)
<1>1. \A k \in 1..4 : at(k) => at(k + 1)
  BY OneDown
<1> HIDE DEF at
<1>2. (at(1) => at(2)) /\ (at(2) => at(3)) /\ (at(3) => at(4)) /\ (at(4) => at(5))
  <2>1. (at(1) => at(1 + 1)) /\ (at(2) => at(2 + 1)) /\ (at(3) => at(3 + 1)) /\ (at(4) => at(4 + 1))
    BY <1>1
  <2>2. 1 + 1 = 2 /\ 2 + 1 = 3 /\ 3 + 1 = 4 /\ 4 + 1 = 5
    OBVIOUS
  <2> QED
    BY <2>1, <2>2
<1>3. at(i)
  BY DEF at
<1>4. i \in {1, 2, 3, 4, 5} /\ j \in {1, 2, 3, 4, 5} /\ i <= j
  OBVIOUS
<1>5. at(j)
  <2>1. CASE i = 1
    BY <1>2, <1>3, <1>4, <2>1
  <2>2. CASE i = 2
    BY <1>2, <1>3, <1>4, <2>2
  <2>3. CASE i = 3
    BY <1>2, <1>3, <1>4, <2>3
  <2>4. CASE i = 4
    BY <1>2, <1>3, <1>4, <2>4
  <2>5. CASE i = 5
    BY <1>2, <1>3, <1>4, <2>5
  <2> QED
    BY <1>4, <2>1, <2>2, <2>3, <2>4, <2>5
<1> QED
  BY <1>5 DEF at

(* Days come in the order of the calendar.                                 *)
LEMMA CalendarDays ==
  ASSUME CalendarRight
  PROVE  /\ DOMAIN Calendar = 1..Len(Calendar) /\ Len(Calendar) \in Nat
         /\ \A d \in DOMAIN Calendar : Calendar[d].year \in Int /\ Calendar[d].month \in Int /\ Calendar[d].day \in Nat \ {0}
<1>1. PICK C \in Seq(Dates) : C = Calendar
  BY DEF CalendarRight
<1>2. \A d \in DOMAIN C : C[d] \in Dates
  OBVIOUS
<1>3. \A d \in DOMAIN Calendar : Calendar[d] \in Dates
  BY <1>1, <1>2
<1> QED
  BY <1>1, <1>3 DEF Dates

(* Later days have later months and years, and days of a month count up.   *)
LEMMA CalendarOrder ==
  ASSUME CalendarRight, NEW c \in DOMAIN Calendar, NEW d \in DOMAIN Calendar, c <= d
  PROVE  /\ Calendar[c].year <= Calendar[d].year
         /\ Calendar[c].year = Calendar[d].year => Calendar[c].month <= Calendar[d].month
         /\ SameMonth(c, d) => Calendar[d].day - Calendar[c].day = d - c
BY DEF CalendarRight

(* The days between two of a month are of that month.                      *)
LEMMA Between ==
  ASSUME CalendarRight, NEW c \in DOMAIN Calendar, NEW d \in DOMAIN Calendar, NEW x \in c..d, SameMonth(c, d)
  PROVE  x \in DOMAIN Calendar /\ SameMonth(x, d) /\ SameMonth(c, x)
<1>1. x \in DOMAIN Calendar /\ c <= x /\ x <= d
  BY CalendarDays
<1>2. Calendar[c].year <= Calendar[x].year /\ Calendar[x].year <= Calendar[d].year
  BY <1>1 DEF CalendarRight
<1>3. Calendar[x].year = Calendar[d].year /\ Calendar[c].year = Calendar[x].year
  BY <1>1, <1>2, CalendarDays DEF SameMonth
<1>4. Calendar[c].month <= Calendar[x].month /\ Calendar[x].month <= Calendar[d].month
  BY <1>1, <1>3 DEF CalendarRight
<1>5. Calendar[x].month = Calendar[d].month
  BY <1>1, <1>4, CalendarDays DEF SameMonth
<1> QED
  BY <1>1, <1>3, <1>5 DEF SameMonth

(* The day after one of a month is of that month or its own month's first. *)
LEMMA FirstOfMonth ==
  ASSUME CalendarRight, NEW c \in DOMAIN Calendar, NEW d \in DOMAIN Calendar, d = c + 1
  PROVE  SameMonth(c, d) \/ Calendar[d].day = 1
<1>1. PICK k \in Nat \ {0} : k = Calendar[d].day
  BY CalendarDays
<1>2. PICK x \in DOMAIN Calendar : x = d - k + 1 /\ SameMonth(x, d)
  BY <1>1 DEF CalendarRight
<1>3. x \in Int /\ c \in Int /\ d \in Int
  BY CalendarDays
<1>4. CASE k # 1
  <2>2. k >= 2
    BY <1>4
  <2>3. x <= c /\ c <= d
    BY <1>2, <1>3, <2>2
  <2>1. c \in x..d
    BY <1>3, <2>3
  <2> QED
    BY <1>2, <2>1, Between
<1> QED
  BY <1>1, <1>4

(* A month is the days from its first to the day before the next one.      *)
LEMMA MonthDays ==
  ASSUME CalendarRight, NEW d \in DOMAIN Calendar, NEW y \in DOMAIN Calendar, Calendar[y].year > Calendar[d].year
  PROVE  \E a, z \in DOMAIN Calendar :
           /\ a = d - Calendar[d].day + 1 /\ d \in a..(z - 1) /\ Calendar[z].day = 1
           /\ \A x \in DOMAIN Calendar : SameMonth(x, d) <=> x \in a..(z - 1)
           /\ N!Cardinality({x \in DOMAIN Calendar : SameMonth(x, d)}) = z - a
<1> DEFINE after == {x \in DOMAIN Calendar : x > d /\ ~SameMonth(x, d)}
<1>1. DOMAIN Calendar = 1..Len(Calendar) /\ Len(Calendar) \in Nat /\ DOMAIN Calendar \in SUBSET Nat
  <2>1. DOMAIN Calendar = 1..Len(Calendar) /\ Len(Calendar) \in Nat
    BY CalendarDays
  <2> QED
    BY <2>1
<1>2. y \in after
  <2>1. y > d
    <3>1. Calendar[y].year \in Int /\ Calendar[d].year \in Int
      BY CalendarDays
    <3>2. ~(y <= d)
      BY <3>1, CalendarOrder
    <3> QED
      BY <1>1, <3>2
  <2>2. ~SameMonth(y, d)
    BY CalendarDays DEF SameMonth
  <2> QED
    BY <2>1, <2>2
<1>3. PICK z \in after : \A x \in after : z <= x
  <2>1. after \in SUBSET Nat /\ after # {}
    BY <1>1, <1>2
  <2> QED
    BY <2>1, LeastNumber
<1>4. PICK k \in Nat \ {0} : k = Calendar[d].day
  BY CalendarDays
<1>5. PICK a \in DOMAIN Calendar : a = d - k + 1 /\ SameMonth(a, d)
  BY <1>4 DEF CalendarRight
<1>6. a \in Nat /\ z \in Nat /\ d \in Nat /\ a <= d /\ d < z /\ z \in DOMAIN Calendar
  BY <1>1, <1>3, <1>4, <1>5
<1>7. d \in a..(z - 1)
  BY <1>6
<1>8. Calendar[a].day = 1
  <2>1. Calendar[d].day - Calendar[a].day = d - a
    BY <1>5, <1>6 DEF CalendarRight
  <2>2. PICK m \in Nat \ {0} : m = Calendar[a].day
    BY CalendarDays
  <2> QED
    BY <1>4, <1>5, <1>6, <2>1, <2>2
<1>9. ASSUME NEW x \in DOMAIN Calendar PROVE SameMonth(x, d) <=> x \in a..(z - 1)
  <2>1. x \in Nat
    BY <1>1
  <2>2. CASE x < a
    <3>1. ASSUME SameMonth(x, a) PROVE FALSE
      <4>1. Calendar[a].day - Calendar[x].day = a - x
        BY <1>6, <2>1, <2>2, <3>1, CalendarOrder
      <4>2. PICK m \in Nat \ {0} : m = Calendar[x].day
        BY CalendarDays
      <4> QED
        BY <1>6, <1>8, <2>1, <2>2, <4>1, <4>2
    <3>2. ~SameMonth(x, d)
      BY <1>5, <3>1 DEF SameMonth
    <3> QED
      BY <1>6, <2>1, <2>2, <3>2
  <2>3. CASE x \in a..d
    <3>1. SameMonth(x, d)
      BY <1>5, <2>3, Between
    <3> QED
      BY <1>6, <2>1, <2>3, <3>1
  <2>4. CASE d < x /\ x < z
    <3>1. x \notin after
      BY <1>3, <1>6, <2>1, <2>4
    <3>2. SameMonth(x, d)
      BY <1>6, <2>1, <2>4, <3>1
    <3> QED
      BY <1>6, <2>1, <2>4, <3>2
  <2>5. CASE z <= x
    <3>1. ASSUME SameMonth(x, d) PROVE FALSE
      <4>1. SameMonth(d, x)
        BY <3>1 DEF SameMonth
      <4>2. z \in d..x
        BY <1>6, <2>1, <2>5
      <4>3. SameMonth(d, z)
        BY <4>1, <4>2, Between
      <4> QED
        BY <1>3, <4>3 DEF SameMonth
    <3> QED
      BY <1>6, <2>1, <2>5, <3>1
  <2> QED
    BY <1>6, <2>1, <2>2, <2>3, <2>4, <2>5
<1>10. Calendar[z].day = 1
  <2>1. PICK c \in DOMAIN Calendar : c = z - 1
    BY <1>1, <1>6
  <2>2. SameMonth(c, d)
    BY <1>6, <1>9, <2>1
  <2>3. ~SameMonth(c, z)
    BY <1>3, <2>2 DEF SameMonth
  <2>4. z = c + 1
    BY <1>6, <2>1
  <2> QED
    BY <1>6, <2>3, <2>4, FirstOfMonth
<1>11. {x \in DOMAIN Calendar : SameMonth(x, d)} = a..(z - 1)
  BY <1>1, <1>6, <1>9
<1>12. N!Cardinality(a..(z - 1)) = z - a
  <2>1. Cardinality(a..(z - 1)) = z - a
    BY <1>6, FS_Interval
  <2>2. N!Cardinality(a..(z - 1)) = Cardinality(a..(z - 1))
    BY DEF N!Cardinality, Cardinality
  <2> QED
    BY <2>1, <2>2
<1> QED
  BY <1>4, <1>5, <1>6, <1>7, <1>9, <1>10, <1>11, <1>12

(* Earlier times are in the calendar too.                                  *)
LEMMA Earlier ==
  ASSUME BoundsRight, CalendarRight, NEW s, InCalendar(s), NEW u \in Nat, u <= s
  PROVE  InCalendar(u) /\ N!Date(u).year <= N!Date(s).year /\ Day(u) <= Day(s) /\ Day(u) \in Nat /\ Day(s) \in Nat
<1>1. PICK p \in Nat \ {0} : p = N!PerDay
  BY Lengths
<1>2. s \in Nat
  BY DEF InCalendar
<1>3. u \div p <= s \div p /\ u \div p \in Nat
  BY <1>2, UnitOrder, Division
<1>4. s \div p \in Nat
  BY <1>2, Division
<1>5. Day(u) <= Day(s) /\ Day(u) \in Nat \ {0} /\ Day(s) \in Nat
  BY <1>1, <1>3, <1>4 DEF Day
<1>6. Day(u) \in DOMAIN Calendar /\ Day(s) \in DOMAIN Calendar
  BY <1>5, CalendarDays DEF InCalendar
<1>7. Calendar[Day(u)].year <= Calendar[Day(s)].year
  BY <1>5, <1>6 DEF CalendarRight
<1> QED
  BY <1>5, <1>6, <1>7 DEF InCalendar, N!Date, Day

(* A time is in the unit of the second before, or the first of its own.    *)
LEMMA NextUnit ==
  ASSUME BoundsRight, CalendarRight, NEW e \in Nat \ {0}, InCalendar(e), NEW j \in 1..5
  PROVE  UnitIn(j, e) = UnitIn(j, e - 1) \/ Begins(j, e)
<1>1. CASE j # 1
  <2>1. PICK a \in Nat \ {0} : a = Length(j)
    BY <1>1, LengthsRight
  <2>2. e \div a = (e - 1) \div a \/ e % a = 0
    BY UnitStarts
  <2>3. Begins(j, e) <=> e % a = 0
    BY <1>1, <2>1, BeginsWhen
  <2> QED
    BY <1>1, <2>1, <2>2, <2>3 DEF UnitIn
<1>2. CASE j = 1
  <2>1. PICK a \in Nat \ {0} : a = N!PerDay
    BY Lengths
  <2>2. CASE e \div a = (e - 1) \div a
    <3>1. N!Date(e) = N!Date(e - 1)
      BY <2>1, <2>2 DEF N!Date
    <3> QED
      BY <1>2, <3>1 DEF UnitIn
  <2>3. CASE e % a = 0 /\ e \div a = ((e - 1) \div a) + 1
    <3>1. PICK x \in Nat : x = e - 1
      OBVIOUS
    <3>2. x <= e
      BY <3>1
    <3>3. InCalendar(x)
      BY <3>2, Earlier
    <3>4. x \div a \in Nat
      BY Division
    <3>5. PICK c, d \in DOMAIN Calendar : c = Day(x) /\ d = Day(e) /\ d = c + 1
      BY <2>1, <2>3, <3>1, <3>3, <3>4 DEF InCalendar, Day
    <3>6. SameMonth(c, d) \/ Calendar[d].day = 1
      BY <3>5, FirstOfMonth
    <3>7. N!Date(x) = Calendar[c] /\ N!Date(e) = Calendar[d]
      BY <3>5 DEF N!Date, Day
    <3>8. CASE SameMonth(c, d)
      BY <1>2, <3>1, <3>7, <3>8 DEF SameMonth, UnitIn
    <3>9. CASE Calendar[d].day = 1
      <4>1. Begins(1, e)
        BY <2>1, <2>3, <3>7, <3>9, BeginsWhen
      <4> QED
        BY <1>2, <4>1
    <3> QED
      BY <3>6, <3>8, <3>9
  <2> QED
    BY <2>2, <2>3, UnitStarts
<1> QED
  BY <1>1, <1>2

(* One turn of the loop of a field goes from the first second of a unit to *)
(* the first of the next one (spec.go:80-142).                             *)
LEMMA DayTurn ==
  ASSUME BoundsRight, CalendarRight, NEW s, InCalendar(s), NEW y \in DOMAIN Calendar, Calendar[y].year > N!Date(s).year,
         NEW i \in 2..5, NEW from, from = N!Floor(N!Loops[i], s), NEW e, e = from + N!Unit(N!Loops[i], from)
  PROVE  /\ from \in Nat /\ e \in Nat /\ from <= s /\ s < e /\ InCalendar(e) /\ Begins(i, e)
         /\ \A u \in from..(e - 1) : UnitIn(i, u) = UnitIn(i, s)
<1>1. s \in Nat
  BY DEF InCalendar
<1>2. PICK a \in Nat \ {0} : a = Length(i)
  BY LengthsRight
<1>3. from = s - (s % a)
  BY <1>1, <1>2, LoopUnits
<1>4. /\ from \in Nat /\ from <= s /\ s < from + a /\ (from + a) % a = 0
      /\ \A u \in from..(from + a - 1) : u \div a = s \div a
  BY <1>1, <1>3, UnitOf
<1>5. e = from + a
  BY <1>2, <1>4, LoopUnits
<1>6. e \in Nat \ {0} /\ e - 1 \in from..(e - 1) /\ e - 1 \in Nat
  BY <1>4, <1>5
<1>7. \A u \in from..(e - 1) : UnitIn(i, u) = UnitIn(i, s)
  BY <1>2, <1>4, <1>5 DEF UnitIn
<1>8. InCalendar(e)
  <2>1. PICK x \in Nat : x = e - 1
    BY <1>6
  <2>2. UnitIn(i, x) = UnitIn(i, s)
    BY <1>6, <1>7, <2>1
  <2>3. UnitIn(2, x) = UnitIn(2, s)
    BY <1>1, <2>2, LargerUnits
  <2>4. PICK p \in Nat \ {0} : p = N!PerDay
    BY Lengths
  <2>5. x \div p = s \div p
    BY <2>3, <2>4 DEF UnitIn, Length
  <2>6. e \div p = x \div p \/ e \div p = (x \div p) + 1
    BY <1>6, <2>1, UnitStarts
  <2>7. Day(e) = Day(s) \/ Day(e) = Day(s) + 1
    BY <2>4, <2>5, <2>6 DEF Day
  <2>8. Day(s) \in DOMAIN Calendar /\ N!Date(s) = Calendar[Day(s)]
    BY DEF InCalendar, N!Date, Day
  <2>9. PICK d \in DOMAIN Calendar : d = Day(s)
    BY <2>8
  <2>10. d < y
    <3>1. Calendar[y].year \in Int /\ Calendar[d].year \in Int
      BY CalendarDays
    <3>2. ~(y <= d)
      BY <2>8, <2>9, <3>1, CalendarOrder
    <3> QED
      BY <3>2, CalendarDays
  <2>11. d + 1 \in DOMAIN Calendar
    BY <2>10, CalendarDays
  <2> QED
    BY <1>6, <2>7, <2>9, <2>11 DEF InCalendar
<1>9. Begins(i, e)
  BY <1>2, <1>4, <1>5, <1>8, BeginsWhen
<1> QED
  BY <1>4, <1>5, <1>6, <1>7, <1>8, <1>9

(* A month is added to the first second of a month.                        *)
LEMMA MonthTurn ==
  ASSUME BoundsRight, CalendarRight, NEW s, InCalendar(s), NEW y \in DOMAIN Calendar, Calendar[y].year > N!Date(s).year,
         NEW from, from = N!Floor("month", s), NEW e, e = from + N!Unit("month", from)
  PROVE  /\ from \in Nat /\ e \in Nat /\ from <= s /\ s < e /\ InCalendar(e) /\ Begins(1, e)
         /\ \A u \in from..(e - 1) : UnitIn(1, u) = UnitIn(1, s)
<1>1. s \in Nat
  BY DEF InCalendar
<1>2. PICK p \in Nat \ {0} : p = N!PerDay
  BY Lengths
<1>3. PICK d \in DOMAIN Calendar : d = Day(s) /\ N!Date(s) = Calendar[d]
  BY DEF InCalendar, N!Date, Day
<1>4. PICK a, z \in DOMAIN Calendar :
        /\ a = d - Calendar[d].day + 1 /\ d \in a..(z - 1) /\ Calendar[z].day = 1
        /\ \A x \in DOMAIN Calendar : SameMonth(x, d) <=> x \in a..(z - 1)
        /\ N!Cardinality({x \in DOMAIN Calendar : SameMonth(x, d)}) = z - a
  BY <1>3, MonthDays
<1>5. PICK k \in Nat \ {0} : k = Calendar[d].day
  BY CalendarDays
<1>6. a \in Nat \ {0} /\ z \in Nat \ {0} /\ d \in Nat \ {0} /\ a <= d /\ d < z /\ a = d - k + 1
  <2>1. a \in Nat \ {0} /\ z \in Nat \ {0} /\ d \in Nat \ {0}
    BY CalendarDays
  <2>2. d \in a..(z - 1) /\ a = d - k + 1
    BY <1>4, <1>5
  <2> QED
    BY <2>1, <2>2
<1>7. PICK q \in Nat, r \in 0..(p - 1) : q = s \div p /\ r = s % p /\ s = p * q + r
  BY <1>1, Division
<1>8. d = q + 1
  BY <1>2, <1>3, <1>7 DEF Day
<1>9. from = p * (a - 1) /\ from \in Nat
  <2>1. from = s - (k - 1) * p - r
    BY <1>2, <1>3, <1>5, <1>7 DEF N!Floor
  <2>2. PICK m \in Nat, n \in Nat : m = k - 1 /\ n = a - 1 /\ q = n + m
    BY <1>5, <1>6, <1>8
  <2>3. p * q = p * n + p * m /\ m * p = p * m /\ p * q \in Nat /\ p * n \in Nat
    BY <2>2
  <2> QED
    BY <1>7, <2>1, <2>2, <2>3
<1>10. N!Date(from) = Calendar[a]
  <2>1. PICK n \in Nat : n = a - 1
    BY <1>6
  <2>2. from = p * n + 0 /\ 0 \in 0..(p - 1)
    BY <1>9, <2>1
  <2>3. from \div p = n
    BY <1>9, <2>2, Quotient
  <2> QED
    BY <1>2, <1>6, <2>1, <2>3 DEF N!Date
<1>11. N!Unit("month", from) = (z - a) * p
  <2>1. SameMonth(a, d)
    BY <1>4, <1>6
  <2>2. {x \in DOMAIN Calendar : Calendar[x].year = Calendar[a].year /\ Calendar[x].month = Calendar[a].month}
          = {x \in DOMAIN Calendar : SameMonth(x, d)}
    BY <2>1 DEF SameMonth
  <2>3. N!DaysInMonth(from) = z - a
    BY <1>4, <1>10, <2>2 DEF N!DaysInMonth
  <2> QED
    BY <1>2, <2>3 DEF N!Unit
<1>12. PICK n, m \in Nat : n = a - 1 /\ m = z - 1 /\ n <= q /\ q < m
  <2>1. a - 1 \in Nat /\ z - 1 \in Nat /\ a - 1 <= q /\ q < z - 1
    BY <1>6, <1>8
  <2> QED
    BY <2>1
<1>13. from = p * n /\ e = p * m
  <2>1. z - a = m - n
    BY <1>6, <1>12
  <2>2. PICK c \in Nat : c = m - n /\ m = n + c
    BY <1>12
  <2>3. p * (n + c) = p * n + p * c /\ c * p = p * c
    OBVIOUS
  <2> QED
    BY <1>9, <1>11, <1>12, <2>1, <2>2, <2>3
<1>14. from \in Nat /\ e \in Nat /\ from <= s /\ s < e
  <2>1. p * q + p <= p * m
    BY <1>12, Multiples
  <2>2. p * n <= p * q
    <3>1. n < q => p * n + p <= p * q
      BY Multiples
    <3>2. p * n \in Nat /\ p * q \in Nat
      OBVIOUS
    <3> QED
      BY <1>12, <3>1, <3>2
  <2>3. p * n \in Nat /\ p * q \in Nat /\ p * m \in Nat
    OBVIOUS
  <2> QED
    BY <1>7, <1>13, <2>1, <2>2, <2>3
<1>15. e \div p = m /\ e % p = 0
  <2>1. e = p * m + 0 /\ 0 \in 0..(p - 1)
    BY <1>13
  <2> QED
    BY <1>14, <2>1, Quotient
<1>16. InCalendar(e) /\ N!Date(e) = Calendar[z]
  <2>1. Day(e) = z
    BY <1>2, <1>6, <1>12, <1>15 DEF Day
  <2> QED
    BY <1>4, <1>14, <2>1 DEF InCalendar, N!Date, Day
<1>17. Begins(1, e)
  BY <1>2, <1>4, <1>15, <1>16, BeginsWhen
<1>18. ASSUME NEW u \in from..(e - 1) PROVE UnitIn(1, u) = UnitIn(1, s)
  <2>1. u \in Nat /\ from <= u /\ u < e
    BY <1>14
  <2>10. u \in Nat
    BY <2>1
  <2>12. u \div p \in Nat /\ u % p \in 0..(p - 1) /\ u = p * (u \div p) + (u % p)
    BY <2>10, Division
  <2>2. PICK j \in Nat, x \in 0..(p - 1) : j = u \div p /\ u = p * j + x
    BY <2>12
  <2>3. ~(j < n)
    <3>1. j < n => p * j + p <= p * n
      BY Multiples
    <3>2. p * j \in Nat /\ p * n \in Nat
      OBVIOUS
    <3> QED
      BY <1>13, <2>1, <2>2, <3>1, <3>2
  <2>4. ~(m <= j)
    <3>1. m < j => p * m + p <= p * j
      BY Multiples
    <3>2. p * j \in Nat /\ p * m \in Nat
      OBVIOUS
    <3> QED
      BY <1>13, <2>1, <2>2, <3>1, <3>2
  <2>5. PICK b \in Nat : b = j + 1
    OBVIOUS
  <2>11. n <= j /\ j < m
    BY <2>3, <2>4
  <2>6. b \in a..(z - 1)
    BY <1>6, <1>12, <2>5, <2>11
  <2>7. b \in DOMAIN Calendar
    <3>1. PICK l \in Nat : DOMAIN Calendar = 1..l
      BY CalendarDays
    <3>2. z <= l /\ 1 <= b /\ b <= z /\ b \in Nat
      BY <1>6, <2>6, <3>1
    <3> QED
      BY <3>1, <3>2
  <2>8. SameMonth(b, d)
    BY <1>4, <2>6, <2>7
  <2>9. N!Date(u) = Calendar[b]
    BY <1>2, <2>2, <2>5 DEF N!Date
  <2> QED
    BY <1>3, <2>8, <2>9 DEF SameMonth, UnitIn
<1> QED
  BY <1>14, <1>16, <1>17, <1>18

(* Both, for a field of any level.                                         *)
LEMMA Turn ==
  ASSUME BoundsRight, CalendarRight, NEW s, InCalendar(s), NEW y \in DOMAIN Calendar, Calendar[y].year > N!Date(s).year,
         NEW i \in 1..5, NEW from, from = N!Floor(N!Loops[i], s), NEW e, e = from + N!Unit(N!Loops[i], from)
  PROVE  /\ from \in Nat /\ e \in Nat /\ from <= s /\ s < e /\ InCalendar(e) /\ Begins(i, e)
         /\ \A u \in from..(e - 1) : UnitIn(i, u) = UnitIn(i, s)
<1>1. CASE i = 1
  <2>1. from = N!Floor("month", s) /\ e = from + N!Unit("month", from)
    BY <1>1, LoopsAre
  <2> QED
    BY <1>1, <2>1, MonthTurn
<1>2. CASE i # 1
  <2>1. i \in 2..5
    BY <1>2
  <2> QED
    BY <2>1, DayTurn
<1> QED
  BY <1>1, <1>2

(* Where the loop does not go back to the larger units, it has not left    *)
(* the larger one.                                                         *)
LEMMA NotWrapped ==
  ASSUME BoundsRight, CalendarRight, NEW e \in Nat \ {0}, InCalendar(e), NEW i \in 1..5, ~N!Wrapped(N!Loops[i], e), Begins(i, e)
  PROVE  /\ i # 1 => UnitIn(i - 1, e) = UnitIn(i - 1, e - 1)
         /\ i = 1 => N!Date(e).year = N!Date(e - 1).year
<1>1. CASE i \in 3..5
  <2>1. PICK a \in Nat \ {0}, j \in 2..4 : j = i - 1 /\ a = Length(i)
    BY <1>1, LengthsRight
  <2>2. N!Value(N!Loops[i], e) = (e % Length(j)) \div a
    BY <1>1, <2>1, LoopUnits
  <2>3. N!Value(N!Loops[i], e) # 0
    BY <1>1, LoopsAre DEF N!Wrapped
  <2>4. 0 \div a = 0
    <3>1. 0 = a * 0 + 0 /\ 0 \in 0..(a - 1)
      OBVIOUS
    <3> QED
      BY <3>1, Quotient
  <2>5. e % Length(j) # 0
    BY <2>2, <2>3, <2>4
  <2>6. ~Begins(j, e)
    BY <2>5, BeginsWhen
  <2> QED
    BY <1>1, <2>1, <2>6, NextUnit
<1>2. CASE i = 2
  <2>1. N!Date(e).day # 1
    BY <1>2, LoopsAre DEF N!Wrapped
  <2>2. ~Begins(1, e)
    BY <2>1, BeginsWhen
  <2>3. UnitIn(1, e) = UnitIn(1, e - 1)
    BY <2>2, NextUnit
  <2> QED
    BY <1>2, <2>3
<1>3. CASE i = 1
  <2>1. N!Date(e).month # Bounds["month"].min
    BY <1>3, LoopsAre DEF N!Wrapped
  <2>2. PICK p \in Nat \ {0} : p = N!PerDay
    BY Lengths
  <2>3. PICK x \in Nat : x = e - 1
    OBVIOUS
  <2>4. x <= e
    BY <2>3
  <2>5. InCalendar(x)
    BY <2>4, Earlier
  <2>6. x \div p \in Nat
    BY Division
  <2>7. e \div p = x \div p \/ e \div p = (x \div p) + 1
    BY <2>3, UnitStarts
  <2>8. CASE e \div p = x \div p
    BY <1>3, <2>2, <2>3, <2>8 DEF N!Date
  <2>9. CASE e \div p = (x \div p) + 1
    <3>1. PICK c, d \in DOMAIN Calendar : c = Day(x) /\ d = Day(e) /\ d = c + 1
      BY <2>2, <2>5, <2>6, <2>9 DEF InCalendar, Day
    <3>2. N!Date(x) = Calendar[c] /\ N!Date(e) = Calendar[d]
      BY <3>1 DEF N!Date, Day
    <3>3. Calendar[c].year = Calendar[d].year
      BY <2>1, <3>1, <3>2 DEF CalendarRight
    <3> QED
      BY <1>3, <2>3, <3>2, <3>3
  <2> QED
    BY <2>7, <2>8, <2>9
<1> QED
  BY <1>1, <1>2, <1>3

-----------------------------------------------------------------------------

(* The loop of Next, at a time x: no second before it is wanted, its       *)
(* larger fields have one of their values, and once a field has been       *)
(* moved, a field without one of its values is at the start of a unit, so  *)
(* that nothing is left out when that is moved without a floor.            *)
Has(sc, i, s) == N!Matches(N!Loops[i], sc, s)
Wanted(sc, s) == \A i \in 1..5 : Has(sc, i, s)
LoopAt(sc, now, x, l, moved, limit) ==
  /\ now \in Nows /\ x \in Nat /\ InCalendar(x) /\ First(now) <= x
  /\ l \in 0..5 /\ moved \in BOOLEAN
  /\ limit = Calendar[Day(First(now))].year + YearsAhead
  /\ \A s \in First(now)..(x - 1) : ~Wanted(sc, s)
  /\ \A i \in 1..5 : i < l => Has(sc, i, x)
  /\ moved => \A i \in 1..5 : Has(sc, i, x) \/ Begins(i, x)
  /\ l # 0 => N!Date(x).year <= limit

TimeInv ==
  /\ spec \in Specs /\ pc \in {"parse", "now", "loop", "done"}
  /\ pc \in {"parse", "now", "loop"} => next = None
  /\ pc = "now" => IF spec.kind = "every" THEN schedule = [delay |-> N!Every(spec.delay)] ELSE ParsedBy(start) /\ level = 0
  /\ pc = "parse" => level = 0
  /\ pc = "loop" => spec.kind # "every" /\ ParsedBy(start.parser) /\ LoopAt(schedule, start.now, t, level, added, yearLimit)
  /\ pc = "done" => N!NextIsFirst

(* One turn of the loop of a field: what is added to, and where the loop   *)
(* goes on (spec.go:80-142).                                               *)
From(l, x, moved) == IF moved THEN x ELSE N!Floor(N!Loops[l], x)
Turned(l, from) == from + N!Unit(N!Loops[l], from)
Back(l, e) == IF N!Wrapped(N!Loops[l], e) THEN 0 ELSE l

(* After a turn the loop is where it may be (spec.go:80-142).              *)
LEMMA LoopTurns ==
  ASSUME TimesRight, NEW sc, NEW now, NEW x, NEW l \in 1..5, NEW moved, NEW limit,
         LoopAt(sc, now, x, l, moved, limit), ~Has(sc, l, x)
  PROVE  LoopAt(sc, now, Turned(l, From(l, x, moved)), Back(l, Turned(l, From(l, x, moved))), TRUE, limit)
<1> USE DEF TimesRight
<1>13. PICK from : from = From(l, x, moved) /\ from = IF moved THEN x ELSE N!Floor(N!Loops[l], x)
  BY DEF From
<1>14. PICK e : e = Turned(l, from) /\ e = from + N!Unit(N!Loops[l], from)
  BY DEF Turned
<1>15. PICK k : k = Back(l, e) /\ k = IF N!Wrapped(N!Loops[l], e) THEN 0 ELSE l
  BY DEF Back
<1>1. /\ now \in Nows /\ x \in Nat /\ InCalendar(x) /\ First(now) <= x /\ N!Date(x).year <= limit
      /\ limit = Calendar[Day(First(now))].year + YearsAhead
  BY DEF LoopAt
<1>2. from = N!Floor(N!Loops[l], x)
  <2>1. CASE moved
    <3>1. Begins(l, x)
      BY <2>1 DEF LoopAt
    <3> QED
      BY <1>13, <2>1, <3>1 DEF Begins
  <2> QED
    BY <1>13, <2>1
<1>3. PICK y \in DOMAIN Calendar : Calendar[y].year > N!Date(x).year
  <2>1. PICK y \in DOMAIN Calendar : Calendar[y].year > limit
    BY <1>1 DEF NowsRight
  <2>2. PICK d \in DOMAIN Calendar : d = Day(First(now))
    BY <1>1 DEF NowsRight
  <2>3. limit \in Int
    BY <1>1, <2>2, CalendarDays DEF NowsRight
  <2>4. PICK c \in DOMAIN Calendar : c = Day(x) /\ N!Date(x) = Calendar[c]
    BY <1>1 DEF InCalendar, N!Date, Day
  <2>5. Calendar[y].year \in Int /\ Calendar[c].year \in Int
    BY CalendarDays
  <2> QED
    BY <1>1, <2>1, <2>3, <2>4, <2>5
<1>4. /\ from \in Nat /\ e \in Nat /\ from <= x /\ x < e /\ InCalendar(e) /\ Begins(l, e)
      /\ \A u \in from..(e - 1) : UnitIn(l, u) = UnitIn(l, x)
  BY <1>1, <1>2, <1>3, <1>14, Turn
<1>5. PICK v \in Nat : v = e - 1 /\ UnitIn(l, v) = UnitIn(l, x) /\ e \in Nat \ {0}
  <2>1. e - 1 \in Nat /\ e - 1 \in from..(e - 1) /\ e \in Nat \ {0}
    BY <1>1, <1>4
  <2> QED
    BY <1>4, <2>1
<1>6. \A j \in 1..l : UnitIn(j, v) = UnitIn(j, x)
  BY <1>1, <1>5, LargerUnits
<1>7. First(now) \in Nat
  <2>1. now \in Nat
    BY <1>1 DEF NowsRight
  <2> QED
    BY <2>1 DEF First
<1>8. ASSUME NEW s \in First(now)..(e - 1) PROVE ~Wanted(sc, s)
  <2>1. s \in Nat /\ First(now) <= s /\ s <= e - 1
    BY <1>4, <1>7
  <2>2. CASE s < x
    <3>1. s \in First(now)..(x - 1)
      BY <1>1, <1>7, <2>1, <2>2
    <3> QED
      BY <3>1 DEF LoopAt
  <2>3. CASE x <= s
    <3>1. s \in from..(e - 1)
      BY <1>1, <1>4, <2>1, <2>3
    <3>2. UnitIn(l, s) = UnitIn(l, x)
      BY <1>4, <3>1
    <3>3. Has(sc, l, s) <=> Has(sc, l, x)
      BY <1>1, <2>1, <3>2, UnitMatches DEF Has
    <3> QED
      BY <3>3 DEF Wanted
  <2> QED
    BY <1>1, <2>1, <2>2, <2>3
<1>9. ASSUME NEW i \in 1..5 PROVE Has(sc, i, e) \/ Begins(i, e)
  <2>1. CASE l <= i
    <3>1. i \in l..5
      BY <2>1
    <3> QED
      BY <1>4, <3>1, SmallerUnits
  <2>2. CASE i < l
    <3>1. Has(sc, i, x)
      BY <2>2 DEF LoopAt
    <3>2. i \in 1..l
      BY <2>2
    <3>3. CASE UnitIn(i, e) = UnitIn(i, v)
      <4>1. UnitIn(i, e) = UnitIn(i, x)
        BY <1>6, <3>2, <3>3
      <4> QED
        BY <1>1, <1>4, <3>1, <4>1, UnitMatches DEF Has
    <3> QED
      BY <1>4, <1>5, <3>3, NextUnit
  <2> QED
    BY <2>1, <2>2
<1>10. ASSUME k # 0
       PROVE  k = l /\ N!Date(e).year = N!Date(x).year /\ \A i \in 1..5 : i < l => Has(sc, i, e)
  <2>1. ~N!Wrapped(N!Loops[l], e) /\ k = l
    BY <1>10, <1>15
  <2>2. /\ l # 1 => UnitIn(l - 1, e) = UnitIn(l - 1, v)
        /\ l = 1 => N!Date(e).year = N!Date(v).year
    BY <1>4, <1>5, <2>1, NotWrapped
  <2>3. ASSUME NEW i \in 1..(l - 1) PROVE UnitIn(i, e) = UnitIn(i, v)
    <3>1. PICK m \in 1..5 : m = l - 1 /\ i \in 1..m /\ UnitIn(m, e) = UnitIn(m, v)
      BY <2>2
    <3> QED
      BY <1>4, <3>1, LargerUnits
  <2>4. N!Date(v).year = N!Date(x).year
    <3>1. UnitIn(1, v) = UnitIn(1, x)
      BY <1>6
    <3> QED
      BY <3>1 DEF UnitIn
  <2>5. N!Date(e).year = N!Date(v).year
    <3>1. CASE l = 1
      BY <2>2, <3>1
    <3>2. CASE l # 1
      <4>1. UnitIn(1, e) = UnitIn(1, v)
        BY <2>3, <3>2
      <4> QED
        BY <4>1 DEF UnitIn
    <3> QED
      BY <3>1, <3>2
  <2>6. ASSUME NEW i \in 1..5, i < l PROVE Has(sc, i, e)
    <3>1. i \in 1..(l - 1) /\ i \in 1..l
      BY <2>6
    <3>2. UnitIn(i, e) = UnitIn(i, x)
      BY <1>6, <2>3, <3>1
    <3>3. Has(sc, i, x)
      BY <2>6 DEF LoopAt
    <3> QED
      BY <1>1, <1>4, <3>2, <3>3, UnitMatches DEF Has
  <2> QED
    BY <2>1, <2>4, <2>5, <2>6
<1>11. First(now) <= e
  BY <1>1, <1>4, <1>7
<1>12. k \in 0..5 /\ (\A i \in 1..5 : i < k => Has(sc, i, e)) /\ (k # 0 => N!Date(e).year <= limit)
  <2>1. CASE k = 0
    BY <2>1
  <2>2. CASE k # 0
    BY <1>1, <1>10, <2>2
  <2> QED
    BY <2>1, <2>2
<1>16. LoopAt(sc, now, e, k, TRUE, limit)
  BY <1>1, <1>4, <1>8, <1>9, <1>11, <1>12 DEF LoopAt
<1> QED
  BY <1>13, <1>14, <1>15, <1>16

(* Before the loop nothing is left out.                                    *)
LEMMA LoopStarts ==
  ASSUME TimesRight, NEW now \in Nows, NEW sc, NEW x, x = First(now)
  PROVE  LoopAt(sc, now, x, 0, FALSE, N!Date(x).year + YearsAhead)
<1>1. x \in Nat
  <2>1. now \in Nat
    BY DEF TimesRight, NowsRight
  <2> QED
    BY <2>1 DEF First
<1>2. InCalendar(x) /\ N!Date(x) = Calendar[Day(x)]
  BY <1>1 DEF TimesRight, NowsRight, InCalendar, N!Date, Day
<1>3. x..(x - 1) = {}
  BY <1>1
<1> QED
  BY <1>1, <1>2, <1>3 DEF LoopAt

(* A field that has one of its values is left for the next smaller one.    *)
LEMMA LoopGoesOn ==
  ASSUME NEW sc, NEW now, NEW x, NEW l \in 0..4, NEW moved, NEW limit, LoopAt(sc, now, x, l, moved, limit),
         l # 0 => Has(sc, l, x), l = 0 => N!Date(x).year <= limit
  PROVE  LoopAt(sc, now, x, l + 1, moved, limit)
<1>1. \A i \in 1..5 : i < l + 1 => Has(sc, i, x)
  <2> SUFFICES ASSUME NEW i \in 1..5, i < l + 1 PROVE Has(sc, i, x)
    OBVIOUS
  <2>1. i < l \/ i = l
    OBVIOUS
  <2> QED
    BY <2>1 DEF LoopAt
<1>2. l + 1 \in 0..5 /\ N!Date(x).year <= limit
  BY DEF LoopAt
<1> QED
  BY <1>1, <1>2 DEF LoopAt

(* What Next returns from its loop (spec.go:71-76, 144).                   *)
IsFirst(e, st, nx) ==
  LET first == st.now \div 2 + 1
      In(s) == N!Date(s).year <= N!Date(first).year + YearsAhead /\ N!Meets(e, st.parser, s)
  IN  IF nx = None THEN \A s \in first..(Len(Calendar) * N!PerDay - 1) : ~In(s)
      ELSE nx >= first /\ In(nx) /\ \A s \in first..(nx - 1) : ~In(s)

(* The time that all fields have is the first (spec.go:144).               *)
LEMMA TimeFound ==
  ASSUME TimesRight, spec \in Specs, spec.kind # "every", ParsedBy(start.parser),
         LoopAt(schedule, start.now, t, 5, added, yearLimit), Has(schedule, 5, t)
  PROVE  IsFirst(spec, start, t)
<1> USE DEF TimesRight
<1> DEFINE first == start.now \div 2 + 1
<1>1. /\ start.now \in Nows /\ t \in Nat /\ InCalendar(t) /\ first <= t /\ N!Date(t).year <= yearLimit
      /\ yearLimit = N!Date(first).year + YearsAhead
      /\ \A s \in first..(t - 1) : ~Wanted(schedule, s)
      /\ \A i \in 1..5 : i < 5 => Has(schedule, i, t)
  BY DEF LoopAt, First, Day, N!Date
<1>2. first \in Nat
  <2>1. PICK n \in Nat : n = start.now
    BY <1>1 DEF NowsRight
  <2>2. n \div 2 \in Nat
    OBVIOUS
  <2> QED
    BY <2>1, <2>2
<1>3. \A s : InCalendar(s) => (N!Meets(spec, start.parser, s) <=> Wanted(schedule, s))
  BY MeetsMatches DEF Wanted, Has
<1>4. Wanted(schedule, t)
  <2> SUFFICES ASSUME NEW i \in 1..5 PROVE Has(schedule, i, t)
    BY DEF Wanted
  <2>1. i = 5 \/ i < 5
    OBVIOUS
  <2> QED
    BY <1>1, <2>1
<1>5. N!Meets(spec, start.parser, t)
  BY <1>1, <1>3, <1>4
<1>6. ASSUME NEW s \in first..(t - 1) PROVE ~N!Meets(spec, start.parser, s)
  <2>1. s \in Nat /\ s <= t
    BY <1>1, <1>2
  <2>2. InCalendar(s)
    BY <1>1, <2>1, Earlier
  <2> QED
    BY <1>1, <1>3, <2>2
<1>7. t # None
  BY <1>1
<1> HIDE DEF first
<1>8. N!Date(t).year <= N!Date(first).year + YearsAhead /\ t >= first
  BY <1>1, <1>2
<1> QED
  BY <1>5, <1>6, <1>7, <1>8 DEF IsFirst, first

(* Past the last year there was none (spec.go:74-76).                      *)
LEMMA NoTimeFound ==
  ASSUME TimesRight, spec \in Specs, spec.kind # "every", ParsedBy(start.parser),
         LoopAt(schedule, start.now, t, 0, added, yearLimit), ~(N!Date(t).year <= yearLimit)
  PROVE  IsFirst(spec, start, None)
<1> USE DEF TimesRight
<1> DEFINE first == start.now \div 2 + 1
<1>1. /\ start.now \in Nows /\ t \in Nat /\ InCalendar(t) /\ first <= t
      /\ yearLimit = N!Date(first).year + YearsAhead
      /\ \A s \in first..(t - 1) : ~Wanted(schedule, s)
  BY DEF LoopAt, First, Day, N!Date
<1>2. first \in Nat
  <2>1. PICK n \in Nat : n = start.now
    BY <1>1 DEF NowsRight
  <2>2. n \div 2 \in Nat
    OBVIOUS
  <2> QED
    BY <2>1, <2>2
<1>3. PICK p \in Nat \ {0}, n \in Nat : p = N!PerDay /\ n = Len(Calendar) /\ DOMAIN Calendar = 1..n
  BY Lengths, CalendarDays
<1>4. ASSUME NEW s \in first..(n * p - 1)
      PROVE  ~(N!Date(s).year <= N!Date(first).year + YearsAhead /\ N!Meets(spec, start.parser, s))
  <2>1. n * p \in Nat /\ n * p = p * n
    OBVIOUS
  <2>2. s \in Nat /\ s < p * n
    BY <1>2, <2>1
  <2>8. s \in Nat
    BY <2>2
  <2>3. PICK q \in Nat, r \in 0..(p - 1) : q = s \div p /\ s = p * q + r
    BY <2>8, Division
  <2>4. q < n
    <3>1. ~(n < q)
      <4>1. n < q => p * n + p <= p * q
        BY Multiples
      <4>2. p * n \in Nat /\ p * q \in Nat
        OBVIOUS
      <4> QED
        BY <2>2, <2>3, <4>1, <4>2
    <3>2. q # n
      BY <2>2, <2>3
    <3> QED
      BY <3>1, <3>2
  <2>5. InCalendar(s)
    <3>1. q + 1 \in 1..n
      BY <2>4
    <3> QED
      BY <1>3, <2>2, <2>3, <3>1 DEF InCalendar, Day
  <2>6. CASE s < t
    <3>1. s \in first..(t - 1)
      BY <1>1, <1>2, <2>2, <2>6
    <3>2. ~Wanted(schedule, s)
      BY <1>1, <3>1
    <3> QED
      BY <2>5, <3>2, MeetsMatches DEF Wanted, Has
  <2>7. CASE t <= s
    <3>1. N!Date(t).year <= N!Date(s).year
      BY <1>1, <2>5, <2>7, Earlier
    <3>2. PICK c, d, e \in DOMAIN Calendar : N!Date(t) = Calendar[c] /\ N!Date(s) = Calendar[d] /\ N!Date(first) = Calendar[e]
      <4>1. Day(first) \in DOMAIN Calendar
        BY <1>1 DEF NowsRight, First
      <4> QED
        BY <1>1, <2>5, <4>1 DEF InCalendar, N!Date, Day
    <3>3. N!Date(t).year \in Int /\ N!Date(s).year \in Int /\ yearLimit \in Int
      BY <1>1, <3>2, CalendarDays DEF NowsRight
    <3>4. ~(N!Date(s).year <= yearLimit)
      BY <3>1, <3>3
    <3> QED
      BY <1>1, <3>4
  <2> QED
    BY <1>1, <2>2, <2>6, <2>7
<1> HIDE DEF first
<1> QED
  BY <1>3, <1>4 DEF IsFirst, first

(* An expression to parse is where the invariant starts.                   *)
LEMMA TimeInit == N!Init => TimeInv
BY DEF N!Init, TimeInv

(* Every step keeps the invariant: parsing, the first lines of Next, WRAP  *)
(* and each field of its loop.                                             *)
LEMMA TimeNext ==
  ASSUME TimesRight, TimeInv, [N!Next]_N!vars PROVE TimeInv'
<1>1. N!NextIsFirst <=>
        (pc = "done" /\ schedule # None =>
           IF spec.kind = "every" THEN next = start.now \div 2 + (IF spec.delay < 2 THEN 1 ELSE spec.delay \div 2)
           ELSE IsFirst(spec, start, next))
  BY DEF N!NextIsFirst, IsFirst
<1>2. N!NextIsFirst' <=>
        (pc' = "done" /\ schedule' # None =>
           IF spec'.kind = "every" THEN next' = start'.now \div 2 + (IF spec'.delay < 2 THEN 1 ELSE spec'.delay \div 2)
           ELSE IsFirst(spec', start', next'))
  BY DEF N!NextIsFirst, IsFirst
<1>3. ASSUME NEW p \in Parsers, N!Parse(p) PROVE TimeInv'
  <2>1. pc = "parse" /\ next = None /\ level = 0 /\ spec \in Specs
    BY <1>3 DEF TimeInv, N!Parse
  <2>2. start' = p /\ spec' = spec /\ next' = next /\ level' = level
    BY <1>3 DEF N!Parse
  <2>3. CASE spec.kind = "every" /\ schedule' = [delay |-> N!Every(spec.delay)] /\ pc' = "now"
    BY <2>1, <2>2, <2>3 DEF TimeInv
  <2>4. CASE spec.kind # "every" /\ schedule' = None /\ pc' = "done"
    <3>1. N!NextIsFirst'
      BY <1>2, <2>4
    <3> QED
      BY <2>1, <2>2, <2>4, <3>1 DEF TimeInv
  <2>5. CASE /\ spec.kind # "every" /\ N!Valid(N!Fields(spec, p)) /\ pc' = "now"
             /\ schedule' = [place \in N!Range(N!Places) |-> N!GetField(N!Fields(spec, p)[place], Bounds[place])]
    <3>1. ParsedBy(start)'
      BY <2>2, <2>5 DEF ParsedBy
    <3> QED
      BY <2>1, <2>2, <2>5, <3>1 DEF TimeInv
  <2> QED
    BY <1>3, <2>3, <2>4, <2>5 DEF N!Parse
<1>4. ASSUME NEW now \in Nows, N!Start(now) PROVE TimeInv'
  <2>1. pc = "now" /\ next = None /\ spec \in Specs /\ spec' = spec /\ schedule' = schedule /\ level' = level
    BY <1>4 DEF TimeInv, N!Start
  <2>2. start' = [parser |-> start, now |-> now]
    BY <1>4 DEF N!Start
  <2>3. start'.now = now /\ start'.parser = start
    BY <2>2
  <2>4. CASE spec.kind = "every" /\ next' = now \div 2 + schedule.delay /\ pc' = "done"
    <3>1. schedule.delay = N!Every(spec.delay)
      BY <2>1, <2>4 DEF TimeInv
    <3>2. next' = now \div 2 + (IF spec.delay < 2 THEN 1 ELSE spec.delay \div 2)
      BY <2>4, <3>1 DEF N!Every
    <3>3. N!NextIsFirst'
      BY <1>2, <2>1, <2>3, <2>4, <3>2
    <3> QED
      BY <2>1, <2>4, <3>3 DEF TimeInv
  <2>5. CASE /\ spec.kind # "every" /\ pc' = "loop" /\ next' = next /\ added' = FALSE
             /\ t' = now \div 2 + 1 /\ yearLimit' = N!Date(t').year + YearsAhead
    <3>1. ParsedBy(start) /\ level = 0
      BY <2>1, <2>5 DEF TimeInv
    <3>2. ParsedBy(start.parser)'
      BY <2>1, <2>3, <3>1 DEF ParsedBy
    <3>3. PICK x : x = t' /\ x = First(now)
      BY <2>5 DEF First
    <3>4. LoopAt(schedule, now, x, 0, FALSE, N!Date(x).year + YearsAhead)
      BY <3>3, LoopStarts
    <3>5. yearLimit' = N!Date(x).year + YearsAhead
      BY <2>5, <3>3
    <3>6. LoopAt(schedule, start.now, t, level, added, yearLimit)'
      BY <2>1, <2>3, <2>5, <3>1, <3>3, <3>4, <3>5
    <3> QED
      BY <2>1, <2>5, <3>2, <3>6 DEF TimeInv
  <2> QED
    BY <1>4, <2>4, <2>5 DEF N!Start
<1>5. CASE N!Wrap
  <2>1. /\ spec \in Specs /\ spec.kind # "every" /\ ParsedBy(start.parser) /\ next = None /\ level = 0 /\ pc = "loop"
        /\ LoopAt(schedule, start.now, t, 0, added, yearLimit)
    BY <1>5 DEF TimeInv, N!Wrap
  <2>2. /\ spec' = spec /\ schedule' = schedule /\ start' = start /\ t' = t /\ added' = added
        /\ yearLimit' = yearLimit /\ next' = next
    BY <1>5 DEF N!Wrap
  <2>3. PICK c \in DOMAIN Calendar, d \in DOMAIN Calendar :
          N!Date(t) = Calendar[c] /\ yearLimit = Calendar[d].year + YearsAhead
    BY <2>1 DEF LoopAt, InCalendar, N!Date, Day, First, TimesRight, NowsRight
  <2>4. N!Date(t).year \in Int /\ yearLimit \in Int
    BY <2>3, CalendarDays DEF TimesRight, NowsRight
  <2>5. CASE N!Date(t).year > yearLimit
    <3>1. pc' = "done"
      BY <1>5, <2>5 DEF N!Wrap
    <3>2. ~(N!Date(t).year <= yearLimit)
      BY <2>4, <2>5
    <3>3. IsFirst(spec, start, None)
      BY <2>1, <3>2, NoTimeFound
    <3>4. N!NextIsFirst'
      BY <1>2, <2>1, <2>2, <3>3
    <3> QED
      BY <2>1, <2>2, <3>1, <3>4 DEF TimeInv
  <2>6. CASE ~(N!Date(t).year > yearLimit)
    <3>1. level' = 1 /\ pc' = "loop"
      BY <1>5, <2>1, <2>6 DEF N!Wrap
    <3>2. N!Date(t).year <= yearLimit
      BY <2>4, <2>6
    <3>3. LoopAt(schedule, start.now, t, 0 + 1, added, yearLimit)
      BY <2>1, <3>2, LoopGoesOn
    <3>4. LoopAt(schedule, start.now, t, level, added, yearLimit)'
      BY <2>2, <3>1, <3>3
    <3>5. ParsedBy(start.parser)'
      BY <2>1, <2>2 DEF ParsedBy
    <3> QED
      BY <2>1, <2>2, <3>1, <3>4, <3>5 DEF TimeInv
  <2> QED
    BY <2>5, <2>6
<1>6. ASSUME NEW l \in 1..5, N!Field(l) PROVE TimeInv'
  <2>1. /\ spec \in Specs /\ spec.kind # "every" /\ ParsedBy(start.parser) /\ next = None /\ level = l /\ pc = "loop"
        /\ LoopAt(schedule, start.now, t, l, added, yearLimit)
    BY <1>6 DEF TimeInv, N!Field
  <2>2. spec' = spec /\ schedule' = schedule /\ start' = start /\ yearLimit' = yearLimit
    BY <1>6 DEF N!Field
  <2>3. ParsedBy(start.parser)'
    BY <2>1, <2>2 DEF ParsedBy
  <2>4. CASE N!Matches(N!Loops[l], schedule, t)
    <3>1. Has(schedule, l, t)
      BY <2>4 DEF Has
    <3>2. t' = t /\ added' = added
      BY <1>6, <2>4 DEF N!Field
    <3>3. CASE l = 5
      <4>1. pc' = "done" /\ next' = t
        BY <1>6, <2>4, <3>3, LoopsAre DEF N!Field
      <4>2. IsFirst(spec, start, t)
        BY <2>1, <3>1, <3>3, TimeFound
      <4>3. N!NextIsFirst'
        BY <1>2, <2>1, <2>2, <4>1, <4>2
      <4> QED
        BY <2>1, <2>2, <4>1, <4>3 DEF TimeInv
    <3>4. CASE l # 5
      <4>1. level' = l + 1 /\ pc' = pc /\ next' = next
        BY <1>6, <2>4, <3>4, LoopsAre DEF N!Field
      <4>2. l \in 0..4
        BY <3>4
      <4>3. LoopAt(schedule, start.now, t, l + 1, added, yearLimit)
        BY <2>1, <3>1, <4>2, LoopGoesOn
      <4>4. LoopAt(schedule, start.now, t, level, added, yearLimit)'
        BY <2>2, <3>2, <4>1, <4>3
      <4> QED
        BY <2>1, <2>2, <2>3, <4>1, <4>4 DEF TimeInv
    <3> QED
      BY <3>3, <3>4
  <2>5. CASE ~N!Matches(N!Loops[l], schedule, t)
    <3>1. PICK from : from = From(l, t, added) /\ from = IF added THEN t ELSE N!Floor(N!Loops[l], t)
      BY DEF From
    <3>2. PICK e : e = Turned(l, from) /\ e = from + N!Unit(N!Loops[l], from)
      BY DEF Turned
    <3>3. PICK k : k = Back(l, e) /\ k = IF N!Wrapped(N!Loops[l], e) THEN 0 ELSE l
      BY DEF Back
    <3>4. t' = e /\ added' = TRUE /\ pc' = pc /\ next' = next
      BY <1>6, <2>5, <3>1, <3>2 DEF N!Field
    <3>5. level' = IF N!Wrapped(N!Loops[l], t') THEN 0 ELSE l
      BY <1>6, <2>5 DEF N!Field
    <3>6. level' = k
      BY <3>3, <3>4, <3>5
    <3>7. ~Has(schedule, l, t)
      BY <2>5 DEF Has
    <3>8. LoopAt(schedule, start.now, e, k, TRUE, yearLimit)
      <4>1. PICK sc, now, x, moved, limit : sc = schedule /\ now = start.now /\ x = t /\ moved = added /\ limit = yearLimit
        OBVIOUS
      <4>2. LoopAt(sc, now, Turned(l, From(l, x, moved)), Back(l, Turned(l, From(l, x, moved))), TRUE, limit)
        BY <2>1, <3>7, <4>1, LoopTurns
      <4> QED
        BY <3>1, <3>2, <3>3, <4>1, <4>2
    <3>9. LoopAt(schedule, start.now, t, level, added, yearLimit)'
      BY <2>2, <3>4, <3>6, <3>8
    <3> QED
      BY <2>1, <2>2, <2>3, <3>4, <3>9 DEF TimeInv
  <2> QED
    BY <2>4, <2>5
<1>7. CASE UNCHANGED N!vars
  <2>1. /\ spec' = spec /\ schedule' = schedule /\ start' = start /\ t' = t /\ added' = added
        /\ yearLimit' = yearLimit /\ pc' = pc /\ level' = level /\ next' = next
    BY <1>7 DEF N!vars
  <2>2. N!NextIsFirst' <=> N!NextIsFirst
    BY <1>1, <1>2, <2>1
  <2>3. ParsedBy(start)' <=> ParsedBy(start)
    BY <2>1 DEF ParsedBy
  <2>4. ParsedBy(start.parser)' <=> ParsedBy(start.parser)
    BY <2>1 DEF ParsedBy
  <2>5. LoopAt(schedule, start.now, t, level, added, yearLimit)' <=> LoopAt(schedule, start.now, t, level, added, yearLimit)
    BY <2>1
  <2> QED
    BY <2>1, <2>2, <2>3, <2>4, <2>5 DEF TimeInv
<1> QED
  BY <1>3, <1>4, <1>5, <1>6, <1>7 DEF N!Next

(* Next returns the first second after now that its expression means, or   *)
(* none when there is none in the years it looks at, for any expression,   *)
(* bounds and calendar (spec.go Next, parser.go, constantdelay.go).        *)
THEOREM FirstTime ==
  ASSUME TimesRight PROVE N!Spec => []N!NextIsFirst
<1>1. TimeInv => N!NextIsFirst
  BY DEF TimeInv, N!NextIsFirst
<1>2. N!Init => TimeInv
  BY TimeInit
<1>3. TimeInv /\ [N!Next]_N!vars => TimeInv'
  BY TimeNext
<1> QED
  BY <1>1, <1>2, <1>3, PTL DEF N!Spec

=============================================================================
