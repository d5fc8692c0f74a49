------------------------------- MODULE Logging ------------------------------
(***************************************************************************)
(* The logger: goroutines give each record to the filters of its level,    *)
(* whose writers have a channel each and goroutines that empty it: one for *)
(* a console or a file, several for a syslog, each with a connection it    *)
(* makes again when a write fails.                                         *)
(*                                                                         *)
(* Files are those of LogFiles; here a write of theirs fails or not.       *)
(***************************************************************************)
EXTENDS Naturals, Sequences, FiniteSetsExt

CONSTANTS Senders, Threads, Levels,
          Tags,          \* filters
          Loggers,       \* for each of its filters, [type, levels]
          BufferLength,
          MaxRecords,    \* bound: of one sender
          MayFail,       \* whether writes and connections fail
          None

VARIABLES log,     \* the map of filters
          sent,    \* how many records a sender has made
          todo,    \* the filters that are to get the last one yet
          chan,    \* of a filter
          given,   \* history: the records it was given
          at,      \* of a goroutine <<f, i>>: read, write, connect, again, back, sleep, stop
          hand,    \* the record it has
          conn,    \* syslog goroutines with a connection
          written, \* history: of a filter, what was written
          twice,   \* history: filters with a record that was written twice
          dropped, \* history: records a file's goroutine stopped with
          failed   \* history: filters that had a write fail

vars == <<log, sent, todo, chan, given, at, hand, conn, written, twice, dropped, failed>>

Filters == DOMAIN log
Goroutines == {<<f, i>> : f \in Filters, i \in Threads}
Syslog(g) == log[g[1]].type = "syslog"

(* Dial panics at the start without a connection: there is one.            *)
Init ==
  /\ log \in Loggers
  /\ sent = [s \in Senders |-> 0] /\ todo = [s \in Senders |-> {}]
  /\ chan = [f \in Filters |-> <<>>] /\ given = [f \in Filters |-> {}]
  /\ at = [g \in Goroutines |-> IF Syslog(g) \/ g[2] = Min(Threads) THEN "read" ELSE "stop"]
  /\ hand = [g \in Goroutines |-> None]
  /\ conn = {g \in Goroutines : Syslog(g)}
  /\ written = [f \in Filters |-> {}] /\ twice = {}
  /\ dropped = {} /\ failed = {}

-----------------------------------------------------------------------------
(* Faulty variants of definitions below, for the mutants of the runs.      *)

(* Every goroutine ends that cannot write.                                 *)
AfterFailureStops(g) == "stop"

-----------------------------------------------------------------------------

(* Debug, Info, ...: the record, for every filter with its level.          *)
Log(s, level) ==
  /\ todo[s] = {} /\ sent[s] < MaxRecords
  /\ sent' = [sent EXCEPT ![s] = @ + 1]
  /\ todo' = [todo EXCEPT ![s] = {f \in Filters : level \in log[f].levels}]
  /\ UNCHANGED <<log, chan, given, at, hand, conn, written, twice, dropped, failed>>

(* LogWrite blocks while the channel is full.                              *)
LogWrite(s, f) ==
  /\ f \in todo[s] /\ Len(chan[f]) < BufferLength
  /\ chan' = [chan EXCEPT ![f] = Append(@, <<s, sent[s]>>)] /\ given' = [given EXCEPT ![f] = @ \cup {<<s, sent[s]>>}]
  /\ todo' = [todo EXCEPT ![s] = @ \ {f}]
  /\ UNCHANGED <<log, sent, at, hand, conn, written, twice, dropped, failed>>

-----------------------------------------------------------------------------
(* The goroutines *)

Move(g, from, to) == at[g] = from /\ at' = [at EXCEPT ![g] = to]

Read(g) ==
  /\ chan[g[1]] # <<>>
  /\ Move(g, "read", "write")
  /\ hand' = [hand EXCEPT ![g] = Head(chan[g[1]])]
  /\ chan' = [chan EXCEPT ![g[1]] = Tail(@)]
  /\ UNCHANGED <<log, sent, todo, given, conn, written, twice, dropped, failed>>

Output(g) ==
  /\ written' = [written EXCEPT ![g[1]] = @ \cup {hand[g]}]
  /\ twice' = IF hand[g] \in written[g[1]] THEN twice \cup {g[1]} ELSE twice
Written(g) == Output(g) /\ hand' = [hand EXCEPT ![g] = None]

(* A file's or a console's, or a syslog's with a connection.               *)
WriteDone(g) ==
  /\ Syslog(g) => g \in conn
  /\ Move(g, "write", "read") /\ Written(g)
  /\ UNCHANGED <<log, sent, todo, chan, given, conn, dropped, failed>>

(* The goroutine of a file ends; the console does not look.                *)
AfterFailure(g) == IF log[g[1]].type = "file" THEN "stop" ELSE "read"
WriteFails(g) ==
  /\ MayFail /\ log[g[1]].type # "syslog"
  /\ Move(g, "write", AfterFailure(g))
  /\ dropped' = dropped \cup {<<g[1], hand[g]>>} /\ failed' = failed \cup {g[1]}
  /\ hand' = [hand EXCEPT ![g] = None]
  /\ UNCHANGED <<log, sent, todo, chan, given, conn, written, twice>>

(* writeAndRetry: once more with a new connection; what failed may have    *)
(* been received.                                                          *)
SendFails(g) ==
  /\ Syslog(g) /\ g \in conn => MayFail
  /\ Syslog(g) /\ Move(g, "write", "connect")
  /\ failed' = IF g \in conn THEN failed \cup {g[1]} ELSE failed
  /\ UNCHANGED <<written, twice>> \/ (g \in conn /\ Output(g))
  /\ UNCHANGED <<log, sent, todo, chan, given, hand, conn, dropped>>

Connect(g) ==
  /\ \/ Move(g, "connect", "again") /\ conn' = conn \cup {g} /\ UNCHANGED failed
     \/ MayFail /\ Move(g, "connect", "back") /\ conn' = conn \ {g} /\ failed' = failed \cup {g[1]}
  /\ UNCHANGED <<log, sent, todo, chan, given, hand, written, twice, dropped>>

SendAgain(g) ==
  /\ \/ Move(g, "again", "read") /\ Written(g) /\ UNCHANGED failed
     \/ MayFail /\ Move(g, "again", "back") /\ failed' = failed \cup {g[1]} /\ UNCHANGED <<written, twice, hand>>
  /\ UNCHANGED <<log, sent, todo, chan, given, conn, dropped>>

(* The record goes back to the channel, behind later ones; the goroutine   *)
(* blocks while that is full.                                              *)
BackTo(f, r) == [chan EXCEPT ![f] = Append(@, r)]
Back(g) ==
  /\ Len(chan[g[1]]) < BufferLength
  /\ Move(g, "back", "sleep")
  /\ chan' = BackTo(g[1], hand[g]) /\ hand' = [hand EXCEPT ![g] = None]
  /\ UNCHANGED <<log, sent, todo, given, conn, written, twice, dropped, failed>>

Wake(g) ==
  /\ Move(g, "sleep", "read")
  /\ UNCHANGED <<log, sent, todo, chan, given, hand, conn, written, twice, dropped, failed>>

Run(g) == Read(g) \/ WriteDone(g) \/ WriteFails(g) \/ SendFails(g) \/ Connect(g) \/ SendAgain(g) \/ Back(g) \/ Wake(g)
Give(s) == \E f \in Filters : LogWrite(s, f)
Next ==
  \/ \E s \in Senders : (\E level \in Levels : Log(s, level)) \/ Give(s)
  \/ \E g \in Goroutines : Run(g)

Spec == Init /\ [][Next]_vars

(* The goroutines run; those that wait to send to a channel get it in      *)
(* turn.                                                                   *)
Fairness ==
  /\ \A s \in Senders : \A f \in Tags : SF_vars(LogWrite(s, f))
  /\ \A f \in Tags : \A i \in Threads : SF_vars(<<f, i>> \in Goroutines /\ Run(<<f, i>>))
FairSpec == Spec /\ Fairness

-----------------------------------------------------------------------------
(* Properties *)

TypeOK ==
  /\ log \in Loggers
  /\ \A f \in Filters : Len(chan[f]) <= BufferLength
  /\ \A g \in Goroutines : at[g] \in {"read", "write"} \/ (Syslog(g) /\ at[g] \in {"connect", "again", "back", "sleep"})
                             \/ (~Syslog(g) /\ at[g] = "stop")

(* A record that a filter was given is waiting, in the hands of a          *)
(* goroutine or written, and that once; when writes fail, it may be        *)
(* written twice to a syslog and is lost to a file or a console, but only  *)
(* the one that failed (wlog/syslog.go run, wlog/file.go run).             *)
Waiting(f) == {chan[f][i] : i \in DOMAIN chan[f]}
Held(f) == {hand[<<f, i>>] : i \in Threads} \ {None}
Lost(f) == {d[2] : d \in {x \in dropped : x[1] = f}}
NothingLost ==
  \A f \in Filters :
    /\ given[f] = Waiting(f) \cup Held(f) \cup written[f] \cup Lost(f)
    /\ f \notin failed => Len(chan[f]) + Cardinality(Held(f)) + Cardinality(written[f]) = Cardinality(given[f]) /\ f \notin twice

(* A goroutine that logs is not held up for ever, except by a file that    *)
(* could not be written, and by a syslog that could not while its channel  *)
(* was full: its goroutines wait to give back their records (syslog.go     *)
(* run).                                                                   *)
Stuck(f) ==
  IF log[f].type = "file" THEN at[<<f, Min(Threads)>>] = "stop"
  ELSE /\ log[f].type = "syslog" /\ Len(chan[f]) = BufferLength
       /\ \A i \in Threads : at[<<f, i>>] = "back"
SendersGoOn == \A s \in Senders : \A f \in Tags : f \in todo[s] ~> (f \notin todo[s] \/ Stuck(f))
=============================================================================
