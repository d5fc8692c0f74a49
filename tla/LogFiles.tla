------------------------------ MODULE LogFiles ------------------------------
(***************************************************************************)
(* The files of file log writers: the goroutine of each writes records to  *)
(* its current file, which is rotated when it is full or of another day;   *)
(* every rotation starts a goroutine that removes old files, among them    *)
(* those of writers whose file name begins with that of its own.           *)
(***************************************************************************)
EXTENDS Naturals, Sequences, FiniteSetsExt, Functions

CONSTANTS Writers,
          Prefixes,    \* for each writer, those whose file name begins with its own, it included
          Configs,     \* for each writer, [daily, maxsize, maxdays]
          MaxNumber,   \* rotated files of a day
          DayLength,   \* seconds
          MonthLength, \* days
          Sizes,       \* of messages
          MaxTime,     \* bound: of the clock
          MaxWrites,   \* bound: records
          None

VARIABLES cfg, now,
          files,    \* by name: [recs, mtime]; a name is [of, day, num], num 0 that of the current file
          curSize, openDay,
          linked,   \* writers whose open file has its name still
          alive,    \* writers whose goroutine runs
          sweeps,   \* the goroutines that remove old files: [by, n, at, left, old], left {None} at first
          written,  \* history: every record, [of, n, at]
          overrun   \* history: writers that had all numbers of a day in use, or a file removed twice

vars == <<cfg, now, files, curSize, openDay, linked, alive, sweeps, written, overrun>>

Day(t) == t \div DayLength
Current(w) == [of |-> w, day |-> 0, num |-> 0]
Drop(f, name) == [x \in DOMAIN f \ {name} |-> f[x]]
Put(f, name, file) == [x \in DOMAIN f \cup {name} |-> IF x = name THEN file ELSE f[x]]

Init ==
  /\ cfg \in Configs
  /\ now = 0
  /\ files = [name \in {Current(w) : w \in Writers} |-> [recs |-> {}, mtime |-> 0]]
  /\ curSize = [w \in Writers |-> 0] /\ openDay = [w \in Writers |-> 0]
  /\ linked = Writers /\ alive = Writers
  /\ sweeps = {} /\ written = {} /\ overrun = {}

-----------------------------------------------------------------------------
(* Faulty variants of definitions below, for the mutants of the runs.      *)

(* The first number of the day is taken, free or not.                      *)
NumberOne(w) == 1

-----------------------------------------------------------------------------

(* check: days are those of the month.                                     *)
Full(w, m) ==
  \/ cfg[w].maxsize > 0 /\ curSize[w] + m > cfg[w].maxsize
  \/ cfg[w].daily /\ openDay[w] # Day(now) % MonthLength

(* The first free number of today; without one, the last.                  *)
Free(w) == {n \in 1..MaxNumber : [of |-> w, day |-> Day(now), num |-> n] \notin DOMAIN files}
Number(w) == IF Free(w) = {} THEN MaxNumber ELSE Min(Free(w))

New(w) == [of |-> w, n |-> Cardinality(written) + 1, at |-> now]
Added(file, r) == [recs |-> file.recs \cup {r}, mtime |-> now]

Write(w, m) ==
  /\ w \in alive /\ ~Full(w, m)
  /\ curSize' = [curSize EXCEPT ![w] = @ + m]
  /\ files' = IF w \in linked THEN [files EXCEPT ![Current(w)] = Added(@, New(w))] ELSE files
  /\ written' = written \cup {New(w)}
  /\ UNCHANGED <<cfg, now, openDay, linked, alive, sweeps, overrun>>

(* rotate; the record that made it is not counted in the new file's size.  *)
(* A file that has lost its name cannot be renamed: the goroutine ends.    *)
Rotate(w, m) ==
  /\ w \in alive /\ Full(w, m)
  /\ IF w \in linked
     THEN LET name == [of |-> w, day |-> Day(now), num |-> Number(w)]
          IN  /\ files' = Put(Put(files, name, files[Current(w)]), Current(w), [recs |-> {New(w)}, mtime |-> now])
              /\ curSize' = [curSize EXCEPT ![w] = 0]
              /\ openDay' = [openDay EXCEPT ![w] = Day(now) % MonthLength]
              /\ sweeps' = sweeps \cup {[by |-> w, n |-> Cardinality(written), at |-> now, left |-> {None}, old |-> None]}
              /\ written' = written \cup {New(w)}
              /\ overrun' = IF Free(w) = {} THEN overrun \cup {w} ELSE overrun
              /\ UNCHANGED alive
     ELSE /\ alive' = alive \ {w}
          /\ UNCHANGED <<files, curSize, openDay, sweeps, written, overrun>>
  /\ UNCHANGED <<cfg, now, linked>>

WriteFails(w) ==
  /\ w \in alive
  /\ alive' = alive \ {w}
  /\ UNCHANGED <<cfg, now, files, curSize, openDay, linked, sweeps, written, overrun>>

-----------------------------------------------------------------------------
(* deleteOldFiles: lists the directory, looks at every file with the       *)
(* prefix, in the order of their names, and removes it by its name.  When  *)
(* two remove one, the second may find a newer file of that name.          *)

Old(by, name) == files[name].mtime + DayLength * cfg[by].maxdays < now
Before(x, y) ==
  IF x.of = y.of THEN x.day < y.day \/ (x.day = y.day /\ x.num < y.num) ELSE y.of \in Prefixes[x.of]
Become(s, t) == sweeps' = (sweeps \ {s}) \cup t

SweepList(s) ==
  /\ None \in s.left
  /\ Become(s, {[s EXCEPT !.left = {name \in DOMAIN files : name.of \in Prefixes[s.by]}]})
  /\ UNCHANGED <<cfg, now, files, curSize, openDay, linked, alive, written, overrun>>

SweepLook(s, name) ==
  /\ s.old = None /\ name \in s.left /\ \A other \in s.left : ~Before(other, name)
  /\ Become(s, {[s EXCEPT !.left = @ \ {name}, !.old = IF name \in DOMAIN files /\ Old(s.by, name) THEN name ELSE None]})
  /\ UNCHANGED <<cfg, now, files, curSize, openDay, linked, alive, written, overrun>>

SweepRemove(s) ==
  /\ s.old # None
  /\ files' = Drop(files, s.old)
  /\ linked' = {w \in linked : Current(w) # s.old}
  /\ overrun' = IF \E t \in sweeps \ {s} : t.old = s.old THEN overrun \cup {s.old.of} ELSE overrun
  /\ Become(s, {[s EXCEPT !.old = None]})
  /\ UNCHANGED <<cfg, now, curSize, openDay, alive, written>>

SweepEnd(s) ==
  /\ s.left = {} /\ s.old = None
  /\ Become(s, {})
  /\ UNCHANGED <<cfg, now, files, curSize, openDay, linked, alive, written, overrun>>

(* No goroutine takes a day to remove the files.                           *)
Tick ==
  /\ now < MaxTime
  /\ \A s \in sweeps : now + 1 < s.at + DayLength
  /\ now' = now + 1
  /\ UNCHANGED <<cfg, files, curSize, openDay, linked, alive, sweeps, written, overrun>>

Bounded == Cardinality(written) < MaxWrites
Next ==
  \/ \E w \in Writers : \/ Bounded /\ \E m \in Sizes : Write(w, m) \/ Rotate(w, m)
                        \/ WriteFails(w)
  \/ \E s \in sweeps : SweepList(s) \/ SweepRemove(s) \/ SweepEnd(s) \/ \E name \in s.left \ {None} : SweepLook(s, name)
  \/ Tick

Spec == Init /\ [][Next]_vars

-----------------------------------------------------------------------------
(* Properties *)

TypeOK ==
  /\ cfg \in Configs /\ now \in 0..MaxTime /\ linked \subseteq Writers /\ alive \subseteq Writers
  /\ \A name \in DOMAIN files : files[name].recs \subseteq written

(* A writer that keeps files some days, and whose file name does not begin *)
(* with another's, which may be given fewer.                               *)
Keeps(w) == cfg[w].maxdays > 0 /\ \A v \in Writers : w \in Prefixes[v] => v = w

(* Such a writer has what it wrote on its days in a file, whatever it      *)
(* rotated and removed, as long as the numbers of a day suffice and no two *)
(* goroutines remove one file (wlog/file.go rotate, deleteOldFiles).       *)
RecordsKept ==
  \A r \in written : Keeps(r.of) /\ r.of \notin overrun /\ now <= r.at + DayLength * cfg[r.of].maxdays =>
    \E name \in DOMAIN files : r \in files[name].recs
=============================================================================
