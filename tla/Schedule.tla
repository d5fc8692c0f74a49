------------------------------ MODULE Schedule ------------------------------
(***************************************************************************)
(* When a cron job runs next: a crontab expression is parsed to one set of *)
(* values per field, and Next moves a time forward, the largest unit       *)
(* first, until every field has one of its values.                         *)
(*                                                                         *)
(* Text is not modelled: a field is a sequence of ranges.  The calendar is *)
(* a sequence of days, so that a year can be short; Next's own arithmetic  *)
(* on times (time.Date, AddDate, Add, Truncate) is translated.  The zone   *)
(* has no transitions.                                                     *)
(***************************************************************************)
EXTENDS Integers, Sequences, FiniteSetsExt, Functions

CONSTANTS Bounds,      \* of each place, [min, max]
          Calendar,    \* the days: [year, month, day, weekday]
          YearsAhead,  \* how far Next looks
          Parsers,     \* the sets of places an expression may give
          Specs,       \* expressions
          Nows,        \* times to start from, in half seconds
          Star, None

VARIABLES spec,      \* the expression
          schedule,  \* what it was parsed to: a set of values and the star bit for each place, or a delay
          start,     \* the argument of Next
          t,         \* its variable
          added, yearLimit,
          pc,        \* parse, now, loop, done
          level,     \* of the loop: 0 (WRAP) or the number of a field
          next       \* what it returns; None: the zero time

vars == <<spec, schedule, start, t, added, yearLimit, pc, level, next>>

Places == <<"second", "minute", "hour", "dom", "month", "dow">>
Loops == <<"month", "day", "hour", "minute", "second">>

PerMinute == Bounds["second"].max + 1
PerHour == PerMinute * (Bounds["minute"].max + 1)
PerDay == PerHour * (Bounds["hour"].max + 1)

Date(s) == Calendar[s \div PerDay + 1]
Value(place, s) ==
  CASE place = "second" -> s % PerMinute
    [] place = "minute" -> (s % PerHour) \div PerMinute
    [] place = "hour" -> (s % PerDay) \div PerHour
    [] place = "dom" -> Date(s).day
    [] place = "month" -> Date(s).month
    [] place = "dow" -> Date(s).weekday

-----------------------------------------------------------------------------
(* Parsing *)

(* A range: [low, high, step], where low may be Star and high and step may *)
(* be left out.                                                            *)
Low(r, b) == IF r.low = Star THEN b.min ELSE r.low
High(r, b) == IF r.low = Star \/ (r.high = None /\ r.step # None) THEN b.max
              ELSE IF r.high = None THEN r.low ELSE r.high
Step(r) == IF r.step = None THEN 1 ELSE r.step

RangeOK(r, b) == Low(r, b) >= b.min /\ High(r, b) <= b.max /\ Low(r, b) <= High(r, b) /\ Step(r) # 0
GetBits(low, high, step) == {low + i * step : i \in 0..((high - low) \div step)}

GetField(f, b) ==
  [values |-> UNION {GetBits(Low(r, b), High(r, b), Step(r)) : r \in Range(f)},
   star |-> \E r \in Range(f) : r.low = Star]

AnyValue == <<[low |-> Star, high |-> None, step |-> None]>>
Only(v) == <<[low |-> v, high |-> None, step |-> None]>>
Default(place) == IF place \in {"second", "minute", "hour"} THEN Only(0) ELSE AnyValue

(* expandFields: the fields are those of the parser's places in order; the *)
(* last may be missing where the day of the week is optional.              *)
Given(p) == SelectSeq(Places, LAMBDA place : place \in p.places)
Expand(fields, p) ==
  [place \in Range(Places) |->
     LET i == {j \in DOMAIN fields : Given(p)[j] = place}
     IN  IF i = {} THEN Default(place) ELSE fields[Max(i)]]

Counted(fields, p) == Len(fields) <= Len(Given(p)) /\ Len(fields) >= Len(Given(p)) - (IF p.optional THEN 1 ELSE 0)

(* parseDescriptor: from the smallest place on, the first value or any.    *)
Descriptors == [yearly |-> {"month", "dom", "hour", "minute", "second"}, monthly |-> {"dom", "hour", "minute", "second"},
                weekly |-> {"dow", "hour", "minute", "second"}, daily |-> {"hour", "minute", "second"}, hourly |-> {"minute", "second"}]
Described(d) == [place \in Range(Places) |-> IF place \in Descriptors[d] THEN Only(Bounds[place].min) ELSE AnyValue]

Fields(s, p) == IF s.kind = "fields" THEN Expand(s.fields, p) ELSE Described(s.name)
Valid(fs) == \A place \in Range(Places) : \A r \in Range(fs[place]) : RangeOK(r, Bounds[place])

(* Every: a delay of at least a second, in whole seconds.                  *)
Every(d) == IF d < 2 THEN 1 ELSE d \div 2

-----------------------------------------------------------------------------
(* Faulty variants of definitions below, for the mutants of the runs.      *)

(* The smaller units are kept when a larger one moves.                     *)
FloorNothing(l, s) == s

-----------------------------------------------------------------------------
(* Next *)

DayMatches(sc, s) ==
  LET dom == Value("dom", s) \in sc.dom.values
      dow == Value("dow", s) \in sc.dow.values
  IN  IF sc.dom.star \/ sc.dow.star THEN dom /\ dow ELSE dom \/ dow

Matches(l, sc, s) == IF l = "day" THEN DayMatches(sc, s) ELSE Value(l, s) \in sc[l].values

(* time.Date with the smaller units at their first value, Truncate.        *)
Floor(l, s) ==
  CASE l = "month" -> s - (Date(s).day - 1) * PerDay - (s % PerDay)
    [] l = "day" -> s - (s % PerDay)
    [] l = "hour" -> s - (s % PerHour)
    [] l = "minute" -> s - (s % PerMinute)
    [] l = "second" -> s

DaysInMonth(s) == Cardinality({d \in DOMAIN Calendar : Calendar[d].year = Date(s).year /\ Calendar[d].month = Date(s).month})
Unit(l, s) ==
  CASE l = "month" -> DaysInMonth(s) * PerDay [] l = "day" -> PerDay [] l = "hour" -> PerHour
    [] l = "minute" -> PerMinute [] l = "second" -> 1

Wrapped(l, s) ==
  CASE l = "month" -> Date(s).month = Bounds["month"].min [] l = "day" -> Date(s).day = 1 [] OTHER -> Value(l, s) = 0

-----------------------------------------------------------------------------

Init ==
  /\ spec \in Specs
  /\ schedule = None /\ start = None /\ t = None /\ added = FALSE /\ yearLimit = None
  /\ pc = "parse" /\ level = 0 /\ next = None

Parse(p) ==
  /\ pc = "parse"
  /\ \/ /\ spec.kind = "every"
        /\ schedule' = [delay |-> Every(spec.delay)] /\ pc' = "now"
     \/ /\ spec.kind # "every"
        /\ LET ok == (spec.kind = "fields" => Counted(spec.fields, p)) /\ Valid(Fields(spec, p))
           IN  /\ schedule' = IF ok THEN [place \in Range(Places) |-> GetField(Fields(spec, p)[place], Bounds[place])] ELSE None
               /\ pc' = IF ok THEN "now" ELSE "done"
  /\ start' = p   \* until Next is called: the parser
  /\ UNCHANGED <<spec, t, added, yearLimit, level, next>>

(* Next of a ConstantDelaySchedule, or the first lines of that of a        *)
(* SpecSchedule: the second after now.                                     *)
Start(now) ==
  /\ pc = "now"
  /\ \/ /\ spec.kind = "every"
        /\ next' = now \div 2 + schedule.delay /\ pc' = "done"
        /\ UNCHANGED <<spec, schedule, t, added, yearLimit>>
     \/ /\ spec.kind # "every"
        /\ t' = now \div 2 + 1 /\ added' = FALSE /\ yearLimit' = Date(t').year + YearsAhead
        /\ pc' = "loop"
        /\ UNCHANGED <<spec, schedule, next>>
  /\ start' = [parser |-> start, now |-> now] /\ UNCHANGED level

Wrap ==
  /\ pc = "loop" /\ level = 0
  /\ IF Date(t).year > yearLimit THEN pc' = "done" /\ UNCHANGED level
     ELSE level' = 1 /\ UNCHANGED pc
  /\ UNCHANGED <<spec, schedule, start, t, added, yearLimit, next>>

(* One turn of the loop of a field, or the way on to the next one.         *)
Field(l) ==
  /\ pc = "loop" /\ level = l
  /\ IF Matches(Loops[l], schedule, t)
     THEN /\ IF l = Len(Loops) THEN pc' = "done" /\ next' = t /\ UNCHANGED level
             ELSE level' = l + 1 /\ UNCHANGED <<pc, next>>
          /\ UNCHANGED <<t, added>>
     ELSE /\ LET from == IF added THEN t ELSE Floor(Loops[l], t)
             IN  t' = from + Unit(Loops[l], from)
          /\ added' = TRUE
          /\ level' = IF Wrapped(Loops[l], t') THEN 0 ELSE l
          /\ UNCHANGED <<pc, next>>
  /\ UNCHANGED <<spec, schedule, start, yearLimit>>

Next == (\E p \in Parsers : Parse(p)) \/ (\E now \in Nows : Start(now)) \/ Wrap \/ (\E l \in 1..5 : Field(l))

Spec == Init /\ [][Next]_vars

-----------------------------------------------------------------------------
(* Properties *)

(* What a field of an expression means: some range has the value, counted  *)
(* from its lower end in steps.                                            *)
Means(f, b, v) == \E r \in Range(f) : Low(r, b) <= v /\ v <= High(r, b) /\ (v - Low(r, b)) % Step(r) = 0
Free(f) == \E r \in Range(f) : r.low = Star

Meets(s, p, at) ==
  LET fs == Fields(s, p)
      Met(place) == Means(fs[place], Bounds[place], Value(place, at))
  IN  /\ \A place \in {"second", "minute", "hour", "month"} : Met(place)
      /\ Met("dom") \/ Met("dow")
      /\ Free(fs["dom"]) \/ Free(fs["dow"]) => Met("dom") /\ Met("dow")

(* Next returns the first second after now that meets the expression, or   *)
(* the zero time when there is none up to the end of the fifth year after  *)
(* it; a delay is counted from the second that has begun (spec.go Next,    *)
(* constantdelay.go Next).                                                 *)
NextIsFirst ==
  pc = "done" /\ schedule # None =>
    IF spec.kind = "every" THEN next = start.now \div 2 + (IF spec.delay < 2 THEN 1 ELSE spec.delay \div 2)
    ELSE LET first == start.now \div 2 + 1
             In(s) == Date(s).year <= Date(first).year + YearsAhead /\ Meets(spec, start.parser, s)
         IN  IF next = None THEN \A s \in first..(Len(Calendar) * PerDay - 1) : ~In(s)
             ELSE next >= first /\ In(next) /\ \A s \in first..(next - 1) : ~In(s)
=============================================================================
