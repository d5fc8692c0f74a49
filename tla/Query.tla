------------------------------- MODULE Query -------------------------------
(***************************************************************************)
(* What a request asks of a table: from the parameters of the URL (Init,   *)
(* query.go) over conditions (NewCondition, Merge, SetConditions) to a     *)
(* query (ReadPrepare, DoWhere, gorp's Builder) and its answer (List, Row, *)
(* GetCount behind RESTSearch, RESTGet, RESTHead).  A client reads a list  *)
(* page by page, each page a request of its own.                           *)
(*                                                                         *)
(* A WHERE clause is a set of atoms of which one must hold; one without an *)
(* atom is the "()" that no database takes.  Texts are numbers: a text is  *)
(* part of another when it is the other or one of its two digits.          *)
(***************************************************************************)
EXTENDS Integers, Sequences, FiniteSets, SequencesExt

CONSTANTS Columns,    \* the columns of the model, in order
          Opts,       \* the tags of each column
          Foreign,    \* the table in the ext tag of a column, or None
          Times,      \* the columns of type *time.Time
          Stamps,     \* values in the form of a time, 20060102150405
          Tables,     \* contents the table may have: sets of rows
          Joined,     \* the rows of the table that a column may be joined to, by id
          Queries,    \* sets of parameters
          Orderings,  \* orderby: <<>> or <<[col, sort]>>
          PerPages,   \* per_page as asked for
          Rowkeys,    \* ids asked for by GET
          Counts,     \* what the Count of a pooled model may hold
          DefPerPage, MaxPerPage,  \* _DEF_PER_PAGE, _MAX_PER_PAGE
          MaxChanges, \* bound: changes of the table by others
          None

VARIABLES rows,    \* the table
          ask,     \* the request: [kind, params, order, per, page, key], and of its model [count]
          left,    \* parameters not looked at yet, in the random order of a Go map
          env,     \* ConditionsKey: the conditions made of those looked at
          at,      \* params, count, find, answered, failed
          total,   \* List.Info.Total; what HEAD counted
          got,     \* ids of the rows given, over the pages
          shown,   \* columns given
          changes  \* number of changes by others

vars == <<rows, ask, left, env, at, total, got, shown, changes>>

Kinds == {"search", "get", "head"}
Cols == ToSet(Columns)
Has(c, tag) == tag \in Opts[c]
PK == CHOOSE c \in Cols : Has(c, "pk")
Conditional(c) == Opts[c] \cap {"pk", "uk", "k", "C"} # {}

-----------------------------------------------------------------------------
(* Conditions.  <<>> is nil, a list of values what "a,b" or a=1&a=2 gives. *)
(* times has the parts whose value has become a time.Time.                 *)

Blank == [field |-> None, is |-> <<>>, not |-> <<>>, or |-> <<>>, gt |-> <<>>, lt |-> <<>>,
          like |-> <<>>, join |-> <<>>, range |-> <<>>, order |-> <<>>, times |-> {}]
NewCondition(type, field, v) == [Blank EXCEPT !.field = field, ![type] = v]

Merge(con, oc) == [f \in DOMAIN con |-> IF f \in {"field", "times"} \/ oc[f] = <<>> THEN con[f] ELSE oc[f]]

SetParamConds(conds, con) ==
  IF \E i \in DOMAIN conds : conds[i].field = con.field
  THEN [i \in DOMAIN conds |-> IF conds[i].field = con.field THEN Merge(conds[i], con) ELSE conds[i]]
  ELSE Append(conds, con)

(* A parameter: [op, cols, vals], or [op, table, cols, vals] for "t.c".    *)
(* The "|" of several columns gives each its own condition, which knows    *)
(* the others by the text between the prefix and the "=" only.             *)
OrderOf(cols) == SelectSeq(Columns, LAMBDA c : c \in cols)

Conditions(conds, p) ==
  IF p.table # None
  THEN SetParamConds(conds, NewCondition("join", p.table, <<[col |-> CHOOSE c \in p.cols : TRUE, op |-> p.op, vals |-> p.vals]>>))
  ELSE IF Cardinality(p.cols) = 1
  THEN SetParamConds(conds, NewCondition(p.op, CHOOSE c \in p.cols : TRUE, p.vals))
  ELSE FoldLeft(LAMBDA cs, c : SetParamConds(cs, NewCondition("or", c, <<[key |-> p.cols, op |-> p.op, vals |-> p.vals]>>)),
                conds, OrderOf(p.cols))

(* getTimeRange of two days: an end that is not after the start is not one.*)
TimeRange(s, e) == <<s, IF e > s THEN e ELSE s>>

GetCondition(cs, k) ==
  LET found == SelectSeq(cs, LAMBDA c : c.field = k) IN IF found = <<>> THEN Blank ELSE found[1]

ParseCondition(col, con) ==
  IF col \in Times
  THEN [con EXCEPT !.times = {part \in {"is", "not", "gt", "lt"} : \E v \in Stamps : con[part] = <<v>>}] ELSE con

(* SetConditions, for one column: what of cs the model takes up, twice the *)
(* one condition when it is a range and more.                              *)
Taken(cs, col) ==
  LET own == GetCondition(cs, col)
      ranged == IF Has(col, "TR") /\ own.range = <<>> /\ Len(own.is) > 1
                THEN [own EXCEPT !.is = <<>>, !.range = TimeRange(own.is[1], own.is[2])] ELSE own
      asked == \E part \in {"is", "not", "gt", "lt", "like", "join", "or"} : ranged[part] # <<>>
      parsed == IF Conditional(col) /\ asked THEN ParseCondition(col, ranged) ELSE ranged
      When(b, c) == IF b THEN <<c>> ELSE <<>>
      joins == Foreign[col] # None /\ GetCondition(cs, Foreign[col]).join # <<>>
  IN  When(joins, GetCondition(cs, Foreign[col]))
        \o When(Has(col, "TR") /\ ranged.range # <<>>, parsed)
        \o When(Conditional(col) /\ asked, parsed)

SetConditions(cs) == FlattenSeq([i \in DOMAIN Columns |-> Taken(cs, Columns[i])])

(* PreGet, PreSearch and PreCheck.  The range of start and end, a          *)
(* condition of the field "TR", never makes a clause: SetConditions takes  *)
(* up an Is only, and PreSearch makes it a Range; DoWhere has no case for  *)
(* a range, and PreCheck makes it an Is.                                   *)
Pre(a, conds) ==
  (IF a.kind = "get" THEN SetConditions(<<NewCondition("is", PK, <<a.key>>)>>) ELSE <<>>) \o SetConditions(conds)

-----------------------------------------------------------------------------
(* The query *)

Part(v, x) == v = x \/ v = x % 10 \/ (x >= 10 /\ v = x \div 10)

Atom(of, col, cmp, vals) == [of |-> of, col |-> col, cmp |-> cmp, vals |-> vals]

(* DoWhere: a Not is first put in like an Is; only Lt has a case for a     *)
(* time.Time.                                                              *)
Lost(c) == c.times \ {"lt"}
DoWhere(c) ==
  LET Clause(cmp, part) == IF c[part] = <<>> \/ part \in Lost(c) THEN {} ELSE {{Atom(0, c.field, cmp, c[part])}}
  IN  Clause("in", "is") \cup Clause("in", "not") \cup Clause("notin", "not")
        \cup Clause("ge", "gt") \cup Clause("lt", "lt") \cup Clause("like", "like")

(* ReadPrepare: ranges, the clauses of each condition, joins numbered in   *)
(* order, OR conditions by the text they came from (of Is only).           *)
Joins(cons) == SelectSeq(cons, LAMBDA c : c.join # <<>> /\ c.join[1].op = "is")

OrClauses(cons) ==
  LET ors == {cons[i] : i \in {j \in DOMAIN cons : cons[j].or # <<>>}}
  IN  {{Atom(0, c.field, "in", c.or[1].vals) : c \in {d \in ors : d.or[1].key = key /\ d.or[1].op = "is"}}
         : key \in {c.or[1].key : c \in ors}}

Where(cons) ==
  UNION {DoWhere(cons[i]) : i \in DOMAIN cons}
    \cup {{Atom(0, cons[i].field, "between", cons[i].range)} : i \in {j \in DOMAIN cons : cons[j].range # <<>>}}
    \cup {{Atom(i, Joins(cons)[i].join[1].col, "in", Joins(cons)[i].join[1].vals)} : i \in DOMAIN Joins(cons)}
    \cup OrClauses(cons)
    \cup {{Atom(0, c, "notin", <<-1>>)} : c \in {d \in Cols : Has(d, "logic")}}

(* search.joins keeps the last join only: clauses of the others name a     *)
(* table that the query does not have.                                     *)
Broken(cons) ==
  \/ {} \in Where(cons)
  \/ \E clause \in Where(cons) : \E a \in clause : a.of # 0 /\ a.of # Len(Joins(cons))

(* Faulty variant: no second order by the key.                             *)
OrdersWithoutKey(order) == IF \E c \in Cols : Has(c, "O") THEN order ELSE <<>>

(* The user's order first, then the columns tagged for it, the key last.   *)
Orders(order) ==
  LET By(tag, sort) == [i \in 1..Len(SelectSeq(Columns, LAMBDA c : Has(c, tag) /\ ~Has(c, "pk"))) |->
                          [col |-> SelectSeq(Columns, LAMBDA c : Has(c, tag) /\ ~Has(c, "pk"))[i], sort |-> sort]]
      usable == IF \E c \in Cols : Has(c, "O") THEN order ELSE <<>>
  IN  usable \o By("O", "DESC") \o <<[col |-> PK, sort |-> IF Has(PK, "AO") THEN "ASC" ELSE "DESC"]>>

-----------------------------------------------------------------------------
(* The database *)

Compare(x, cmp, vals) ==
  \/ cmp = "in" /\ x \in ToSet(vals)
  \/ cmp = "notin" /\ x \notin ToSet(vals)
  \/ cmp = "ge" /\ \E v \in ToSet(vals) : x >= v
  \/ cmp = "lt" /\ \E v \in ToSet(vals) : x < v
  \/ cmp = "like" /\ \E v \in ToSet(vals) : Part(v, x)
  \/ cmp = "between" /\ vals[1] <= x /\ x <= vals[2]

Holds(cons, a, row) ==
  IF a.of = 0 THEN Compare(row[a.col], a.cmp, a.vals)
  ELSE LET id == row[Joins(cons)[a.of].field]
       IN  id \in DOMAIN Joined /\ Compare(Joined[id][a.col], a.cmp, a.vals)

Select(cons) == {row \in rows : \A clause \in Where(cons) : \E a \in clause : Holds(cons, a, row)}

(* The rows that Builder.Count counts, and GetCount, which believes the    *)
(* Count of its model: a body may have set it, and no reset clears it.     *)
CountOf(cons) == Cardinality(Select(cons))
GetCount(cons) == IF ask.count > 0 THEN ask.count ELSE CountOf(cons)

Before(orders, r, s) ==
  \E i \in DOMAIN orders :
    /\ \A j \in 1..(i - 1) : r[orders[j].col] = s[orders[j].col]
    /\ IF orders[i].sort = "ASC" THEN r[orders[i].col] < s[orders[i].col] ELSE r[orders[i].col] > s[orders[i].col]

(* Any order the database may give that respects the ORDER BY.             *)
Sorted(found, orders) ==
  {s \in SetToSeqs(found) : \A i, j \in DOMAIN s : Before(orders, s[i], s[j]) => i < j}

-----------------------------------------------------------------------------
(* A request *)

(* NewPagination *)
PerPage(n) == IF n <= 0 THEN DefPerPage ELSE IF n > MaxPerPage THEN MaxPerPage ELSE n
Offset(a) == (a.page - 1) * PerPage(a.per)

(* GetDbFields: GET reads secret columns and blanks them afterwards.       *)
GetDbFields(readTag, fields) ==
  {c \in Cols : ~Has(c, "H") /\ (readTag => ~Has(c, "S")) /\ (fields = {} \/ Has(c, "pk") \/ c \in fields)}
Protect(cols) == {c \in cols : ~Has(c, "S")}

Init ==
  /\ rows \in Tables
  /\ \E k \in Kinds, ps \in Queries, o \in Orderings, n \in PerPages, id \in Rowkeys, c \in Counts :
       /\ k # "search" => o = <<>> /\ n = 0
       /\ k # "get" => id = CHOOSE x \in Rowkeys : TRUE
       /\ k # "head" => c = 0
       /\ ask = [kind |-> k, params |-> ps, order |-> o, per |-> n, page |-> 1, key |-> id, count |-> c]
       /\ left = ps
  /\ env = <<>> /\ at = "params" /\ total = 0 /\ got = <<>> /\ shown = {} /\ changes = 0

Param(p) ==
  /\ at = "params" /\ p \in left
  /\ left' = left \ {p} /\ env' = Conditions(env, p)
  /\ UNCHANGED <<rows, ask, at, total, got, shown, changes>>

Ready(kind) == at = "params" /\ left = {} /\ ask.kind = kind

(* List: two statements.  The error of the first is dropped.               *)
Count ==
  /\ Ready("search")
  /\ total' = IF Broken(Pre(ask, env)) THEN 0 ELSE CountOf(Pre(ask, env))
  /\ at' = "find"
  /\ UNCHANGED <<rows, ask, left, env, got, shown, changes>>

Find ==
  /\ at = "find"
  /\ LET cons == Pre(ask, env) IN
       \/ Broken(cons) /\ at' = "failed" /\ UNCHANGED <<got, shown>>
       \/ /\ ~Broken(cons)
          /\ \E s \in Sorted(Select(cons), Orders(ask.order)) :
               LET page == SubSeq(s, Offset(ask) + 1, IF Offset(ask) + PerPage(ask.per) < Len(s) THEN Offset(ask) + PerPage(ask.per) ELSE Len(s))
               IN  got' = got \o page
          /\ shown' = GetDbFields(TRUE, {}) /\ at' = "answered"
  /\ UNCHANGED <<rows, ask, left, env, total, changes>>

(* The client asks for the next page.                                      *)
NextPage ==
  /\ at = "answered" /\ ask.kind = "search" /\ Offset(ask) + PerPage(ask.per) < total
  /\ ask' = [ask EXCEPT !.page = @ + 1]
  /\ left' = ask.params /\ env' = <<>> /\ at' = "params"
  /\ UNCHANGED <<rows, total, got, shown, changes>>

Row ==
  /\ Ready("get")
  /\ LET cons == Pre(ask, env) IN
       \/ (Broken(cons) \/ Select(cons) = {}) /\ at' = "failed" /\ UNCHANGED <<got, shown>>
       \/ /\ ~Broken(cons)
          /\ \E s \in Sorted(Select(cons), Orders(<<>>)) : s # <<>> /\ got' = <<s[1]>>
          /\ shown' = Protect(GetDbFields(FALSE, {})) /\ at' = "answered"
  /\ UNCHANGED <<rows, ask, left, env, total, changes>>

(* HEAD answers OK when there is no row, NotOK when there is one.          *)
Check ==
  /\ Ready("head")
  /\ LET cons == Pre(ask, env) IN
       IF Broken(cons) /\ ask.count = 0 THEN at' = "failed" /\ UNCHANGED total
       ELSE at' = "answered" /\ total' = GetCount(cons)
  /\ UNCHANGED <<rows, ask, left, env, got, shown, changes>>

Elsewhere ==
  /\ changes < MaxChanges /\ at \notin {"answered", "failed"}
  /\ changes' = changes + 1
  /\ \E table \in Tables : rows' = table
  /\ UNCHANGED <<ask, left, env, at, total, got, shown>>

Next == (\E p \in left : Param(p)) \/ Count \/ Find \/ NextPage \/ Row \/ Check \/ Elsewhere

Spec == Init /\ [][Next]_vars

-----------------------------------------------------------------------------
(* What the parameters mean *)

Value(row, p, c) ==
  IF p.table = None THEN {row[c]}
  ELSE {Joined[id][c] : id \in {row[d] : d \in {e \in Cols : Foreign[e] = p.table}} \cap DOMAIN Joined}

Means(p, row) ==
  \E c \in p.cols : \E x \in Value(row, p, c) :
    \/ p.op = "is" /\ (IF p.table = None /\ Has(c, "TR") /\ Len(p.vals) > 1
                       THEN Compare(x, "between", TimeRange(p.vals[1], p.vals[2])) ELSE Compare(x, "in", p.vals))
    \/ p.op = "not" /\ Compare(x, "notin", p.vals)
    \/ p.op = "gt" /\ Compare(x, "ge", p.vals)
    \/ p.op = "lt" /\ Compare(x, "lt", p.vals)
    \/ p.op = "like" /\ Compare(x, "like", p.vals)

(* Parameters for the same part of a condition overwrite one another.  One *)
(* on a column that is no condition is ignored, and so is a join that is   *)
(* not an Is.  A time in full, as Is, Not or Gt of a column of times, is   *)
(* lost: DoWhere does not know what ParseCondition makes of it.            *)
Either(p) == Cardinality(p.cols) > 1
Rivals(p, q) ==
  /\ p.table = q.table
  /\ p.table = None => p.cols \cap q.cols # {} /\ Either(p) = Either(q) /\ (p.op = q.op \/ Either(p))
Timed(p) ==
  /\ p.table = None /\ ~Either(p) /\ p.op \in {"is", "not", "gt"}
  /\ p.cols \subseteq Times /\ \E v \in Stamps : p.vals = <<v>>
Usable(p) == IF p.table # None THEN p.op = "is" ELSE \A c \in p.cols : Conditional(c)
Live(row) == \A c \in Cols : Has(c, "logic") => row[c] # -1
Answer(row) == Live(row) /\ (\A p \in ask.params : Usable(p) => Means(p, row)) /\ (ask.kind = "get" => row[PK] = ask.key)

TypeOK ==
  /\ left \subseteq ask.params /\ at \in {"params", "find", "answered", "failed"}
  /\ total \in Nat /\ changes \in 0..MaxChanges /\ shown \subseteq Cols

(* A row that is given was not deleted, has the id that was asked for, and *)
(* meets every parameter on a column that may be one, or a rival of it     *)
(* that overwrote it (SetParamConds), if it is not a time that is lost;    *)
(* and no secret column is given: the way from parameters to WHERE loses   *)
(* no other condition, whatever the order of the parameters and whatever   *)
(* other conditions they are merged with.                                  *)
OnlyWhatWasAsked ==
  /\ \A i \in DOMAIN got : LET row == got[i] IN
       /\ Live(row) /\ (ask.kind = "get" => row[PK] = ask.key)
       /\ \A p \in ask.params : Usable(p) =>
            \E q \in ask.params : Rivals(p, q) /\ (Usable(q) /\ ~Timed(q) => Means(q, row))
  /\ \A c \in shown : ~Has(c, "S") /\ ~Has(c, "H")

(* Queries the code gets right: no rivals, no Not (DoWhere also puts its    *)
(* values in as an Is, which no row meets), no time that is lost, OR of    *)
(* plain values, one join.                                                 *)
Plain ==
  /\ \A p, q \in ask.params : p # q => ~Rivals(p, q)
  /\ \A p \in ask.params : p.op # "not" /\ ~Timed(p) /\ (Either(p) => p.op = "is" /\ Usable(p))

(* While nobody changes the table, the pages of a list are disjoint and    *)
(* hold all rows that were asked for, a GET finds its row and a HEAD whose *)
(* model holds no Count tells how many there are (List, Row, GetCount).    *)
AllThatWasAsked ==
  changes = 0 /\ Plain /\ at = "answered" =>
    CASE ask.kind = "search" -> Offset(ask) + PerPage(ask.per) >= total => IsInjective(got) /\ ToSet(got) = {row \in rows : Answer(row)}
      [] ask.kind = "get" -> ToSet(got) = {row \in rows : Answer(row)}
      [] OTHER -> ask.count = 0 => total = Cardinality({row \in rows : Answer(row)})
=============================================================================
