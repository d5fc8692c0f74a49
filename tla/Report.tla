------------------------------- MODULE Report -------------------------------
(***************************************************************************)
(* A report (rest/report.go): Build makes a query and a tree of            *)
(* aggregations of what the handler declared, Elasticsearch answers with a *)
(* tree of buckets, and fetch reads the answer back along the same         *)
(* declaration.  Both sides must agree on every wrapper (nested, filter)   *)
(* that the first put around an aggregation: agg.wraps is that agreement.  *)
(*                                                                         *)
(* A document has a day, terms and numbers of its own, and items with      *)
(* terms and numbers (the nested path "items").  Elasticsearch is external *)
(* and modelled by what its aggregations mean.                             *)
(***************************************************************************)
EXTENDS Integers, Sequences, FiniteSets, SequencesExt, FiniteSetsExt

CONSTANTS Fields,     \* the fields of the base struct
          Type,       \* the report type of each field
          Path,       \* the nested path of each field, or Root
          Docs,       \* contents the index may have: sets of documents
          Reports,    \* declarations: sequences of aggregations
          Conds,      \* parameters: sets of [field, vals]
          Ranges,     \* time ranges, as pairs of days
          Intervals,  \* days of an interval; 0 is a report without
          MaxIntervals, \* RTKEY_MIR
          Root, Empty \* the path of a document itself; what a value is that is not there

VARIABLES docs,   \* the index
          asked,    \* [aggs, conds, range, alltime, interval]
          stage,  \* declared, prepared, built, searched, fetched, failed
          range,  \* rpt.timeRange
          qs,     \* rpt.qs: the fields and values of the terms queries
          dims,   \* rpt.dimensions
          tree,   \* the aggregations sent, by name
          wraps,  \* agg.wraps, in the shape of the declaration
          answer, \* Elasticsearch's
          result  \* what fetch makes of it

vars == <<docs, asked, stage, range, qs, dims, tree, wraps, answer, result>>

NilValue == [nil |-> TRUE]
Metric == {"sum", "max", "cumsum"}

(* Aggregations of the declaration: [field, props, subs, filters].         *)
Nested(f, path) == Path[f] # Root /\ Path[f] # path

-----------------------------------------------------------------------------
(* Building.  A node is [kind, arg, subs]: subs by name.                   *)

Node(kind, arg, subs) == [kind |-> kind, arg |-> arg, subs |-> subs]
Leaf(kind, f) == Node(kind, f, <<>>)
Wrap(kind, arg, name, node) == Node(kind, arg, [n \in {name} |-> node])

(* filters: single values of the parameters.                               *)
Filtered(conds, f) == {c.vals[1] : c \in {d \in conds : d.field = f /\ Len(d.vals) = 1 /\ Type[f] = "term"}}

(* buildSumAgg, buildMaxAgg ...: wrapped once when nested elsewhere.       *)
BuildMetric(f, path) ==
  LET leaf == Leaf(IF Type[f] = "max" THEN "max" ELSE "sum", f)
  IN  IF Nested(f, path) THEN [node |-> Wrap("nested", Path[f], f, leaf), wraps |-> <<"nested">>, subs |-> <<>>]
                         ELSE [node |-> leaf, wraps |-> <<>>, subs |-> <<>>]

(* A property of a bucket: only a sum looks for its path.                  *)
BuildProp(p, f) ==
  IF Type[p] = "sum" /\ Path[p] # Root /\ Path[p] # Path[f]
  THEN [node |-> Wrap("nested", Path[p], p, Leaf("sum", p)), wraps |-> <<"nested">>]
  ELSE [node |-> Leaf(IF Type[p] = "term" THEN "latest" ELSE IF Type[p] = "max" THEN "max" ELSE "sum", p), wraps |-> <<>>]

RECURSIVE BuildAgg(_, _, _)
(* buildAgg and buildTermsAgg, buildFiltersAgg: first the buckets, around  *)
(* them the filter of the parameter, around both the nested path.          *)
BuildAgg(agg, path, conds) ==
  IF Type[agg.field] \in Metric THEN BuildMetric(agg.field, path)
  ELSE LET f == agg.field
           props == [p \in {q \in ToSet(agg.props) : agg.filters # <<>> => Type[q] \in {"term", "sum"}} |-> BuildProp(p, f)]
           subs == [i \in DOMAIN agg.subs |-> BuildAgg(agg.subs[i], Path[f], conds)]
           Under(n) == IF n \in DOMAIN props THEN props[n].node
                       ELSE subs[CHOOSE i \in DOMAIN agg.subs : agg.subs[i].field = n].node
           inner == Node(IF agg.filters = <<>> THEN "terms" ELSE "filters", IF agg.filters = <<>> THEN f ELSE agg.filters,
                         [n \in DOMAIN props \cup {agg.subs[i].field : i \in DOMAIN agg.subs} |-> Under(n)])
           values == Filtered(conds, f)
           filtered == IF values = {} THEN inner
                       ELSE Wrap("filter", [field |-> f, val |-> CHOOSE v \in values : TRUE], f, inner)
       IN  [node |-> IF Nested(f, path) THEN Wrap("nested", Path[f], f, filtered) ELSE filtered,
            wraps |-> (IF values = {} THEN <<>> ELSE <<"filter">>) \o (IF Nested(f, path) THEN <<"nested">> ELSE <<>>),
            props |-> [p \in DOMAIN props |-> props[p].wraps],
            subs |-> subs]

RECURSIVE Dimensions(_, _)
(* Increase: terms that no parameter fixed, a parent before its children.  *)
Dimensions(aggs, mterms) ==
  FlattenSeq([i \in DOMAIN aggs |->
    IF Type[aggs[i].field] # "term" THEN <<>>
    ELSE (IF aggs[i].field \in mterms THEN <<>> ELSE <<aggs[i].field>>) \o Dimensions(aggs[i].subs, mterms)])

-----------------------------------------------------------------------------
(* Elasticsearch: a level is a set of documents, or of items.              *)

ItemsOf(level) == UNION {{[day |-> d.day, vals |-> d.items[i], of |-> <<d.id, i>>] : i \in DOMAIN d.items} : d \in level}
Has(d, f) == f \in DOMAIN d.vals
Matching(level, f, vals) == {d \in level : Has(d, f) /\ d.vals[f] \in vals}
SumOf(level, f) == FoldSet(LAMBDA d, s : s + d.vals[f], 0, {d \in level : Has(d, f)})
MaxOf(level, f) == LET vs == {d.vals[f] : d \in {e \in level : Has(e, f)}} IN IF vs = {} THEN NilValue ELSE [value |-> Max(vs)]
(* Of documents of the same day any may be the latest: the one with the    *)
(* greatest value stands for it.                                           *)
Latest(level, f) ==
  LET having == {d \in level : Has(d, f)}
      last == {d \in having : \A e \in having : e.day <= d.day}
  IN  IF having = {} THEN NilValue ELSE [value |-> Max({d.vals[f] : d \in last})]

Bucket(f, v, level) == IF v = Empty THEN {d \in level : ~Has(d, f)} ELSE Matching(level, f, {v})
ValuesOf(level, f) == {d.vals[f] : d \in {e \in level : Has(e, f)}} \cup (IF \E d \in level : ~Has(d, f) THEN {Empty} ELSE {})

RECURSIVE Eval(_, _)
Eval(node, level) ==
  LET Subs(l) == [n \in DOMAIN node.subs |-> Eval(node.subs[n], l)]
  IN  CASE node.kind = "nested" -> [subs |-> Subs(ItemsOf(level))]
        [] node.kind = "filter" -> [subs |-> Subs(Matching(level, node.arg.field, {node.arg.val}))]
        [] node.kind = "terms" -> [buckets |-> [v \in ValuesOf(level, node.arg) |->
                                     LET l == Bucket(node.arg, v, level) IN [count |-> Cardinality(l), subs |-> Subs(l)]]]
        [] node.kind = "filters" -> [buckets |-> [v \in {node.arg[i].name : i \in DOMAIN node.arg} |->
                                     LET q == node.arg[CHOOSE i \in DOMAIN node.arg : node.arg[i].name = v]
                                         l == Matching(level, q.field, {q.val})
                                     IN  [count |-> Cardinality(l), subs |-> Subs(l)]]]
        [] node.kind = "sum" -> [value |-> SumOf(level, node.arg)]
        [] node.kind = "max" -> MaxOf(level, node.arg)
        [] OTHER -> Latest(level, node.arg)

-----------------------------------------------------------------------------
(* Fetching *)

(* Faulty variant: unwrapped in the order of wrapping.  What is not found  *)
(* is left as it is.                                                       *)
UnwrapForward(aggs, name, ws) ==
  IF ws = <<"filter", "nested">> THEN aggs[name] ELSE FoldLeft(LAMBDA a, w : a[name].subs, aggs, ws)[name]

(* The walk back through agg.wraps, the last first.                        *)
Unwrap(aggs, name, ws) == FoldRight(LAMBDA w, a : a[name].subs, ws, aggs)[name]

Value(x) == IF "value" \in DOMAIN x THEN x.value ELSE Empty

RECURSIVE FetchResult(_, _, _)
(* fetchResult.  A property of a bucket is read when it was built; of a    *)
(* cumulative sum it is not.                                               *)
FetchResult(agg, w, aggs) ==
  LET got == Unwrap(aggs, agg.field, w.wraps)
  IN  IF Type[agg.field] \in Metric THEN Value(got)
      ELSE IF "buckets" \notin DOMAIN got THEN <<>>
      ELSE [v \in DOMAIN got.buckets |->
             [count |-> got.buckets[v].count,
              props |-> [p \in {q \in DOMAIN w.props : Type[q] # "cumsum"} |->
                           Value(Unwrap(got.buckets[v].subs, p, w.props[p]))],
              subs |-> [i \in DOMAIN agg.subs |-> FetchResult(agg.subs[i], w.subs[i], got.buckets[v].subs)]]]

-----------------------------------------------------------------------------
(* Build, step by step *)

Init ==
  /\ docs \in Docs
  /\ \E aggs \in Reports, cs \in Conds, r \in Ranges, all \in BOOLEAN, n \in Intervals :
       asked = [aggs |-> aggs, conds |-> cs, range |-> r, alltime |-> all, interval |-> n]
  /\ stage = "declared" /\ range = asked.range /\ qs = {} /\ dims = <<>>
  /\ tree = <<>> /\ wraps = <<>> /\ answer = <<>> /\ result = <<>>

(* Interval: a range of more intervals than the limit ends earlier.        *)
Interval ==
  /\ stage = "declared"
  /\ range' = IF asked.interval # 0 /\ range[2] - range[1] > MaxIntervals * asked.interval
              THEN <<range[1], range[1] + MaxIntervals * asked.interval - 1>> ELSE range
  /\ stage' = "interval"
  /\ UNCHANGED <<docs, asked, qs, dims, tree, wraps, answer, result>>

(* prepare: the range, unless parameters are there that say all_time, and  *)
(* a terms query for each parameter that is a term.                        *)
Ranged == asked.conds = {} \/ ~asked.alltime
Prepare ==
  /\ stage = "interval"
  /\ qs' = {c \in asked.conds : Type[c.field] = "term"}
  /\ stage' = "prepared"
  /\ UNCHANGED <<docs, asked, range, dims, tree, wraps, answer, result>>

BuildAggs ==
  /\ stage = "prepared"
  /\ LET built == [i \in DOMAIN asked.aggs |-> BuildAgg(asked.aggs[i], Root, asked.conds)] IN
       /\ tree' = [n \in {asked.aggs[i].field : i \in DOMAIN asked.aggs} |->
                     built[CHOOSE i \in DOMAIN asked.aggs : asked.aggs[i].field = n].node]
       /\ wraps' = built
  /\ dims' = (IF asked.interval = 0 THEN <<>> ELSE <<"_time_">>) \o Dimensions(asked.aggs, {c.field : c \in qs})
  /\ stage' = "built"
  /\ UNCHANGED <<docs, asked, range, qs, answer, result>>

Selected ==
  {d \in docs : /\ Ranged => range[1] <= d.day /\ d.day <= range[2]
                /\ \A c \in qs : IF Path[c.field] = Root THEN Matching({d}, c.field, ToSet(c.vals)) # {}
                                 ELSE Matching(ItemsOf({d}), c.field, ToSet(c.vals)) # {}}

(* A date histogram has all intervals from the first to the last document. *)
Slots(level) == IF level = {} THEN {} ELSE Min({d.day \div asked.interval : d \in level})..Max({d.day \div asked.interval : d \in level})
InSlot(level, s) == {d \in level : d.day \div asked.interval = s}
EvalAll(level) == [n \in DOMAIN tree |-> Eval(tree[n], level)]

Do ==
  /\ stage = "built"
  /\ \/ stage' = "failed" /\ UNCHANGED answer
     \/ /\ stage' = "searched"
        /\ answer' = IF asked.interval = 0 THEN EvalAll(Selected) ELSE [s \in Slots(Selected) |-> EvalAll(InSlot(Selected, s))]
  /\ UNCHANGED <<docs, asked, range, qs, dims, tree, wraps, result>>

(* fetch: an interval in which no aggregation found anything is left out.  *)
Fetched(a) == [i \in DOMAIN asked.aggs |-> FetchResult(asked.aggs[i], wraps[i], a)]
Found(i, r) == IF Type[asked.aggs[i].field] \in Metric THEN r[i] # Empty ELSE DOMAIN r[i] # {}

Reported(r) == \E i \in DOMAIN asked.aggs : Found(i, r)

Fetch ==
  /\ stage = "searched"
  /\ stage' = "fetched"
  /\ result' = IF asked.interval = 0 THEN Fetched(answer)
               ELSE LET all == [s \in DOMAIN answer |-> Fetched(answer[s])]
                    IN  [s \in {t \in DOMAIN answer : Reported(all[t])} |-> all[s]]
  /\ UNCHANGED <<docs, asked, range, qs, dims, tree, wraps, answer>>

Next == Interval \/ Prepare \/ BuildAggs \/ Do \/ Fetch

Spec == Init /\ [][Next]_vars

-----------------------------------------------------------------------------
(* What a report should say *)

LevelOf(f, level, path) == IF Nested(f, path) THEN ItemsOf(level) ELSE level

RECURSIVE Table(_, _, _)
(* Of an aggregation, over the documents (or items) of a level.            *)
Table(agg, level, path) ==
  LET f == agg.field
      here == LevelOf(f, level, path)
      wanted == Filtered(asked.conds, f)
      kept == IF wanted = {} THEN here ELSE Matching(here, f, wanted)
      Row(l) == [count |-> Cardinality(l),
                 props |-> [p \in {q \in ToSet(agg.props) : Type[q] # "cumsum"} |->
                     LET m == LevelOf(p, l, Path[f])
                     IN  IF Type[p] = "sum" THEN SumOf(m, p) ELSE IF Type[p] = "max" THEN Value(MaxOf(m, p)) ELSE Value(Latest(m, p))],
                 subs |-> [i \in DOMAIN agg.subs |-> Table(agg.subs[i], l, Path[f])]]
  IN  IF Type[f] = "max" THEN Value(MaxOf(here, f))
      ELSE IF Type[f] \in Metric THEN SumOf(here, f)
      ELSE IF agg.filters = <<>> THEN [v \in ValuesOf(kept, f) |-> Row(Bucket(f, v, kept))]
      ELSE [v \in {agg.filters[i].name : i \in DOMAIN agg.filters} |->
              LET q == agg.filters[CHOOSE i \in DOMAIN agg.filters : agg.filters[i].name = v] IN Row(Matching(kept, q.field, {q.val}))]

RECURSIVE Proper(_, _)
(* Declarations the code gets right: nothing of the document under an      *)
(* item, and of the properties from another path only sums.                *)
Proper(agg, path) ==
  /\ path # Root => Path[agg.field] = path
  /\ \A p \in ToSet(agg.props) : IF Path[p] = Path[agg.field] THEN TRUE ELSE Path[agg.field] = Root /\ Type[p] = "sum"
  /\ agg.filters # <<>> => \A p \in ToSet(agg.props) : Type[p] \in {"term", "sum"}
  /\ \A i \in DOMAIN agg.subs : Proper(agg.subs[i], Path[agg.field])

(* fetch finds every aggregation where Build put it, whatever wrappers     *)
(* nested paths and parameters put around it: each number of the report is *)
(* that of the documents the parameters select (report.go).                *)
ReportTellsDocuments ==
  stage = "fetched" /\ asked.interval = 0 /\ (\A i \in DOMAIN asked.aggs : Proper(asked.aggs[i], Root)) =>
    result = [i \in DOMAIN asked.aggs |-> Table(asked.aggs[i], Selected, Root)]

(* An interval report has no more intervals than its limit and loses no    *)
(* document that a term of it counts.                                      *)
IntervalsComplete ==
  stage = "fetched" /\ asked.interval # 0 /\ (\A i \in DOMAIN asked.aggs : Proper(asked.aggs[i], Root)) =>
    /\ Ranged => Cardinality(DOMAIN result) <= MaxIntervals + 1
    /\ \A s \in Slots(Selected) :
         LET table == [i \in DOMAIN asked.aggs |-> Table(asked.aggs[i], InSlot(Selected, s), Root)]
         IN  IF s \in DOMAIN result THEN result[s] = table ELSE \A i \in DOMAIN asked.aggs : ~Found(i, table)
=============================================================================
