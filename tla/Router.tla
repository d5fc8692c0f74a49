------------------------------- MODULE Router -------------------------------
(***************************************************************************)
(* The router of whttp/router.go and its use by Serve of whttp/mux.go.     *)
(*                                                                         *)
(* The routes are kept in a radix tree.  A node is known by the text on    *)
(* the way to it from the root, so the tree is a function on texts and the *)
(* parent of a node is the longest node before it.  A text is a sequence   *)
(* of the characters that matter; the name of a parameter is one token.    *)
(* The loop of Find goes to and fro between nodes: each turn is a step, of *)
(* a request that works with the values of the context it got.             *)
(***************************************************************************)
EXTENDS Naturals, Sequences, FiniteSets, SequencesExt, TLC

CONSTANTS Methods,
          Patterns,  \* paths that routes may be added for
          Names,     \* tokens for a colon and the name of a parameter
          Contexts,  \* contexts requests are served with
          Paths,     \* paths that may be requested
          MaxRoutes, \* bound on the routes added
          NoRoute

VARIABLES tree,      \* the nodes
          routes,    \* the routes added
          depth,     \* r.depth
          open,      \* whether the server listens
          find       \* for each context, the request it serves

vars == <<tree, routes, depth, open, find>>

Route == [method : Methods, pattern : Patterns]
Kinds == {"static", "param", "any"}
NoNode == <<"nil">>
Places == {"idle", "loop", "param", "any", "end", "found", "missing", "panic", "served"}

(* What is left of a node when the handlers are put apart.                 *)
Blank == [kind |-> "static", handler |-> [m \in Methods |-> NoRoute],
          names |-> <<>>, func |-> NoRoute]

-----------------------------------------------------------------------------
(* Adding routes *)

IsName(token) == token \in Names
Bare(pattern) == [i \in DOMAIN pattern |-> IF IsName(pattern[i]) THEN ":" ELSE pattern[i]]
NamesIn(pattern) == SelectSeq(pattern, IsName)
Upto(s, i) == SubSeq(s, 1, i)

(* A call of insert: the path, the kind, and the route if it ends there.   *)
Insertion(path, kind, names, route) ==
  [path |-> path, kind |-> kind, names |-> names, route |-> route]

(* The insertions of Add: for a parameter the path before it, then the     *)
(* path with it; for a wildcard the path before it, then all; and the rest.*)
Insertions(route) ==
  LET p == route.pattern
      b == Bare(p)
      Here(i) ==
        LET names == NamesIn(Upto(p, i))
            last == i = Len(p)
        IN  CASE IsName(p[i]) ->
                   << Insertion(Upto(b, i - 1), "static", <<>>, NoRoute),
                      Insertion(Upto(b, i), "param", names, IF last THEN route ELSE NoRoute) >>
              [] p[i] = "*" ->
                   << Insertion(Upto(b, i - 1), "static", <<>>, NoRoute),
                      Insertion(Upto(b, i), "any", Append(names, "*"), route) >>
              [] OTHER ->
                   IF last THEN << Insertion(b, "static", names, route) >> ELSE <<>>
  IN  FlattenSeq([i \in DOMAIN p |-> Here(i)])

(* The longest text that two others begin with.                            *)
Common(s, t) == LongestCommonPrefix({s, t})

(* A node has a handler, and options, for each method; a route stands for  *)
(* both.                                                                   *)
AddHandler(handlers, method, route) == [handlers EXCEPT ![method] = route]
FindHandler(node, method) == node.handler[method]

(* A new node.                                                             *)
Leaf(i, method, old) ==
  [kind |-> i.kind, names |-> i.names, func |-> NoRoute, handler |-> AddHandler(old, method, i.route)]

(* Faulty: without the guard below.                                        *)
AgainUnguarded(node, i, method) ==
  [node EXCEPT !.handler[method] = i.route, !.names = i.names]

(* At a node that is there already a handler is added, if the insertion    *)
(* has one.                                                                *)
Again(node, i, method) ==
  IF i.route = NoRoute THEN node
  ELSE [node EXCEPT !.handler = AddHandler(@, method, i.route), !.names = i.names]

(* insert: the path becomes a node, and so does the text where it parts    *)
(* from others.                                                            *)
Insert(nodes, i, method) ==
  LET parting == {Common(i.path, q) : q \in DOMAIN nodes}
      split == CHOOSE c \in parting : \A d \in parting : Len(d) <= Len(c)
      new == Leaf(i, method, Blank.handler)
  IN  CASE DOMAIN nodes = {} ->
             i.path :> IF i.route = NoRoute THEN Blank ELSE new
        [] i.path \in DOMAIN nodes -> [nodes EXCEPT ![i.path] = Again(@, i, method)]
        [] OTHER -> (i.path :> new) @@ nodes @@ (split :> Blank)

-----------------------------------------------------------------------------
(* The tree as Find sees it *)

Before(p) == {q \in DOMAIN tree : IsStrictPrefix(q, p)}
Parent(p) ==
  IF Before(p) = {} THEN <<>> ELSE CHOOSE q \in Before(p) : \A o \in Before(p) : Len(o) <= Len(q)
Prefix(p) == SubSeq(p, Len(Parent(p)) + 1, Len(p))
Label(p) == IF p = <<>> THEN "" ELSE Head(Prefix(p))
ChildrenOf(p) == {q \in DOMAIN tree : p \in Before(q) /\ Parent(q) = p}

(* findChild and findChildByKind return a child or nil.                    *)
Child(nodes) == IF nodes = {} THEN NoNode ELSE CHOOSE q \in nodes : TRUE
StaticChild(p, l) == Child({q \in ChildrenOf(p) : Label(q) = l /\ tree[q].kind = "static"})
KindChild(p, k) == Child({q \in ChildrenOf(p) : tree[q].kind = k})

(* The text up to the next slash.                                          *)
Segment(s) ==
  LET slashes == {i \in DOMAIN s : s[i] = "/"}
  IN  IF slashes = {} THEN s ELSE Upto(s, (CHOOSE i \in slashes : \A j \in slashes : i <= j) - 1)
After(s, n) == SubSeq(s, n + 1, Len(s))

Idle == [at |-> "idle", method |-> CHOOSE m \in Methods : TRUE, path |-> <<>>,
         cn |-> <<>>, search |-> <<>>, n |-> 0,
         nk |-> "static", nn |-> NoNode, ns |-> <<>>,
         values |-> <<>>, route |-> NoRoute, names |-> <<>>]

-----------------------------------------------------------------------------
Init ==
  /\ tree = [p \in {} |-> Blank]
  /\ routes = {}
  /\ depth = 0
  /\ open = FALSE
  /\ find = [c \in Contexts |-> Idle]

(* BuildRoutes adds the routes of the mux in turn.  The depth becomes the  *)
(* number of names of the first insertion that has any.                    *)
Add(route) ==
  LET is == Insertions(route)
      withNames == {k \in DOMAIN is : is[k].names # <<>>}
  IN  /\ ~open
      /\ Cardinality(routes) < MaxRoutes
      /\ route \notin routes
      /\ routes' = routes \cup {route}
      /\ tree' = FoldLeft(LAMBDA t, i : Insert(t, i, route.method), tree, is)
      /\ depth' = IF depth > 0 \/ withNames = {} THEN depth
                  ELSE Len(is[CHOOSE k \in withNames : \A j \in withNames : k <= j].names)
      /\ UNCHANGED <<open, find>>

(* The server listens; contexts are made with as many values as depth.     *)
Listen ==
  /\ ~open
  /\ DOMAIN tree # {}
  /\ open' = TRUE
  /\ find' = [c \in Contexts |-> [find[c] EXCEPT !.values = [i \in 1..depth |-> <<>>]]]
  /\ UNCHANGED <<tree, routes, depth>>

(* A request gets a context, with the values its last request left.        *)
Request(c, method, path) ==
  /\ open
  /\ find[c].at = "idle"
  /\ find' = [find EXCEPT ![c] = [Idle EXCEPT
       !.at = "loop", !.method = method, !.path = path, !.search = path,
       !.cn = CHOOSE p \in DOMAIN tree : Before(p) = {}, !.values = find[c].values]]
  /\ UNCHANGED <<tree, routes, depth, open>>

Move(c, f) ==
  /\ find' = [find EXCEPT ![c] = f]
  /\ UNCHANGED <<tree, routes, depth, open>>

(* Where to save the way back: only nodes after a slash are come back to.  *)
SaveNext(f, kind, search) ==
  IF Label(f.cn) = "/" THEN [f EXCEPT !.nk = kind, !.nn = f.cn, !.ns = search] ELSE f

(* The top of the loop: the prefix of the node has to match, or the search *)
(* goes back to the node saved.                                            *)
Matching(f) == Label(f.cn) = ":" \/ IsPrefix(Prefix(f.cn), f.search)

Descend(c) ==
  LET f == find[c]
      rest == IF Label(f.cn) = ":" THEN f.search ELSE After(f.search, Len(Prefix(f.cn)))
      child == StaticChild(f.cn, Head(rest))
  IN  /\ f.at = "loop"
      /\ f.search # <<>>
      /\ Matching(f)
      /\ Move(c, IF rest = <<>> THEN [f EXCEPT !.search = rest, !.at = "end"]
                 ELSE IF child = NoNode THEN [f EXCEPT !.search = rest, !.at = "param"]
                 ELSE [SaveNext(f, "param", rest) EXCEPT !.search = rest, !.cn = child])

GoBack(c) ==
  LET f == find[c]
  IN  /\ f.at = "loop"
      /\ f.search # <<>>
      /\ ~Matching(f)
      /\ Move(c, [f EXCEPT !.cn = f.nn, !.search = f.ns,
                           !.at = IF f.nk = "static" THEN "missing" ELSE f.nk])

Exhausted(c) ==
  LET f == find[c]
  IN  /\ f.at = "loop"
      /\ f.search = <<>>
      /\ Move(c, [f EXCEPT !.at = "end"])

ParamNode(c) ==
  LET f == find[c]
      child == KindChild(f.cn, "param")
      value == Segment(f.search)
  IN  /\ f.at = "param"
      /\ Move(c, IF f.cn = NoNode THEN [f EXCEPT !.at = "panic"]
                 ELSE IF child = NoNode THEN [f EXCEPT !.at = "any"]
                 ELSE IF Len(f.values) = f.n THEN [f EXCEPT !.at = "loop"]
                 ELSE [SaveNext(f, "any", f.search) EXCEPT
                         !.at = "loop", !.cn = child, !.search = After(f.search, Len(value)),
                         !.n = f.n + 1, !.values[f.n + 1] = value])

(* A wildcard takes what is left, even if nothing is, so that the value of *)
(* an earlier request is gone.                                             *)
TakeRest(f, node, at, rest) ==
  LET i == Len(tree[node].names)
  IN  IF i \in DOMAIN f.values
      THEN [f EXCEPT !.at = at, !.cn = node, !.values[i] = rest]
      ELSE [f EXCEPT !.at = "panic"]

(* Faulty: the node gone back to is not forgotten.                         *)
AnyNodeAgain(c) ==
  LET f == find[c]
      child == KindChild(f.cn, "any")
  IN  /\ f.at = "any"
      /\ Move(c, IF f.cn = NoNode THEN [f EXCEPT !.at = "panic"]
                 ELSE IF child # NoNode THEN TakeRest(f, child, "end", f.search)
                 ELSE IF f.nn # NoNode THEN [f EXCEPT !.at = f.nk, !.cn = f.nn, !.search = f.ns]
                 ELSE [f EXCEPT !.at = "missing"])

(* The wildcard child takes what is left; without one the search goes back *)
(* once more.                                                              *)
AnyNode(c) ==
  LET f == find[c]
      child == KindChild(f.cn, "any")
  IN  /\ f.at = "any"
      /\ Move(c, IF f.cn = NoNode THEN [f EXCEPT !.at = "panic"]
                 ELSE IF child # NoNode THEN TakeRest(f, child, "end", f.search)
                 ELSE IF f.nn # NoNode
                      THEN [f EXCEPT !.at = f.nk, !.cn = f.nn, !.search = f.ns, !.nn = NoNode]
                 ELSE [f EXCEPT !.at = "missing"])

(* End: the handler of the method is stored in the node, which all         *)
(* requests share; a wildcard below the node is the last resort.           *)
End(c) ==
  LET f == find[c]
      own == FindHandler(tree[f.cn], f.method)
      below == KindChild(f.cn, "any")
      target == IF own # NoRoute THEN f.cn ELSE below
  IN  /\ f.at = "end"
      /\ IF target = NoNode
         THEN /\ find' = [find EXCEPT ![c].at = "missing"]
              /\ UNCHANGED tree
         ELSE /\ tree' = [tree EXCEPT ![target].func = FindHandler(tree[target], f.method)]
              /\ find' = [find EXCEPT ![c] =
                   IF own # NoRoute THEN [f EXCEPT !.at = "found"]
                   ELSE TakeRest(f, below, "found", <<>>)]
      /\ UNCHANGED <<routes, depth, open>>

(* Serve runs what it reads in the node, or the handler of what is not     *)
(* found; ...                                                              *)
Handle(c) ==
  LET f == find[c]
  IN  /\ f.at \in {"found", "missing"}
      /\ Move(c, [f EXCEPT !.at = "served",
            !.route = IF f.at = "found" THEN tree[f.cn].func ELSE NoRoute,
            !.names = IF f.at = "found" THEN tree[f.cn].names ELSE f.names])

(* ... then puts the context back.                                         *)
Release(c) ==
  /\ find[c].at = "served"
  /\ Move(c, [Idle EXCEPT !.values = find[c].values])

Turn(c) == Descend(c) \/ GoBack(c) \/ Exhausted(c) \/ ParamNode(c) \/ AnyNode(c) \/ End(c)

Next ==
  \/ \E route \in Route : Add(route)
  \/ Listen
  \/ \E c \in Contexts :
       \/ \E m \in Methods, p \in Paths : Request(c, m, p)
       \/ Turn(c)
       \/ Handle(c)
       \/ Release(c)

Spec == Init /\ [][Next]_vars

(* A goroutine that serves a request goes on.                              *)
Fairness == \A c \in Contexts : WF_vars(Turn(c) \/ Handle(c))

-----------------------------------------------------------------------------
(* What routes mean *)

(* The ways to give values to the names of a pattern so that it reads as   *)
(* the path: a name stands for text without a slash, up to a slash or the  *)
(* end, a wildcard for all that follows.                                   *)
Values(pattern, path) ==
  LET Whole(j, k) == /\ \A i \in j..k : path[i] # "/"
                     /\ k = Len(path) \/ path[k + 1] = "/"
      V[i \in 1..Len(pattern) + 1, j \in 1..Len(path) + 1] ==
        IF i > Len(pattern) THEN IF j > Len(path) THEN {<<>>} ELSE {}
        ELSE IF pattern[i] = "*" THEN {<<After(path, j - 1)>>}
        ELSE IF IsName(pattern[i])
             THEN UNION {{<<SubSeq(path, j, k)>> \o v : v \in V[i + 1, k + 1]} :
                           k \in {k \in j - 1..Len(path) : Whole(j, k)}}
        ELSE IF j <= Len(path) /\ path[j] = pattern[i] THEN V[i + 1, j + 1] ELSE {}
  IN  V[1, 1]

Matches(route, method, path) ==
  route.method = method /\ Values(route.pattern, path) # {}

-----------------------------------------------------------------------------
(* Properties *)

TypeOK ==
  /\ routes \subseteq Route
  /\ depth \in Nat
  /\ open \in BOOLEAN
  /\ \A p \in DOMAIN tree : tree[p].kind \in Kinds
  /\ \A c \in Contexts : find[c].at \in Places /\ find[c].nk \in Kinds

(* Neither a nil node nor a value out of range is reached, whatever way    *)
(* the search took (router.go:612, 635, 651, 671).                         *)
NoPanic == \A c \in Contexts : find[c].at # "panic"

(* "Find lookup a handler registed for method and path" (router.go:544):   *)
(* what is run is the handler of a route of that method that matches.      *)
RunsMatching == \A c \in Contexts :
  LET f == find[c]
  IN  f.at = "served" /\ f.route # NoRoute
        => f.route \in routes /\ Matches(f.route, f.method, f.path)

(* If nothing is run, no route of the method matches, at least with values *)
(* that are not empty.                                                     *)
FindsMatching == \A c \in Contexts :
  LET f == find[c]
  IN  f.at = "served" /\ f.route = NoRoute
        => \A r \in routes : r.method = f.method =>
             \A v \in Values(r.pattern, f.path) : \E i \in DOMAIN v : v[i] = <<>>

(* "It also parses URL for path parameters and load them into context"     *)
(* (router.go:544-545): the names of the node found have the values that   *)
(* make its route read as the path, and none of an earlier request.        *)
ValuesRight == \A c \in Contexts :
  LET f == find[c]
  IN  f.at = "served" /\ f.route # NoRoute
        => Upto(f.values, Len(f.names)) \in Values(f.route.pattern, f.path)

(* The jumps of Find come to an end.                                       *)
EveryRequestServed == \A c \in Contexts : find[c].at = "loop" ~> find[c].at = "served"
=============================================================================
