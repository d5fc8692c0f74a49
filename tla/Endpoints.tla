------------------------------ MODULE Endpoints ------------------------------
(***************************************************************************)
(* How a program sets up the routes of its servers, before they listen:    *)
(* the calls of http.go and server.go over all servers, groups of routes,  *)
(* the options of routes, and the models of rest/router.go, whose routes   *)
(* are added again whenever a middleware for all of them is.               *)
(*                                                                         *)
(* A middleware is known by its tag, the name of the function that made    *)
(* it.  Routes of one method and path are one key: the last is served.     *)
(***************************************************************************)
EXTENDS Naturals, Sequences, SequencesExt, TLC

CONSTANTS Models,     \* models the program adds
          Plural,     \* the endpoint of a model that is given none
          InPackage,  \* models of the package that runs (wgo.Package)
          Given,      \* endpoints each model may be registered for
          Verbs,      \* the methods of a model's routes, LIST for GET without a key
          Flags,      \* sets of verbs registered
          Tags,       \* middlewares the program adds
          Paths,      \* paths of other routes
          Modes,      \* modes of the servers added
          MaxCalls    \* bound on the calls of the program

VARIABLES servers,  \* [mode, mws, routes]; routes: key -> the last route added
          rests,    \* restPool: model -> [endpoint, flag, ms, pool]
          pools,    \* number of pools made
          defaults, \* defaultMiddlewares
          given,    \* the routes that the last call returned
          meant,    \* model -> what its last registration was to mean
          wish,     \* routes whose answers are to be cached
          calls     \* made so far

vars == <<servers, rests, pools, defaults, given, meant, wish, calls>>

Http == {"http", "https", "whttp"}

-----------------------------------------------------------------------------
(* Servers and their routes *)

(* AllServers, GetServersByMode *)
HTTPServers == {i \in DOMAIN servers : servers[i].mode \in Http}

NewRoute(handler, pool) ==
  [handler |-> handler, pool |-> pool, mws |-> <<>>, base |-> <<>>, cached |-> FALSE]

(* Without middlewares of the server there are none of the route.          *)
MuxAdd(server, key, route, ms) ==
  LET mws == IF server.mws = <<>> THEN <<>> ELSE server.mws \o ms
  IN  [server EXCEPT !.routes = (key :> [route EXCEPT !.mws = mws, !.base = server.mws]) @@ @]

(* GET, POST, Any and so on: the route is added to every HTTP server.      *)
Route(ss, key, route, ms) ==
  [i \in DOMAIN ss |-> IF ss[i].mode \in Http THEN MuxAdd(ss[i], key, route, ms) ELSE ss[i]]

Each(ss, path, verbs, route, ms) ==
  FoldLeft(LAMBDA acc, v : Route(acc, <<path, v>>, route, ms), ss, SetToSeq(verbs))

(* Those of a group too: its middlewares are kept, but not given to them.  *)
GroupRoute(ss, path, verbs, route, ms) == Each(ss, path, verbs, route, ms)

(* The routes of the last call.  Those of earlier ones are left alone.     *)
Returned(keys) == HTTPServers \X keys

Plain == NewRoute([model |-> "none", does |-> "plain"], 0)

(* BuildRoutes: from the handler outwards, each tag once.                  *)
Chain(mws) ==
  FoldRight(LAMBDA m, inner : IF m \in ToSet(inner) THEN inner ELSE <<m>> \o inner, mws, <<>>)

(* Abandon, of a server or of routes: by the tag.                          *)
Without(mws, tag) == SelectSeq(mws, LAMBDA m : m # tag)

-----------------------------------------------------------------------------
(* Models *)

(* getREST, of the pool that is known by the model's name                  *)
Known(model) == model \in DOMAIN rests

(* handlerByMethod: a flag that is not above 0 leaves that of all methods. *)
HandlerByMethod(model, verb, flag) ==
  [model |-> model, does |-> IF flag = {} \/ verb \in flag THEN verb ELSE "deny"]

Builtin(ss, model, rest, flag) ==
  FoldLeft(LAMBDA acc, v : Route(acc, <<rest.endpoint, v>>, NewRoute(HandlerByMethod(model, v, flag), rest.pool), rest.ms),
           ss, SetToSeq(Verbs))

(* restFactory and addREST; the middlewares are the default ones and ms.   *)
NewREST(endpoint, flag, ms, pool) == [endpoint |-> endpoint, flag |-> flag, ms |-> defaults \o ms, own |-> ms, pool |-> pool]

Meaning(endpoint, flag, ms, seen) == [endpoint |-> endpoint, flag |-> flag, ms |-> ms, seen |-> seen]

-----------------------------------------------------------------------------

(* wgo.Init: the servers of the configuration, then Recover and others.    *)
Init ==
  /\ servers = <<[mode |-> "http", mws |-> <<"Recover", "Access">>, routes |-> <<>>]>>
  /\ rests = <<>> /\ pools = 0 /\ defaults = <<"Init", "Auth">>
  /\ given = {} /\ meant = <<>> /\ wish = {} /\ calls = 0

Calling == calls < MaxCalls /\ calls' = calls + 1

AddServer(mode) ==
  /\ Calling
  /\ servers' = Append(servers, [mode |-> mode, mws |-> <<>>, routes |-> <<>>])
  /\ UNCHANGED <<rests, pools, defaults, given, meant, wish>>

Use(tag) ==
  /\ Calling
  /\ servers' = [i \in DOMAIN servers |-> [servers[i] EXCEPT !.mws = Append(@, tag)]]
  /\ UNCHANGED <<rests, pools, defaults, given, meant, wish>>

Abandon(tag) ==
  /\ Calling
  /\ servers' = [i \in DOMAIN servers |-> IF i \in HTTPServers THEN [servers[i] EXCEPT !.mws = Without(@, tag)] ELSE servers[i]]
  /\ UNCHANGED <<rests, pools, defaults, given, meant, wish>>

Verb(path, ms) ==
  /\ Calling
  /\ servers' = Route(servers, <<path, "GET">>, Plain, ms)
  /\ given' = Returned({<<path, "GET">>})
  /\ wish' = wish \ given'
  /\ UNCHANGED <<rests, pools, defaults, meant>>

(* Any adds a route for each method, Match for those it is given.          *)
Match(path, verbs, ms) ==
  /\ Calling
  /\ servers' = Each(servers, path, verbs, Plain, ms)
  /\ given' = Returned({<<path, v>> : v \in verbs})
  /\ wish' = wish \ given'
  /\ UNCHANGED <<rests, pools, defaults, meant>>

(* The routes of a group's Any are added and not returned.                 *)
GroupAny(path, ms) ==
  /\ Calling
  /\ servers' = GroupRoute(servers, path, Verbs, Plain, ms)
  /\ given' = {}
  /\ wish' = wish \ Returned({<<path, v>> : v \in Verbs})
  /\ UNCHANGED <<rests, pools, defaults, meant>>

(* Options and middlewares of the routes that a call returned.             *)
OnGiven(changed) ==
  [i \in DOMAIN servers |->
     [servers[i] EXCEPT !.routes = [k \in DOMAIN @ |-> IF <<i, k>> \in given THEN changed[<<i, k>>] ELSE @[k]]]]
RouteOf(w) == servers[w[1]].routes[w[2]]

Cache ==
  /\ Calling /\ given # {}
  /\ servers' = OnGiven([w \in given |-> [RouteOf(w) EXCEPT !.cached = TRUE]])
  /\ wish' = wish \cup given
  /\ UNCHANGED <<rests, pools, defaults, given, meant>>

RoutesUse(tag) ==
  /\ Calling /\ given # {}
  /\ servers' = OnGiven([w \in given |-> [RouteOf(w) EXCEPT !.mws = Append(@, tag)]])
  /\ UNCHANGED <<rests, pools, defaults, given, meant, wish>>

RoutesAbandon(tag) ==
  /\ Calling /\ given # {}
  /\ servers' = OnGiven([w \in given |-> [RouteOf(w) EXCEPT !.mws = Without(@, tag)]])
  /\ UNCHANGED <<rests, pools, defaults, given, meant, wish>>

(* A model of another package is known, and has no routes.                 *)
AddModel(model, enabled) ==
  LET flag == IF enabled THEN Verbs ELSE {}
      rest == NewREST(Plural[model], flag, <<>>, pools + 1)
  IN /\ Calling
     /\ rests' = (model :> rest) @@ rests /\ pools' = pools + 1
     /\ servers' = IF model \in InPackage THEN Builtin(servers, model, rest, flag) ELSE servers
     /\ given' = {}
     /\ meant' = (model :> Meaning(Plural[model], flag, <<>>, IF model \in InPackage THEN Len(servers) ELSE 0)) @@ meant
     /\ wish' = {w \in wish : w[2][1] # Plural[model]}
     /\ UNCHANGED defaults

GetRouter(model) == ~Known(model) /\ AddModel(model, TRUE)

(* At another endpoint the routes of the old one are to be disabled, by    *)
(* adding them with the flag of no method; they get a pool of their own.   *)
Register(model, endpoint, flag, ms) ==
  LET moves == Known(model) /\ rests[model].endpoint # endpoint
      older == NewREST(rests[model].endpoint, rests[model].flag, rests[model].own, pools + 1)
      rest == NewREST(endpoint, flag, ms, pools + 2)
  IN /\ Calling
     /\ servers' = Builtin(IF moves THEN Builtin(servers, model, older, {}) ELSE servers, model, rest, flag)
     /\ rests' = (model :> rest) @@ rests /\ pools' = pools + 2
     /\ given' = {}
     /\ meant' = (model :> Meaning(endpoint, flag, ms, Len(servers))) @@ meant
     /\ wish' = {w \in wish : w[2][1] # endpoint}
     /\ UNCHANGED defaults

(* Every model known is added again, with what it was registered with but  *)
(* its middlewares, and whether it is of this package or not.              *)
Rebuilt(known, model, ds, pool) == [known EXCEPT !.ms = ds, !.own = <<>>, !.pool = pool]

AddMiddleware(tag) ==
  LET order == SetToSeq(DOMAIN rests)
      ds == Append(defaults, tag)
      new == [m \in DOMAIN rests |-> Rebuilt(rests[m], m, ds, pools + (CHOOSE i \in DOMAIN order : order[i] = m))]
  IN /\ Calling
     /\ defaults' = ds
     /\ rests' = new /\ pools' = pools + Len(order)
     /\ servers' = FoldLeft(LAMBDA ss, m : Builtin(ss, m, new[m], new[m].flag), servers, order)
     /\ given' = {}
     /\ meant' = [m \in DOMAIN meant |-> [meant[m] EXCEPT !.ms = <<>>, !.seen = Len(servers)]]
     /\ wish' = {w \in wish : \A m \in DOMAIN rests : w[2][1] # rests[m].endpoint}

Next ==
  \/ \E mode \in Modes : AddServer(mode)
  \/ \E tag \in Tags : Use(tag) \/ Abandon(tag) \/ RoutesUse(tag) \/ RoutesAbandon(tag) \/ AddMiddleware(tag)
  \/ \E path \in Paths : Match(path, Verbs, <<>>) \/ GroupAny(path, <<>>) \/ \E tag \in Tags : Verb(path, <<tag>>)
  \/ Cache
  \/ \E model \in Models, enabled \in BOOLEAN : AddModel(model, enabled)
  \/ \E model \in Models : GetRouter(model)
  \/ \E model \in Models, flag \in Flags, tag \in Tags : \E endpoint \in Given[model] : Register(model, endpoint, flag, <<tag>>)

Spec == Init /\ [][Next]_vars

-----------------------------------------------------------------------------

TypeOK ==
  /\ \A i \in DOMAIN servers : servers[i].mws \in Seq(Tags \cup {"Recover", "Access"})
  /\ DOMAIN meant = DOMAIN rests /\ pools \in Nat /\ calls \in 0..MaxCalls

LastOf(t, s) == CHOOSE i \in DOMAIN s : s[i] = t /\ \A j \in DOMAIN s : s[j] = t => j <= i
(* What is served runs each of the middlewares once, in the order of their *)
(* last mention.                                                           *)
RunsAll(mws, wanted) ==
  LET chain == Chain(mws) IN
  /\ IsInjective(chain) /\ ToSet(chain) = ToSet(wanted)
  /\ \A t, u \in ToSet(wanted) : LastOf(t, wanted) < LastOf(u, wanted) => LastOf(t, chain) < LastOf(u, chain)

(* A model is served at its endpoint as it was registered last: by its own *)
(* pool, with the methods it was registered for, after the middlewares of  *)
(* the server, all those added for models and its own, on every server     *)
(* there was (Builtin, AddMiddleware).  What the code does otherwise: no   *)
(* methods mean all, the middlewares of a model are lost when another is   *)
(* added for all, and a server without any drops those of the routes.      *)
RoutesAsRegistered ==
  \A m \in DOMAIN meant, i \in HTTPServers :
    i <= meant[m].seen => \A v \in Verbs :
      /\ <<meant[m].endpoint, v>> \in DOMAIN servers[i].routes
      /\ LET r == servers[i].routes[<<meant[m].endpoint, v>>] IN
           /\ r.pool = rests[m].pool /\ r.handler.model = m
           /\ r.handler.does = IF meant[m].flag = {} \/ v \in meant[m].flag THEN v ELSE "deny"
           /\ r.base # <<>> => RunsAll(r.mws, r.base \o defaults \o meant[m].ms)

(* The answers of a route are cached when, and only when, the call that    *)
(* added it last was followed by one for its cache.                        *)
CachedAsAsked ==
  \A i \in DOMAIN servers : \A k \in DOMAIN servers[i].routes : servers[i].routes[k].cached <=> <<i, k>> \in wish
=============================================================================
