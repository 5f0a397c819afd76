------------------------------- MODULE Endpoints -------------------------------
(***************************************************************************)
(* How walkers and functions become routes of the application: the         *)
(* decorator endpoint (api/decorators/route.py), the list of what was      *)
(* decorated before there was a server (deferred_registry.py), the         *)
(* registry (api/endpoints/registry.py), the router (router.py) and the    *)
(* applications that the server builds (server_app_factory.py).  All in    *)
(* one module of the program; each call is one step, none awaits another.  *)
(* A request is answered by the first route with its path and method.      *)
(***************************************************************************)
EXTENDS Naturals, Sequences, FiniteSets, SequencesExt

CONSTANTS Walkers, Functions, Paths, None,
          Asked,            \* methods that are asked for; "default" is none
          Members,          \* sequence of all targets, in which a scan finds them
          Live,             \* Starlette includes routers as they are, not their routes
          MaxCalls          \* bound

Targets == Walkers \cup Functions
Methods == {"GET", "POST"}

Assumptions ==
    /\ Walkers \cap Functions = {} /\ None \notin Targets \cup Paths
    /\ Asked \subseteq Methods \cup {"default"} /\ Live \in BOOLEAN /\ MaxCalls \in Nat
    /\ Members \in Seq(Targets) /\ ToSet(Members) = Targets

VARIABLES server,           \* "none", "made" or "running"
          deferred,         \* decorated without a server
          config,           \* per target: _jvspatial_endpoint_config
          tracked,          \* a target of the program's module was decorated
          book,             \* registry, index of paths, router, and the server's app
          front,            \* the app that requests reach, None if it is the server's
          calls

vars == <<server, deferred, config, tracked, book, front, calls>>

Routes == [path : Paths, method : Methods, target : Targets]
Entries == [path : Paths, method : Methods, how : {"routed", "added", "listed"}]
(* made: the routes it was built with; added: later; owed: for properties. *)
Apps == [made : Seq(Routes), added : Seq(Routes), owed : SUBSET Entries]

TypeOK ==
    /\ server \in {"none", "made", "running"} /\ tracked \in BOOLEAN /\ calls \in 0..MaxCalls
    /\ deferred \in Seq(Routes) /\ config \in [Targets -> [path : Paths, method : Methods] \cup {None}]
    /\ book.registry \in [Targets -> Entries \cup {None}] /\ book.index \in [Paths -> Seq(Targets)]
    /\ book.router \in Seq(Routes) /\ book.app \in Apps \cup {None}
    /\ front \in Apps \cup {None}
    /\ server = "none" => book.app = None

Init ==
    /\ server = "none" /\ deferred = <<>> /\ config = [t \in Targets |-> None] /\ tracked = FALSE
    /\ book = [registry |-> [t \in Targets |-> None], index |-> [p \in Paths |-> <<>>],
               router |-> <<>>, app |-> None]
    /\ front = None /\ calls = 0

Route(t, p, m) == [path |-> p, method |-> m, target |-> t]
SameRoute(r, s) == r.path = s.path /\ r.method = s.method
-----------------------------------------------------------------------------
(* The registry.                                                           *)
Known(b, t) == b.registry[t] # None

register(b, r, how) ==                        \* register_walker, register_function
    [b EXCEPT !.registry[r.target] = [path |-> r.path, method |-> r.method, how |-> how],
              !.index[r.path] = Append(@, r.target)]

ForgottenOnly(b, t) == [b EXCEPT !.registry[t] = None]    \* mutant: it stays in the index
Forgotten(b, t) ==                            \* unregister_walker, unregister_function
    [b EXCEPT !.registry[t] = None, !.index[b.registry[t].path] = SelectSeq(@, LAMBDA u : u # t)]

At(b, p) == {t \in Targets : Known(b, t) /\ b.registry[t].path = p}
unregister_by_path(b, p) ==
    [b EXCEPT !.registry = [t \in Targets |-> IF t \in At(b, p) THEN None ELSE @[t]],
              !.index[p] = <<>>]

(* The router takes no second route with a path and methods.               *)
add_routeByPath(b, r) ==                      \* mutant: nor with a path
    IF \E i \in 1..Len(b.router) : b.router[i].path = r.path THEN b
    ELSE [b EXCEPT !.router = Append(@, r)]
add_route(b, r) ==
    IF \E i \in 1..Len(b.router) : SameRoute(b.router[i], r) THEN b
    ELSE [b EXCEPT !.router = Append(@, r)]

(* A router of its own, included in the present app only.                  *)
_register_walker_dynamically(b, r) ==
    IF b.app = None THEN b ELSE [b EXCEPT !.app.added = Append(@, r)]
-----------------------------------------------------------------------------
(* sync_endpoint_modules: what is configured and not registered.           *)
_discover_in_module(b, t, settings, running) ==
    LET r == Route(t, settings[t].path, settings[t].method) IN
    IF settings[t] = None \/ Known(b, t) THEN b
    ELSE IF t \in Walkers /\ running THEN _register_walker_dynamically(register(b, r, "added"), r)
    ELSE register(add_route(b, r), r, "routed")

Synced(b, running) ==
    IF tracked THEN FoldLeft(LAMBDA c, t : _discover_in_module(c, t, config, running), b, Members) ELSE b

App(b) == [made |-> IF Live THEN <<>> ELSE b.router, added |-> <<>>,
           owed |-> {b.registry[t] : t \in {u \in Targets : Known(b, u)}}]

(* The new app has the routes of the router; uvicorn keeps the old one.    *)
Rebuilt(s) ==
    LET b == Synced(s.book, TRUE) IN
    [book |-> [b EXCEPT !.app = App(b)], front |-> IF s.front = None THEN b.app ELSE s.front]

_rebuild_app_if_needed(s) == IF server = "running" THEN Rebuilt(s) ELSE s

(* The walkers of a path, in the list that shrinks while it is read.       *)
EachOf(p, n) ==
    LET Next(s, i) ==
            LET here == s.book.index[p]
                b == Forgotten(s.book, here[i])
                r == _rebuild_app_if_needed([book |-> b, front |-> s.front])
            IN  IF s.over \/ i > Len(here) THEN [s EXCEPT !.over = TRUE]
                ELSE IF here[i] \in Functions THEN s
                ELSE [book |-> r.book, front |-> r.front, over |-> b.index[p] = <<>>]
    IN  FoldLeft(Next, [book |-> book, front |-> front, over |-> FALSE], [i \in 1..n |-> i])
-----------------------------------------------------------------------------
Call == calls < MaxCalls /\ calls' = calls + 1
Becomes(s) == book' = s.book /\ front' = s.front

Method(t, ask) == IF ask # "default" THEN ask ELSE IF t \in Walkers THEN "POST" ELSE "GET"

(* The decorator.  A walker that is registered already raises before it is *)
(* routed, a function after.                                               *)
endpoint(t, p, ask) ==
    LET noted == [path |-> p, method |-> IF ask = "default" THEN "GET" ELSE ask]
        r == Route(t, p, Method(t, ask))
        walker == IF Known(book, t) THEN book
                  ELSE LET b == add_route(register(book, r, "routed"), r) IN
                       IF server = "running" THEN _register_walker_dynamically(b, r) ELSE b
        function == LET b == add_route(book, r) IN IF Known(b, t) THEN b ELSE register(b, r, "routed")
    IN
    /\ Call /\ config' = [config EXCEPT ![t] = noted] /\ tracked' = TRUE
    /\ IF server = "none"
       THEN deferred' = Append(deferred, Route(t, p, noted.method)) /\ UNCHANGED book
       ELSE book' = (IF t \in Walkers THEN walker ELSE function) /\ UNCHANGED deferred
    /\ UNCHANGED <<server, front>>

_register_deferred_endpoint(b, r) ==
    LET t == r.target IN
    IF Known(b, t) THEN (IF t \in Walkers THEN b ELSE add_route(b, r))
    ELSE add_route(register(b, r, "routed"), r)

MakeServer ==                                 \* Server.__init__ flushes what was deferred
    /\ server = "none" /\ server' = "made"
    /\ book' = FoldLeft(_register_deferred_endpoint, book, deferred) /\ deferred' = <<>>
    /\ UNCHANGED <<config, tracked, front, calls>>

ListOnly(t, p, ask) ==                        \* Server.endpoint enters the registry only
    /\ Call /\ server # "none" /\ ~Known(book, t)
    /\ book' = register(book, Route(t, p, Method(t, ask)), "listed")
    /\ UNCHANGED <<server, deferred, config, tracked, front>>

register_walker_class(t, p, ask) ==
    LET r == Route(t, p, Method(t, ask)) IN
    /\ Call /\ server # "none" /\ t \in Walkers /\ ~Known(book, t)
    /\ IF server = "running"
       THEN book' = _register_walker_dynamically(register(book, r, "added"), r) /\ UNCHANGED config
       ELSE /\ book' = add_route(register(book, r, "routed"), r)
            /\ config' = [config EXCEPT ![t] = [path |-> p, method |-> r.method]]
    /\ UNCHANGED <<server, deferred, tracked, front>>

Unregister(t) ==                              \* unregister_walker_class, unregister_endpoint
    /\ Call /\ server # "none" /\ Known(book, t)
    /\ Becomes(_rebuild_app_if_needed([book |-> Forgotten(book, t), front |-> front]))
    /\ UNCHANGED <<server, deferred, config, tracked>>

unregister_walker_endpoint(p) ==
    /\ Call /\ server # "none" /\ At(book, p) \cap Walkers # {}
    /\ Becomes(EachOf(p, Cardinality(Targets) + 1))
    /\ UNCHANGED <<server, deferred, config, tracked>>

UnregisterPath(p) ==                          \* unregister_endpoint of a path
    /\ Call /\ server # "none" /\ At(book, p) # {}
    /\ Becomes(_rebuild_app_if_needed([book |-> unregister_by_path(book, p), front |-> front]))
    /\ UNCHANGED <<server, deferred, config, tracked>>

unregister_endpoint_by_path(p) ==             \* never rebuilds
    /\ Call /\ server # "none" /\ At(book, p) # {}
    /\ book' = unregister_by_path(book, p)
    /\ UNCHANGED <<server, deferred, config, tracked, front>>

get_app ==
    /\ server = "made" /\ book.app = None
    /\ LET b == Synced(book, FALSE) IN book' = [b EXCEPT !.app = App(b)]
    /\ UNCHANGED <<server, deferred, config, tracked, front, calls>>

startup ==
    /\ server = "made" /\ book.app # None /\ server' = "running"
    /\ UNCHANGED <<deferred, config, tracked, book, front, calls>>

shutdown ==
    /\ server = "running" /\ server' = "made" /\ front' = None
    /\ UNCHANGED <<deferred, config, tracked, book, calls>>

Next ==
    \/ MakeServer \/ get_app \/ startup \/ shutdown
    \/ \E t \in Targets : \/ Unregister(t)
                          \/ \E p \in Paths, a \in Asked : \/ endpoint(t, p, a) \/ ListOnly(t, p, a)
                                                           \/ register_walker_class(t, p, a)
    \/ \E p \in Paths : unregister_walker_endpoint(p) \/ UnregisterPath(p) \/ unregister_endpoint_by_path(p)

Spec == Init /\ [][Next]_vars
-----------------------------------------------------------------------------
\* The index of paths holds what is registered, each target once, under its path
\* (api/endpoints/registry.py:662).
IndexAgrees ==
    \A p \in Paths : ToSet(book.index[p]) = At(book, p) /\ Len(book.index[p]) = Cardinality(At(book, p))

Shown(b) == (IF Live THEN b.router ELSE b.app.made) \o b.app.added
Answers(b, e) == \E i \in 1..Len(Shown(b)) : SameRoute(Shown(b)[i], e)

\* An app answers for everything that was registered when it was built, however it
\* was decorated, registered and unregistered before, except walkers registered
\* while the server ran (api/server_app_factory.py:38).
AppsComplete == book.app # None => \A e \in book.app.owed : e.how = "routed" => Answers(book, e)

\* LIMIT: requests reach the app that the server changes.
FrontCurrent == front = None

\* LIMIT: walkers registered while the server runs stay when the app is rebuilt.
StaysWhenBuilt == book.app # None => \A e \in book.app.owed : e.how = "added" => Answers(book, e)

\* LIMIT: what is unregistered is gone from an app built afterwards (docs/md/server-api.md:551).
RemovedGone ==
    [][book'.app # None /\ book'.app # book.app /\ book'.app.added = <<>> =>
           \A i \in 1..Len(Shown(book')) : Known(book', Shown(book')[i].target)]_vars

\* LIMIT: no walker is left at a path that was cleared of walkers.
PathCleared ==
    [][\A p \in Paths : unregister_walker_endpoint(p) => At(book', p) \cap Walkers = {}]_vars

\* LIMIT: a walker for which no method is asked answers POST (docs/md/decorator-reference.md:132).
WalkersPosted ==
    Asked = {"default"} => \A i \in 1..Len(book.router) :
        book.router[i].target \in Walkers => book.router[i].method = "POST"
=============================================================================
