------------------------------ MODULE MCService ------------------------------
(***************************************************************************)
(* The services around the graph on small instances: Scheduler, RateLimits, *)
(* DeferredTasks, Sessions, Accounts, GuardedLogins, Webhooks, OAuth,       *)
(* UrlProxies, Endpoints and ApiKeys.  They share no state; scene says of   *)
(* which of them a behaviour is, and with which constants.  ServiceProofs   *)
(* has those with the constants of the cfg, and what is proved of them.    *)
(*   jobs     two tasks of one id; a job may outlast the wait of stop      *)
(*   restarts the service is stopped and started again                     *)
(*   memory   counters in memory: two paths of one endpoint, and another   *)
(*   redis    counters in Redis, clocks of the processes two ticks apart   *)
(*   tasks    every environment that a deferred task may meet              *)
(*   logins   one access token, two processes with a store each            *)
(*   process  the same in one process, where look-ups may raise            *)
(*   renewals refresh tokens that rotate and are revoked                   *)
(*   kept     refresh tokens that do not rotate                            *)
(*   hooks    two requests with one key, a handler that stores responses   *)
(*   faulty   the same, where calls may raise                              *)
(*   queued   the same, queued, where calls may raise                      *)
(*   codes    one code, three refresh tokens, two requests at a time       *)
(*   flips    one code, in a database that does not update in one step     *)
(*   denials  one access token, two requests at a time                     *)
(*   accounts five calls, one after another, where saves may raise         *)
(*   founders two processes, and registrations that overlap                *)
(*   guards   two clients of one account, two requests at a time           *)
(*   links    one link, two requests at a time, calls that raise (the cfg) *)
(*   routes   two walkers and a function, two paths, three calls           *)
(*   wrapped  the same with an application that includes routers as such   *)
(*   keys     one API key, in two processes                                *)
(*   broken   the same in one process, where calls may raise               *)
(***************************************************************************)
EXTENDS ServiceProofs, TLC

CONSTANTS c1, c2, a1, r1,                          \* among Callers, Access and Refresh
          o1, o2, job, u1, u2, client, p, q, other, listed, Unlisted, d1, d2, code

VARIABLES time, counted, cleaned, sent, passed,
          db, heap, cache, ticket, visit, visits, apart, chosen, resets, demoted,
          clock, attempts, failed, locked, sessions, userSessions, attempt, tries, wrong,
          server, deferred, config, tracked, book, front, changes

authenticating == <<moment, expires, black, store, active, jti, login, out, calm>>
scheduling == <<table, enabled, jobs, event, thread, at, due, task, future, pool, queue, running, stop>>
limiting == <<time, counted, cleaned, sent, passed>>
deferring == <<env, asked, hour, deferral, deferrals, held, took, ran>>
hooking == <<records, memory, place, copy, repeats, handled, stored, late>>
granting == <<codes, token, family, denied, old, request, issued, told, mixed, dead>>
registering == <<db, heap, cache, ticket, visit, visits, apart, chosen, resets, demoted>>
guarding == <<clock, attempts, failed, locked, sessions, userSessions, attempt, tries, wrong>>
routing == <<server, deferred, config, tracked, book, front, changes>>
knocking == <<moments, keys, remembered, adrift, knock, gone>>
-----------------------------------------------------------------------------
OwnStore == c1 :> 1 @@ c2 :> 2
SharedStore == c1 :> 1 @@ c2 :> 1

SameId == o1 :> job @@ o2 :> job
OneEach == o1 :> 1 @@ o2 :> 1
Restarted == INSTANCE Scheduler WITH
    Limit <- Quota, Parsed <- {o1}, Threads <- {u1, u2},
    Workers <- 1, Restarts <- TRUE, Overruns <- FALSE, MaxRuns <- 2

InMemory == INSTANCE RateLimits WITH
    now <- time, calls <- sent, Backend <- "memory", Clients <- {client}, Paths <- {p, q, other},
    Limits <- listed :> 2, Match <- p :> listed @@ q :> listed @@ other :> Unlisted,
    DefaultLimit <- 2, Window <- 2, Interval <- 1, Idle <- 2, Skews <- {0}, Latency <- 1,
    Excess <- 1, MaxTime <- 4
InRedis == INSTANCE RateLimits WITH
    now <- time, calls <- sent, Backend <- "redis", Clients <- {client}, Paths <- {p},
    Limits <- listed :> 1, Match <- p :> listed,
    DefaultLimit <- 0, Window <- 6, Interval <- 1, Idle <- 2, Skews <- {0, 2}, Latency <- 1,
    Excess <- 2, MaxTime <- 6

OneToken == [storeOf |-> OwnStore, access |-> {a1}, refresh |-> {r1}, rotation |-> TRUE,
             failClosed |-> TRUE, faults |-> FALSE, ttl |-> 1, life |-> 5, latency |-> 1, maxTime |-> 0]
TokensOf == [logins |-> [OneToken EXCEPT !.maxTime = 2],
             process |-> [OneToken EXCEPT !.storeOf = SharedStore, !.faults = TRUE, !.life = 2, !.maxTime = 3],
             renewals |-> [OneToken EXCEPT !.access = Access, !.refresh = Refresh],
             kept |-> [OneToken EXCEPT !.access = Access, !.rotation = FALSE]]
CallsOf == [logins |-> {"validate", "logout", "revoke"}, process |-> {"validate", "logout", "revoke_all"},
            renewals |-> {"refresh", "revoke", "revoke_all"}, kept |-> {"refresh", "revoke"}]

Faulty == INSTANCE Webhooks WITH
    at <- place, Faults <- TRUE, MaxRecords <- 1
Queued == INSTANCE Webhooks WITH
    at <- place, Async <- TRUE, Faults <- TRUE, MaxRecords <- 1

Flips == INSTANCE OAuth WITH
    call <- request, Native <- FALSE

Accounts == INSTANCE Accounts WITH
    token <- ticket, call <- visit, calls <- visits, calm <- apart,
    Callers <- {c1}, ProcessOf <- OwnStore, Users <- {u1, u2}, Emails <- {p}, Passwords <- {d1, d2},
    Open <- TRUE, Faults <- TRUE, MaxCalls <- 5
Founders == INSTANCE Accounts WITH
    token <- ticket, call <- visit, calls <- visits, calm <- apart,
    ProcessOf <- OwnStore, Users <- {u1, u2}, Emails <- {p, q}, Passwords <- {d1},
    Open <- TRUE, Faults <- FALSE, MaxCalls <- 3

Guards == INSTANCE GuardedLogins WITH
    now <- clock, call <- attempt, calls <- tries,
    Clients <- {p, q}, Users <- {u1}, Ids <- {o1, o2, job},
    MaxAttempts <- 2, Window <- 2, MaxFailed <- 2, Lockout <- 2, MaxSessions <- 2, Timeout <- 1,
    MaxTime <- 3, MaxCalls <- 4

Found == <<u1, u2, client>>
Routes == INSTANCE Endpoints WITH
    calls <- changes, Walkers <- {u1, u2}, Functions <- {client}, Paths <- {p, q},
    Asked <- {"default"}, Members <- Found, Live <- FALSE, MaxCalls <- 3
Wrapped == INSTANCE Endpoints WITH
    calls <- changes, Walkers <- {u1, u2}, Functions <- {client}, Paths <- {p, q},
    Asked <- {"default", "GET"}, Members <- Found, Live <- TRUE, MaxCalls <- 3

Near == code :> {p}
OneKey == [processOf |-> OwnStore, keys |-> {code}, lives |-> {0, 1}, origins |-> {p}, allowed |-> Near,
           faults |-> FALSE, ttl |-> 2, maxSize |-> 1, timeout |-> 1, latency |-> 1, maxTime |-> 3]
KeysOf == [keys |-> OneKey,
           broken |-> [OneKey EXCEPT !.processOf = SharedStore, !.lives = {0}, !.origins = {p, q}, !.faults = TRUE]]

ASSUME /\ Assumptions /\ Jobs!Assumptions /\ Restarted!Assumptions /\ InMemory!Assumptions
       /\ InRedis!Assumptions /\ Defers!Assumptions /\ ScenesApart
       /\ \A s \in DOMAIN TokenScenes : Tokens(TokenScenes[s])!Assumptions
       /\ \A s \in DOMAIN KeyScenes : Knocks(KeyScenes[s])!Assumptions
       /\ Hooks!Assumptions /\ Queued!Assumptions /\ Grants!Assumptions
       /\ Accounts!Assumptions /\ Founders!Assumptions /\ Guards!Assumptions
       /\ Routes!Assumptions /\ Wrapped!Assumptions
-----------------------------------------------------------------------------
(* The state of the modules that a scene is not about.                       *)
NoTokens ==
    /\ moment = None /\ expires = None /\ black = None /\ store = None /\ active = None
    /\ jti = None /\ login = None /\ out = None /\ calm = None
NoJobs ==
    /\ table = None /\ enabled = None /\ jobs = None /\ event = None /\ thread = None
    /\ at = None /\ due = None /\ task = None /\ future = None /\ pool = None /\ queue = None
    /\ running = None /\ stop = None
NoLimits ==
    /\ time = None /\ counted = None /\ cleaned = None /\ sent = None /\ passed = None
NoTasks ==
    /\ env = None /\ asked = None /\ hour = None /\ deferral = None /\ deferrals = None
    /\ held = None /\ took = None /\ ran = None
NoHooks ==
    /\ records = None /\ memory = None /\ place = None /\ copy = None /\ repeats = None
    /\ handled = None /\ stored = None /\ late = None
NoGrants ==
    /\ codes = None /\ token = None /\ family = None /\ denied = None /\ old = None
    /\ request = None /\ issued = None /\ told = None /\ mixed = None /\ dead = None
NoAccounts ==
    /\ db = None /\ heap = None /\ cache = None /\ ticket = None /\ visit = None
    /\ visits = None /\ apart = None /\ chosen = None /\ resets = None /\ demoted = None
NoGuards ==
    /\ clock = None /\ attempts = None /\ failed = None /\ locked = None /\ sessions = None
    /\ userSessions = None /\ attempt = None /\ tries = None /\ wrong = None
NoRoutes ==
    /\ server = None /\ deferred = None /\ config = None /\ tracked = None /\ book = None
    /\ front = None /\ changes = None
NoKeys ==
    /\ moments = None /\ keys = None /\ remembered = None /\ adrift = None /\ knock = None
    /\ gone = None

OneWay == asked.creates => Defers!HereLocal   \* elsewhere create_task only calls the other

ServiceInit ==
    /\ scene \in {"jobs", "restarts", "memory", "redis", "tasks", "logins", "process", "renewals",
                 "kept", "hooks", "faulty", "queued", "codes", "flips", "denials", "accounts",
                 "founders", "guards", "links", "routes", "wrapped", "keys", "broken"}
    /\ Init
    /\ \/ \E s \in DOMAIN TokenScenes : scene = s /\ Tokens(TokenScenes[s])!Init
       \/ scene \notin DOMAIN TokenScenes /\ NoTokens
    /\ CASE scene = "jobs" -> Jobs!Init
         [] scene = "restarts" -> Restarted!Init
         [] OTHER -> NoJobs
    /\ CASE scene = "memory" -> InMemory!Init
         [] scene = "redis" -> InRedis!Init
         [] OTHER -> NoLimits
    /\ IF scene = "tasks" THEN Defers!Init /\ OneWay ELSE NoTasks
    /\ IF scene \in {"hooks", "faulty", "queued"} THEN Hooks!Init ELSE NoHooks
    /\ IF scene \in {"codes", "flips", "denials"} THEN Grants!Init ELSE NoGrants
    /\ CASE scene = "accounts" -> Accounts!Init
         [] scene = "founders" -> Founders!Init
         [] OTHER -> NoAccounts
    /\ IF scene = "guards" THEN Guards!Init ELSE NoGuards
    /\ IF scene \in {"routes", "wrapped"} THEN Routes!Init ELSE NoRoutes
    /\ \/ \E s \in DOMAIN KeyScenes : scene = s /\ Knocks(KeyScenes[s])!Init
       \/ scene \notin DOMAIN KeyScenes /\ NoKeys

Scheduling ==
    /\ scene \in {"jobs", "restarts"}
    /\ UNCHANGED <<authenticating, limiting, deferring, hooking, granting, registering, guarding,
                   vars, routing, knocking>>
    /\ \/ scene = "jobs" /\ Jobs!Next
       \/ scene = "restarts" /\ Restarted!Next

Limiting ==
    /\ scene \in {"memory", "redis"}
    /\ UNCHANGED <<authenticating, scheduling, deferring, hooking, granting, registering, guarding,
                   vars, routing, knocking>>
    /\ \/ scene = "memory" /\ InMemory!Next
       \/ scene = "redis" /\ InRedis!Next

Deferring ==
    /\ scene = "tasks"
    /\ UNCHANGED <<authenticating, scheduling, limiting, hooking, granting, registering, guarding,
                   vars, routing, knocking>>
    /\ Defers!Next

\* Which identity a new token has is of no matter: the first free one.
Fresh(was, is, free) ==
    \A x \in DOMAIN was :
        was[x] = free /\ is[x] # free => x = CHOOSE y \in DOMAIN was : was[y] = free

Authenticating ==
    /\ UNCHANGED <<scheduling, limiting, deferring, hooking, granting, registering,
                   guarding, vars, routing, knocking>>
    /\ \E s \in DOMAIN TokenScenes :
          /\ scene = s /\ Tokens(TokenScenes[s])!Next
          /\ \A c \in Callers : login'[c].op \in CallsOf[s] \cup {"none"}
    /\ scene = "renewals" => Fresh(expires, expires', 0) /\ Fresh(jti, jti', None)

Hooking ==
    /\ scene \in {"hooks", "faulty", "queued"}
    /\ UNCHANGED <<authenticating, scheduling, limiting, deferring, granting, registering, guarding,
                   vars, routing, knocking>>
    /\ \/ scene = "hooks" /\ Hooks!Next
       \/ scene = "faulty" /\ Faulty!Next
       \/ scene = "queued" /\ Queued!Next

Asking(ops) == \A c \in Callers : request'[c].op \in ops \cup {"none"}
Granting ==
    /\ scene \in {"codes", "flips", "denials"}
    /\ UNCHANGED <<authenticating, scheduling, limiting, deferring, hooking, registering, guarding,
                   vars, routing, knocking>>
    /\ \/ scene = "codes" /\ Grants!Next /\ Asking({"exchange", "refresh", "revoke"})
          /\ old' \subseteq {code} /\ Fresh(token, token', "none")
       \/ scene = "flips" /\ Flips!Next /\ Asking({"exchange"}) /\ old' = {}
       \/ scene = "denials" /\ Grants!Next /\ Asking({"deny", "verify"})
          /\ old' \subseteq {a1} /\ codes' = codes

Registering ==
    /\ scene \in {"accounts", "founders"}
    /\ UNCHANGED <<authenticating, scheduling, limiting, deferring, hooking, granting, guarding,
                   vars, routing, knocking>>
    /\ \/ scene = "accounts" /\ Accounts!Next
       \/ scene = "founders" /\ Founders!Next

Guarding ==
    /\ scene = "guards"
    /\ UNCHANGED <<authenticating, scheduling, limiting, deferring, hooking, granting, registering,
                   vars, routing, knocking>>
    /\ Guards!Next

Linking ==
    /\ scene = "links"
    /\ UNCHANGED <<authenticating, scheduling, limiting, deferring, hooking, granting, registering,
                   guarding, routing, knocking>>
    /\ Next

Routing ==
    /\ scene \in {"routes", "wrapped"}
    /\ UNCHANGED <<authenticating, scheduling, limiting, deferring, hooking, granting, registering, guarding,
                   vars, knocking>>
    /\ \/ scene = "routes" /\ Routes!Next
       \/ scene = "wrapped" /\ Wrapped!Next

Knocking ==
    /\ UNCHANGED <<authenticating, scheduling, limiting, deferring, hooking, granting, registering, guarding,
                   vars, routing>>
    /\ \E s \in DOMAIN KeyScenes : scene = s /\ Knocks(KeyScenes[s])!Next

ServiceNext ==
    /\ UNCHANGED scene
    /\ \/ Scheduling \/ Limiting \/ Deferring \/ Authenticating \/ Hooking \/ Granting
       \/ Registering \/ Guarding \/ Linking \/ Routing \/ Knocking

ServiceSpec ==
    ServiceInit /\ [][ServiceNext]_<<scene, vars, authenticating, scheduling, limiting, deferring, hooking,
                                    granting, registering, guarding, routing, knocking>>
-----------------------------------------------------------------------------
\* The types of all modules: no counter exceeds its bound, and what is
\* remembered, read or queued is one of the module's own values.
ServiceTypes ==
    /\ scene = "jobs" => Jobs!TypeOK
    /\ scene = "restarts" => Restarted!TypeOK
    /\ scene = "memory" => InMemory!TypeOK
    /\ scene = "redis" => InRedis!TypeOK
    /\ scene = "tasks" => Defers!TypeOK
    /\ scene = "hooks" => Hooks!TypeOK
    /\ scene \in {"faulty", "queued"} => Queued!TypeOK
    /\ scene \in {"codes", "flips", "denials"} => Grants!TypeOK
    /\ scene = "accounts" => Accounts!TypeOK
    /\ scene = "founders" => Founders!TypeOK
    /\ scene = "guards" => Guards!TypeOK
    /\ scene = "links" => TypeOK
    /\ scene = "routes" => Routes!TypeOK
    /\ scene = "wrapped" => Wrapped!TypeOK
    /\ \A s \in DOMAIN TokenScenes : scene = s => Tokens(TokenScenes[s])!TypeOK
    /\ \A s \in DOMAIN KeyScenes : scene = s => Knocks(KeyScenes[s])!TypeOK

\* What is started or built again is whole: the scheduler has one thread, though
\* it was stopped and started (api/integrations/scheduler/scheduler.py:108); an app
\* answers for all that was decorated or registered when it was built, and the index
\* of paths says what is registered (api/server_app_factory.py:38,
\* api/endpoints/registry.py:662).
StartsWhole == /\ scene = "restarts" => Restarted!Orderly
               /\ scene = "routes" => Routes!AppsComplete /\ Routes!IndexAgrees
               /\ scene = "wrapped" => Wrapped!AppsComplete /\ Wrapped!IndexAgrees

\* No client gets more requests through on an endpoint than its limit in a
\* window, up to what clocks differ and a call takes
\* (api/middleware/rate_limit_backend.py:153); no more wrong passwords are tried
\* on an account, or by a client, than the guards allow and requests that had
\* passed them, and a user has no more sessions than the cap
\* (api/auth/enhanced.py:456, 262).
LimitKept == /\ scene = "memory" => InMemory!LimitKept
             /\ scene = "redis" => InRedis!LimitKept
             /\ scene = "guards" => Guards!GuessesBounded /\ Guards!SessionsCapped

\* There is an administrator as soon as there is an account; the password of an
\* account is the last one that was set, while calls of one process do not
\* overlap, and a reset token is good for one reset
\* (api/auth/service.py:781, 1356, 1440).
AccountsHold == /\ scene = "accounts" => Accounts!HasAdmin /\ Accounts!PasswordsHold /\ Accounts!ResetOnce
                /\ scene = "founders" => Founders!HasAdmin /\ Founders!ResetOnce
=============================================================================
