----------------------------- MODULE RateLimits ------------------------------
(***************************************************************************)
(* Rate limits (api/middleware/rate_limit.py, rate_limit_backend.py):      *)
(* every request is stamped and counted under its client and endpoint, and *)
(* let through if the window holds no more than the limit.  The memory     *)
(* backend counts without an await; with Redis the stamp is taken first,   *)
(* and the pipeline applied some time later.  Time is in ticks.            *)
(***************************************************************************)
EXTENDS Integers, FiniteSets, FiniteSetsExt

CONSTANTS Backend,        \* "memory" or "redis"
          Clients, Paths,
          Limits,         \* endpoint patterns to the number of requests
          Match,          \* the pattern a path matches, or Unlisted
          Unlisted,
          DefaultLimit,   \* for other paths, 0 for none
          Window,         \* of every limit
          Interval, Idle, \* of the memory backend's cleanup
          Skews,          \* how far processes' clocks are ahead
          Latency,        \* bound: ticks a call of Redis takes
          Excess,         \* bound: requests counted over a limit
          MaxTime         \* bound: the last tick

Assumptions ==
    /\ Backend \in {"memory", "redis"} /\ Match \in [Paths -> DOMAIN Limits \cup {Unlisted}]
    /\ \A e \in DOMAIN Limits : Limits[e] \in Nat
    /\ {DefaultLimit, Window, Interval, Idle, Latency, Excess, MaxTime} \subseteq Nat
    /\ 0 \in Skews /\ Skews \subseteq Nat
    /\ Backend = "memory" => Skews = {0}

MaxSkew == CHOOSE s \in Skews : \A r \in Skews : r <= s
Stamps == 0..(MaxTime + MaxSkew)

(* A listed endpoint has a counter per client; so has every other path.    *)
EndpointByPath(path) == path                  \* mutant of Endpoint: a counter for each path
Endpoint(path) == IF Match[path] # Unlisted THEN Match[path] ELSE path
Counters == Clients \X (DOMAIN Limits \cup Paths)
LimitOf(k) == IF k[2] \in DOMAIN Limits THEN Limits[k[2]] ELSE DefaultLimit

VARIABLES now,            \* the true time
          counted,        \* requests per counter and stamp: a list, or a sorted set
          cleaned,        \* _last_cleanup
          calls,          \* requests that await Redis: counter, stamp, true time
          passed          \* requests let through, per counter and stamp

vars == <<now, counted, cleaned, calls, passed>>

TypeOK ==
    /\ now \in 0..MaxTime /\ cleaned \in 0..MaxTime
    /\ counted \in [Counters -> [Stamps -> Nat]] /\ passed \in [Counters -> [Stamps -> Nat]]
    /\ calls \subseteq [of : Counters, at : Stamps, since : 0..MaxTime]

Nothing == [s \in Stamps |-> 0]

Init ==
    /\ now = 0 /\ cleaned = 0 /\ calls = {}
    /\ counted = [k \in Counters |-> Nothing] /\ passed = [k \in Counters |-> Nothing]
-----------------------------------------------------------------------------
Sum(count, stamps) == MapThenSumSet(LAMBDA s : count[s], stamps \cap Stamps)

(* Counters that were idle for too long are dropped, at most every         *)
(* Interval, whatever their window is.                                     *)
Active(count) == \E s \in Stamps : count[s] > 0 /\ now - s <= Idle
Kept == [k \in Counters |->
            IF now - cleaned >= Interval /\ ~Active(counted[k]) THEN Nothing ELSE counted[k]]

Trimmed(count, stamp) ==
    [s \in Stamps |-> IF s <= stamp - Window THEN 0 ELSE count[s] + (IF s = stamp THEN 1 ELSE 0)]

(* A request that exceeds the limit is counted too.                        *)
Count(k, stamp, all) ==
    /\ counted' = [all EXCEPT ![k] = Trimmed(@, stamp)]
    /\ IF Sum(counted'[k], Stamps) <= LimitOf(k)
       THEN passed' = [passed EXCEPT ![k][stamp] = @ + 1]
       ELSE UNCHANGED passed

IncrementInMemory(k) ==
    /\ Backend = "memory"
    /\ Count(k, now, Kept)
    /\ cleaned' = IF now - cleaned >= Interval THEN now ELSE cleaned
    /\ UNCHANGED <<now, calls>>

(* The stamp is the member of the sorted set; no two requests share one.   *)
SendToRedis(k) ==
    /\ Backend = "redis"
    /\ \E skew \in Skews :
        LET stamp == now + skew
        IN /\ \A j \in Counters : passed[j][stamp] = 0 /\ counted[j][stamp] = 0
           /\ \A c \in calls : c.at # stamp
           /\ calls' = calls \cup {[of |-> k, at |-> stamp, since |-> now]}
    /\ UNCHANGED <<now, counted, cleaned, passed>>

(* The pipeline adds the stamp, drops what is older than the window before *)
(* it, and counts what is left, later stamps included.  The key expires a  *)
(* minute after its window, which drops nothing that would still count.    *)
IncrementInRedis(c) ==
    /\ Count(c.of, c.at, counted)
    /\ calls' = calls \ {c}
    /\ UNCHANGED <<now, cleaned>>

Request(client, path) ==
    LET k == <<client, Endpoint(path)>>
    IN /\ Match[path] # Unlisted \/ DefaultLimit > 0
       /\ Sum(counted[k], Stamps) < LimitOf(k) + Excess
       /\ IncrementInMemory(k) \/ SendToRedis(k)

reset(k) ==
    /\ counted[k] # Nothing /\ \A c \in calls : c.of # k
    /\ counted' = [counted EXCEPT ![k] = Nothing] /\ passed' = [passed EXCEPT ![k] = Nothing]
    /\ UNCHANGED <<now, cleaned, calls>>

Tick ==
    /\ now < MaxTime /\ \A c \in calls : now < c.since + Latency
    /\ now' = now + 1
    /\ UNCHANGED <<counted, cleaned, calls, passed>>

Next ==
    \/ \E client \in Clients, path \in Paths : Request(client, path)
    \/ \E c \in calls : IncrementInRedis(c)
    \/ \E k \in Counters : reset(k)
    \/ Tick

Spec == Init /\ [][Next]_vars
-----------------------------------------------------------------------------
\* No client gets more requests through on an endpoint than the limit within a
\* window, whatever paths match it: in memory exactly, and if no window is
\* longer than the hour after which idle counters go (rate_limit_backend.py:153);
\* with Redis up to what clocks differ and a call takes.
Slack == IF Backend = "memory" THEN 0 ELSE MaxSkew + Latency

LimitKept ==
    Backend = "redis" \/ Window <= Idle =>
        \A client \in Clients, e \in DOMAIN Limits \cup {p \in Paths : Match[p] = Unlisted},
           s \in Stamps :
            LET passedBy(j) == Sum(passed[<<client, j>>], (s - (Window - Slack) + 1)..s)
                own == {e} \cup {p \in Paths : Match[p] = e}
            IN MapThenSumSet(passedBy, own) <= LimitOf(<<client, e>>)
=============================================================================
