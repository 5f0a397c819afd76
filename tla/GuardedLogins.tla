----------------------------- MODULE GuardedLogins -----------------------------
(***************************************************************************)
(* The guards around a login (api/auth/enhanced.py): a limit on the wrong  *)
(* attempts of a client, the lockout of an account after wrong attempts,   *)
(* and sessions that time out, of which a user has a few.  Each call runs  *)
(* between two awaits, save for the authentication itself, during which    *)
(* other calls run.                                                        *)
(***************************************************************************)
EXTENDS Naturals, Sequences, SequencesExt, FiniteSets

CONSTANTS Callers, Clients, Users, Ids,     \* requests, clients, accounts, session ids
          None,
          MaxAttempts, Window,              \* RateLimiter
          MaxFailed, Lockout,               \* BruteForceProtection
          MaxSessions, Timeout,             \* SessionManager
          MaxTime, MaxCalls                 \* bounds: the last tick, attempts to log in

Assumptions ==
    /\ {MaxAttempts, Window, MaxFailed, Lockout, MaxSessions} \subseteq Nat \ {0}
    /\ {Timeout, MaxTime, MaxCalls} \subseteq Nat /\ None \notin Users \cup Clients \cup Ids

VARIABLES now,
          attempts,     \* per client: times of wrong attempts
          failed,       \* per user: times of wrong attempts
          locked,       \* per user: when the account was locked, or None
          sessions,     \* per id: the session, or None
          userSessions, \* per user: ids
          call,         \* per caller: the attempt whose authentication is under way
          calls,
          wrong         \* history: wrong attempts, and whether the user got in since

vars == <<now, attempts, failed, locked, sessions, userSessions, call, calls, wrong>>
throttled == <<attempts, failed, locked>>
held == <<sessions, userSessions>>

Resting == [client |-> None, user |-> None]

TypeOK ==
    /\ now \in 0..MaxTime /\ calls \in 0..MaxCalls
    /\ attempts \in [Clients -> Seq(0..MaxTime)] /\ failed \in [Users -> Seq(0..MaxTime)]
    /\ locked \in [Users -> 0..MaxTime \cup {None}]
    /\ sessions \in [Ids -> [user : Users, last : 0..MaxTime] \cup {None}]
    /\ userSessions \in [Users -> SUBSET Ids]
    /\ call \in [Callers -> [client : Clients \cup {None}, user : Users \cup {None}]]
    /\ \A i \in DOMAIN wrong : wrong[i].at \in 0..MaxTime

Init ==
    /\ now = 0 /\ attempts = [c \in Clients |-> << >>] /\ failed = [u \in Users |-> << >>]
    /\ locked = [u \in Users |-> None] /\ sessions = [i \in Ids |-> None]
    /\ userSessions = [u \in Users |-> {}] /\ call = [c \in Callers |-> Resting]
    /\ calls = 0 /\ wrong = << >>
-----------------------------------------------------------------------------
Tick == /\ now < MaxTime /\ now' = now + 1
        /\ UNCHANGED <<throttled, held, call, calls, wrong>>

Recent(times, span) == SelectSeq(times, LAMBDA t : now - t < span)

(* is_rate_limited keeps the attempts of the window; then                  *)
(* is_account_locked forgets a lockout that has passed.                    *)
Passed(u) == locked[u] # None /\ now - locked[u] > Lockout
is_account_locked(u) == locked[u] # None /\ ~Passed(u)

authenticate(c, peer, u) ==
    /\ call[c] = Resting /\ calls < MaxCalls /\ calls' = calls + 1
    /\ attempts' = [attempts EXCEPT ![peer] = Recent(@, Window)]
    /\ IF Len(attempts'[peer]) >= MaxAttempts THEN UNCHANGED <<failed, locked, call>>
       ELSE /\ locked' = IF Passed(u) THEN [locked EXCEPT ![u] = None] ELSE locked
            /\ failed' = IF Passed(u) THEN [failed EXCEPT ![u] = << >>] ELSE failed
            /\ call' = IF is_account_locked(u) THEN call
                       ELSE [call EXCEPT ![c] = [client |-> peer, user |-> u]]
    /\ UNCHANGED <<now, held, wrong>>

LockedAfter(times) == Len(times) > MaxFailed   \* mutant of Locks: one attempt late
Locks(times) == Len(times) >= MaxFailed

Fails(c) ==
    /\ call[c] # Resting /\ call' = [call EXCEPT ![c] = Resting]
    /\ LET u == call[c].user
           peer == call[c].client
       IN /\ attempts' = [attempts EXCEPT ![peer] = Append(@, now)]
          /\ failed' = [failed EXCEPT ![u] = Append(@, now)]
          /\ locked' = IF Locks(Recent(failed'[u], Lockout)) THEN [locked EXCEPT ![u] = now] ELSE locked
          /\ wrong' = Append(wrong, [client |-> peer, user |-> u, at |-> now, since |-> FALSE])
    /\ UNCHANGED <<now, held, calls>>
-----------------------------------------------------------------------------
(* SessionManager: the state is a pair of maps, sessions and userSessions. *)
Expired(i) == sessions[i] # None /\ now - sessions[i].last > Timeout

Without(ids) == /\ sessions' = [i \in Ids |-> IF i \in ids THEN None ELSE sessions[i]]
                /\ userSessions' = [u \in Users |-> userSessions[u] \ ids]

(* create_session sweeps what has expired, drops the sessions longest      *)
(* unused while there are too many (of several any one), and adds one.     *)
Live(u) == {i \in userSessions[u] : ~Expired(i)}
Surplus(u) == IF Cardinality(Live(u)) < MaxSessions THEN 0 ELSE Cardinality(Live(u)) - MaxSessions + 1
Dropped(u) == {ids \in SUBSET Live(u) : /\ Cardinality(ids) = Surplus(u)
                                       /\ \A i \in ids, j \in Live(u) \ ids : sessions[i].last <= sessions[j].last}

CreatedBeside(u, id, gone) ==                   \* mutant of Created: nothing makes room
    /\ sessions' = [sessions EXCEPT ![id] = [user |-> u, last |-> now]]
    /\ userSessions' = [userSessions EXCEPT ![u] = @ \cup {id}]
Created(u, id, gone) ==
    /\ sessions' = [i \in Ids |-> IF i = id THEN [user |-> u, last |-> now]
                                  ELSE IF i \in gone THEN None ELSE sessions[i]]
    /\ userSessions' = [userSessions EXCEPT ![u] = (@ \ gone) \cup {id}]

Succeeds(c) ==
    /\ call[c] # Resting /\ call' = [call EXCEPT ![c] = Resting]
    /\ LET u == call[c].user IN
       /\ failed' = [failed EXCEPT ![u] = << >>] /\ locked' = [locked EXCEPT ![u] = None]
       /\ \E id \in Ids, drop \in Dropped(u) :
            /\ sessions[id] = None
            /\ Created(u, id, (userSessions[u] \ Live(u)) \cup drop)
       /\ wrong' = [i \in DOMAIN wrong |-> IF wrong[i].user = u THEN [wrong[i] EXCEPT !.since = TRUE]
                                           ELSE wrong[i]]
    /\ UNCHANGED <<now, attempts, calls>>

validate_session(i) ==
    /\ sessions[i] # None
    /\ IF Expired(i) THEN Without({i})
       ELSE sessions' = [sessions EXCEPT ![i].last = now] /\ UNCHANGED userSessions
    /\ UNCHANGED <<now, throttled, call, calls, wrong>>

invalidate_session(i) == /\ sessions[i] # None /\ Without({i})
                         /\ UNCHANGED <<now, throttled, call, calls, wrong>>

invalidate_user_sessions(u) == /\ userSessions[u] # {} /\ Without(userSessions[u])
                               /\ UNCHANGED <<now, throttled, call, calls, wrong>>

cleanup_expired_sessions == /\ Without({i \in Ids : Expired(i)})
                            /\ UNCHANGED <<now, throttled, call, calls, wrong>>

Next ==
    \/ Tick \/ cleanup_expired_sessions
    \/ \E c \in Callers :
        \/ \E peer \in Clients, u \in Users : authenticate(c, peer, u)
        \/ Fails(c) \/ Succeeds(c)
    \/ \E i \in Ids : validate_session(i) \/ invalidate_session(i)
    \/ \E u \in Users : invalidate_user_sessions(u)

Spec == Init /\ [][Next]_vars
-----------------------------------------------------------------------------
Within(span, t, Test(_)) ==
    Cardinality({i \in DOMAIN wrong : Test(wrong[i]) /\ wrong[i].at >= t /\ wrong[i].at - t < span})

\* In no window of the lockout are more wrong attempts made on an account, between
\* two logins, than lock it and requests that had passed the guard by then; so for
\* clients in theirs (api/auth/enhanced.py:456).
GuessesBounded == \A t \in 0..MaxTime :
    /\ \A u \in Users :
         Within(Lockout, t, LAMBDA w : w.user = u /\ ~w.since) <= MaxFailed + Cardinality(Callers) - 1
    /\ \A peer \in Clients :
         Within(Window, t, LAMBDA w : w.client = peer) <= MaxAttempts + Cardinality(Callers) - 1

\* The two maps agree, and no user has more sessions than the cap
\* (api/auth/enhanced.py:262).
SessionsCapped == \A u \in Users :
    /\ userSessions[u] = {i \in Ids : sessions[i] # None /\ sessions[i].user = u}
    /\ Cardinality(userSessions[u]) <= MaxSessions
=============================================================================
