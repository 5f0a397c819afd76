------------------------------- MODULE ApiKeys --------------------------------
(***************************************************************************)
(* API keys (api/auth/api_key_service.py): records that are found by their *)
(* hash, changed and saved whole.  Requests bring them to the middleware   *)
(* (api/components/auth_middleware.py) or to a webhook                     *)
(* (api/integrations/webhooks/webhook_auth.py), which remembers for a while *)
(* in its process the keys it has seen.  A step is what runs between two   *)
(* awaits; a database call takes effect at the end of its step.            *)
(***************************************************************************)
EXTENDS Naturals, FiniteSets

CONSTANTS Callers, ProcessOf, \* requests, and the process of each
          Keys, Lives,        \* keys, and for how long one may be asked; 0 is for ever
          Origins, Allowed,   \* addresses and paths a request may have, and those a key allows
          Faults,             \* a database call may raise, done or not
          Ttl, MaxSize,       \* _API_KEY_CACHE_TTL, _API_KEY_CACHE_MAX_SIZE
          Timeout,            \* _API_KEY_VALIDATE_TIMEOUT
          Latency,            \* bound: ticks a database call takes
          MaxTime             \* bound: the last tick

Assumptions ==
    /\ Faults \in BOOLEAN /\ {Ttl, MaxSize, Timeout, Latency, MaxTime} \subseteq Nat \ {0}
    /\ Lives \subseteq 0..MaxTime /\ Allowed \in [Keys -> SUBSET Origins]

Processes == {ProcessOf[c] : c \in Callers}
Never == MaxTime + MaxTime + Ttl + 1
Times == 0..Never

VARIABLES now,
          keys,               \* APIKey records: "none", "active" or "revoked", and until when
          cache,              \* _API_KEY_CACHE of each process: until when, 0 if not there
          adrift,             \* keys that a call given up is still to save
          call,               \* per caller: what it does, with which key, from where
          gone                \* history: per process, when a key was reported revoked by a
                              \* call that no other overlapped
vars == <<now, keys, cache, adrift, call, gone>>
held == <<keys, cache, adrift>>

TypeOK ==
    /\ now \in 0..MaxTime
    /\ keys \in [Keys -> [state : {"none", "active", "revoked"}, until : Times]]
    /\ cache \in [Processes -> [Keys -> Times]] /\ adrift \subseteq Keys
    /\ call \in [Callers -> [op : {"none", "request", "hook", "revoke"},
                           at : {"done", "find", "use", "put", "again", "save", "drop"},
                           key : SUBSET Keys, from : SUBSET Origins, alone : BOOLEAN,
                           began : 0..MaxTime, since : 0..MaxTime]]
    /\ gone \in [Processes -> [Keys -> Times]]

Resting == [op |-> "none", at |-> "done", key |-> {}, from |-> {},
            alone |-> FALSE, began |-> 0, since |-> 0]

Init ==
    /\ now = 0 /\ keys = [k \in Keys |-> [state |-> "none", until |-> Never]]
    /\ cache = [p \in Processes |-> [k \in Keys |-> 0]] /\ adrift = {}
    /\ call = [c \in Callers |-> Resting]
    /\ gone = [p \in Processes |-> [k \in Keys |-> Never]]
-----------------------------------------------------------------------------
Over(c) == call[c].at = "done"
At(c, ops, place) == call[c].op \in ops /\ call[c].at = place
Calls(c, op, place, k, origins) ==
    /\ Over(c)
    /\ call' = [d \in Callers |->
         IF d # c THEN [call[d] EXCEPT !.alone = FALSE]
         ELSE [op |-> op, at |-> place, key |-> {k}, from |-> origins,
               alone |-> op = "revoke" /\ adrift = {} /\ \A e \in Callers \ {c} : Over(e),
               began |-> IF op = "revoke" THEN 0 ELSE now, since |-> now]]
GoesOn(c, place) == call' = [call EXCEPT ![c].at = place, ![c].since = now]
Ends(c) == call' = [call EXCEPT ![c] = Resting]
Admits(c) == call' = [call EXCEPT ![c].at = "done", ![c].alone = FALSE, ![c].since = 0]

(* A key is given to its owner once its record is saved.                   *)
generate_key(k, life) ==
    /\ keys[k].state = "none"
    /\ keys' = [keys EXCEPT ![k] = [state |-> "active", until |-> IF life = 0 THEN Never ELSE now + life]]
    /\ UNCHANGED <<now, cache, adrift, call, gone>>

(* The middleware asks the service at every request.                       *)
_authenticate_api_key(c, k, o) ==
    /\ keys[k].state # "none" /\ Calls(c, "request", "find", k, {o})
    /\ UNCHANGED <<now, held, gone>>

(* A webhook asks the cache of its process first, which the lock keeps for *)
(* itself meanwhile; what it remembers is not looked up, nor saved as used. *)
Remembers(p, k) == cache[p][k] > now
authenticate_webhook_api_key(c, k, o) ==
    /\ keys[k].state # "none" /\ Over(c)
    /\ IF Remembers(ProcessOf[c], k)
       THEN /\ UNCHANGED cache
            /\ IF o \in Allowed[k]
               THEN call' = [call EXCEPT ![c] =
                        [Resting EXCEPT !.op = "hook", !.key = {k}, !.from = {o}, !.began = now]]
               ELSE Ends(c)
       ELSE /\ cache' = [cache EXCEPT ![ProcessOf[c]][k] = 0]
            /\ Calls(c, "hook", "find", k, {o})
    /\ UNCHANGED <<now, keys, adrift, gone>>
-----------------------------------------------------------------------------
(* validate_key: the record with the hash, if it is active and in time, is *)
(* saved whole for the time of its use.                                    *)
FindsAny(k) == keys[k].until >= now           \* mutant of Finds: revoked ones too
FindsLate(k) == keys[k].state = "active"      \* mutant of Finds: expired ones too
Finds(k) == keys[k].state = "active" /\ keys[k].until >= now

validate_key(c, k) ==
    /\ At(c, {"request", "hook"}, "find") /\ call[c].key = {k}
    /\ \/ IF Finds(k) THEN GoesOn(c, "use") ELSE Ends(c)
       \/ Faults /\ Ends(c)
    /\ UNCHANGED <<now, held, gone>>

Checked(c, k) ==                              \* whitelists of addresses and endpoints
    IF call[c].from \subseteq Allowed[k] THEN GoesOn(c, "again") ELSE Ends(c)

Used(k) == keys' = [keys EXCEPT ![k].state = "active"]
update_key_usage(c, k) ==
    /\ At(c, {"request", "hook"}, "use") /\ call[c].key = {k}
    /\ \/ Used(k) /\ (IF call[c].op = "hook" THEN GoesOn(c, "put") ELSE Checked(c, k))
       \/ Faults /\ Ends(c) /\ (Used(k) \/ UNCHANGED keys)
    /\ UNCHANGED <<now, cache, adrift, gone>>

(* A webhook waits for validate_key only so long.  What it waited for is   *)
(* cancelled, but a database that writes in a thread may yet do so.        *)
GivesUp(c, k) ==
    /\ call[c].op = "hook" /\ call[c].at \in {"find", "use"} /\ call[c].key = {k}
    /\ now >= call[c].began + Timeout /\ Ends(c)
    /\ \/ UNCHANGED adrift
       \/ call[c].at = "use" /\ adrift' = adrift \cup {k}
    /\ UNCHANGED <<now, keys, cache, gone>>

Lands(k) ==
    /\ k \in adrift /\ adrift' = adrift \ {k} /\ Used(k)
    /\ UNCHANGED <<now, cache, call, gone>>

(* The key is remembered from when the request came.  Expired entries go   *)
(* when the cache is full, and the new one is put in whatever that freed.  *)
_api_key_cache_cleanup_locked(entries) ==
    IF Cardinality({k \in Keys : entries[k] > 0}) >= MaxSize
    THEN [k \in Keys |-> IF entries[k] <= now THEN 0 ELSE entries[k]] ELSE entries

Remember(c, k) ==
    /\ At(c, {"hook"}, "put") /\ call[c].key = {k}
    /\ cache' = [cache EXCEPT ![ProcessOf[c]] =
                    [_api_key_cache_cleanup_locked(@) EXCEPT ![k] = call[c].began + Ttl]]
    /\ Checked(c, k)
    /\ UNCHANGED <<now, keys, adrift, gone>>

(* Both save the use once more; that this raises changes nothing.          *)
UsedAgain(c, k) ==
    /\ At(c, {"request", "hook"}, "again") /\ call[c].key = {k}
    /\ (Used(k) \/ (Faults /\ UNCHANGED keys)) /\ Admits(c)
    /\ UNCHANGED <<now, cache, adrift, gone>>
-----------------------------------------------------------------------------
(* revoke_key: the record is read and, unless it is of another user, saved *)
(* inactive; then the cache of the process is told.                        *)
revoke_key(c, k) ==
    /\ keys[k].state # "none" /\ Calls(c, "revoke", "find", k, {})
    /\ UNCHANGED <<now, held, gone>>

GetOwn(c) ==
    /\ At(c, {"revoke"}, "find") /\ (GoesOn(c, "save") \/ Ends(c))
    /\ UNCHANGED <<now, held, gone>>

Deactivate(c, k) ==
    /\ At(c, {"revoke"}, "save") /\ call[c].key = {k}
    /\ \/ keys' = [keys EXCEPT ![k].state = "revoked"] /\ (GoesOn(c, "drop") \/ (Faults /\ Ends(c)))
       \/ Faults /\ Ends(c) /\ UNCHANGED keys
    /\ UNCHANGED <<now, cache, adrift, gone>>

DroppedNot(p, k) == cache                     \* mutant of invalidate_api_key_cache_hash
invalidate_api_key_cache_hash(p, k) == [cache EXCEPT ![p][k] = 0]

Drop(c, k) ==
    /\ At(c, {"revoke"}, "drop") /\ call[c].key = {k}
    /\ cache' = invalidate_api_key_cache_hash(ProcessOf[c], k) /\ Ends(c)
    /\ gone' = [gone EXCEPT ![ProcessOf[c]][k] = IF call[c].alone /\ now < @ THEN now ELSE @]
    /\ UNCHANGED <<now, keys, adrift>>

Tick ==
    /\ now < MaxTime /\ \A c \in Callers : Over(c) \/ now < call[c].since + Latency
    /\ now' = now + 1
    /\ UNCHANGED <<held, call, gone>>

Next ==
    \/ \E k \in Keys, life \in Lives : generate_key(k, life)
    \/ \E c \in Callers, k \in Keys :
        \/ \E o \in Origins : \/ _authenticate_api_key(c, k, o)
                              \/ authenticate_webhook_api_key(c, k, o)
        \/ revoke_key(c, k)
        \/ validate_key(c, k) \/ update_key_usage(c, k) \/ GivesUp(c, k)
        \/ Remember(c, k) \/ UsedAgain(c, k) \/ Deactivate(c, k) \/ Drop(c, k)
    \/ (\E c \in Callers : GetOwn(c))
    \/ (\E k \in Keys : Lands(k))
    \/ Tick

Spec == Init /\ [][Next]_vars
-----------------------------------------------------------------------------
Admitted(c, k) == Over(c) /\ call[c].key = {k}

\* A key that was revoked while no other call ran stays so, whatever requests
\* save later; it is refused from then on, in other processes as soon as what they
\* remember of it is over (auth/api_key_service.py:217, 249).
KeysEnd ==
    \A p \in Processes, k \in Keys : gone[p][k] # Never =>
        /\ keys[k].state = "revoked"
        /\ \A c \in Callers : Admitted(c, k) /\ call[c].began > gone[p][k] =>
              call[c].op = "hook" /\ ProcessOf[c] # p /\ call[c].began < gone[p][k] + Ttl

\* A key admits no request after it has expired, and no webhook once that is
\* longer ago than the cache remembers, though the cache is not told
\* (auth/api_key_service.py:209, integrations/webhooks/webhook_auth.py:186).
KeysExpire ==
    \A c \in Callers, k \in Keys : Admitted(c, k) =>
        call[c].began < keys[k].until + (IF call[c].op = "hook" THEN Ttl ELSE 1)
-----------------------------------------------------------------------------
(* What the proofs of the two rest on.  A call has one key, which was      *)
(* given out, and what it may yet save or remember was in time.            *)
Holds(c) ==
    LET k == call[c].key
    IN /\ call[c].op = "none" => Over(c) /\ k = {}
       /\ call[c].op # "none" => \E x \in Keys : k = {x} /\ keys[x].state # "none"
       /\ call[c].op \in {"request", "hook"} =>
             /\ call[c].at \in {"done", "find", "use", "put", "again"}
             /\ call[c].at = "put" => call[c].op = "hook"
             /\ ~Over(c) /\ call[c].at # "find" => \A x \in k : call[c].began <= keys[x].until
       /\ call[c].op = "revoke" => call[c].at \in {"find", "save", "drop"}
       /\ call[c].alone => call[c].op = "revoke"
       /\ call[c].began <= now
AllHold == \A c \in Callers : Holds(c)

(* A call that may yet make a key active, or remember it.                  *)
Uses(c, k) ==
    call[c].op \in {"request", "hook"} /\ call[c].at \in {"use", "put", "again"} /\ call[c].key = {k}

(* A revocation that is alone is.                                          *)
RevokesAlone ==
    \A c \in Callers : call[c].alone =>
        /\ adrift = {} /\ \A d \in Callers \ {c} : Over(d)
        /\ call[c].at = "drop" => \A k \in call[c].key : keys[k].state = "revoked"

(* Caches remember no longer than Ttl from the last moment the key was in  *)
(* time, and from its revocation; the process of that has forgotten it.    *)
CachesEnd ==
    \A k \in Keys :
        /\ \A p \in Processes : /\ cache[p][k] <= now + Ttl /\ cache[p][k] <= keys[k].until + Ttl
                                /\ keys[k].state = "none" => cache[p][k] = 0
        /\ keys[k].state = "none" => k \notin adrift
        /\ \A p \in Processes : gone[p][k] # Never =>
              /\ gone[p][k] <= now /\ keys[k].state = "revoked" /\ k \notin adrift
              /\ \A c \in Callers : ~Uses(c, k)
              /\ cache[p][k] = 0 /\ \A q \in Processes : cache[q][k] <= gone[p][k] + Ttl

KeysInv == TypeOK /\ AllHold /\ RevokesAlone /\ CachesEnd /\ KeysEnd /\ KeysExpire

(* What one step makes of a call that goes on.                             *)
Passes(c) ==
    \/ /\ call[c].at = "find" /\ call'[c].at = "use" /\ call[c].op \in {"request", "hook"}
       /\ UNCHANGED keys /\ \A k \in call[c].key : Finds(k)
    \/ /\ call[c].at = "use" /\ call[c].op \in {"request", "hook"}
       /\ call'[c].at = IF call[c].op = "hook" THEN "put" ELSE "again"
    \/ call[c].at = "put" /\ call[c].op = "hook" /\ call'[c].at = "again"
    \/ call[c].at = "again" /\ call[c].op \in {"request", "hook"} /\ call'[c].at = "done"
    \/ call[c].at = "find" /\ call[c].op = "revoke" /\ call'[c].at = "save"
    \/ /\ call[c].at = "save" /\ call[c].op = "revoke" /\ call'[c].at = "drop"
       /\ \A k \in call[c].key : keys'[k].state = "revoked"

Moves(c) ==
    /\ now' = now
    /\ \/ call'[c].op = "none" /\ call'[c].at = "done" /\ call'[c].key = {} /\ ~call'[c].alone
          /\ call'[c].began = 0
       \/ \E k \in Keys :
            /\ keys[k].state # "none" /\ call'[c].key = {k} /\ call'[c].at = "find"
            /\ call'[c].op \in {"request", "hook", "revoke"} /\ call'[c].began \in {0, now}
            /\ call'[c].alone => /\ call'[c].op = "revoke" /\ adrift = {} /\ adrift' = {}
                                 /\ \A d \in Callers \ {c} : Over(d)
            /\ \A d \in Callers \ {c} : ~call'[d].alone
       \/ \E k \in Keys :
            /\ keys[k].state # "none" /\ call'[c].key = {k} /\ call'[c].at = "done"
            /\ call'[c].op = "hook" /\ call'[c].began = now /\ ~call'[c].alone
            /\ cache[ProcessOf[c]][k] > now
       \/ /\ call'[c].op = call[c].op /\ call'[c].key = call[c].key /\ call'[c].began = call[c].began
          /\ call'[c].alone => call[c].alone
          /\ Passes(c)

Kept(c) == call'[c] = call[c] \/ call'[c] = [call[c] EXCEPT !.alone = FALSE]

CallStep(c, k) ==
    \/ \E o \in Origins : \/ _authenticate_api_key(c, k, o)
                          \/ authenticate_webhook_api_key(c, k, o)
    \/ revoke_key(c, k)
    \/ validate_key(c, k) \/ update_key_usage(c, k) \/ GivesUp(c, k)
    \/ Remember(c, k) \/ UsedAgain(c, k) \/ Deactivate(c, k) \/ Drop(c, k)

CallTypes == [op : {"none", "request", "hook", "revoke"},
              at : {"done", "find", "use", "put", "again", "save", "drop"},
              key : SUBSET Keys, from : SUBSET Origins, alone : BOOLEAN,
              began : 0..MaxTime, since : 0..MaxTime]

(* What a step makes of the records, the caches and the history.           *)
RecordsGo ==
    \A k \in Keys :
        /\ keys[k].state # "none" => keys'[k].until = keys[k].until /\ keys'[k].state # "none"
        /\ \/ keys'[k] = keys[k]
           \/ keys[k].state = "none"
           \/ keys'[k].state = "revoked"
           \/ k \in adrift
           \/ \E c \in Callers : /\ call[c].op \in {"request", "hook"} /\ call[c].at \in {"use", "again"}
                              /\ call[c].key = {k}
AdriftGoes ==
    \A k \in adrift' : k \in adrift \/ \E c \in Callers : call[c].op = "hook" /\ call[c].at = "use" /\ call[c].key = {k}
CachesGo ==
    \A p \in Processes, k \in Keys :
        \/ cache'[p][k] \in {0, cache[p][k]}
        \/ \E c \in Callers : /\ call[c].op = "hook" /\ call[c].at = "put" /\ call[c].key = {k}
                           /\ cache'[p][k] = call[c].began + Ttl
GoneGoes ==
    \A p \in Processes, k \in Keys :
        \/ gone'[p][k] = gone[p][k]
        \/ \E c \in Callers : /\ call[c].alone /\ call[c].op = "revoke" /\ call[c].at = "drop" /\ call[c].key = {k}
                           /\ cache'[p][k] = 0 /\ gone'[p][k] = now /\ UNCHANGED <<now, keys, adrift>>
                           /\ call'[c].at = "done" /\ \A d \in Callers \ {c} : call'[d] = call[d]

DataTypes ==
    /\ now \in 0..MaxTime
    /\ keys \in [Keys -> [state : {"none", "active", "revoked"}, until : Times]]
    /\ cache \in [Processes -> [Keys -> Times]] /\ adrift \subseteq Keys
    /\ gone \in [Processes -> [Keys -> Times]]
=============================================================================
