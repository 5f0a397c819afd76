------------------------------ MODULE Sessions -------------------------------
(***************************************************************************)
(* Tokens of one user (api/auth/service.py, _session_store.py, cleanup.py): *)
(* access tokens, which a blacklist in the database revokes, with a store  *)
(* that remembers its answers for a while, and refresh tokens, which are   *)
(* records that are read, changed and saved whole.  Callers are requests   *)
(* of one or several processes; a step is what runs between two awaits.    *)
(***************************************************************************)
EXTENDS Naturals, FiniteSets

CONSTANTS Callers, StoreOf,   \* requests, and the session store of each one's process
          Access, Refresh,    \* identities of tokens
          None,               \* no token
          Rotation,           \* refresh_token_rotation
          FailClosed,         \* blacklist_fail_closed
          Faults,             \* the look-up in the blacklist may raise
          Ttl,                \* blacklist_cache_ttl_seconds
          Life,               \* jwt_expire_minutes
          Latency,            \* bound: ticks a database call takes
          MaxTime             \* bound: the last tick

Stores == {StoreOf[c] : c \in Callers}

Assumptions ==
    /\ {Rotation, FailClosed, Faults} \subseteq BOOLEAN
    /\ {Ttl, Life} \subseteq Nat \ {0} /\ {Latency, MaxTime} \subseteq Nat
    /\ None \notin Access \cup Refresh /\ Refresh \cap (Stores \X Access) = {}
Never == MaxTime + Life + Ttl + Latency + 1
Times == 0..Never

VARIABLES now,
          expires,        \* when an access token expires, 0 if it was not issued
          black,          \* TokenBlacklist: until when cleanup leaves the entry, 0 if there is none
          store,          \* session stores: the answer remembered, and until when
          active,         \* RefreshToken: the value of is_active
          jti,            \* the access token a refresh token was issued with
          call,           \* per caller: what it does, with which tokens
          out,            \* history: when an access token was reported revoked
          calm            \* history: revoked by a call that no other overlapped

vars == <<now, expires, black, store, active, jti, call, out, calm>>
tokens == <<expires, black, store, active, jti>>

Ops == {"none", "validate", "logout", "refresh", "revoke", "revoke_all"}
Places == {"done", "find", "put", "save", "retire", "create", "black"}

TypeOK ==
    /\ now \in 0..MaxTime /\ expires \in [Access -> Times] /\ black \in [Access -> Times]
    /\ store \in [Stores -> [Access -> [val : BOOLEAN, until : Times]]]
    /\ active \in [Refresh -> BOOLEAN] /\ jti \in [Refresh -> Access \cup {None}]
    /\ call \in [Callers -> [op : Ops, at : Places, acc : Access \cup {None}, ref : Refresh \cup {None},
                           refs : SUBSET Refresh, accs : SUBSET Access, seen : BOOLEAN,
                           alone : BOOLEAN, began : Times, since : Times]]
    /\ out \in [Access -> Times] /\ calm \subseteq (Stores \X Access) \cup Refresh

Resting == [op |-> "none", at |-> "done", acc |-> None, ref |-> None, refs |-> {}, accs |-> {},
            seen |-> FALSE, alone |-> FALSE, began |-> 0, since |-> 0]
Accepted(a, began) == [Resting EXCEPT !.op = "validate", !.acc = a, !.began = began]

Init ==
    /\ now = 0 /\ expires = [a \in Access |-> 0] /\ black = [a \in Access |-> 0]
    /\ store = [s \in Stores |-> [a \in Access |-> [val |-> FALSE, until |-> 0]]]
    /\ active = [r \in Refresh |-> FALSE] /\ jti = [r \in Refresh |-> None]
    /\ call = [c \in Callers |-> Resting]
    /\ out = [a \in Access |-> Never] /\ calm = {}
-----------------------------------------------------------------------------
Over(c) == call[c].at = "done"

Begin(c, op, place, a, r) ==
    /\ Over(c)
    /\ call' = [d \in Callers |->
         IF d # c THEN [call[d] EXCEPT !.alone = FALSE]
         ELSE [Resting EXCEPT !.op = op, !.at = place, !.acc = a, !.ref = r,
                              !.alone = \A e \in Callers \ {c} : Over(e),
                              !.began = now, !.since = now]]

GoesOn(c, place) == call' = [call EXCEPT ![c].at = place, ![c].since = now]
Ends(c) == call' = [call EXCEPT ![c] = Resting]
Judge(c, a, began, refused) ==                \* how validate_token ends
    call' = [call EXCEPT ![c] = IF refused THEN Resting ELSE Accepted(a, began)]

Issued == {a \in Access : expires[a] > 0}
Issue(a, r) ==                                \* new tokens, the refresh token stored
    /\ a \notin Issued
    /\ expires' = [expires EXCEPT ![a] = now + Life]
    /\ jti[r] = None /\ jti' = [jti EXCEPT ![r] = a] /\ active' = [active EXCEPT ![r] = TRUE]

login(a, r) ==
    /\ Issue(a, r)
    /\ UNCHANGED <<now, black, store, call, out, calm>>

(* validate_token decodes the token, then asks the store.                  *)
Remembered(s, a) == store[s][a].until > now
validate_token(c, a) ==
    /\ expires[a] > now /\ Over(c)
    /\ IF Remembered(StoreOf[c], a) THEN Judge(c, a, now, store[StoreOf[c]][a].val)
       ELSE Begin(c, "validate", "find", a, None)
    /\ UNCHANGED <<now, tokens, out, calm>>

(* Not remembered: the database is asked.  An error is an answer as well,  *)
(* which is not remembered.                                                *)
FindBlack(c) ==
    /\ call[c].op = "validate" /\ call[c].at = "find"
    /\ \/ call' = [call EXCEPT ![c].at = "put", ![c].since = now, ![c].seen = black[call[c].acc] > 0]
       \/ Faults /\ Judge(c, call[c].acc, call[c].began, FailClosed)
    /\ UNCHANGED <<now, tokens, out, calm>>

SetStoreLong(s, a, val) == store' = [store EXCEPT ![s][a] = [val |-> val, until |-> now + Ttl + Life]]
SetStore(s, a, val) == store' = [store EXCEPT ![s][a] = [val |-> val, until |-> now + Ttl]]

PutSeen(c) ==
    /\ call[c].op = "validate" /\ call[c].at = "put"
    /\ SetStore(StoreOf[c], call[c].acc, call[c].seen)
    /\ Judge(c, call[c].acc, call[c].began, call[c].seen)
    /\ UNCHANGED <<now, expires, black, active, jti, out, calm>>

(* logout_user: an entry that cleanup never removes, for its expiry has no *)
(* time zone and cannot be compared; then the store is told.               *)
logout_user(c, a) ==
    /\ expires[a] > now /\ out[a] = Never
    /\ Begin(c, "logout", "black", a, None)
    /\ UNCHANGED <<now, tokens, out, calm>>

BlackenOut(c) ==
    /\ call[c].op = "logout" /\ call[c].at = "black"
    /\ black' = [black EXCEPT ![call[c].acc] = Never]
    /\ GoesOn(c, "put")
    /\ UNCHANGED <<now, expires, store, active, jti, out, calm>>

PutOut(c) ==
    /\ call[c].op = "logout" /\ call[c].at = "put"
    /\ SetStore(StoreOf[c], call[c].acc, TRUE)
    /\ Ends(c)
    /\ out' = [out EXCEPT ![call[c].acc] = IF now < @ THEN now ELSE @]
    /\ calm' = IF call[c].alone THEN calm \cup {<<StoreOf[c], call[c].acc>>} ELSE calm
    /\ UNCHANGED <<now, expires, black, active, jti>>
-----------------------------------------------------------------------------
(* refresh_access_token and revoke_refresh_token begin with                *)
(* _validate_refresh_token: a record that is active is found, and saved    *)
(* whole for the time of its last use.                                     *)
UseRefresh(c, op, r) ==
    /\ jti[r] # None /\ Begin(c, op, "find", None, r)
    /\ UNCHANGED <<now, tokens, out, calm>>

FindActiveAny(r) == jti[r] # None             \* mutant of FindActive: inactive ones too
FindActive(r) == active[r]

FindRefresh(c) ==
    /\ call[c].op \in {"refresh", "revoke"} /\ call[c].at = "find"
    /\ IF FindActive(call[c].ref) THEN GoesOn(c, "save") ELSE Ends(c)
    /\ UNCHANGED <<now, tokens, out, calm>>

SaveUse(c) ==
    /\ call[c].at = "save"
    /\ active' = [active EXCEPT ![call[c].ref] = TRUE]
    /\ GoesOn(c, IF call[c].op = "revoke" \/ Rotation THEN "retire" ELSE "create")
    /\ UNCHANGED <<now, expires, black, store, jti, out, calm>>

(* The record is saved again, now inactive.                                *)
Retire(c) ==
    /\ call[c].op \in {"refresh", "revoke"} /\ call[c].at = "retire"
    /\ active' = [active EXCEPT ![call[c].ref] = FALSE]
    /\ GoesOn(c, IF call[c].op = "refresh" THEN "create" ELSE "black")
    /\ UNCHANGED <<now, expires, black, store, jti, out, calm>>

(* The caller gets an access token, and with rotation a refresh token.     *)
Create(c) ==
    /\ call[c].at = "create" /\ Ends(c)
    /\ \/ Rotation /\ \E a \in Access, r \in Refresh : Issue(a, r)
       \/ ~Rotation /\ \E a \in Access \ Issued : expires' = [expires EXCEPT ![a] = now + Life]
                    /\ UNCHANGED <<jti, active>>
    /\ calm' = IF Rotation /\ call[c].alone THEN calm \cup {call[c].ref} ELSE calm
    /\ UNCHANGED <<now, black, store, out>>

(* Blacklist entries of revoked refresh tokens expire when a token issued  *)
(* now would; the store is not told.                                       *)
Blacken(a) ==
    /\ black' = [black EXCEPT ![a] = IF @ > now + Life THEN @ ELSE now + Life]
    /\ out' = [out EXCEPT ![a] = IF now < @ THEN now ELSE @]

BlackenOne(c) ==
    /\ call[c].op = "revoke" /\ call[c].at = "black"
    /\ Blacken(jti[call[c].ref]) /\ Ends(c)
    /\ calm' = IF call[c].alone THEN calm \cup {call[c].ref} ELSE calm
    /\ UNCHANGED <<now, expires, store, active, jti>>

(* revoke_all_user_tokens, which change_password and                       *)
(* reset_password_with_token end with: the active records are read, each   *)
(* is saved inactive, and then the access tokens are blacklisted.          *)
revoke_all(c) ==
    /\ Begin(c, "revoke_all", "find", None, None)
    /\ UNCHANGED <<now, tokens, out, calm>>

FindAll(c) ==
    /\ call[c].op = "revoke_all" /\ call[c].at = "find"
    /\ call' = [call EXCEPT ![c].at = "retire", ![c].since = now,
                            ![c].refs = {r \in Refresh : active[r]},
                            ![c].accs = {jti[r] : r \in {q \in Refresh : active[q]}}]
    /\ UNCHANGED <<now, tokens, out, calm>>

RetireEach(c) ==
    /\ call[c].op = "revoke_all" /\ call[c].at = "retire"
    /\ \/ \E r \in call[c].refs :
            /\ active' = [active EXCEPT ![r] = FALSE]
            /\ call' = [call EXCEPT ![c].refs = @ \ {r}, ![c].since = now]
            /\ calm' = IF call[c].alone THEN calm \cup {r} ELSE calm
       \/ call[c].refs = {} /\ GoesOn(c, "black") /\ UNCHANGED <<active, calm>>
    /\ UNCHANGED <<now, expires, black, store, jti, out>>

BlackenEach(c) ==
    /\ call[c].op = "revoke_all" /\ call[c].at = "black"
    /\ \/ \E a \in call[c].accs :
            /\ Blacken(a)
            /\ call' = [call EXCEPT ![c].accs = @ \ {a}, ![c].since = now]
       \/ call[c].accs = {} /\ Ends(c) /\ UNCHANGED <<black, out>>
    /\ UNCHANGED <<now, expires, store, active, jti, calm>>
-----------------------------------------------------------------------------
(* Cleanup deletes entries that have expired.                              *)
cleanup(a) ==
    /\ black[a] > 0 /\ black[a] < now
    /\ black' = [black EXCEPT ![a] = 0]
    /\ UNCHANGED <<now, expires, store, active, jti, call, out, calm>>

Tick ==
    /\ now < MaxTime /\ \A c \in Callers : Over(c) \/ now < call[c].since + Latency
    /\ now' = now + 1
    /\ UNCHANGED <<tokens, call, out, calm>>

Next ==
    \/ \E a \in Access, r \in Refresh : login(a, r)
    \/ \E c \in Callers :
        \/ \E a \in Access : validate_token(c, a) \/ logout_user(c, a)
        \/ \E r \in Refresh, op \in {"refresh", "revoke"} : UseRefresh(c, op, r)
        \/ revoke_all(c)
        \/ FindBlack(c) \/ PutSeen(c) \/ BlackenOut(c) \/ PutOut(c)
        \/ FindRefresh(c) \/ SaveUse(c) \/ Retire(c) \/ Create(c)
        \/ BlackenOne(c) \/ FindAll(c) \/ RetireEach(c) \/ BlackenEach(c)
    \/ (\E a \in Access : cleanup(a))
    \/ Tick

Spec == Init /\ [][Next]_vars
-----------------------------------------------------------------------------
Accepts(c) == call[c].op = "validate" /\ call[c].at = "done"

\* An access token that was reported revoked is accepted for no longer than the
\* store remembers an answer and a database call takes, in any process and
\* through every cleanup (service.py:494); and not at all in the process of a
\* logout that overlapped no other request.
RevokedExpires ==
    \A c \in Callers : Accepts(c) /\ (FailClosed \/ ~Faults) =>
        /\ \/ call[c].began < out[call[c].acc] + Ttl + Latency
           \/ expires[call[c].acc] < call[c].began + Latency
        /\ <<StoreOf[c], call[c].acc>> \in calm => call[c].began <= out[call[c].acc]

\* A refresh token that was rotated or revoked while no other request ran is
\* never active again (service.py:1190).
RetiredForGood == \A r \in Refresh : r \in calm => ~active[r]
-----------------------------------------------------------------------------
(* What the proofs of the two rest on.  What each call has found, and until *)
(* when it may take.                                                       *)
InPlace(c) ==
    LET k == call[c]
    IN /\ k.op = "none" => k.at = "done"
       /\ k.op = "validate" => k.at \in {"done", "find", "put"} /\ k.acc \in Issued
       /\ k.op = "logout" => /\ k.at \in {"black", "put"} /\ k.acc \in Issued
                             /\ (k.at = "put" => black[k.acc] = Never)
       /\ k.op \in {"refresh", "revoke"} =>
             /\ k.at \in {"find", "save", "retire"} \cup (IF k.op = "refresh" THEN {"create"} ELSE {"black"})
             /\ k.ref \in Refresh /\ jti[k.ref] # None
       /\ k.op = "revoke_all" => /\ k.at \in {"find", "retire", "black"}
                                 /\ k.accs \subseteq Issued /\ \A r \in k.refs : jti[r] # None
       /\ k.began <= now
       /\ k.at = "done" => ~k.alone
       /\ k.at # "done" => k.began <= k.since /\ k.since <= now /\ now <= k.since + Latency
       /\ k.at = "find" => k.since = k.began
       /\ k.op = "validate" /\ k.at = "put" => k.since <= k.began + Latency
InPlaces == \A c \in Callers : InPlace(c)

(* A token that was reported revoked is in the blacklist until it expires. *)
Listed ==
    /\ \A a \in Access :
        /\ expires[a] <= now + Life
        /\ out[a] # Never => /\ out[a] <= now /\ a \in Issued
                             /\ (black[a] >= expires[a] \/ expires[a] < now)
    /\ \A r \in Refresh : (active[r] => jti[r] # None) /\ (jti[r] # None => jti[r] \in Issued)

(* What stores remember, and what calls found and will tell them.          *)
Stored ==
    \A s \in Stores, a \in Access :
        /\ store[s][a].until <= now + Ttl
        /\ \/ store[s][a].val
           \/ store[s][a].until <= out[a] + Ttl + Latency
           \/ a \in Issued /\ expires[a] < now
Looked ==
    \A c \in Callers : call[c].op = "validate" /\ call[c].at = "put" /\ ~call[c].seen =>
        call[c].since <= out[call[c].acc] \/ expires[call[c].acc] < call[c].since

(* While a call is alone, what it found stays so.                          *)
Alone ==
    \A c \in Callers : call[c].alone =>
        /\ \A d \in Callers \ {c} : Over(d)
        /\ call[c].op = "logout" => out[call[c].acc] = Never
        /\ call[c].op = "refresh" /\ call[c].at = "create" /\ Rotation => ~active[call[c].ref]
        /\ call[c].op = "revoke" /\ call[c].at = "black" => ~active[call[c].ref]

(* No call will activate what was retired alone, or remember another answer. *)
Retired ==
    \A r \in Refresh \cap calm :
        /\ jti[r] # None /\ ~active[r]
        /\ \A c \in Callers : call[c].at = "save" => call[c].ref # r
LoggedOut ==
    \A s \in Stores, a \in Access : <<s, a>> \in calm =>
        /\ black[a] = Never /\ store[s][a].val
        /\ \A c \in Callers : StoreOf[c] = s /\ call[c].op = "validate" /\ call[c].at = "put"
                                 /\ call[c].acc = a => call[c].seen

TokensInv == /\ TypeOK /\ InPlaces /\ Listed /\ Stored /\ Looked /\ Alone /\ Retired
             /\ LoggedOut /\ RevokedExpires

(* What no step undoes, whoever takes it.                                  *)
Steady ==
    /\ now' \in Nat /\ now <= now'
    /\ \A a \in Access :
        /\ a \in Issued => a \in Issued' /\ expires'[a] = expires[a]
        /\ expires'[a] = expires[a] \/ expires'[a] = now + Life
        /\ \/ out'[a] = out[a]
           \/ /\ out[a] = Never /\ out'[a] = now /\ now' = now /\ a \in Issued
              /\ black'[a] >= now + Life
        /\ black[a] = Never => black'[a] = Never
        /\ black'[a] \in Nat /\ (black'[a] >= black[a] \/ black[a] < now)
    /\ \A r \in Refresh :
        /\ jti[r] # None => jti'[r] = jti[r]
        /\ jti'[r] = jti[r] \/ jti'[r] \in Issued'
        /\ active'[r] => jti'[r] # None
Kept(c) == call'[c] = call[c] \/ call'[c] = [call[c] EXCEPT !.alone = FALSE]

(* What a caller's step makes of its own call, and of what is calm.        *)
Calms(c, x) ==
    /\ call[c].alone
    /\ \/ PutOut(c) /\ x = <<StoreOf[c], call[c].acc>>
       \/ Create(c) /\ Rotation /\ x = call[c].ref
       \/ BlackenOne(c) /\ x = call[c].ref
       \/ \E r \in call[c].refs : /\ RetireEach(c) /\ x = r /\ active' = [active EXCEPT ![r] = FALSE]
                                /\ call' = [call EXCEPT ![c].refs = @ \ {r}, ![c].since = now]
CallerStep(c) ==
    \/ \E a \in Access : validate_token(c, a) \/ logout_user(c, a)
    \/ \E r \in Refresh, op \in {"refresh", "revoke"} : UseRefresh(c, op, r)
    \/ revoke_all(c)
    \/ FindBlack(c) \/ PutSeen(c) \/ BlackenOut(c) \/ PutOut(c)
    \/ FindRefresh(c) \/ SaveUse(c) \/ Retire(c) \/ Create(c)
    \/ BlackenOne(c) \/ FindAll(c) \/ RetireEach(c) \/ BlackenEach(c)
=============================================================================
