-------------------------------- MODULE OAuth ---------------------------------
(***************************************************************************)
(* The token, revocation and resource endpoints of the OAuth server        *)
(* (api/auth/oauth/server.py, refresh_store.py, denylist.py, revocation.py,*)
(* resource.py) for one user and one client.  A request runs in a thread   *)
(* and waits for each call of the database: a step is one such call with   *)
(* what follows it.  The library that drives the grants saves the new      *)
(* token before it consumes the code, or revokes the old token.            *)
(***************************************************************************)
EXTENDS Naturals, FiniteSets

CONSTANTS Callers,          \* requests
          Codes, Refresh, Access,
          None,
          Native            \* find_one_and_update is one step of the database

Assumptions == Native \in BOOLEAN /\ None \notin Codes \cup Refresh \cup Access

VARIABLES codes,            \* AuthorizationCode: "none", "open", "consumed"
          token,            \* OAuthRefreshToken: "none", "active", "inactive"
          family,           \* its family_id, named by the family's first token
          denied,           \* OAuthRevokedToken: rows, one per token is enough
          old,              \* what has expired
          call,             \* per caller
          issued,           \* history: answers that a code was exchanged for
          told,             \* history: access tokens reported revoked
          mixed,            \* history: families with overlapping requests
          dead              \* history: families revoked with no request overlapping

vars == <<codes, token, family, denied, old, call, issued, told, mixed, dead>>
records == <<codes, token, family, denied, old>>
history == <<issued, told, mixed, dead>>

Ops == {"none", "exchange", "refresh", "revoke", "deny", "verify"}
Places == {"done", "find", "mint", "consume", "flip", "retire", "any", "family", "kill", "row"}

TypeOK ==
    /\ codes \in [Codes -> {"none", "open", "consumed"}]
    /\ token \in [Refresh -> {"none", "active", "inactive"}]
    /\ family \in [Refresh -> Refresh \cup {None}]
    /\ denied \subseteq Access /\ old \subseteq Codes \cup Refresh \cup Access
    /\ \A c \in Callers :
        /\ call[c].op \in Ops /\ call[c].at \in Places
        /\ call[c].on \in Codes \cup Refresh \cup Access \cup {None}
        /\ call[c].refs \subseteq Refresh
        /\ {call[c].late, call[c].yes} \subseteq BOOLEAN
    /\ issued \in [Codes -> 0..Cardinality(Callers)]
    /\ told \subseteq Access /\ mixed \subseteq Refresh /\ dead \subseteq Refresh

Resting == [op |-> "none", at |-> "done", on |-> None, refs |-> {}, late |-> FALSE, yes |-> FALSE]

Init ==
    /\ codes = [k \in Codes |-> "none"] /\ token = [r \in Refresh |-> "none"]
    /\ family = [r \in Refresh |-> None] /\ denied = {} /\ old = {}
    /\ call = [c \in Callers |-> Resting]
    /\ issued = [k \in Codes |-> 0] /\ told = {} /\ mixed = {} /\ dead = {}
-----------------------------------------------------------------------------
At(c, op, place) == call[c].op = op /\ call[c].at = place
Over(c) == call[c].at = "done"
GoesOn(c, place) == call' = [call EXCEPT ![c].at = place]
Ends(c) == call' = [call EXCEPT ![c] = Resting]

FamilyOf(c) == IF call[c].on \in Refresh THEN family[call[c].on] ELSE None
Busy(f) == {c \in Callers : call[c].op = "refresh" /\ FamilyOf(c) = f}

Begin(c, op, x) ==
    /\ Over(c)
    /\ call' = [call EXCEPT ![c] = [Resting EXCEPT !.op = op, !.at = "find", !.on = x,
                                                   !.late = x \in told]]

save_authorization_code(k) ==
    /\ codes[k] = "none" /\ codes' = [codes EXCEPT ![k] = "open"]
    /\ UNCHANGED <<token, family, denied, old, call, history>>

(* The token endpoint: the code is looked up; a wrong verifier or redirect *)
(* ends the request before anything changes.                               *)
Exchange(c, k) ==
    /\ codes[k] # "none" /\ Begin(c, "exchange", k)
    /\ UNCHANGED <<records, history>>

query_authorization_code(c) ==
    /\ At(c, "exchange", "find")
    /\ \/ codes[call[c].on] = "open" /\ call[c].on \notin old /\ GoesOn(c, "mint")
       \/ Ends(c)
    /\ UNCHANGED <<records, history>>

(* save_token: a fresh family for a code, the old token's family for a     *)
(* rotation.                                                               *)
FamilyFor(c, r) == IF call[c].op = "refresh" THEN FamilyOf(c) ELSE r

save_token(c) ==
    /\ call[c].at = "mint"
    /\ \E r \in Refresh :
        /\ token[r] = "none" /\ token' = [token EXCEPT ![r] = "active"]
        /\ family' = [family EXCEPT ![r] = FamilyFor(c, r)]
    /\ GoesOn(c, IF call[c].op = "refresh" THEN "retire" ELSE "consume")
    /\ UNCHANGED <<codes, denied, old, history>>

(* delete_authorization_code: the code is consumed if it was not, and only *)
(* then is the request answered.  What was saved for it stays.             *)
CanConsumeAny(k) == TRUE                      \* mutant of CanConsume: a blind write
CanConsume(k) == codes[k] = "open"

Consumed(c) ==
    /\ codes' = [codes EXCEPT ![call[c].on] = "consumed"]
    /\ issued' = [issued EXCEPT ![call[c].on] = @ + 1] /\ Ends(c)

consume_code(c) ==
    /\ At(c, "exchange", "consume")
    /\ IF ~CanConsume(call[c].on) THEN Ends(c) /\ UNCHANGED <<codes, issued>>
       ELSE IF Native THEN Consumed(c)
       ELSE GoesOn(c, "flip") /\ UNCHANGED <<codes, issued>>
    /\ UNCHANGED <<token, family, denied, old, told, mixed, dead>>

FlipLater(c) ==
    /\ At(c, "exchange", "flip") /\ Consumed(c)
    /\ UNCHANGED <<token, family, denied, old, told, mixed, dead>>
-----------------------------------------------------------------------------
(* The refresh grant.  A token that is known but inactive was rotated or   *)
(* revoked before: its whole family is revoked.                            *)
Rotate(c, r) ==
    /\ token[r] # "none" /\ Begin(c, "refresh", r)
    /\ mixed' = IF Busy(family[r]) = {} THEN mixed ELSE mixed \cup {family[r]}
    /\ UNCHANGED <<records, issued, told, dead>>

FindActive(c) ==
    /\ At(c, "refresh", "find")
    /\ IF token[call[c].on] = "active" /\ call[c].on \notin old
       THEN GoesOn(c, "mint") \/ Ends(c)
       ELSE GoesOn(c, "any")
    /\ UNCHANGED <<records, history>>

FindAny(c) ==
    /\ At(c, "refresh", "any")
    /\ IF token[call[c].on] = "inactive" THEN GoesOn(c, "family") ELSE Ends(c)
    /\ UNCHANGED <<records, history>>

Revoked(r) == token' = [token EXCEPT ![r] = "inactive"]

RevokeNothing(c) == UNCHANGED token /\ Ends(c)   \* mutant of revoke_old_credential
revoke_old_credential(c) == Revoked(call[c].on) /\ Ends(c)

Retire(c) ==
    /\ call[c].at = "retire" /\ revoke_old_credential(c)
    /\ UNCHANGED <<codes, family, denied, old, history>>

(* revoke_family: the records of the family are read, and each that was    *)
(* active is saved inactive.                                               *)
FindFamily(c) ==
    /\ At(c, "refresh", "family")
    /\ call' = [call EXCEPT ![c].at = "kill",
                  ![c].refs = {r \in Refresh : family[r] = FamilyOf(c) /\ token[r] = "active"}]
    /\ UNCHANGED <<records, history>>

RevokeNext(c) ==
    /\ At(c, "refresh", "kill")
    /\ \/ \E r \in call[c].refs :
            Revoked(r) /\ call' = [call EXCEPT ![c].refs = @ \ {r}] /\ UNCHANGED dead
       \/ /\ call[c].refs = {} /\ Ends(c) /\ UNCHANGED token
          /\ dead' = IF FamilyOf(c) \in mixed THEN dead ELSE dead \cup {FamilyOf(c)}
    /\ UNCHANGED <<codes, family, denied, old, issued, told, mixed>>
-----------------------------------------------------------------------------
(* The revocation endpoint, for a refresh token: found whatever its state. *)
Revoke(c, r) ==
    /\ token[r] # "none" /\ Begin(c, "revoke", r)
    /\ UNCHANGED <<records, history>>

FindRevocable(c) ==
    /\ At(c, "revoke", "find") /\ GoesOn(c, "retire")
    /\ UNCHANGED <<records, history>>

(* For an access token: it is verified, looked up in the denylist, and its *)
(* row saved.  A row lasts as long as its token.                           *)
Deny(c, a) ==
    /\ a \notin old /\ Begin(c, "deny", a)
    /\ UNCHANGED <<records, history>>

is_jti_revokedNot(a) == FALSE                 \* mutant of is_jti_revoked
is_jti_revoked(a) == a \in denied /\ a \notin old

VerifyDenied(c) ==
    /\ At(c, "deny", "find")
    /\ \/ ~is_jti_revoked(call[c].on) /\ GoesOn(c, "row") /\ UNCHANGED told
       \/ is_jti_revoked(call[c].on) /\ Ends(c) /\ told' = told \cup {call[c].on}
    /\ UNCHANGED <<records, issued, mixed, dead>>

revoke_jti(c) ==
    /\ At(c, "deny", "row") /\ Ends(c)
    /\ denied' = denied \cup {call[c].on} /\ told' = told \cup {call[c].on}
    /\ UNCHANGED <<codes, token, family, old, issued, mixed, dead>>

(* The resource server: decoded, then looked up.                           *)
Verify(c, a) ==
    /\ a \notin old /\ Begin(c, "verify", a)
    /\ UNCHANGED <<records, history>>

verify_oauth_access_token(c) ==
    /\ At(c, "verify", "find")
    /\ IF is_jti_revoked(call[c].on) THEN Ends(c)
       ELSE call' = [call EXCEPT ![c].at = "done", ![c].yes = TRUE]
    /\ UNCHANGED <<records, history>>

Expire(x) ==
    /\ x \notin old /\ old' = old \cup {x}
    /\ UNCHANGED <<codes, token, family, denied, call, history>>

Next ==
    \/ \E k \in Codes : save_authorization_code(k)
    \/ \E c \in Callers :
        \/ \E k \in Codes : Exchange(c, k)
        \/ \E r \in Refresh : Rotate(c, r) \/ Revoke(c, r)
        \/ \E a \in Access : Deny(c, a) \/ Verify(c, a)
        \/ query_authorization_code(c) \/ save_token(c) \/ consume_code(c) \/ FlipLater(c)
        \/ FindActive(c) \/ FindAny(c) \/ Retire(c) \/ FindFamily(c) \/ RevokeNext(c)
        \/ FindRevocable(c) \/ VerifyDenied(c) \/ revoke_jti(c) \/ verify_oauth_access_token(c)
    \/ \E x \in Codes \cup Refresh \cup Access : Expire(x)

Spec == Init /\ [][Next]_vars
-----------------------------------------------------------------------------
ActiveOf(f) == {r \in Refresh : family[r] = f /\ token[r] = "active"}

\* A code is exchanged for tokens once, whoever races for it, where the
\* database updates in one step (server.py:504).
CodeOnce == Native => \A k \in Codes : issued[k] <= 1

\* When requests for a family do not overlap, it has one active token between
\* rotations, and none for good once a token of it is presented a second time
\* (server.py:818, refresh_store.py:74).
FamilyEnds ==
    /\ \A f \in Refresh \ mixed : Busy(f) = {} => \A r, s \in ActiveOf(f) : r = s
    /\ \A f \in dead \ mixed : ActiveOf(f) = {}

\* A token that was reported revoked is not accepted by a request that begins
\* later, as long as it has not expired (denylist.py:38, resource.py:78).
DeniedRefused ==
    \A c \in Callers : call[c].yes /\ call[c].late => call[c].on \in old
=============================================================================
