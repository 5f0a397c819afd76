------------------------------- MODULE Accounts -------------------------------
(***************************************************************************)
(* User accounts (api/auth/service.py): who registers first is the         *)
(* administrator; passwords are changed, or reset with a token; and every  *)
(* call that authenticates saves the whole record for the time of its last *)
(* access.  A process keeps the accounts it loads or saves in the cache of *)
(* its graph context: look-ups by id share the cached object, look-ups by  *)
(* address make a new one.  A step is what runs between two awaits.        *)
(***************************************************************************)
EXTENDS Naturals, FiniteSets

CONSTANTS Callers, ProcessOf,   \* requests, and the process of each
          Users, Emails, Passwords,
          None,
          Open,                 \* registration_open
          Faults,               \* saves may raise
          MaxCalls              \* bound: calls made; one reset token is issued

Assumptions == /\ None \notin Users \cup Emails \cup Passwords /\ {Open, Faults} \subseteq BOOLEAN
               /\ MaxCalls \in Nat

Processes == {ProcessOf[c] : c \in Callers}
Objects == 1..(Cardinality(Callers) + Cardinality(Processes) * Cardinality(Users))

VARIABLES db,       \* the records
          heap,     \* the objects made of them
          cache,    \* per process: the object of an account, or None
          token,    \* PasswordResetToken: its account, "none", "unused", "used" or "expired"
          call,     \* per caller: what it does, with which object
          calls,
          calm,     \* history: no call has overlapped another
          chosen,   \* history: the passwords that the last calls on an address set, or tried to
          resets,   \* history: resets that returned
          demoted   \* history: an administrator was given other roles

vars == <<db, heap, cache, token, call, calls, calm, chosen, resets, demoted>>

Account == [id : Users, email : Emails, password : Passwords, admin : BOOLEAN]
Lookups == {"register", "bootstrap", "create", "login", "request"}
Ops == Lookups \cup {"validate", "change", "reset", "roles", "none"}

Resting == [op |-> "none", at |-> "done", user |-> None, email |-> None, old |-> None, new |-> None,
            admin |-> FALSE, obj |-> 0, rec |-> None]

TypeOK ==
    /\ db \in [Users -> Account \cup {None}] /\ heap \in [Objects -> Account \cup {None}]
    /\ cache \in [Processes -> [Users -> Objects \cup {None}]]
    /\ token.state \in {"none", "unused", "used", "expired"} /\ calls \in 0..MaxCalls
    /\ \A c \in Callers :
        /\ call[c].op \in Ops /\ call[c].rec \in Account \cup {None}
        /\ call[c].obj \in Objects \cup {0}
        /\ call[c].at \in {"done", "find", "count", "scan", "token", "get", "write", "issue", "spend"}
    /\ calm \in BOOLEAN /\ chosen \in [Emails -> SUBSET Passwords] /\ resets \in Nat /\ demoted \in BOOLEAN

Init ==
    /\ db = [u \in Users |-> None] /\ heap = [o \in Objects |-> None]
    /\ cache = [p \in Processes |-> [u \in Users |-> None]] /\ token = [state |-> "none", user |-> None]
    /\ call = [c \in Callers |-> Resting] /\ calls = 0
    /\ calm = TRUE /\ chosen = [e \in Emails |-> {}] /\ resets = 0 /\ demoted = FALSE
-----------------------------------------------------------------------------
Over(c) == call[c].at = "done"
Cached(c, u) == cache[ProcessOf[c]][u]

Begin(c, what) ==
    /\ Over(c) /\ calls < MaxCalls /\ calls' = calls + 1
    /\ calm' = (calm /\ \A d \in Callers : Over(d))
    /\ call' = [call EXCEPT ![c] = what]

(* Calls that begin with _find_user_by_email, whose answer is new objects. *)
AnyAdmin == \E u \in Users : db[u] # None /\ db[u].admin
Call(c, op, e, w, admin) ==
    /\ op = "create" => AnyAdmin                \* the endpoint is an administrator's
    /\ op = "request" => token.state = "none" /\ \A d \in Callers : call[d].op # "request"
    /\ Begin(c, [Resting EXCEPT !.op = op, !.at = "find", !.email = e, !.new = w, !.admin = admin])
    /\ UNCHANGED <<db, heap, cache, token, chosen, resets, demoted>>

(* Calls that begin with _get_user_by_id: an object of the cache is used   *)
(* at once.                                                                *)
CallById(c, op, u, old, new, admin) ==
    /\ db[u] # None
    /\ Begin(c, [Resting EXCEPT !.op = op, !.at = "get", !.user = u, !.old = old, !.new = new,
                                !.admin = admin])
    /\ UNCHANGED <<db, heap, cache, token, chosen, resets, demoted>>

reset_password(c, w) ==
    /\ Begin(c, [Resting EXCEPT !.op = "reset", !.at = "token", !.new = w])
    /\ UNCHANGED <<db, heap, cache, token, chosen, resets, demoted>>

Goes(c, place) == call' = [call EXCEPT ![c].at = place]
Ends(c) == call' = [call EXCEPT ![c] = Resting]

InUse == {cache[p][u] : p \in Processes, u \in Users} \cup {call[c].obj : c \in Callers}
New == CHOOSE o \in Objects : o \notin InUse /\ \A q \in Objects \ InUse : o <= q

(* An account is made, or found, and what save exports of it is written    *)
(* at the next step.                                                       *)
Writes(c, o, account) ==
    /\ heap' = [heap EXCEPT ![o] = account]
    /\ call' = [call EXCEPT ![c].at = "write", ![c].obj = o, ![c].rec = account]
Unused == {u \in Users : db[u] = None /\ \A c \in Callers : call[c].rec = None \/ call[c].rec.id # u}
Makes(c, admin) == \E u \in Unused :
    Writes(c, New, [id |-> u, email |-> call[c].email, password |-> call[c].new, admin |-> admin])
-----------------------------------------------------------------------------
Found(e) == {u \in Users : db[u] # None /\ db[u].email = e}
Makers == {"register", "bootstrap", "create"}
RefusedLate(c) == call[c].op \in {"login", "request"} /\ Found(call[c].email) = {}
                                                \* mutant of Refused: nothing is looked up
Refused(c) ==
    \/ call[c].op \in Makers /\ Found(call[c].email) # {}
    \/ call[c].op \notin Makers /\ Found(call[c].email) = {}
    \/ call[c].op = "register" /\ ~Open

(* Of several accounts of an address one is taken.                         *)
FindByEmail(c) ==
    /\ call[c].at = "find"
    /\ \/ Refused(c) /\ Ends(c) /\ UNCHANGED heap
       \/ ~Refused(c) /\ call[c].op \in {"register", "bootstrap"} /\ Goes(c, "count") /\ UNCHANGED heap
       \/ ~Refused(c) /\ call[c].op = "create" /\ Makes(c, call[c].admin)
       \/ /\ ~Refused(c) /\ call[c].op = "request" /\ UNCHANGED heap
          /\ \E u \in Found(call[c].email) : call' = [call EXCEPT ![c].at = "issue", ![c].user = u]
       \/ /\ ~Refused(c) /\ call[c].op = "login"
          /\ \E u \in Found(call[c].email) :
                IF db[u].password = call[c].new THEN Writes(c, New, db[u])
                ELSE Ends(c) /\ UNCHANGED heap
    /\ UNCHANGED <<db, cache, token, calls, calm, chosen, resets, demoted>>

FirstNever == FALSE                             \* mutant: who registers gets the default role
First == \A u \in Users : db[u] = None

CountUsers(c) ==
    /\ call[c].at = "count"
    /\ \/ call[c].op = "register" /\ Makes(c, First)
       \/ call[c].op = "bootstrap" /\ First /\ Makes(c, TRUE)
       \/ call[c].op = "bootstrap" /\ ~First /\ Goes(c, "scan") /\ UNCHANGED heap
    /\ UNCHANGED <<db, cache, token, calls, calm, chosen, resets, demoted>>

bootstrap_admin(c) ==
    /\ call[c].at = "scan"
    /\ IF AnyAdmin THEN Ends(c) /\ UNCHANGED heap ELSE Makes(c, TRUE)
    /\ UNCHANGED <<db, cache, token, calls, calm, chosen, resets, demoted>>

request_password_reset(c) ==
    /\ call[c].at = "issue" /\ token' = [state |-> "unused", user |-> call[c].user] /\ Ends(c)
    /\ UNCHANGED <<db, heap, cache, calls, calm, chosen, resets, demoted>>

Expire ==
    /\ token.state = "unused" /\ token' = [token EXCEPT !.state = "expired"]
    /\ UNCHANGED <<db, heap, cache, call, calls, calm, chosen, resets, demoted>>

FindTokenAny == token.state \in {"unused", "used"}    \* mutant of FindToken: used_at not asked for
FindToken == token.state = "unused"

FindReset(c) ==
    /\ call[c].at = "token"
    /\ IF FindToken THEN call' = [call EXCEPT ![c].at = "get", ![c].user = token.user]
       ELSE Ends(c)
    /\ UNCHANGED <<db, heap, cache, token, calls, calm, chosen, resets, demoted>>

(* What a call does with the account it got.                               *)
Changed(c, account) ==
    CASE call[c].op \in {"change", "reset"} -> [account EXCEPT !.password = call[c].new]
      [] call[c].op = "roles" -> [account EXCEPT !.admin = call[c].admin]
      [] OTHER -> account
Verified(c, account) == call[c].op = "change" => account.password = call[c].old

Got(c) == LET u == call[c].user IN IF Cached(c, u) # None THEN heap[Cached(c, u)] ELSE db[u]
GetById(c) ==
    /\ call[c].at = "get"
    /\ LET u == call[c].user
           o == IF Cached(c, u) # None THEN Cached(c, u) ELSE New
       IN /\ cache' = [cache EXCEPT ![ProcessOf[c]][u] = o]
          /\ IF Verified(c, Got(c)) THEN Writes(c, o, Changed(c, Got(c)))
             ELSE Ends(c) /\ heap' = [heap EXCEPT ![o] = Got(c)]
    /\ demoted' = (demoted \/ (call[c].op = "roles" /\ Got(c).admin /\ ~call[c].admin))
    /\ UNCHANGED <<db, token, calls, calm, chosen, resets>>

(* The record is written; save puts its object into the cache.             *)
SetsPassword(c) == call[c].op \in {"register", "bootstrap", "create", "change", "reset"}
Write(c) ==
    /\ call[c].at = "write"
    /\ db' = [db EXCEPT ![call[c].rec.id] = call[c].rec]
    /\ cache' = [cache EXCEPT ![ProcessOf[c]][call[c].rec.id] = call[c].obj]
    /\ chosen' = IF SetsPassword(c) THEN [chosen EXCEPT ![call[c].rec.email] = {call[c].rec.password}]
                 ELSE chosen
    /\ IF call[c].op = "reset" THEN Goes(c, "spend") ELSE Ends(c)
    /\ UNCHANGED <<heap, token, calls, calm, resets, demoted>>

(* An error ends a call; validate_token goes on without it.                *)
WriteRaises(c) ==
    /\ Faults /\ call[c].at \in {"write", "spend"} /\ Ends(c)
    /\ chosen' = IF SetsPassword(c) THEN [chosen EXCEPT ![call[c].rec.email] = @ \cup {call[c].rec.password}]
                 ELSE chosen
    /\ UNCHANGED <<db, heap, cache, token, calls, calm, resets, demoted>>

Spend(c) ==
    /\ call[c].at = "spend" /\ token' = [token EXCEPT !.state = "used"] /\ resets' = resets + 1 /\ Ends(c)
    /\ UNCHANGED <<db, heap, cache, calls, calm, chosen, demoted>>

Evict(p, u) ==
    /\ cache[p][u] # None /\ cache' = [cache EXCEPT ![p][u] = None]
    /\ UNCHANGED <<db, heap, token, call, calls, calm, chosen, resets, demoted>>

Next ==
    \/ \E c \in Callers :
        \/ \E op \in Lookups, e \in Emails, w \in Passwords, admin \in BOOLEAN :
              (admin => op = "create") /\ Call(c, op, e, w, admin)
        \/ \E u \in Users : CallById(c, "validate", u, None, None, FALSE)
        \/ \E u \in Users, old, new \in Passwords : CallById(c, "change", u, old, new, FALSE)
        \/ \E u \in Users, admin \in BOOLEAN : CallById(c, "roles", u, None, None, admin)
        \/ \E w \in Passwords : reset_password(c, w)
        \/ FindByEmail(c) \/ CountUsers(c) \/ bootstrap_admin(c)
        \/ request_password_reset(c) \/ FindReset(c) \/ GetById(c)
        \/ Write(c) \/ WriteRaises(c) \/ Spend(c)
    \/ Expire
    \/ \E p \in Processes, u \in Users : Evict(p, u)

Spec == Init /\ [][Next]_vars
-----------------------------------------------------------------------------
\* However registrations and the bootstrap overlap, there is an administrator as
\* soon as there is an account, until one is given other roles
\* (api/auth/service.py:781, 842).
HasAdmin == demoted \/ AnyAdmin \/ \A u \in Users : db[u] = None

\* In one process, while calls do not overlap, an account has the password of the
\* last call that set one, or of one that raised since, whatever other calls save
\* the record, and there is one account of an address (api/auth/service.py:1356, 1097).
PasswordsHold == calm /\ Cardinality(Processes) = 1 /\ (\A c \in Callers : Over(c)) =>
    \A e \in Emails : /\ \A u \in Found(e) : db[u].password \in chosen[e]
                     /\ Cardinality(Found(e)) <= 1

\* A reset token is good for one reset, unless two overlap: "already used"
\* (api/auth/service.py:1440).
ResetOnce == calm => resets <= 1

\* With calls that overlap, or processes that cache: what a change set stays.
PasswordsStay == (\A c \in Callers : Over(c)) =>
    \A e \in Emails : \A u \in Found(e) : db[u].password \in chosen[e]
=============================================================================
