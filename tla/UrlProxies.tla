------------------------------- MODULE UrlProxies -------------------------------
(***************************************************************************)
(* Links to files (storage/managers/proxy.py, storage/models.py): records  *)
(* with an expiry, some good for one access.  Every call finds the record  *)
(* by its code, makes an object of its own from it and saves that whole;   *)
(* a step is what runs between two awaits.                                 *)
(***************************************************************************)
EXTENDS Naturals, FiniteSets

CONSTANTS Callers, Codes, None,
          Lives,                \* expires_in
          Faults,               \* database calls may raise
          MaxTime, MaxCalls     \* bounds: the last tick, calls made

Proxy == [one_time : BOOLEAN, active : BOOLEAN, expires : Nat]

Assumptions == /\ Lives \subseteq Nat /\ Faults \in BOOLEAN /\ None \notin Codes \cup Proxy
               /\ {MaxTime, MaxCalls} \subseteq Nat

VARIABLES now,
          proxies,      \* per code: the record, or None
          call, calls,
          ended,        \* history: links that no call may serve that begins now
          served        \* history: links served to a call that began after their end

vars == <<now, proxies, call, calls, ended, served>>

Resting == [op |-> "none", at |-> "done", code |-> None, proxy |-> None, late |-> FALSE, alone |-> FALSE]

TypeOK ==
    /\ now \in 0..MaxTime /\ calls \in 0..MaxCalls
    /\ proxies \in [Codes -> Proxy \cup {None}]
    /\ call \in [Callers ->
         [op : {"none", "create", "get", "resolve", "peek", "revoke"},
          at : {"done", "find", "save", "expire", "record"},
          code : Codes \cup {None}, proxy : Proxy \cup {None},
          late : BOOLEAN, alone : BOOLEAN]]
    /\ ended \subseteq Codes /\ served \subseteq Codes

Init == /\ now = 0 /\ proxies = [k \in Codes |-> None] /\ call = [c \in Callers |-> Resting]
        /\ calls = 0 /\ ended = {} /\ served = {}
-----------------------------------------------------------------------------
Over(c) == call[c].at = "done"

Begin(c, op, k) ==
    /\ Over(c) /\ calls < MaxCalls /\ calls' = calls + 1
    /\ op = "create" => \A d \in Callers : call[d].code # k \/ call[d].op # "create"   \* codes are random
    /\ call' = [d \in Callers |->
         IF d # c THEN IF call[d].code = k THEN [call[d] EXCEPT !.alone = FALSE] ELSE call[d]
         ELSE [op |-> op, at |-> "find", code |-> k, proxy |-> None,
               late |-> k \in ended \/ (proxies[k] # None /\ now >= proxies[k].expires),
               alone |-> \A e \in Callers \ {c} : Over(e) \/ call[e].code # k]]
    /\ UNCHANGED <<now, proxies, ended, served>>

Ends(c) == call' = [call EXCEPT ![c] = Resting]
Goes(c, place, proxy) == call' = [call EXCEPT ![c].at = place, ![c].proxy = proxy]

is_expired(x) == now >= x.expires
is_valid(x) == x.active /\ ~is_expired(x)

(* resolve_proxy, and peek, which is resolve_proxy(increment_access=False).*)
Served(c) ==
    /\ Ends(c)
    /\ served' = IF call[c].late THEN served \cup {call[c].code} ELSE served
Resolves(c, x) ==                               \* after get_proxy
    IF call[c].op = "get" \/ ~is_valid(x) THEN Ends(c) /\ UNCHANGED served
    ELSE IF call[c].op = "peek" THEN Served(c)
    ELSE Goes(c, "record", x) /\ UNCHANGED served

Find(c) ==
    /\ call[c].at = "find"
    /\ LET x == proxies[call[c].code]
           op == call[c].op
       IN \/ op = "create" /\ x = None /\ UNCHANGED served
             /\ \E life \in Lives, once \in BOOLEAN :
                  Goes(c, "save", [one_time |-> once, active |-> TRUE, expires |-> now + life])
          \/ (op = "create") # (x = None) /\ Ends(c) /\ UNCHANGED served
          \/ op = "revoke" /\ x # None /\ Goes(c, "save", [x EXCEPT !.active = FALSE]) /\ UNCHANGED served
          \/ op \in {"get", "resolve", "peek"} /\ x # None
             /\ IF is_expired(x) /\ x.active
                THEN Goes(c, "expire", [x EXCEPT !.active = FALSE]) /\ UNCHANGED served
                ELSE Resolves(c, x)
    /\ UNCHANGED <<now, proxies, calls, ended>>

Saves(c, x) == proxies' = [proxies EXCEPT ![call[c].code] = x]

(* create_proxy and revoke_proxy.                                          *)
Save(c) ==
    /\ call[c].at = "save" /\ Saves(c, call[c].proxy) /\ Ends(c)
    /\ ended' = IF call[c].op = "revoke" /\ (call[c].alone \/ call[c].proxy.one_time)
                THEN ended \cup {call[c].code} ELSE ended
    /\ UNCHANGED <<now, calls, served>>

(* get_proxy switches off what has expired.                                *)
Expire(c) ==
    /\ call[c].at = "expire" /\ Saves(c, call[c].proxy) /\ Resolves(c, call[c].proxy)
    /\ UNCHANGED <<now, calls, ended>>

RecordedKept(x) == x                            \* mutant of Recorded: one access does not end a link
Recorded(x) == IF x.one_time THEN [x EXCEPT !.active = FALSE] ELSE x

record_access(c) ==
    /\ call[c].at = "record" /\ Saves(c, Recorded(call[c].proxy)) /\ Served(c)
    /\ ended' = IF call[c].proxy.one_time THEN ended \cup {call[c].code} ELSE ended
    /\ UNCHANGED <<now, calls>>

(* An error: get_proxy and revoke_proxy answer that there is none;         *)
(* resolve_proxy serves the file though the access was not recorded.       *)
Raise(c) ==
    /\ Faults /\ ~Over(c)
    /\ IF call[c].at = "record" THEN Served(c) ELSE Ends(c) /\ UNCHANGED served
    /\ UNCHANGED <<now, proxies, calls, ended>>

Tick == now < MaxTime /\ now' = now + 1 /\ UNCHANGED <<proxies, call, calls, ended, served>>

Next ==
    \/ Tick
    \/ \E c \in Callers :
        \/ \E op \in {"create", "get", "resolve", "peek", "revoke"}, k \in Codes : Begin(c, op, k)
        \/ Find(c) \/ Save(c) \/ Expire(c) \/ record_access(c) \/ Raise(c)

Spec == Init /\ [][Next]_vars
-----------------------------------------------------------------------------
\* A call that begins after the one access of a link was recorded, after it was
\* revoked or after its expiry does not get the file, whatever other calls save
\* then or later; a link for many accesses must be revoked while no other call
\* holds a copy (storage/managers/proxy.py:280).
LinksEnd == served = {}
=============================================================================
