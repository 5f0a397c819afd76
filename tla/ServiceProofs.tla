----------------------------- MODULE ServiceProofs -----------------------------
(***************************************************************************)
(* What is proved of the services around the graph, for every value of     *)
(* their constants: that links to files stay ended (UrlProxies), that      *)
(* codes and tokens do (OAuth), that revoked sessions and keys are refused *)
(* for good (Sessions, ApiKeys), that tasks are handed over and run in     *)
(* order (DeferredTasks, Scheduler), and that a repeated request is        *)
(* answered (Webhooks).  MCService checks the same properties, with values *)
(* for the constants and in scenes of their own, beside the other modules. *)
(***************************************************************************)
EXTENDS UrlProxies, Sequences, TLAPS

CONSTANTS Access, Refresh, Native,                               \* of OAuth
          Schedulers, Delays, TaskCalls, TaskTime,               \* of DeferredTasks
          Deliveries, StoringHandler, Async, HookFaults, MaxRecords, MaxRepeats,    \* of Webhooks
          Tasks, IdOf, Quota, Parsed, Threads, Workers, Restarts, Overruns, MaxRuns,    \* of Scheduler
          TokenScenes, KeyScenes         \* for each scene of tokens and of keys, the settings x

VARIABLES scene,
          codes, token, family, denied, old, request, issued, told, mixed, dead,
          env, asked, hour, deferral, deferrals, held, took, ran,
          records, memory, place, copy, repeats, handled, stored, late,
          table, enabled, jobs, event, thread, at, due, task, future, pool, queue, running, stop,
          moment, expires, black, store, active, jti, login, out, calm,
          moments, keys, remembered, adrift, knock, gone

Grants == INSTANCE OAuth WITH call <- request
Defers == INSTANCE DeferredTasks WITH
    now <- hour, call <- deferral, calls <- deferrals, MaxCalls <- TaskCalls, MaxTime <- TaskTime
Hooks == INSTANCE Webhooks WITH at <- place, Faults <- HookFaults
Jobs == INSTANCE Scheduler WITH Limit <- Quota
Tokens(x) == INSTANCE Sessions WITH
    now <- moment, call <- login, StoreOf <- x.storeOf, Access <- x.access, Refresh <- x.refresh,
    Rotation <- x.rotation, FailClosed <- x.failClosed, Faults <- x.faults, Ttl <- x.ttl,
    Life <- x.life, Latency <- x.latency, MaxTime <- x.maxTime
Knocks(x) == INSTANCE ApiKeys WITH
    now <- moments, cache <- remembered, call <- knock, ProcessOf <- x.processOf, Keys <- x.keys,
    Lives <- x.lives, Origins <- x.origins, Allowed <- x.allowed, Faults <- x.faults, Ttl <- x.ttl,
    MaxSize <- x.maxSize, Timeout <- x.timeout, Latency <- x.latency, MaxTime <- x.maxTime

\* A scene is of tokens or of keys.
ScenesApart == DOMAIN TokenScenes \cap DOMAIN KeyScenes = {}
-----------------------------------------------------------------------------
\* A code is exchanged once, a refresh token used twice ends its family, and a
\* denied access token is refused (api/auth/oauth/server.py:504, 818).
GrantsEnd == /\ scene = "codes" => Grants!CodeOnce /\ Grants!FamilyEnds
             /\ scene = "denials" => Grants!DeniedRefused

\* A strict caller that gets a reference has a provider that took the task, and
\* brings it no earlier than it can be helped (serverless/tasks/aws_lambda.py:224);
\* nor does a task that waits in the process (async_utils/__init__.py:600).  Never
\* two runs of a scheduled task that allows one, whatever the order in which the
\* scheduler thread records what the pool has finished; nothing starts after a
\* stop (api/integrations/scheduler/scheduler.py:161, 483).
TasksKept == /\ scene = "tasks" => Defers!StrictHandsOver /\ Defers!LocalOnTime
             /\ scene = "jobs" => Jobs!Orderly

\* A request delivered after a response was stored for its key is answered, not
\* handled (api/integrations/webhooks/middleware.py:196).
LateAnswered == scene = "hooks" => Hooks!LateAnswered

\* A token or an API key that was revoked, or has expired, is accepted for no longer
\* than stores and caches remember, and a refresh token retired alone stays retired
\* (api/auth/service.py:494, 1190, api/auth/api_key_service.py:249).
RevokedStays ==
    /\ \A s \in DOMAIN TokenScenes : scene = s =>
          Tokens(TokenScenes[s])!RevokedExpires /\ Tokens(TokenScenes[s])!RetiredForGood
    /\ \A s \in DOMAIN KeyScenes : scene = s =>
          Knocks(KeyScenes[s])!KeysEnd /\ Knocks(KeyScenes[s])!KeysExpire
-----------------------------------------------------------------------------
(* What the theorem below rests on.  A call that is under way has a code,  *)
(* and no two of them create the same link; until its record is there,     *)
(* only its creation knows of it.                                          *)
CallsMatch ==
    \A c \in Callers :
        /\ call[c].at = "done" => call[c] = Resting
        /\ call[c].at # "done" => call[c].op # "none" /\ call[c].code \in Codes
        /\ call[c].at \in {"expire", "record"} => call[c].op \in {"get", "resolve", "peek"}
        /\ call[c].at = "save" => call[c].op \in {"create", "revoke"}

CreatesApart ==
    \A c, d \in Callers :
        c # d /\ call[c].op = "create" /\ call[d].op = "create" => call[c].code # call[d].code

(* What a call will save is the record, but for whether it is active.      *)
Copies(c) ==
    LET kept == call[c].proxy
        x == proxies[call[c].code]
    IN IF call[c].op = "create" THEN kept # None /\ x = None
       ELSE /\ kept # None /\ x # None
            /\ kept.one_time = x.one_time /\ kept.expires = x.expires
            /\ call[c].at # "record" => ~kept.active
CopiesMatch == \A c \in Callers : call[c].at \in {"save", "expire", "record"} => Copies(c)

(* A link that ended is off, and no call will switch it on; a call that    *)
(* began after the end of its link records no access; a revocation that is *)
(* alone is.                                                               *)
EndedOff ==
    \A k \in ended :
        /\ proxies[k] # None /\ ~proxies[k].active
        /\ proxies[k].one_time \/ \A c \in Callers : call[c].at = "record" => call[c].code # k
LateKept ==
    \A c \in Callers : call[c].late =>
        /\ call[c].at # "record"
        /\ \/ call[c].code \in ended
           \/ proxies[call[c].code] # None /\ now >= proxies[call[c].code].expires
AloneKept ==
    \A c \in Callers : call[c].alone =>
        \A d \in Callers \ {c} : call[d].at = "done" \/ call[d].code # call[c].code

LinksInv == TypeOK /\ CallsMatch /\ CreatesApart /\ CopiesMatch /\ EndedOff /\ LateKept /\ AloneKept /\ LinksEnd
-----------------------------------------------------------------------------
(* At first there are no links and no calls.                               *)
LEMMA LinksInit == ASSUME Assumptions PROVE Init => LinksInv
<1> SUFFICES ASSUME Init PROVE LinksInv
  OBVIOUS
<1>1. TypeOK
  BY DEF Init, TypeOK, Assumptions, Resting
<1>2. CallsMatch /\ CreatesApart /\ CopiesMatch /\ EndedOff /\ LateKept /\ AloneKept /\ LinksEnd
  BY DEF Init, Resting, CallsMatch, CreatesApart, CopiesMatch, EndedOff, LateKept, AloneKept,
      LinksEnd
<1> QED
  BY <1>1, <1>2 DEF LinksInv

(* Time only passes: an expired link stays expired.                        *)
LEMMA TickStep == ASSUME Assumptions, LinksInv, Tick PROVE LinksInv'
<1>1. TypeOK'
  BY DEF LinksInv, Tick, TypeOK, Assumptions
<1>2. CallsMatch' /\ CreatesApart' /\ CopiesMatch' /\ EndedOff' /\ AloneKept' /\ LinksEnd'
  BY DEF LinksInv, Tick, CallsMatch, CreatesApart, CopiesMatch, Copies, EndedOff, AloneKept,
      LinksEnd
<1>3. LateKept'
  <2> SUFFICES ASSUME NEW c \in Callers, call[c].late
               PROVE /\ call[c].at # "record"
                     /\ \/ call[c].code \in ended
                        \/ proxies[call[c].code] # None /\ now + 1 >= proxies[call[c].code].expires
    BY DEF Tick, LateKept
  <2>1. CASE call[c].code \in ended
    BY <2>1 DEF LinksInv, LateKept
  <2>2. CASE call[c].code \notin ended
    <3>1. /\ call[c].at # "record" /\ proxies[call[c].code] # None
          /\ now >= proxies[call[c].code].expires
      BY <2>2 DEF LinksInv, LateKept
    <3>2. call[c].code \in Codes
      BY DEF LinksInv, CallsMatch, Resting
    <3>3. proxies[call[c].code] \in Proxy /\ now \in Nat
      BY <3>1, <3>2 DEF LinksInv, TypeOK
    <3> QED
      BY <3>1, <3>3 DEF Proxy
  <2> QED
    BY <2>1, <2>2
<1> QED
  BY <1>1, <1>2, <1>3 DEF LinksInv

(* A call that begins is late if its link is over, and ends the solitude   *)
(* of a revocation.                                                        *)
LEMMA BeginStep ==
  ASSUME Assumptions, LinksInv, NEW c \in Callers, NEW k \in Codes,
         NEW op \in {"create", "get", "resolve", "peek", "revoke"}, Begin(c, op, k)
  PROVE  LinksInv'
<1> DEFINE Late == k \in ended \/ (proxies[k] # None /\ now >= proxies[k].expires)
           Alone == \A e \in Callers \ {c} : call[e].at = "done" \/ call[e].code # k
           New(over, alone) == [op |-> op, at |-> "find", code |-> k, proxy |-> None,
                                late |-> over, alone |-> alone]
<1>1. /\ UNCHANGED <<now, proxies, ended, served>>
      /\ calls' = calls + 1 /\ calls < MaxCalls /\ call[c].at = "done"
      /\ op = "create" => \A d \in Callers : call[d].code # k \/ call[d].op # "create"
  BY DEF Begin, Over
<1>2. PICK over \in BOOLEAN, alone \in BOOLEAN :
        /\ over <=> Late
        /\ alone <=> Alone
        /\ call' = [d \in Callers |->
             IF d # c THEN IF call[d].code = k THEN [call[d] EXCEPT !.alone = FALSE] ELSE call[d]
             ELSE New(over, alone)]
  <2>1. Late \in BOOLEAN /\ Alone \in BOOLEAN
    OBVIOUS
  <2> QED
    BY <2>1 DEF Begin, Over
<1>3. call'[c] = New(over, alone)
  BY <1>2
<1>4. \A d \in Callers \ {c} :
        /\ call'[d].op = call[d].op /\ call'[d].at = call[d].at /\ call'[d].code = call[d].code
        /\ call'[d].proxy = call[d].proxy /\ call'[d].late = call[d].late
        /\ call'[d].alone => call[d].alone /\ call[d].code # k
        /\ call[d].code # k => call'[d] = call[d]
  BY <1>2 DEF LinksInv, TypeOK
<1>5. TypeOK'
  <2>1. calls' \in 0..MaxCalls
    BY <1>1 DEF LinksInv, TypeOK, Assumptions
  <2>2. \A d \in Callers : call[d].code = k => [call[d] EXCEPT !.alone = FALSE] \in
          [op : {"none", "create", "get", "resolve", "peek", "revoke"},
           at : {"done", "find", "save", "expire", "record"},
           code : Codes \cup {None}, proxy : Proxy \cup {None},
           late : BOOLEAN, alone : BOOLEAN]
    <3> DEFINE Kind == [op : {"none", "create", "get", "resolve", "peek", "revoke"},
                        at : {"done", "find", "save", "expire", "record"},
                        code : Codes \cup {None}, proxy : Proxy \cup {None},
                        late : BOOLEAN, alone : BOOLEAN]
    <3>1. \A x \in Kind : [x EXCEPT !.alone = FALSE] \in Kind
      OBVIOUS
    <3>2. \A d \in Callers : call[d] \in Kind
      BY DEF LinksInv, TypeOK
    <3> HIDE DEF Kind
    <3>3. \A d \in Callers : [call[d] EXCEPT !.alone = FALSE] \in Kind
      BY <3>1, <3>2
    <3> QED
      BY <3>3 DEF Kind
  <2> QED
    BY <1>1, <1>2, <2>1, <2>2 DEF LinksInv, TypeOK
<1>6. CallsMatch' /\ CreatesApart'
  <2>1. \A d \in Callers : call[d].at = "done" => call[d] = Resting /\ call[d].code # k
    <3>1. Resting.code = None /\ k # None
      BY DEF Resting, Assumptions
    <3> QED
      BY <3>1 DEF LinksInv, CallsMatch
  <2>2. CallsMatch'
    BY <1>3, <1>4, <2>1 DEF LinksInv, CallsMatch
  <2>3. CreatesApart'
    BY <1>1, <1>3, <1>4 DEF LinksInv, CreatesApart
  <2> QED
    BY <2>2, <2>3
<1>7. CopiesMatch' /\ EndedOff' /\ LinksEnd'
  BY <1>1, <1>3, <1>4 DEF LinksInv, CopiesMatch, Copies, EndedOff, LinksEnd
<1>8. LateKept'
  BY <1>1, <1>2, <1>3, <1>4 DEF LinksInv, LateKept
<1>9. AloneKept'
  BY <1>1, <1>2, <1>3, <1>4 DEF LinksInv, AloneKept
<1> QED
  BY <1>5, <1>6, <1>7, <1>8, <1>9 DEF LinksInv
(* What Ends and Goes make of a call; nothing becomes of the others.       *)
LEMMA CallEnds ==
  ASSUME LinksInv, NEW c \in Callers, Ends(c)
  PROVE  /\ call'[c] = Resting /\ \A d \in Callers \ {c} : call'[d] = call[d]
         /\ call' \in [Callers ->
              [op : {"none", "create", "get", "resolve", "peek", "revoke"},
               at : {"done", "find", "save", "expire", "record"},
               code : Codes \cup {None}, proxy : Proxy \cup {None},
               late : BOOLEAN, alone : BOOLEAN]]
BY DEF LinksInv, TypeOK, Ends, Resting

\* A call that goes on keeps what it is about.
LEMMA CallGoes ==
  ASSUME LinksInv, NEW c \in Callers, NEW there \in {"save", "expire", "record"}, NEW x \in Proxy,
         Goes(c, there, x)
  PROVE  /\ call'[c].op = call[c].op /\ call'[c].at = there /\ call'[c].code = call[c].code
         /\ call'[c].proxy = x /\ call'[c].late = call[c].late /\ call'[c].alone = call[c].alone
         /\ \A d \in Callers \ {c} : call'[d] = call[d]
         /\ call' \in [Callers ->
              [op : {"none", "create", "get", "resolve", "peek", "revoke"},
               at : {"done", "find", "save", "expire", "record"},
               code : Codes \cup {None}, proxy : Proxy \cup {None},
               late : BOOLEAN, alone : BOOLEAN]]
<1>1. call' = [call EXCEPT ![c] = [call[c] EXCEPT !.at = there, !.proxy = x]]
  BY DEF Goes
<1>2. [call[c] EXCEPT !.at = there, !.proxy = x] \in
        [op : {"none", "create", "get", "resolve", "peek", "revoke"},
         at : {"done", "find", "save", "expire", "record"},
         code : Codes \cup {None}, proxy : Proxy \cup {None},
         late : BOOLEAN, alone : BOOLEAN]
  BY DEF LinksInv, TypeOK
<1>3. /\ call'[c] = [call[c] EXCEPT !.at = there, !.proxy = x]
      /\ \A d \in Callers \ {c} : call'[d] = call[d]
  BY <1>1 DEF LinksInv, TypeOK
<1> QED
  BY <1>1, <1>2, <1>3 DEF LinksInv, TypeOK

(* A call that ends and leaves the links alone disturbs nothing.           *)
LEMMA EndStep ==
  ASSUME Assumptions, LinksInv, NEW c \in Callers, Ends(c), UNCHANGED <<now, proxies, calls, ended, served>>
  PROVE  LinksInv'
<1>1. TypeOK'
  BY CallEnds DEF LinksInv, TypeOK
<1>2. CallsMatch' /\ CreatesApart'
  <2>1. CallsMatch'
    <3>1. Resting.at = "done"
      BY DEF Resting
    <3> QED
      BY <3>1, CallEnds DEF LinksInv, CallsMatch
  <2>2. CreatesApart'
    BY CallEnds DEF LinksInv, CreatesApart, Resting
  <2> QED
    BY <2>1, <2>2
<1>3. CopiesMatch' /\ EndedOff' /\ LinksEnd'
  BY CallEnds DEF LinksInv, CopiesMatch, Copies, EndedOff, LinksEnd, Resting
<1>4. LateKept' /\ AloneKept'
  BY CallEnds DEF LinksInv, LateKept, AloneKept, Resting
<1> QED
  BY <1>1, <1>2, <1>3, <1>4 DEF LinksInv

(* A call takes its copy of the record it finds, to create, to revoke, to  *)
(* switch off what has expired or to record an access.                     *)
LEMMA GoStep ==
  ASSUME Assumptions, LinksInv, NEW c \in Callers, NEW there \in {"save", "expire", "record"},
         NEW kept \in Proxy, Goes(c, there, kept), UNCHANGED <<now, proxies, calls, ended, served>>,
         call[c].at = "find",
         there = "save" <=> call[c].op \in {"create", "revoke"},
         LET x == proxies[call[c].code]
         IN IF call[c].op = "create" THEN x = None
            ELSE /\ x # None /\ kept.one_time = x.one_time /\ kept.expires = x.expires
                 /\ IF there = "record" THEN is_valid(x) ELSE ~kept.active
  PROVE  LinksInv'
<1>1. TypeOK'
  BY CallGoes DEF LinksInv, TypeOK
<1>2. CallsMatch' /\ CreatesApart'
  <2>1. CallsMatch'
    <3>1. call[c].op \in {"create", "get", "resolve", "peek", "revoke"} /\ call[c].code \in Codes
      BY DEF LinksInv, CallsMatch, TypeOK
    <3> QED
      BY <3>1, CallGoes DEF LinksInv, CallsMatch
  <2>2. CreatesApart'
    BY CallGoes DEF LinksInv, CreatesApart
  <2> QED
    BY <2>1, <2>2
<1>3. CopiesMatch'
  BY CallGoes DEF LinksInv, CopiesMatch, Copies, Assumptions
<1>4. EndedOff' /\ LinksEnd'
  BY CallGoes DEF LinksInv, EndedOff, LinksEnd, is_valid
<1>5. LateKept'
  BY CallGoes DEF LinksInv, LateKept, EndedOff, is_valid, is_expired
<1>6. AloneKept'
  BY CallGoes DEF LinksInv, AloneKept
<1> QED
  BY <1>1, <1>2, <1>3, <1>4, <1>5, <1>6 DEF LinksInv
(* Find ends the call, serves it or takes a copy; a late one finds a link  *)
(* that is no longer valid.                                                *)
LEMMA FindStep ==
  ASSUME Assumptions, LinksInv, NEW c \in Callers, Find(c)
  PROVE  LinksInv'
<1> DEFINE x == proxies[call[c].code]
           op == call[c].op
<1>1. /\ call[c].at = "find" /\ UNCHANGED <<now, proxies, calls, ended>>
      /\ call[c].code \in Codes /\ x \in Proxy \cup {None} /\ now \in Nat
      /\ op \in {"create", "get", "resolve", "peek", "revoke"}
  BY DEF Find, LinksInv, CallsMatch, TypeOK
<1>2. x # None /\ is_valid(x) => ~call[c].late
  BY <1>1 DEF LinksInv, LateKept, EndedOff, is_valid, is_expired
<1>3. x # None => [x EXCEPT !.active = FALSE] \in Proxy
                  /\ [x EXCEPT !.active = FALSE].one_time = x.one_time
                  /\ [x EXCEPT !.active = FALSE].expires = x.expires
                  /\ ~[x EXCEPT !.active = FALSE].active
  BY <1>1 DEF Proxy
<1> HIDE DEF x, op
<1>4. CASE op = "create" /\ x = None
  <2>1. UNCHANGED served
    BY <1>4 DEF Find, x, op
  <2>2. PICK life \in Lives, once \in BOOLEAN :
          Goes(c, "save", [one_time |-> once, active |-> TRUE, expires |-> now + life])
    BY <1>4 DEF Find, x, op
  <2>3. [one_time |-> once, active |-> TRUE, expires |-> now + life] \in Proxy
    <3>1. now \in Nat /\ life \in Nat
      BY <1>1, <2>2 DEF Assumptions
    <3>2. now + life \in Nat
      BY <3>1
    <3> QED
      BY <2>2, <3>2 DEF Proxy
  <2> HIDE DEF Goes
  <2> QED
    BY <1>1, <1>4, <2>1, <2>2, <2>3, GoStep DEF x, op
<1>5. CASE (op = "create") # (x = None)
  BY <1>1, <1>5, EndStep DEF Find, x, op
<1>6. CASE op = "revoke" /\ x # None
  <2>1. Goes(c, "save", [x EXCEPT !.active = FALSE]) /\ UNCHANGED served
    BY <1>6 DEF Find, x, op
  <2> QED
    BY <1>1, <1>3, <1>6, <2>1, GoStep DEF x, op
<1>7. CASE op \in {"get", "resolve", "peek"} /\ x # None
  <2>1. CASE is_expired(x) /\ x.active
    <3>1. Goes(c, "expire", [x EXCEPT !.active = FALSE]) /\ UNCHANGED served
      BY <1>7, <2>1 DEF Find, x, op
    <3> QED
      BY <1>1, <1>3, <1>7, <3>1, GoStep DEF x, op
  <2>2. CASE ~(is_expired(x) /\ x.active)
    <3>1. Resolves(c, x)
      BY <1>7, <2>2 DEF Find, x, op
    <3>2. CASE op = "get" \/ ~is_valid(x)
      BY <1>1, <3>1, <3>2, EndStep DEF Resolves, x, op
    <3>3. CASE op = "peek" /\ is_valid(x)
      BY <1>1, <1>2, <1>7, <3>1, <3>3, EndStep DEF Resolves, Served, x, op
    <3>4. CASE op = "resolve" /\ is_valid(x)
      <4>1. Goes(c, "record", x) /\ UNCHANGED served /\ x \in Proxy
        BY <1>1, <1>7, <3>1, <3>4 DEF Resolves, x, op
      <4> QED
        BY <1>1, <1>7, <3>4, <4>1, GoStep DEF x, op
    <3> QED
      BY <1>7, <3>2, <3>3, <3>4
  <2> QED
    BY <2>1, <2>2
<1> QED
  BY <1>1, <1>4, <1>5, <1>6, <1>7

(* A save leaves the record of one link, which keeps its expiry.           *)
LEMMA SaveStep ==
  ASSUME Assumptions, LinksInv, NEW c \in Callers, NEW y \in Proxy,
         call[c].at \in {"save", "expire", "record"},
         Saves(c, y), Ends(c), UNCHANGED <<now, calls, served>>,
         y.one_time = call[c].proxy.one_time, y.expires = call[c].proxy.expires,
         y.active => call[c].op = "create" \/ (call[c].at = "record" /\ ~y.one_time),
         ended' = ended \/
           /\ ended' = ended \cup {call[c].code}
           /\ ~y.active /\ (call[c].alone \/ y.one_time)
  PROVE  LinksInv'
<1> DEFINE k == call[c].code
           x == proxies[k]
<1>1. k \in Codes /\ x \in Proxy \cup {None} /\ now \in Nat
  BY DEF LinksInv, CallsMatch, TypeOK
<1>2. /\ call[c].proxy # None
      /\ IF call[c].op = "create" THEN x = None
         ELSE x # None /\ y.one_time = x.one_time /\ y.expires = x.expires
  BY DEF LinksInv, CopiesMatch, Copies
<1>3. /\ proxies' = [proxies EXCEPT ![k] = y]
      /\ proxies'[k] = y /\ \A j \in Codes \ {k} : proxies'[j] = proxies[j]
      /\ y # None
  BY <1>1 DEF Saves, LinksInv, TypeOK, Assumptions
<1>4. TypeOK'
  BY <1>1, <1>3, CallEnds DEF LinksInv, TypeOK
<1>5. CallsMatch' /\ CreatesApart'
  <2>1. CallsMatch'
    <3>1. Resting.at = "done"
      BY DEF Resting
    <3> QED
      BY <3>1, CallEnds DEF LinksInv, CallsMatch
  <2>2. CreatesApart'
    BY CallEnds DEF LinksInv, CreatesApart, Resting
  <2> QED
    BY <2>1, <2>2
<1>6. CopiesMatch'
  <2> SUFFICES ASSUME NEW d \in Callers, call'[d].at \in {"save", "expire", "record"}
               PROVE  Copies(d)'
    BY DEF CopiesMatch
  <2>1. d # c /\ call'[d] = call[d] /\ call[d].at \in {"save", "expire", "record"}
    BY CallEnds DEF Resting
  <2>2. Copies(d) /\ call[d].code \in Codes
    BY <2>1 DEF LinksInv, CopiesMatch, CallsMatch
  <2>3. CASE call[d].code # k
    BY <1>3, <2>1, <2>2, <2>3 DEF Copies
  <2>4. CASE call[d].code = k
    <3>1. call[d].op # "create"
      BY <1>2, <2>1, <2>2, <2>4 DEF Copies, LinksInv, CreatesApart
    <3>2. call[c].op # "create"
      BY <1>2, <2>2, <2>4, <3>1 DEF Copies
    <3> QED
      BY <1>2, <1>3, <2>1, <2>2, <2>4, <3>1, <3>2 DEF Copies
  <2> QED
    BY <2>3, <2>4
<1>7. EndedOff' /\ LinksEnd'
  <2>1. LinksEnd'
    BY DEF LinksInv, LinksEnd
  <2>2. ASSUME NEW j \in ended'
        PROVE /\ proxies'[j] # None /\ ~proxies'[j].active
              /\ proxies'[j].one_time \/ \A d \in Callers : call'[d].at = "record" => call'[d].code # j
    <3>1. \A d \in Callers : call'[d].at = "record" => d # c /\ call'[d] = call[d]
      BY CallEnds DEF Resting
    <3>2. CASE j \in ended /\ j # k
      BY <1>3, <3>1, <3>2 DEF LinksInv, EndedOff, TypeOK
    <3>3. CASE j \in ended /\ j = k
      <4>1. ~y.active
        BY <1>2, <3>3 DEF LinksInv, EndedOff
      <4> QED
        BY <1>2, <1>3, <3>1, <3>3, <4>1 DEF LinksInv, EndedOff
    <3>4. CASE j \notin ended
      <4>1. j = k /\ ~y.active /\ (call[c].alone \/ y.one_time)
        BY <2>2, <3>4
      <4>2. CASE y.one_time
        BY <1>3, <4>1, <4>2
      <4>3. CASE call[c].alone
        <5>1. \A d \in Callers \ {c} : call[d].at = "done" \/ call[d].code # k
          BY <4>3 DEF LinksInv, AloneKept
        <5> QED
          BY <1>3, <3>1, <4>1, <5>1
      <4> QED
        BY <4>1, <4>2, <4>3
    <3> QED
      BY <3>2, <3>3, <3>4
  <2> QED
    BY <2>1, <2>2 DEF EndedOff
<1>8. LateKept'
  <2> SUFFICES ASSUME NEW d \in Callers, call'[d].late
               PROVE  /\ call'[d].at # "record"
                      /\ \/ call'[d].code \in ended'
                         \/ proxies'[call'[d].code] # None /\ now >= proxies'[call'[d].code].expires
    BY DEF LateKept
  <2>1. d # c /\ call'[d] = call[d]
    BY CallEnds DEF Resting
  <2>2. call[d].code \in Codes
    BY <2>1 DEF LinksInv, CallsMatch, Resting
  <2>3. /\ call[d].at # "record"
        /\ call[d].code \in ended \/ (proxies[call[d].code] # None /\ now >= proxies[call[d].code].expires)
    BY <2>1 DEF LinksInv, LateKept
  <2>4. ended \subseteq ended'
    OBVIOUS
  <2>5. CASE call[d].code = k
    BY <1>2, <1>3, <2>1, <2>3, <2>4, <2>5
  <2>6. CASE call[d].code # k
    BY <1>3, <2>1, <2>2, <2>3, <2>4, <2>6
  <2> QED
    BY <2>5, <2>6
<1>9. AloneKept'
  BY CallEnds DEF LinksInv, AloneKept, Resting
<1> QED
  BY <1>4, <1>5, <1>6, <1>7, <1>8, <1>9 DEF LinksInv
(* The three saves, and the call that serves a file.                       *)
LEMMA CallStep ==
  ASSUME Assumptions, LinksInv, NEW c \in Callers,
         Save(c) \/ Expire(c) \/ record_access(c) \/ Raise(c)
  PROVE  LinksInv'
<1> DEFINE kept == call[c].proxy
<1>1. call[c].at = "record" /\ Served(c) => Ends(c) /\ UNCHANGED served
  BY DEF Served, LinksInv, LateKept
<1>2. call[c].at \in {"save", "expire", "record"} =>
        /\ kept \in Proxy /\ call[c].op \in {"create", "get", "resolve", "peek", "revoke"}
        /\ call[c].op # "create" /\ call[c].at # "record" => ~kept.active
        /\ call[c].op = "create" => call[c].at = "save"
        /\ call[c].op = "revoke" => call[c].at = "save"
  BY DEF LinksInv, CopiesMatch, Copies, CallsMatch, TypeOK
<1>3. CASE Save(c)
  <2>1. /\ call[c].at = "save" /\ Saves(c, kept) /\ Ends(c) /\ UNCHANGED <<now, calls, served>>
        /\ ended' = IF call[c].op = "revoke" /\ (call[c].alone \/ kept.one_time)
                    THEN ended \cup {call[c].code} ELSE ended
    BY <1>3 DEF Save
  <2>2. \/ ended' = ended
        \/ ended' = ended \cup {call[c].code} /\ ~kept.active /\ (call[c].alone \/ kept.one_time)
    BY <1>2, <2>1
  <2> QED
    BY <1>2, <2>1, <2>2, SaveStep
<1>4. CASE Expire(c)
  <2>1. /\ call[c].at = "expire" /\ Saves(c, kept) /\ Resolves(c, kept)
        /\ UNCHANGED <<now, calls, ended>>
    BY <1>4 DEF Expire
  <2>2. Ends(c) /\ UNCHANGED served
    BY <1>2, <2>1 DEF Resolves, is_valid
  <2> QED
    BY <1>2, <2>1, <2>2, SaveStep
<1>5. CASE record_access(c)
  <2>1. /\ call[c].at = "record" /\ Saves(c, Recorded(kept)) /\ Served(c) /\ UNCHANGED <<now, calls>>
        /\ ended' = IF kept.one_time THEN ended \cup {call[c].code} ELSE ended
    BY <1>5 DEF record_access
  <2>2. /\ Recorded(kept) \in Proxy
        /\ Recorded(kept).one_time = kept.one_time /\ Recorded(kept).expires = kept.expires
        /\ kept.one_time => ~Recorded(kept).active
    BY <1>2, <2>1 DEF Recorded, Proxy
  <2>3. Ends(c) /\ UNCHANGED served
    BY <1>1, <2>1
  <2> QED
    BY <2>1, <2>2, <2>3, SaveStep
<1>6. CASE Raise(c)
  BY <1>1, <1>6, EndStep DEF Raise
<1> QED
  BY <1>3, <1>4, <1>5, <1>6

(* The invariant of the calls on the links, and what it says to a user of  *)
(* a link that has ended (storage/managers/proxy.py:280).                  *)
THEOREM LinksAreKept == ASSUME Assumptions PROVE Spec => []LinksInv
<1>1. Init => LinksInv
  BY LinksInit
<1>2. LinksInv /\ [Next]_vars => LinksInv'
  <2> SUFFICES ASSUME LinksInv, [Next]_vars PROVE LinksInv'
    OBVIOUS
  <2>1. CASE UNCHANGED vars
    BY <2>1 DEF vars, LinksInv, TypeOK, CallsMatch, CreatesApart, CopiesMatch, Copies, EndedOff,
                LateKept, AloneKept, LinksEnd
  <2>2. CASE Next
    BY <2>2, TickStep, BeginStep, FindStep, CallStep DEF Next
  <2> QED
    BY <2>1, <2>2
<1> QED
  BY <1>1, <1>2, PTL DEF Spec

\* No call that begins after the end of a link gets the file, whatever other
\* calls had read before and save later (storage/managers/proxy.py:280).
THEOREM LinksStayEnded == ASSUME Assumptions PROVE Spec => []LinksEnd
BY LinksAreKept, PTL DEF LinksInv
-----------------------------------------------------------------------------
(* OAuth.  Calls are well formed, and a refresh token has a family exactly *)
(* from when it was saved; a family is named by a token that was saved.    *)
GrantCall == [op : Grants!Ops, at : Grants!Places, on : Codes \cup Refresh \cup Access \cup {None},
              refs : SUBSET Refresh, late : BOOLEAN, yes : BOOLEAN]
RefreshPlaces == {"find", "any", "family", "kill", "mint", "retire"}
GrantTypes ==
    /\ codes \in [Codes -> {"none", "open", "consumed"}]
    /\ token \in [Refresh -> {"none", "active", "inactive"}]
    /\ family \in [Refresh -> Refresh \cup {None}]
    /\ request \in [Callers -> GrantCall]
    /\ issued \in [Codes -> Nat]
    /\ \A c \in Callers :
        /\ request[c].op = "exchange" => request[c].on \in Codes /\ request[c].at \in {"find", "mint", "consume", "flip"}
        /\ request[c].op = "refresh" => /\ request[c].on \in Refresh /\ token[request[c].on] # "none"
                                        /\ request[c].at \in RefreshPlaces
                                        /\ \A r \in request[c].refs : token[r] # "none"
        /\ request[c].op = "revoke" => /\ request[c].on \in Refresh /\ token[request[c].on] # "none"
                                       /\ request[c].at \in {"find", "retire"}
        /\ request[c].op \in {"deny", "verify"} => request[c].at \in {"find", "row", "done"}
        /\ request[c].op = "none" => request[c].at = "done"
FamiliesNamed ==
    /\ \A r \in Refresh : token[r] # "none" => family[r] \in Refresh /\ token[family[r]] # "none"
    /\ \A r \in Refresh : token[r] = "none" => family[r] = None
    /\ \A f \in dead : f \in Refresh /\ token[f] # "none"

(* A code that was exchanged is consumed, and was exchanged once.          *)
IssuedOnce == Native => /\ \A k \in Codes : issued[k] = IF codes[k] = "consumed" THEN 1 ELSE 0
                        /\ \A c \in Callers : request[c].at # "flip"

(* While no two requests for a family overlap, all its active tokens but   *)
(* the one under rotation are one, and those of a family being revoked are *)
(* among the records read; nobody rotates in a family that was revoked.    *)
FamilyInv(f) ==
    /\ \A c, d \in Grants!Busy(f) : c = d
    /\ \A c \in Grants!Busy(f) :
        /\ request[c].at = "mint" => Grants!ActiveOf(f) \subseteq {request[c].on}
        /\ request[c].at = "retire" => \A r, s \in Grants!ActiveOf(f) \ {request[c].on} : r = s
        /\ request[c].at = "kill" => Grants!ActiveOf(f) \subseteq request[c].refs
    /\ (\A c \in Grants!Busy(f) : request[c].at # "retire") => \A r, s \in Grants!ActiveOf(f) : r = s
    /\ f \in dead => Grants!ActiveOf(f) = {} /\ \A c \in Grants!Busy(f) : request[c].at # "mint"
FamiliesApart == \A f \in Refresh \ mixed : FamilyInv(f)

(* What was reported revoked has its row.                                  *)
DeniedKept ==
    /\ told \subseteq denied
    /\ \A c \in Callers : request[c].late => request[c].on \in told
    /\ Grants!DeniedRefused

GrantInv == GrantTypes /\ FamiliesNamed /\ IssuedOnce /\ FamiliesApart /\ DeniedKept

-----------------------------------------------------------------------------
(* At first there are no grants, tokens or requests.                       *)
LEMMA GrantsInit == ASSUME Grants!Assumptions PROVE Grants!Init => GrantInv
<1> SUFFICES ASSUME Grants!Init PROVE GrantInv
  OBVIOUS
<1>1. /\ Grants!Resting \in GrantCall /\ Grants!Resting.op = "none" /\ Grants!Resting.at = "done"
      /\ ~Grants!Resting.late /\ ~Grants!Resting.yes
  BY DEF Grants!Resting, GrantCall, Grants!Ops, Grants!Places
<1>2. \A c \in Callers : request[c] = Grants!Resting
  BY DEF Grants!Init
<1>3. GrantTypes
  BY <1>1, <1>2 DEF Grants!Init, GrantTypes
<1>4. \A f \in Refresh : Grants!Busy(f) = {} /\ Grants!ActiveOf(f) = {} /\ f \notin dead
  BY <1>1, <1>2 DEF Grants!Init, Grants!Busy, Grants!ActiveOf
<1>5. FamiliesApart
  BY <1>4 DEF FamiliesApart, FamilyInv
<1>6. FamiliesNamed /\ IssuedOnce /\ DeniedKept
  BY <1>1, <1>2 DEF Grants!Init, FamiliesNamed, IssuedOnce, DeniedKept, Grants!DeniedRefused
<1> QED
  BY <1>3, <1>5, <1>6 DEF GrantInv

(* A step of a request that is no rotation leaves the families as they are. *)
LEMMA FamiliesLeft ==
    ASSUME GrantTypes, FamiliesApart, UNCHANGED <<token, family, mixed, dead>>,
           \A d \in Callers : request'[d] = request[d] \/ (request[d].op # "refresh" /\ request'[d].op # "refresh")
    PROVE  FamiliesApart'
<1> SUFFICES ASSUME NEW f \in Refresh \ mixed PROVE FamilyInv(f)'
  BY DEF FamiliesApart
<1>1. FamilyInv(f)
  BY DEF FamiliesApart
<1>2. Grants!Busy(f)' = Grants!Busy(f) /\ Grants!ActiveOf(f)' = Grants!ActiveOf(f)
  <2>1. \A d \in Callers : request'[d] = request[d] => Grants!FamilyOf(d)' = Grants!FamilyOf(d)
    BY DEF Grants!FamilyOf
  <2> QED
    BY <2>1 DEF Grants!Busy, Grants!ActiveOf
<1>3. \A d \in Grants!Busy(f) : request'[d] = request[d]
  BY DEF Grants!Busy
<1> QED
  BY <1>1, <1>2, <1>3 DEF FamilyInv

(* The place of one request changes, in well-formed calls.                 *)
LEMMA GrantsCall ==
    ASSUME GrantTypes, NEW c \in Callers, NEW n \in GrantCall, request' = [request EXCEPT ![c] = n]
    PROVE  /\ request' \in [Callers -> GrantCall] /\ request'[c] = n
           /\ \A d \in Callers \ {c} : request'[d] = request[d]
BY DEF GrantTypes

LEMMA GrantsMove ==
    ASSUME GrantTypes, NEW c \in Callers, NEW there \in Grants!Places
    PROVE  /\ [request EXCEPT ![c].at = there] = [request EXCEPT ![c] = [request[c] EXCEPT !.at = there]]
           /\ [request[c] EXCEPT !.at = there] \in GrantCall
           /\ [request[c] EXCEPT !.at = there].at = there
           /\ [request[c] EXCEPT !.at = there].op = request[c].op
           /\ [request[c] EXCEPT !.at = there].on = request[c].on
           /\ [request[c] EXCEPT !.at = there].refs = request[c].refs
           /\ [request[c] EXCEPT !.at = there].late = request[c].late
           /\ [request[c] EXCEPT !.at = there].yes = request[c].yes
<1>1. request[c] \in GrantCall
  BY DEF GrantTypes
<1> QED
  BY <1>1 DEF GrantTypes, GrantCall

LEMMA GrantsRest ==
    /\ Grants!Resting \in GrantCall /\ Grants!Resting.op = "none" /\ Grants!Resting.at = "done"
    /\ ~Grants!Resting.late /\ ~Grants!Resting.yes
    /\ Grants!Resting.on = None
BY DEF Grants!Resting, GrantCall, Grants!Ops, Grants!Places

(* Requests begin.                                                         *)
NewRequest(o, x, b) == [Grants!Resting EXCEPT !.op = o, !.at = "find", !.on = x, !.late = b]
NewGrant(o, x) == NewRequest(o, x, x \in told)

LEMMA GrantsBegun ==
    ASSUME GrantTypes, NEW c \in Callers, NEW o \in Grants!Ops, NEW x \in Codes \cup Refresh \cup Access,
           Grants!Begin(c, o, x)
    PROVE  /\ request[c].op # "refresh" /\ request' = [request EXCEPT ![c] = NewGrant(o, x)]
           /\ NewGrant(o, x) \in GrantCall
           /\ NewGrant(o, x).op = o /\ NewGrant(o, x).at = "find" /\ NewGrant(o, x).on = x
           /\ NewGrant(o, x).yes = FALSE /\ (NewGrant(o, x).late => x \in told) /\ NewGrant(o, x).refs = {}
<1>1. Grants!Resting \in GrantCall /\ Grants!Resting.yes = FALSE /\ Grants!Resting.refs = {}
  BY DEF Grants!Resting, GrantCall, Grants!Ops, Grants!Places
<1>2. \A b \in BOOLEAN :
         /\ NewRequest(o, x, b) \in GrantCall
         /\ NewRequest(o, x, b).op = o /\ NewRequest(o, x, b).at = "find" /\ NewRequest(o, x, b).on = x
         /\ NewRequest(o, x, b).yes = FALSE /\ (NewRequest(o, x, b).late = b)
         /\ NewRequest(o, x, b).refs = {}
  BY <1>1 DEF NewRequest, GrantCall, Grants!Places
<1>3. /\ NewGrant(o, x) \in GrantCall
      /\ NewGrant(o, x).op = o /\ NewGrant(o, x).at = "find" /\ NewGrant(o, x).on = x
      /\ NewGrant(o, x).yes = FALSE /\ (NewGrant(o, x).late => x \in told) /\ NewGrant(o, x).refs = {}
  <2>1. PICK b \in BOOLEAN : b = (x \in told)
    <3> (x \in told) \in BOOLEAN
      OBVIOUS
    <3> WITNESS (x \in told) \in BOOLEAN
    <3> QED
      OBVIOUS
  <2>2. NewGrant(o, x) = NewRequest(o, x, b)
    BY Zenon, <2>1 DEF NewGrant
  <2>3. b => x \in told
    BY <2>1
  <2>4. QED
    BY <1>2, <2>2, <2>3
<1>4. request[c].op # "refresh"
  BY DEF Grants!Begin, Grants!Over, GrantTypes, RefreshPlaces
<1>5. request' = [request EXCEPT ![c] = NewGrant(o, x)]
  BY Zenon DEF Grants!Begin, NewGrant, NewRequest
<1> QED
  BY <1>3, <1>4, <1>5

(* A request that is no rotation begins, or goes on without a token.       *)
LEMMA GrantsBegin ==
    ASSUME GrantInv, NEW c \in Callers, NEW o \in Grants!Ops \ {"none", "refresh"},
           NEW x \in Codes \cup Refresh \cup Access,
           o = "exchange" => x \in Codes, o = "revoke" => x \in Refresh /\ token[x] # "none",
           Grants!Begin(c, o, x), UNCHANGED <<Grants!records, Grants!history>>
    PROVE  GrantInv'
<1>0. UNCHANGED <<codes, token, family, denied, old, issued, told, mixed, dead>>
  BY DEF Grants!records, Grants!history
<1>1. /\ request[c].op # "refresh" /\ request' = [request EXCEPT ![c] = NewGrant(o, x)]
      /\ NewGrant(o, x) \in GrantCall
      /\ NewGrant(o, x).op = o /\ NewGrant(o, x).at = "find" /\ NewGrant(o, x).on = x
      /\ NewGrant(o, x).yes = FALSE /\ (NewGrant(o, x).late => x \in told) /\ NewGrant(o, x).refs = {}
  BY GrantsBegun DEF GrantInv
<1>2. /\ request' \in [Callers -> GrantCall] /\ request'[c] = NewGrant(o, x)
      /\ \A d \in Callers \ {c} : request'[d] = request[d]
  BY <1>1, GrantsCall DEF GrantInv
<1>3. GrantTypes'
  BY <1>0, <1>1, <1>2 DEF GrantInv, GrantTypes
<1>4. FamiliesNamed'
  BY <1>0 DEF GrantInv, FamiliesNamed
<1>5. IssuedOnce'
  BY <1>0, <1>1, <1>2 DEF GrantInv, IssuedOnce
<1>6. FamiliesApart'
  BY <1>0, <1>1, <1>2, FamiliesLeft DEF GrantInv
<1>7. DeniedKept'
  BY <1>0, <1>1, <1>2 DEF GrantInv, DeniedKept, Grants!DeniedRefused
<1> QED
  BY <1>3, <1>4, <1>5, <1>6, <1>7 DEF GrantInv

(* The code is saved, and things expire: no request moves.                 *)
LEMMA GrantsWait ==
    ASSUME GrantInv,
           (\E k \in Codes : Grants!save_authorization_code(k))
             \/ \E x \in Codes \cup Refresh \cup Access : Grants!Expire(x)
    PROVE  GrantInv'
<1>1. /\ UNCHANGED <<token, family, denied, request, issued, told, mixed, dead>> /\ old \subseteq old'
      /\ codes' \in [Codes -> {"none", "open", "consumed"}]
      /\ \A k \in Codes : codes'[k] = "consumed" <=> codes[k] = "consumed"
  BY DEF Grants!save_authorization_code, Grants!Expire, Grants!history, GrantInv, GrantTypes
<1>2. GrantTypes' /\ FamiliesNamed'
  BY <1>1 DEF GrantInv, GrantTypes, FamiliesNamed
<1>3. IssuedOnce'
  BY <1>1 DEF GrantInv, IssuedOnce
<1>4. FamiliesApart'
  BY <1>1, FamiliesLeft DEF GrantInv
<1>5. DeniedKept'
  BY <1>1 DEF GrantInv, DeniedKept, Grants!DeniedRefused
<1> QED
  BY <1>2, <1>3, <1>4, <1>5 DEF GrantInv

(* A request about a code, or an access token, goes on or ends.            *)
LEMMA GrantsAnswer ==
    ASSUME GrantInv, NEW c \in Callers,
           Grants!query_authorization_code(c) \/ Grants!consume_code(c) \/ Grants!FlipLater(c) \/ Grants!FindRevocable(c)
             \/ Grants!VerifyDenied(c) \/ Grants!revoke_jti(c) \/ Grants!verify_oauth_access_token(c)
    PROVE  GrantInv'
<1>0. GrantTypes
  BY DEF GrantInv
<1>1. /\ UNCHANGED <<token, family, old, mixed, dead>> /\ told \subseteq told'
      /\ denied \subseteq denied' /\ told' \subseteq told \cup denied'
  BY DEF Grants!query_authorization_code, Grants!consume_code, Grants!FlipLater,
      Grants!FindRevocable, Grants!VerifyDenied, Grants!revoke_jti,
         Grants!verify_oauth_access_token, Grants!records, Grants!history, Grants!Consumed, Grants!is_jti_revoked
<1>2. request[c].op # "refresh"
  BY DEF Grants!query_authorization_code, Grants!consume_code, Grants!FlipLater,
      Grants!FindRevocable, Grants!VerifyDenied, Grants!revoke_jti,
         Grants!verify_oauth_access_token, Grants!At
<1> DEFINE Ended == request' = [request EXCEPT ![c] = Grants!Resting]
           Went(there) == request' = [request EXCEPT ![c].at = there]
<1>3. \/ Ended
      \/ request[c].op = "exchange" /\ Went("mint")
      \/ request[c].op = "exchange" /\ Went("flip") /\ ~Native
      \/ request[c].op = "revoke" /\ Went("retire")
      \/ request[c].op = "deny" /\ Went("row")
      \/ /\ request[c].op = "verify" /\ request' = [request EXCEPT ![c].at = "done", ![c].yes = TRUE]
         /\ request[c].on \in denied => request[c].on \in old
  BY DEF Grants!query_authorization_code, Grants!consume_code, Grants!FlipLater,
      Grants!FindRevocable, Grants!VerifyDenied, Grants!revoke_jti,
         Grants!verify_oauth_access_token, Grants!At, Grants!Ends, Grants!GoesOn, Grants!Consumed, Grants!is_jti_revoked
<1>4. PICK n \in GrantCall :
        /\ request' = [request EXCEPT ![c] = n]
        /\ \/ n = Grants!Resting
           \/ /\ n.op = request[c].op /\ n.on = request[c].on
              /\ n.late = request[c].late /\ n.yes = request[c].yes
              /\ \/ n.op = "exchange" /\ n.at = "mint"
                 \/ n.op = "exchange" /\ n.at = "flip" /\ ~Native
                 \/ n.op = "revoke" /\ n.at = "retire"
                 \/ n.op = "deny" /\ n.at = "row"
           \/ /\ n.op = "verify" /\ request[c].op = "verify" /\ n.at = "done" /\ n.on = request[c].on
              /\ n.late = request[c].late /\ (request[c].on \in denied => request[c].on \in old)
  <2>1. CASE Ended
    BY <2>1, GrantsRest
  <2>2. ASSUME NEW there \in {"mint", "flip", "retire", "row"}, Went(there)
        PROVE  \E n \in GrantCall :
                 /\ request' = [request EXCEPT ![c] = n] /\ n.at = there
                 /\ n.op = request[c].op /\ n.on = request[c].on
                 /\ n.late = request[c].late /\ n.yes = request[c].yes
    <3>1. there \in Grants!Places
      BY DEF Grants!Places
    <3>2. QED
      BY <1>0, <2>2, <3>1, GrantsMove
  <2>3. ASSUME request' = [request EXCEPT ![c].at = "done", ![c].yes = TRUE]
        PROVE  \E n \in GrantCall :
                 /\ request' = [request EXCEPT ![c] = n] /\ n.at = "done"
                 /\ n.op = request[c].op /\ n.on = request[c].on /\ n.late = request[c].late
    <3>1. request[c] \in GrantCall /\ request \in [Callers -> GrantCall]
      BY <1>0 DEF GrantTypes
    <3>2. [request[c] EXCEPT !.at = "done", !.yes = TRUE] \in GrantCall
      BY <3>1 DEF GrantCall, Grants!Places
    <3>3. request' = [request EXCEPT ![c] = [request[c] EXCEPT !.at = "done", !.yes = TRUE]]
      BY <2>3, <3>1
    <3>4. /\ [request[c] EXCEPT !.at = "done", !.yes = TRUE].at = "done"
          /\ [request[c] EXCEPT !.at = "done", !.yes = TRUE].op = request[c].op
          /\ [request[c] EXCEPT !.at = "done", !.yes = TRUE].on = request[c].on
          /\ [request[c] EXCEPT !.at = "done", !.yes = TRUE].late = request[c].late
      BY <3>1 DEF GrantCall
    <3>5. QED
      BY <3>2, <3>3, <3>4
  <2> HIDE DEF Ended, Went
  <2>4. QED
    BY <1>3, <2>1, <2>2, <2>3
<1>5. /\ request' \in [Callers -> GrantCall] /\ request'[c] = n
      /\ \A d \in Callers \ {c} : request'[d] = request[d]
  BY <1>0, <1>4, GrantsCall
<1>6. n.op # "refresh"
  BY <1>2, <1>4, GrantsRest
<1>7. codes' \in [Codes -> {"none", "open", "consumed"}] /\ issued' \in [Codes -> Nat]
  BY <1>0 DEF GrantTypes, Grants!query_authorization_code, Grants!consume_code, Grants!FlipLater,
      Grants!FindRevocable, Grants!VerifyDenied,
         Grants!revoke_jti, Grants!verify_oauth_access_token, Grants!records, Grants!history, Grants!Consumed
<1>8. GrantTypes'
  BY <1>0, <1>1, <1>4, <1>5, <1>6, <1>7, GrantsRest DEF GrantTypes
<1>9. FamiliesNamed'
  BY <1>1 DEF GrantInv, FamiliesNamed
<1>10. IssuedOnce'
  <2>1. \/ UNCHANGED <<codes, issued>>
        \/ /\ request[c].on \in Codes /\ (Grants!CanConsume(request[c].on) \/ request[c].at = "flip")
           /\ codes' = [codes EXCEPT ![request[c].on] = "consumed"]
           /\ issued' = [issued EXCEPT ![request[c].on] = @ + 1]
    BY <1>0 DEF GrantTypes, Grants!query_authorization_code, Grants!consume_code,
        Grants!FlipLater, Grants!FindRevocable, Grants!VerifyDenied,
         Grants!revoke_jti, Grants!verify_oauth_access_token, Grants!records, Grants!history, Grants!Consumed, Grants!At
  <2>2. Native => \A d \in Callers : request'[d].at # "flip"
    BY <1>4, <1>5, GrantsRest DEF GrantInv, IssuedOnce
  <2>3. Native => \A k \in Codes : issued'[k] = IF codes'[k] = "consumed" THEN 1 ELSE 0
    BY <1>0, <2>1 DEF GrantInv, IssuedOnce, Grants!CanConsume, GrantTypes
  <2>4. QED
    BY <2>2, <2>3 DEF IssuedOnce
<1>11. FamiliesApart'
  BY <1>0, <1>1, <1>2, <1>5, <1>6, FamiliesLeft DEF GrantInv
<1>12. DeniedKept'
  BY <1>1, <1>4, <1>5, GrantsRest DEF GrantInv, DeniedKept, Grants!DeniedRefused
<1> QED
  BY <1>8, <1>9, <1>10, <1>11, <1>12 DEF GrantInv
-----------------------------------------------------------------------------
(* A family that a step leaves to its requests, and gives no new token.    *)
LEMMA OtherFamily ==
    ASSUME GrantTypes, NEW c \in Callers, NEW f \in Refresh, FamilyInv(f),
           \A d \in Callers \ {c} : request'[d] = request[d],
           ~(request[c].op = "refresh" /\ Grants!FamilyOf(c) = f),
           ~(request'[c].op = "refresh" /\ Grants!FamilyOf(c)' = f),
           \A r \in Refresh : token[r] # "none" => family'[r] = family[r],
           Grants!ActiveOf(f)' \subseteq Grants!ActiveOf(f), f \in dead' => f \in dead
    PROVE  FamilyInv(f)'
<1>1. \A d \in Callers \ {c} : request[d].op = "refresh" => Grants!FamilyOf(d)' = Grants!FamilyOf(d)
  BY DEF GrantTypes, Grants!FamilyOf
<1>2. Grants!Busy(f)' = Grants!Busy(f) /\ c \notin Grants!Busy(f)
  BY <1>1 DEF Grants!Busy
<1>3. \A d \in Grants!Busy(f) : request'[d] = request[d]
  BY <1>2 DEF Grants!Busy
<1> HIDE DEF Grants!Busy
<1> QED
  BY <1>2, <1>3 DEF FamilyInv

(* The family of a request that is alone in it.                            *)
LEMMA OwnFamily ==
    ASSUME GrantTypes, NEW c \in Callers, NEW f \in Refresh, FamilyInv(f),
           request[c].op = "refresh", Grants!FamilyOf(c) = f,
           \A d \in Callers \ {c} : request'[d] = request[d],
           \A r \in Refresh : token[r] # "none" => family'[r] = family[r]
    PROVE  /\ Grants!Busy(f) = {c}
           /\ \A d \in Grants!Busy(f)' : d = c
           /\ request'[c].op = "refresh" /\ request'[c].on = request[c].on => Grants!Busy(f)' = {c}
           /\ request'[c].op # "refresh" => Grants!Busy(f)' = {}
<1>1. \A d \in Callers \ {c} : request[d].op = "refresh" => Grants!FamilyOf(d)' = Grants!FamilyOf(d)
  BY DEF GrantTypes, Grants!FamilyOf
<1>2. Grants!Busy(f) = {c}
  BY DEF Grants!Busy, FamilyInv
<1>3. \A d \in Grants!Busy(f)' : d = c
  BY <1>1, <1>2 DEF Grants!Busy
<1>4. request'[c].op = "refresh" /\ request'[c].on = request[c].on => c \in Grants!Busy(f)'
  BY DEF Grants!Busy, Grants!FamilyOf, GrantTypes
<1>5. request'[c].op # "refresh" => c \notin Grants!Busy(f)'
  BY DEF Grants!Busy
<1> QED
  BY <1>2, <1>3, <1>4, <1>5

(* A rotation begins: either it is alone in its family, or the family is   *)
(* mixed from now on.                                                      *)
LEMMA GrantsRotate ==
    ASSUME Grants!Assumptions, GrantInv, NEW c \in Callers, NEW r \in Refresh, Grants!Rotate(c, r)
    PROVE  GrantInv'
<1>0. /\ UNCHANGED <<codes, token, family, denied, old, issued, told, dead>> /\ token[r] # "none"
      /\ Grants!Begin(c, "refresh", r)
      /\ mixed' = IF Grants!Busy(family[r]) = {} THEN mixed ELSE mixed \cup {family[r]}
  BY DEF Grants!Rotate, Grants!records
<1>1. /\ request[c].op # "refresh" /\ request' = [request EXCEPT ![c] = NewGrant("refresh", r)]
      /\ NewGrant("refresh", r) \in GrantCall
      /\ NewGrant("refresh", r).op = "refresh" /\ NewGrant("refresh", r).at = "find"
         /\ NewGrant("refresh", r).on = r
      /\ NewGrant("refresh", r).yes = FALSE /\ (NewGrant("refresh", r).late => r \in told)
         /\ NewGrant("refresh", r).refs = {}
  BY <1>0, GrantsBegun DEF GrantInv, Grants!Ops
<1>2. /\ request' \in [Callers -> GrantCall] /\ request'[c] = NewGrant("refresh", r)
      /\ \A d \in Callers \ {c} : request'[d] = request[d]
  BY <1>1, GrantsCall DEF GrantInv
<1>3. GrantTypes'
  BY <1>0, <1>1, <1>2 DEF GrantInv, GrantTypes, RefreshPlaces
<1>4. FamiliesNamed' /\ IssuedOnce'
  BY <1>0, <1>1, <1>2 DEF GrantInv, FamiliesNamed, IssuedOnce
<1>5. DeniedKept'
  BY <1>0, <1>1, <1>2 DEF GrantInv, DeniedKept, Grants!DeniedRefused
<1>6. ASSUME NEW f \in Refresh \ mixed' PROVE FamilyInv(f)'
  <2>1. f \notin mixed /\ FamilyInv(f)
    BY <1>0 DEF GrantInv, FamiliesApart
  <2>2. Grants!ActiveOf(f)' = Grants!ActiveOf(f) /\ Grants!FamilyOf(c)' = family[r]
    BY <1>0, <1>1, <1>2 DEF Grants!ActiveOf, Grants!FamilyOf
  <2>3. CASE family[r] # f
    BY <1>0, <1>1, <1>2, <2>1, <2>2, <2>3, OtherFamily DEF GrantInv
  <2>4. CASE family[r] = f
    <3>1. Grants!Busy(f) = {}
      BY <1>0, <2>4
    <3>2. \A d \in Callers \ {c} : request[d].op = "refresh" => Grants!FamilyOf(d)' = Grants!FamilyOf(d)
      BY <1>0, <1>2 DEF GrantInv, GrantTypes, Grants!FamilyOf
    <3>3. Grants!Busy(f)' = {c}
      BY <1>1, <1>2, <2>2, <2>4, <3>1, <3>2 DEF Grants!Busy
    <3>4. /\ (\A x, y \in Grants!ActiveOf(f) : x = y) /\ (f \in dead => Grants!ActiveOf(f) = {})
      BY <2>1, <3>1 DEF FamilyInv
    <3>5. QED
      BY <1>0, <1>1, <1>2, <2>2, <3>3, <3>4 DEF FamilyInv
  <2>5. QED
    BY <2>3, <2>4
<1> QED
  BY <1>3, <1>4, <1>5, <1>6 DEF GrantInv, FamiliesApart

(* The new token of a code opens a family; that of a rotation joins one.   *)
LEMMA GrantsSave ==
    ASSUME Grants!Assumptions, GrantInv, NEW c \in Callers, Grants!save_token(c)
    PROVE  GrantInv'
<1>0. GrantTypes /\ FamiliesNamed /\ FamiliesApart
  BY DEF GrantInv
<1>1. PICK r \in Refresh :
        /\ token[r] = "none" /\ token' = [token EXCEPT ![r] = "active"]
        /\ family' = [family EXCEPT ![r] = Grants!FamilyFor(c, r)]
  BY DEF Grants!save_token
<1>2. /\ request[c].at = "mint" /\ UNCHANGED <<codes, denied, old, issued, told, mixed, dead>>
      /\ request' = [request EXCEPT ![c].at = IF request[c].op = "refresh" THEN "retire" ELSE "consume"]
  BY DEF Grants!save_token, Grants!history, Grants!GoesOn
<1>3. \/ request[c].op = "exchange"
      \/ request[c].op = "refresh" /\ request[c].on \in Refresh /\ token[request[c].on] # "none"
  BY <1>0, <1>2 DEF GrantTypes, GrantCall, Grants!Ops
<1>4. PICK n \in GrantCall :
        /\ request' = [request EXCEPT ![c] = n]
        /\ n.at = IF request[c].op = "refresh" THEN "retire" ELSE "consume"
        /\ n.op = request[c].op /\ n.on = request[c].on
        /\ n.late = request[c].late /\ n.yes = request[c].yes
        /\ n.refs = request[c].refs
  <2> DEFINE there == IF request[c].op = "refresh" THEN "retire" ELSE "consume"
  <2>1. there \in Grants!Places
    BY DEF Grants!Places
  <2>2. request' = [request EXCEPT ![c].at = there]
    BY <1>2
  <2> HIDE DEF there
  <2>3. /\ request' = [request EXCEPT ![c] = [request[c] EXCEPT !.at = there]]
        /\ [request[c] EXCEPT !.at = there] \in GrantCall
        /\ [request[c] EXCEPT !.at = there].at = there
        /\ [request[c] EXCEPT !.at = there].op = request[c].op
        /\ [request[c] EXCEPT !.at = there].on = request[c].on
        /\ [request[c] EXCEPT !.at = there].refs = request[c].refs
        /\ [request[c] EXCEPT !.at = there].late = request[c].late
        /\ [request[c] EXCEPT !.at = there].yes = request[c].yes
    BY <1>0, <2>1, <2>2, GrantsMove
  <2>4. QED
    BY <2>3 DEF there
<1>5. /\ request' \in [Callers -> GrantCall] /\ request'[c] = n
      /\ \A d \in Callers \ {c} : request'[d] = request[d]
  BY <1>0, <1>4, GrantsCall
<1>6. /\ Grants!FamilyFor(c, r) \in Refresh
      /\ request[c].op = "exchange" => Grants!FamilyFor(c, r) = r
      /\ request[c].op = "refresh" => Grants!FamilyFor(c, r) = Grants!FamilyOf(c) /\ token[Grants!FamilyOf(c)] # "none"
  BY <1>0, <1>3 DEF Grants!FamilyFor, Grants!FamilyOf, FamiliesNamed
<1>7. /\ \A x \in Refresh \ {r} : token'[x] = token[x] /\ family'[x] = family[x]
      /\ token'[r] = "active" /\ family'[r] = Grants!FamilyFor(c, r)
  BY <1>0, <1>1 DEF GrantTypes
<1>8. GrantTypes'
  <2>1. token' \in [Refresh -> {"none", "active", "inactive"}] /\ family' \in [Refresh -> Refresh \cup {None}]
    BY <1>0, <1>1, <1>6 DEF GrantTypes
  <2>2. \A x \in Refresh : token[x] # "none" => token'[x] # "none"
    BY <1>7
  <2>9. \A d \in Callers : request'[d].op = "refresh" => \A x \in request'[d].refs : token'[x] # "none"
    <3>1. request[c].op = "refresh" => \A x \in n.refs : token'[x] # "none"
      BY <1>0, <1>3, <1>4, <2>2 DEF GrantTypes, GrantCall
    <3>2. \A d \in Callers : request[d].refs \subseteq Refresh
      BY <1>0 DEF GrantTypes, GrantCall
    <3>3. QED
      BY <1>0, <1>4, <1>5, <2>2, <3>1, <3>2 DEF GrantTypes
  <2>3. \A d \in Callers :
          /\ request'[d].op = "exchange" => request'[d].on \in Codes /\ request'[d].at \in {"find", "mint", "consume", "flip"}
          /\ request'[d].op = "refresh" => /\ request'[d].on \in Refresh /\ token'[request'[d].on] # "none"
                                           /\ request'[d].at \in RefreshPlaces
                                           /\ \A x \in request'[d].refs : token'[x] # "none"
          /\ request'[d].op = "revoke" => /\ request'[d].on \in Refresh /\ token'[request'[d].on] # "none"
                                          /\ request'[d].at \in {"find", "retire"}
          /\ request'[d].op \in {"deny", "verify"} => request'[d].at \in {"find", "row", "done"}
          /\ request'[d].op = "none" => request'[d].at = "done"
    BY <1>0, <1>3, <1>4, <1>5, <2>2, <2>9 DEF GrantTypes, RefreshPlaces
  <2>4. QED
    BY <1>0, <1>2, <1>5, <2>1, <2>3 DEF GrantTypes
<1>9. FamiliesNamed'
  <2>1. \A x \in Refresh : token[x] # "none" => token'[x] # "none"
    BY <1>7
  <2>2. token'[Grants!FamilyFor(c, r)] # "none"
    BY <1>3, <1>6, <1>7, <2>1
  <2>3. \A x \in Refresh \ {r} :
          /\ token'[x] # "none" => family'[x] \in Refresh /\ token'[family'[x]] # "none"
          /\ token'[x] = "none" => family'[x] = None
    BY <1>0, <1>7, <2>1 DEF FamiliesNamed
  <2>4. \A f \in dead : f \in Refresh /\ token'[f] # "none"
    BY <1>0, <2>1 DEF FamiliesNamed
  <2>5. QED
    BY <1>2, <1>6, <1>7, <2>2, <2>3, <2>4 DEF FamiliesNamed
<1>10. IssuedOnce' /\ DeniedKept'
  BY <1>2, <1>4, <1>5 DEF GrantInv, IssuedOnce, DeniedKept, Grants!DeniedRefused
<1>11. ASSUME NEW f \in Refresh \ mixed PROVE FamilyInv(f)'
  <2>1. FamilyInv(f) /\ \A x \in Refresh : token[x] # "none" => family'[x] = family[x]
    BY <1>0, <1>1, <1>7 DEF FamiliesApart
  <2>2. f # Grants!FamilyFor(c, r) => Grants!ActiveOf(f)' = Grants!ActiveOf(f)
    BY <1>1, <1>7 DEF Grants!ActiveOf
  <2>3. request[c].op = "refresh" => Grants!FamilyOf(c)' = Grants!FamilyOf(c)
    BY <1>0, <1>3, <1>4, <1>5, <1>7, <1>1 DEF Grants!FamilyOf
  <2>4. CASE f # Grants!FamilyFor(c, r)
    BY <1>0, <1>2, <1>3, <1>4, <1>5, <1>6, <2>1, <2>2, <2>3, <2>4, OtherFamily
  <2>5. CASE f = Grants!FamilyFor(c, r) /\ request[c].op = "exchange"
    <3>1. f = r /\ f \notin dead
      BY <1>0, <1>1, <1>6, <2>5 DEF FamiliesNamed
    <3>2. Grants!ActiveOf(f)' = {r}
      BY <1>0, <1>1, <1>6, <1>7, <3>1, <2>5 DEF Grants!ActiveOf, FamiliesNamed
    <3>3. Grants!Busy(f)' = {}
      <4> SUFFICES ASSUME NEW d \in Callers, request'[d].op = "refresh", Grants!FamilyOf(d)' = f PROVE FALSE
        BY DEF Grants!Busy
      <4>1. d # c /\ request'[d] = request[d]
        BY <1>4, <1>5, <2>5
      <4>2. request[d].on \in Refresh /\ token[request[d].on] # "none"
        BY <1>0, <4>1 DEF GrantTypes
      <4>3. family[request[d].on] = f
        BY <1>7, <1>1, <4>1, <4>2 DEF Grants!FamilyOf
      <4>4. QED
        BY <1>0, <1>1, <3>1, <4>2, <4>3 DEF FamiliesNamed
    <3>4. QED
      BY <1>2, <3>1, <3>2, <3>3 DEF FamilyInv
  <2>6. CASE f = Grants!FamilyFor(c, r) /\ request[c].op = "refresh"
    <3>1. Grants!FamilyOf(c) = f
      BY <1>6, <2>6
    <3>2. Grants!Busy(f) = {c} /\ Grants!Busy(f)' = {c}
      BY <1>0, <1>4, <1>5, <2>1, <2>6, <3>1, OwnFamily
    <3>3. Grants!ActiveOf(f) \subseteq {request[c].on} /\ f \notin dead
      BY <1>2, <2>1, <3>2 DEF FamilyInv
    <3>4. Grants!ActiveOf(f)' \subseteq {request[c].on, r}
      BY <1>7, <3>3 DEF Grants!ActiveOf
    <3>5. QED
      BY <1>2, <1>4, <1>5, <2>6, <3>2, <3>3, <3>4 DEF FamilyInv
  <2>7. QED
    BY <1>3, <2>4, <2>5, <2>6
<1> QED
  BY <1>2, <1>8, <1>9, <1>10, <1>11 DEF GrantInv, FamiliesApart

(* A rotation goes on, its old token is retired, or its family revoked;    *)
(* and a token is revoked.                                                 *)
LEMMA GrantsRevoke ==
    ASSUME Grants!Assumptions, GrantInv, NEW c \in Callers,
           Grants!FindActive(c) \/ Grants!FindAny(c) \/ Grants!Retire(c) \/ Grants!FindFamily(c) \/ Grants!RevokeNext(c)
    PROVE  GrantInv'
<1>0. GrantTypes /\ FamiliesNamed /\ FamiliesApart
  BY DEF GrantInv
<1> DEFINE Ended == request' = [request EXCEPT ![c] = Grants!Resting]
           Went(there) == request' = [request EXCEPT ![c].at = there]
           g == Grants!FamilyOf(c)
           Found == {r \in Refresh : family[r] = g /\ token[r] = "active"}
<1> DEFINE Ending == \/ /\ request[c].op = "refresh" /\ request[c].at \in {"find", "any"}
                        /\ UNCHANGED <<token, dead>>
                     \/ /\ request[c].op = "refresh" /\ request[c].at = "kill" /\ request[c].refs = {}
                        /\ UNCHANGED token /\ dead' = IF g \in mixed THEN dead ELSE dead \cup {g}
                     \/ /\ request[c].at = "retire" /\ UNCHANGED dead
                        /\ token' = [token EXCEPT ![request[c].on] = "inactive"]
           Going == request[c].op = "refresh" /\ request[c].at # "retire" /\ UNCHANGED dead
<1>1. /\ UNCHANGED <<codes, family, denied, old, issued, told, mixed>>
      /\ \/ Ended /\ Ending
         \/ Going /\ token[request[c].on] = "active" /\ Went("mint") /\ UNCHANGED token
         \/ Going /\ (Went("any") \/ Went("family")) /\ UNCHANGED token
         \/ /\ Going /\ UNCHANGED token
            /\ request' = [request EXCEPT ![c].at = "kill", ![c].refs = Found]
         \/ /\ Going /\ request[c].at = "kill"
            /\ \E r \in request[c].refs : /\ token' = [token EXCEPT ![r] = "inactive"]
                                          /\ request' = [request EXCEPT ![c].refs = @ \ {r}]
  BY DEF Grants!FindActive, Grants!FindAny, Grants!Retire, Grants!FindFamily, Grants!RevokeNext,
      Grants!At, Grants!GoesOn, Grants!Ends, Grants!records, Grants!history,
         Grants!revoke_old_credential, Grants!Revoked
<1>2. /\ request[c].op \in {"refresh", "revoke"} /\ request[c].on \in Refresh
      /\ token[request[c].on] # "none"
      /\ request[c].op = "refresh" => g \in Refresh /\ token[g] # "none"
  BY <1>0, <1>1 DEF GrantTypes, GrantCall, Grants!Ops, FamiliesNamed, Grants!FamilyOf
<1>3. request[c] \in GrantCall /\ request \in [Callers -> GrantCall]
  BY <1>0 DEF GrantTypes
<1>4. PICK n \in GrantCall :
        /\ request' = [request EXCEPT ![c] = n]
        /\ \/ n = Grants!Resting /\ Ending
           \/ /\ n.op = request[c].op /\ n.on = request[c].on
              /\ n.late = request[c].late /\ n.yes = request[c].yes
              /\ Going
              /\ \/ /\ n.at = "mint" /\ token[request[c].on] = "active"
                    /\ UNCHANGED token /\ n.refs = request[c].refs
                 \/ n.at \in {"any", "family"} /\ UNCHANGED token /\ n.refs = request[c].refs
                 \/ n.at = "kill" /\ n.refs = Found /\ UNCHANGED token
                 \/ /\ n.at = "kill" /\ request[c].at = "kill"
                    /\ \E r \in request[c].refs : /\ token' = [token EXCEPT ![r] = "inactive"]
                                                  /\ n.refs = request[c].refs \ {r}
  <2>1. CASE Ended /\ Ending
    BY <2>1, GrantsRest
  <2>2. ASSUME NEW there \in {"mint", "any", "family"}, Went(there)
        PROVE  \E n \in GrantCall :
                 /\ request' = [request EXCEPT ![c] = n] /\ n.at = there /\ n.refs = request[c].refs
                 /\ n.op = request[c].op /\ n.on = request[c].on
                 /\ n.late = request[c].late /\ n.yes = request[c].yes
    <3>1. there \in Grants!Places
      BY DEF Grants!Places
    <3>2. QED
      BY <1>0, <2>2, <3>1, GrantsMove
  <2>3. ASSUME NEW R \in SUBSET Refresh
        PROVE  /\ [request[c] EXCEPT !.at = "kill", !.refs = R] \in GrantCall
               /\ [request[c] EXCEPT !.at = "kill", !.refs = R].at = "kill"
               /\ [request[c] EXCEPT !.at = "kill", !.refs = R].refs = R
               /\ [request[c] EXCEPT !.at = "kill", !.refs = R].op = request[c].op
               /\ [request[c] EXCEPT !.at = "kill", !.refs = R].on = request[c].on
               /\ [request[c] EXCEPT !.at = "kill", !.refs = R].late = request[c].late
               /\ [request[c] EXCEPT !.at = "kill", !.refs = R].yes = request[c].yes
    BY <1>3 DEF GrantCall, Grants!Places
  <2>4. ASSUME request' = [request EXCEPT ![c].at = "kill", ![c].refs = Found]
        PROVE  \E n \in GrantCall :
                 /\ request' = [request EXCEPT ![c] = n] /\ n.at = "kill" /\ n.refs = Found
                 /\ n.op = request[c].op /\ n.on = request[c].on
                 /\ n.late = request[c].late /\ n.yes = request[c].yes
    <3>1. Found \in SUBSET Refresh
      OBVIOUS
    <3> HIDE DEF Found
    <3>2. request' = [request EXCEPT ![c] = [request[c] EXCEPT !.at = "kill", !.refs = Found]]
      BY <1>3, <2>4
    <3>3. QED
      BY <2>3, <3>1, <3>2
  <2>5. ASSUME NEW r \in request[c].refs, request[c].at = "kill",
               request' = [request EXCEPT ![c].refs = @ \ {r}]
        PROVE  \E n \in GrantCall :
                 /\ request' = [request EXCEPT ![c] = n] /\ n.at = "kill"
                 /\ n.refs = request[c].refs \ {r}
                 /\ n.op = request[c].op /\ n.on = request[c].on
                 /\ n.late = request[c].late /\ n.yes = request[c].yes
    <3> DEFINE n == [request[c] EXCEPT !.refs = request[c].refs \ {r}]
    <3>1. request[c].refs \ {r} \in SUBSET Refresh
      BY <1>3 DEF GrantCall
    <3>2. /\ n \in GrantCall /\ n.at = "kill" /\ n.refs = request[c].refs \ {r}
          /\ n.op = request[c].op /\ n.on = request[c].on
          /\ n.late = request[c].late /\ n.yes = request[c].yes
      BY <1>3, <2>5, <3>1 DEF GrantCall
    <3>3. request' = [request EXCEPT ![c] = n]
      BY <1>3, <2>5
    <3>4. QED
      BY <3>2, <3>3
  <2> HIDE DEF Ended, Went, Found, g, Ending, Going
  <2>6. QED
    BY <1>1, <2>1, <2>2, <2>4, <2>5
<1>5. /\ request' \in [Callers -> GrantCall] /\ request'[c] = n
      /\ \A d \in Callers \ {c} : request'[d] = request[d]
  BY <1>0, <1>4, GrantsCall
<1>6. /\ token' \in [Refresh -> {"none", "active", "inactive"}]
      /\ \A x \in Refresh : /\ token'[x] = token[x] \/ token'[x] = "inactive"
                            /\ token'[x] # "none" <=> token[x] # "none"
  <2>1. \/ UNCHANGED token
        \/ token' = [token EXCEPT ![request[c].on] = "inactive"]
        \/ request[c].op = "refresh" /\ \E r \in request[c].refs : token' = [token EXCEPT ![r] = "inactive"]
    BY <1>4
  <2>2. request[c].refs \subseteq Refresh
    BY <1>3 DEF GrantCall
  <2>3. request[c].op = "refresh" => \A r \in request[c].refs : token[r] # "none"
    BY <1>0 DEF GrantTypes
  <2>4. QED
    BY <1>0, <1>2, <2>1, <2>2, <2>3 DEF GrantTypes
<1>7. GrantTypes'
  <2>1. \A d \in Callers : request'[d].op = "refresh" => \A x \in request'[d].refs : token'[x] # "none"
    <3>1. n.op = "refresh" => \A x \in n.refs : token[x] # "none"
      BY <1>0, <1>4, GrantsRest DEF GrantTypes
    <3>2. n.refs \subseteq Refresh /\ \A d \in Callers : request[d].refs \subseteq Refresh
      BY <1>0 DEF GrantTypes, GrantCall
    <3>3. QED
      BY <1>0, <1>5, <1>6, <3>1, <3>2 DEF GrantTypes
  <2>2. \/ n = Grants!Resting
        \/ n.op = "refresh" /\ request[c].op = "refresh" /\ n.on = request[c].on /\ n.at \in RefreshPlaces
    BY <1>4 DEF RefreshPlaces
  <2>3. QED
    BY <1>0, <1>1, <1>2, <1>5, <1>6, <2>1, <2>2, GrantsRest DEF GrantTypes
<1>8. FamiliesNamed'
  BY <1>0, <1>1, <1>2, <1>4, <1>6 DEF FamiliesNamed
<1>9. IssuedOnce' /\ DeniedKept'
  BY <1>1, <1>4, <1>5, GrantsRest DEF GrantInv, IssuedOnce, DeniedKept, Grants!DeniedRefused
<1>10. ASSUME NEW f \in Refresh \ mixed PROVE FamilyInv(f)'
  <2>1. FamilyInv(f) /\ Grants!ActiveOf(f)' \subseteq Grants!ActiveOf(f)
    BY <1>0, <1>1, <1>6 DEF FamiliesApart, Grants!ActiveOf
  <2>2. request'[c].op = "refresh" => request[c].op = "refresh" /\ Grants!FamilyOf(c)' = g
    BY <1>1, <1>4, <1>5, GrantsRest DEF Grants!FamilyOf
  <2>3. \A d \in Callers \ {c} : request'[d] = request[d]
    BY <1>5
  <2>4. CASE ~(request[c].op = "refresh" /\ g = f)
    <3>1. f \in dead' => f \in dead
      BY <1>4, <2>4
    <3>2. QED
      BY <1>0, <1>1, <2>1, <2>2, <2>3, <2>4, <3>1, OtherFamily
  <2>5. CASE request[c].op = "refresh" /\ g = f
    <3>1. /\ Grants!Busy(f) = {c}
          /\ request'[c].op = "refresh" /\ request'[c].on = request[c].on => Grants!Busy(f)' = {c}
          /\ request'[c].op # "refresh" => Grants!Busy(f)' = {}
      BY <1>0, <1>1, <2>1, <2>3, <2>5, OwnFamily
    <3>2. /\ request[c].at = "retire" => \A r, s \in Grants!ActiveOf(f) \ {request[c].on} : r = s
          /\ request[c].at = "kill" => Grants!ActiveOf(f) \subseteq request[c].refs
          /\ request[c].at # "retire" => \A r, s \in Grants!ActiveOf(f) : r = s
          /\ f \in dead => Grants!ActiveOf(f) = {}
      BY <2>1, <3>1 DEF FamilyInv
    <3>3. CASE n = Grants!Resting /\ Ending
      <4>1. Grants!Busy(f)' = {}
        BY <1>5, <3>1, <3>3, GrantsRest
      <4>2. request[c].at = "retire" => request[c].on \notin Grants!ActiveOf(f)'
        BY <1>0, <1>2, <3>3 DEF Grants!ActiveOf, GrantTypes
      <4>3. \A r, s \in Grants!ActiveOf(f)' : r = s
        BY <2>1, <3>2, <4>2
      <4>4. f \in dead' => Grants!ActiveOf(f)' = {}
        BY <2>1, <2>5, <3>2, <3>3
      <4>5. QED
        BY <4>1, <4>3, <4>4 DEF FamilyInv
    <3>4. CASE n.op = "refresh" /\ n.on = request[c].on /\ Going
      <4>1. Grants!Busy(f)' = {c} /\ \A r, s \in Grants!ActiveOf(f) : r = s
        BY <1>5, <3>1, <3>2, <3>4
      <4>2. f \in dead' => Grants!ActiveOf(f)' = {}
        BY <2>1, <3>2, <3>4
      <4>3. n.at = "mint" => Grants!ActiveOf(f)' \subseteq {request[c].on} /\ f \notin dead
        <5>1. n.at = "mint" => request[c].on \in Grants!ActiveOf(f)
          BY <1>2, <1>4, <2>5, <3>4, GrantsRest DEF Grants!ActiveOf, Grants!FamilyOf
        <5>2. QED
          BY <2>1, <3>2, <4>1, <5>1
      <4>4. n.at = "kill" => Grants!ActiveOf(f)' \subseteq n.refs
        <5>1. CASE n.refs = Found
          BY <2>1, <2>5, <5>1 DEF Grants!ActiveOf
        <5>2. CASE /\ request[c].at = "kill"
                   /\ \E r \in request[c].refs : /\ token' = [token EXCEPT ![r] = "inactive"]
                                                 /\ n.refs = request[c].refs \ {r}
          <6>1. PICK r \in request[c].refs : /\ token' = [token EXCEPT ![r] = "inactive"]
                                             /\ n.refs = request[c].refs \ {r}
            BY <5>2
          <6>2. r \notin Grants!ActiveOf(f)'
            BY <1>0, <6>1 DEF Grants!ActiveOf, GrantTypes
          <6>3. QED
            BY <2>1, <3>2, <5>2, <6>1, <6>2
        <5>3. QED
          BY <1>4, <3>4, <5>1, <5>2, GrantsRest
      <4>5. n.at # "retire"
        BY <1>4, <3>4, GrantsRest
      <4>6. QED
        BY <1>5, <2>1, <3>4, <4>1, <4>2, <4>3, <4>4, <4>5 DEF FamilyInv
    <3>5. QED
      BY <1>4, <2>5, <3>3, <3>4
  <2>6. QED
    BY <2>4, <2>5
<1> QED
  BY <1>1, <1>7, <1>8, <1>9, <1>10 DEF GrantInv, FamiliesApart
-----------------------------------------------------------------------------
LEMMA GrantsHold == GrantInv => Grants!CodeOnce /\ Grants!FamilyEnds /\ Grants!DeniedRefused
<1> SUFFICES ASSUME GrantInv PROVE Grants!CodeOnce /\ Grants!FamilyEnds /\ Grants!DeniedRefused
  OBVIOUS
<1>1. Grants!CodeOnce
  BY DEF GrantInv, IssuedOnce, Grants!CodeOnce
<1>2. \A f \in Refresh \ mixed : Grants!Busy(f) = {} => \A r, s \in Grants!ActiveOf(f) : r = s
  BY DEF GrantInv, FamiliesApart, FamilyInv
<1>3. \A f \in dead \ mixed : Grants!ActiveOf(f) = {}
  BY DEF GrantInv, FamiliesNamed, FamiliesApart, FamilyInv
<1>4. Grants!DeniedRefused
  BY DEF GrantInv, DeniedKept
<1> QED
  BY <1>1, <1>2, <1>3, <1>4 DEF Grants!FamilyEnds

LEMMA GrantsGoOn == ASSUME Grants!Assumptions PROVE GrantInv /\ [Grants!Next]_(Grants!vars) => GrantInv'
<1> SUFFICES ASSUME GrantInv, [Grants!Next]_(Grants!vars) PROVE GrantInv'
  OBVIOUS
<1>1. CASE \/ \E k \in Codes : Grants!save_authorization_code(k)
           \/ \E x \in Codes \cup Refresh \cup Access : Grants!Expire(x)
  BY <1>1, GrantsWait
<1>2. ASSUME NEW c \in Callers, NEW k \in Codes, Grants!Exchange(c, k) PROVE GrantInv'
  BY <1>2, GrantsBegin DEF Grants!Exchange, Grants!Ops
<1>3. ASSUME NEW c \in Callers, NEW r \in Refresh, Grants!Rotate(c, r) PROVE GrantInv'
  BY <1>3, GrantsRotate
<1>4. ASSUME NEW c \in Callers, NEW r \in Refresh, Grants!Revoke(c, r) PROVE GrantInv'
  BY <1>4, GrantsBegin DEF Grants!Revoke, Grants!Ops
<1>5. ASSUME NEW c \in Callers, NEW a \in Access, Grants!Deny(c, a) \/ Grants!Verify(c, a)
      PROVE  GrantInv'
  BY <1>5, GrantsBegin DEF Grants!Deny, Grants!Verify, Grants!Ops
<1>6. ASSUME NEW c \in Callers, Grants!save_token(c) PROVE GrantInv'
  BY <1>6, GrantsSave
<1>7. ASSUME NEW c \in Callers,
             Grants!query_authorization_code(c) \/ Grants!consume_code(c) \/ Grants!FlipLater(c) \/ Grants!FindRevocable(c)
               \/ Grants!VerifyDenied(c) \/ Grants!revoke_jti(c) \/ Grants!verify_oauth_access_token(c)
      PROVE  GrantInv'
  BY <1>7, GrantsAnswer
<1>8. ASSUME NEW c \in Callers,
             Grants!FindActive(c) \/ Grants!FindAny(c) \/ Grants!Retire(c) \/ Grants!FindFamily(c) \/ Grants!RevokeNext(c)
      PROVE  GrantInv'
  BY <1>8, GrantsRevoke
<1>9. CASE UNCHANGED Grants!vars
  BY <1>9 DEF Grants!vars, GrantInv, GrantTypes, FamiliesNamed, IssuedOnce, FamiliesApart,
      FamilyInv, DeniedKept,
              Grants!DeniedRefused, Grants!Busy, Grants!FamilyOf, Grants!ActiveOf
<1> QED
  BY <1>1, <1>2, <1>3, <1>4, <1>5, <1>6, <1>7, <1>8, <1>9 DEF Grants!Next

(* In any interleaving of requests, a code that the database consumes in   *)
(* one step is exchanged once, a family that was used twice has no active  *)
(* token unless its requests overlap, and a token reported revoked is      *)
(* refused (api/auth/oauth/server.py:504, 818, denylist.py:59).            *)
THEOREM CodesAndTokensEnd == Grants!Assumptions => (Grants!Spec => []GrantsEnd)
<1> SUFFICES ASSUME Grants!Assumptions PROVE Grants!Spec => []GrantsEnd
  OBVIOUS
<1>1. Grants!Init => GrantInv
  BY GrantsInit
<1>2. GrantInv /\ [Grants!Next]_(Grants!vars) => GrantInv'
  BY GrantsGoOn
<1>3. GrantInv => GrantsEnd
  BY GrantsHold DEF GrantsEnd
<1> QED
  BY <1>1, <1>2, <1>3, PTL DEF Grants!Spec
-----------------------------------------------------------------------------
(* DeferredTasks.  A moment is the one asked for, counted from when the    *)
(* call began; a call under way is one of a scheduler that does not drop   *)
(* the task, and waits for Lambda only with a moment close enough.         *)
DeferStates == {"idle", "bridge", "invoke", "send", "returned", "raised"}
DeferCall == [st : DeferStates, began : Nat, run_at : Nat \cup {None}]
DeferTypes ==
    /\ env \in Defers!Environments /\ asked \in Defers!Asked /\ hour \in Nat
    /\ deferral \in DeferCall
    /\ held \subseteq Defers!Messages /\ took \subseteq Defers!Messages /\ ran \subseteq Nat
Moments == deferral.began <= hour /\ (deferral.run_at = None \/ deferral.run_at = deferral.began + asked.ahead)
Handing ==
    ~Defers!HereLocal =>
        /\ deferral.st = "bridge" => Defers!Scheduler = "lambda" /\ deferral.run_at # None
        /\ deferral.st = "send" => Defers!Scheduler = "sqs"
        /\ deferral.st = "invoke" => Defers!Scheduler \in {"lambda", "executor"}
        /\ deferral.st = "invoke" /\ Defers!Scheduler = "lambda" /\ asked.strict =>
            deferral.run_at = None \/ deferral.run_at <= hour + Defers!Limit
Waiting ==
    Defers!HereLocal =>
        /\ deferral.st \in {"idle", "returned"}
        /\ \A m \in held : /\ m.via = "local" /\ ran = {} /\ \A n \in held : n = m
                           /\ deferral.run_at = None \/ m.due >= deferral.run_at
DeferInv == DeferTypes /\ Moments /\ Handing /\ Waiting /\ Defers!StrictHandsOver /\ Defers!LocalOnTime
-----------------------------------------------------------------------------
(* Nothing is asked for at first.                                          *)
LEMMA DeferInit == Defers!Init => DeferInv
BY DEF Defers!Init, DeferInv, DeferTypes, DeferCall, DeferStates, Moments, Handing, Waiting,
    Defers!StrictHandsOver, Defers!LocalOnTime

(* A scheduler is one of the kinds; only three of them do not drop tasks.  *)
LEMMA Schedules ==
    ASSUME Defers!Assumptions, env \in Defers!Environments
    PROVE  ~Defers!Refuses => Defers!Scheduler \in {"lambda", "sqs", "executor"}
BY DEF Defers!Assumptions, Defers!Environments, Defers!Kinds, Defers!Refuses, Defers!Scheduler,
    Defers!AwsScheduler, Defers!SqsIf

(* The moment that a call computes.                                        *)
LEMMA Asks ==
    ASSUME Defers!Assumptions, DeferTypes
    PROVE  /\ Defers!RunAt \in Nat \cup {None}
           /\ Defers!RunAt = None \/ Defers!RunAt = hour + asked.ahead
<1>1. asked.ahead \in Nat /\ hour \in Nat
  BY DEF Defers!Assumptions, DeferTypes, Defers!Asked
<1>2. hour + asked.ahead \in Nat
  BY <1>1
<1> QED
  BY <1>2 DEF Defers!RunAt

LEMMA DispatchStep == ASSUME Defers!Assumptions, DeferInv, Defers!dispatch_deferred_task PROVE DeferInv'
<1>1. /\ ~Defers!HereLocal /\ held = {} /\ held' = {} /\ took' = {} /\ ran' = {}
      /\ UNCHANGED <<env, asked, hour>>
  BY DEF Defers!dispatch_deferred_task
<1>2. /\ Defers!RunAt \in Nat \cup {None} /\ hour <= hour /\ hour \in Nat
      /\ Defers!RunAt = None \/ Defers!RunAt = hour + asked.ahead
  BY Asks DEF DeferInv, DeferTypes
<1>3. PICK st \in {"raised", "returned", "invoke", "send", "bridge"} :
        /\ deferral' = [began |-> hour, run_at |-> Defers!RunAt, st |-> st]
        /\ st = "returned" => ~asked.strict
        /\ st = "invoke" => /\ ~Defers!Refuses
                            /\ Defers!Scheduler = "executor" \/ (Defers!Scheduler # "sqs" /\ Defers!RunAt = None)
        /\ st = "send" => Defers!Scheduler = "sqs"
        /\ st = "bridge" => /\ ~Defers!Refuses /\ Defers!Scheduler # "executor"
                            /\ Defers!Scheduler # "sqs" /\ Defers!RunAt # None
  <2> DEFINE there == IF Defers!Refuses THEN IF asked.strict THEN "raised" ELSE "returned"
                      ELSE IF Defers!Scheduler = "executor" THEN "invoke"
                      ELSE IF Defers!Scheduler = "sqs" THEN "send"
                      ELSE IF Defers!RunAt = None THEN "invoke" ELSE "bridge"
  <2>1. deferral' = [began |-> hour, run_at |-> Defers!RunAt, st |-> there]
    BY DEF Defers!dispatch_deferred_task
  <2>2. /\ there \in {"raised", "returned", "invoke", "send", "bridge"}
        /\ there = "returned" => ~asked.strict
        /\ there = "invoke" => /\ ~Defers!Refuses
                               /\ Defers!Scheduler = "executor" \/ (Defers!Scheduler # "sqs" /\ Defers!RunAt = None)
        /\ there = "send" => Defers!Scheduler = "sqs"
        /\ there = "bridge" => /\ ~Defers!Refuses /\ Defers!Scheduler # "executor"
                               /\ Defers!Scheduler # "sqs" /\ Defers!RunAt # None
    OBVIOUS
  <2> HIDE DEF there
  <2> QED
    BY <2>1, <2>2
<1>4. /\ deferral' \in DeferCall /\ deferral'.st = st
      /\ deferral'.began = hour /\ deferral'.run_at = Defers!RunAt
  BY <1>2, <1>3 DEF DeferCall, DeferStates, DeferInv, DeferTypes
<1>5. ~Defers!Refuses => Defers!Scheduler \in {"lambda", "sqs", "executor"}
  BY Schedules DEF DeferInv, DeferTypes
<1>6. DeferTypes'
  BY <1>1, <1>4 DEF DeferInv, DeferTypes
<1>7. Defers!HereLocal' = Defers!HereLocal /\ Defers!Scheduler' = Defers!Scheduler
  BY <1>1 DEF Defers!HereLocal, Defers!Scheduler, Defers!AwsScheduler, Defers!SqsIf
<1>8. Moments' /\ Waiting' /\ Defers!LocalOnTime'
  BY <1>1, <1>2, <1>4, <1>7 DEF Moments, Waiting, Defers!LocalOnTime
<1>9. Handing'
  BY <1>1, <1>3, <1>4, <1>5, <1>7 DEF Handing
<1>10. Defers!StrictHandsOver'
  BY <1>1, <1>3, <1>4 DEF Defers!StrictHandsOver
<1> QED
  BY <1>6, <1>8, <1>9, <1>10 DEF DeferInv

LEMMA CreateStep == ASSUME Defers!Assumptions, DeferInv, Defers!_create_task_handler PROVE DeferInv'
<1>1. /\ Defers!HereLocal /\ UNCHANGED <<env, asked, hour>>
      /\ deferral' = [st |-> "returned", began |-> hour, run_at |-> Defers!RunAt] /\ ran' = {}
      /\ held' = {[via |-> "local", due |-> Defers!Due, carries |-> Defers!RunAt]} /\ took' = held'
  BY DEF Defers!_create_task_handler
<1>2. /\ Defers!RunAt \in Nat \cup {None} /\ (Defers!RunAt = None \/ Defers!RunAt = hour + asked.ahead)
      /\ Defers!Due \in Nat /\ (Defers!RunAt = None \/ Defers!Due = Defers!RunAt) /\ hour \in Nat
  BY Asks DEF DeferInv, DeferTypes, Defers!Due
<1> DEFINE m == [via |-> "local", due |-> Defers!Due, carries |-> Defers!RunAt]
<1>3. m \in Defers!Messages /\ m.via = "local" /\ m.due = Defers!Due
  BY <1>2 DEF Defers!Messages
<1>4. /\ deferral' \in DeferCall /\ deferral'.st = "returned"
      /\ deferral'.began = hour /\ deferral'.run_at = Defers!RunAt
  BY <1>1, <1>2 DEF DeferCall, DeferStates
<1>5. held' = {m} /\ took' = {m}
  BY <1>1
<1> HIDE DEF m
<1>6. DeferTypes'
  BY <1>1, <1>3, <1>4, <1>5 DEF DeferInv, DeferTypes
<1>7. Defers!HereLocal' = Defers!HereLocal /\ Defers!Scheduler' = Defers!Scheduler
  BY <1>1 DEF Defers!HereLocal, Defers!Scheduler, Defers!AwsScheduler, Defers!SqsIf
<1>8. Moments' /\ Handing' /\ Defers!LocalOnTime'
  BY <1>1, <1>2, <1>4, <1>7 DEF Moments, Handing, Defers!LocalOnTime
<1>9. Waiting'
  BY <1>1, <1>2, <1>3, <1>4, <1>5, <1>7 DEF Waiting
<1>10. Defers!StrictHandsOver'
  BY <1>1, <1>2, <1>3, <1>4, <1>5 DEF Defers!StrictHandsOver
<1> QED
  BY <1>6, <1>8, <1>9, <1>10 DEF DeferInv

(* A call goes on: it keeps when it began, and its moment.                 *)
LEMMA CallMoves ==
    ASSUME DeferInv, NEW st \in DeferStates, deferral' = [deferral EXCEPT !.st = st]
    PROVE  /\ deferral' \in DeferCall /\ deferral'.st = st
           /\ deferral'.began = deferral.began /\ deferral'.run_at = deferral.run_at
BY DEF DeferInv, DeferTypes, DeferCall

(* A provider is asked: what it took, and whether the caller knows.        *)
LEMMA HandStep ==
    ASSUME Defers!Assumptions, DeferInv, NEW m \in Defers!Messages, NEW st \in DeferStates,
           ~Defers!HereLocal, deferral' = [deferral EXCEPT !.st = st],
           \/ held' = held \cup {m} /\ took' = took \cup {m}
           \/ UNCHANGED <<held, took>>,
           st \in {"raised", "returned", "invoke"},
           UNCHANGED <<env, asked, hour, deferrals, ran>>,
           st = "invoke" => /\ Defers!Scheduler = "lambda"
                            /\ asked.strict => deferral.run_at = None \/ deferral.run_at <= hour + Defers!Limit,
           asked.strict /\ st = "returned" =>
               /\ m \in took'
               /\ \/ deferral.run_at = None
                  \/ m.due >= deferral.run_at
                  \/ m.via = "lambda" /\ m.carries = deferral.run_at /\ deferral.run_at <= m.due + Defers!Limit
                  \/ m.via = "sqs" /\ asked.ahead > Defers!Limit
    PROVE  DeferInv'
<1>1. /\ deferral' \in DeferCall /\ deferral'.st = st
      /\ deferral'.began = deferral.began /\ deferral'.run_at = deferral.run_at
  BY CallMoves
<1>2. Defers!HereLocal' = Defers!HereLocal /\ Defers!Scheduler' = Defers!Scheduler
  BY DEF Defers!HereLocal, Defers!Scheduler, Defers!AwsScheduler, Defers!SqsIf
<1>3. DeferTypes'
  BY <1>1 DEF DeferInv, DeferTypes
<1>4. Moments' /\ Handing' /\ Waiting' /\ Defers!LocalOnTime'
  BY <1>1, <1>2 DEF DeferInv, Moments, Handing, Waiting, Defers!LocalOnTime
<1>5. Defers!StrictHandsOver'
  BY <1>1, <1>2 DEF Defers!StrictHandsOver
<1> QED
  BY <1>3, <1>4, <1>5 DEF DeferInv
(* The provider answers, or the call raises.                               *)
LEMMA AnswerStep ==
    ASSUME Defers!Assumptions, DeferInv, NEW m \in Defers!Messages, ~Defers!HereLocal, Defers!Answer(m),
           asked.strict => \/ deferral.run_at = None
                           \/ m.due >= deferral.run_at
                           \/ m.via = "lambda" /\ m.carries = deferral.run_at /\ deferral.run_at <= m.due + Defers!Limit
                           \/ m.via = "sqs" /\ asked.ahead > Defers!Limit
    PROVE  DeferInv'
<1>1. PICK st \in {"raised", "returned"} :
        /\ deferral' = [deferral EXCEPT !.st = st]
        /\ \/ held' = held \cup {m} /\ took' = took \cup {m}
           \/ (asked.strict => st # "returned") /\ UNCHANGED <<held, took>>
  <2>1. PICK st \in {"raised", "returned"} :
          Defers!Refused = [deferral EXCEPT !.st = st] /\ (asked.strict => st # "returned")
    BY ZenonT(30) DEF Defers!Refused
  <2>2. \/ /\ held' = held \cup {m} /\ took' = took \cup {m}
           /\ deferral' \in {[deferral EXCEPT !.st = "returned"], Defers!Refused}
        \/ deferral' = Defers!Refused /\ UNCHANGED <<held, took>>
    BY DEF Defers!Answer, Defers!Accept
  <2> QED
    BY <2>1, <2>2
<1>2. UNCHANGED <<env, asked, hour, deferrals, ran>> /\ st \in DeferStates
  BY DEF Defers!Answer, DeferStates
<1>3. asked.strict /\ st = "returned" => m \in took'
  BY <1>1
<1> QED
  BY <1>1, <1>2, <1>3, HandStep

LEMMA BridgeStep == ASSUME Defers!Assumptions, DeferInv, Defers!Bridge PROVE DeferInv'
<1> DEFINE m == [via |-> "bridge", due |-> deferral.run_at, carries |-> deferral.run_at]
           TooFar == asked.strict /\ deferral.run_at > hour + Defers!Limit
<1>1. ~Defers!HereLocal /\ Defers!Scheduler = "lambda" /\ deferral.run_at \in Nat
  BY DEF Defers!Bridge, DeferInv, DeferTypes, DeferCall, Handing, Waiting
<1>2. m \in Defers!Messages /\ m.due = deferral.run_at
  BY <1>1 DEF Defers!Messages
<1>3. PICK st \in {"raised", "returned", "invoke"} :
        /\ deferral' = [deferral EXCEPT !.st = st]
        /\ \/ held' = held \cup {m} /\ took' = took \cup {m}
           \/ st # "returned" /\ UNCHANGED <<held, took>>
        /\ st = "invoke" => ~TooFar
  <2> DEFINE failed == [deferral EXCEPT !.st = IF TooFar THEN "raised" ELSE "invoke"]
  <2>1. \/ deferral' = [deferral EXCEPT !.st = "returned"] /\ held' = held \cup {m} /\ took' = took \cup {m}
        \/ /\ deferral' = failed
           /\ (held' = held \cup {m} /\ took' = took \cup {m}) \/ UNCHANGED <<held, took>>
    BY DEF Defers!Bridge, Defers!Accept
  <2>2. PICK st \in {"raised", "invoke"} : failed = [deferral EXCEPT !.st = st] /\ (st = "invoke" => ~TooFar)
    BY ZenonT(30)
  <2> HIDE DEF m, TooFar, failed
  <2> QED
    BY <2>1, <2>2
<1>4. UNCHANGED <<env, asked, hour, deferrals, ran>>
  BY DEF Defers!Bridge
<1>5. st = "invoke" /\ asked.strict => deferral.run_at <= hour + Defers!Limit
  <2>1. hour \in Nat
    BY DEF DeferInv, DeferTypes
  <2> QED
    BY <1>1, <1>3, <2>1 DEF Defers!Limit
<1>6. st = "returned" => m \in took' /\ m.due >= deferral.run_at
  BY <1>1, <1>2, <1>3
<1> HIDE DEF m
<1>7. st \in DeferStates
  BY DEF DeferStates
<1> QED
  BY <1>1, <1>2, <1>3, <1>4, <1>5, <1>6, <1>7, HandStep

LEMMA InvokeStep == ASSUME Defers!Assumptions, DeferInv, Defers!Invoke PROVE DeferInv'
<1> DEFINE m == [via |-> "lambda", due |-> hour, carries |-> deferral.run_at]
<1>1. /\ ~Defers!HereLocal /\ Defers!Scheduler = "lambda"
      /\ deferral.run_at \in Nat \cup {None} /\ hour \in Nat
      /\ asked.strict => deferral.run_at = None \/ deferral.run_at <= hour + Defers!Limit
  BY DEF Defers!Invoke, DeferInv, DeferTypes, DeferCall, Handing, Waiting
<1>2. m \in Defers!Messages /\ m.due = hour /\ m.via = "lambda" /\ m.carries = deferral.run_at
  BY <1>1 DEF Defers!Messages
<1>3. Defers!Answer(m)
  BY DEF Defers!Invoke
<1> HIDE DEF m
<1>4. asked.strict => deferral.run_at = None \/ deferral.run_at <= m.due + Defers!Limit
  BY <1>1, <1>2
<1> QED
  BY <1>1, <1>2, <1>3, <1>4, AnswerStep

LEMMA SendStep == ASSUME Defers!Assumptions, DeferInv, Defers!Send PROVE DeferInv'
<1> DEFINE wait == IF deferral.run_at = None \/ deferral.run_at < hour THEN 0 ELSE deferral.run_at - hour
           eta == hour + (IF wait > Defers!Limit THEN Defers!Limit ELSE wait)
           instant == IF asked.by = "run_at" THEN deferral.run_at ELSE None
           m == [via |-> "sqs", due |-> eta, carries |-> instant]
<1>1. /\ ~Defers!HereLocal /\ Defers!Scheduler = "sqs"
      /\ deferral.run_at \in Nat \cup {None} /\ hour \in Nat
      /\ deferral.began \in Nat /\ asked.ahead \in Nat /\ deferral.began <= hour
      /\ deferral.run_at = None \/ deferral.run_at = deferral.began + asked.ahead
  BY DEF Defers!Send, DeferInv, DeferTypes, DeferCall, Handing, Waiting, Moments, Defers!Asked,
      Defers!Assumptions
<1>2. /\ eta \in Nat /\ instant \in Nat \cup {None}
      /\ deferral.run_at = None \/ eta >= deferral.run_at \/ asked.ahead > Defers!Limit
  BY <1>1 DEF Defers!Limit
<1>3. Defers!Answer(m)
  BY DEF Defers!Send
<1> HIDE DEF eta, instant
<1>4. m \in Defers!Messages /\ m.via = "sqs" /\ m.due = eta
  BY <1>2 DEF Defers!Messages
<1> HIDE DEF m
<1> QED
  BY <1>1, <1>2, <1>3, <1>4, AnswerStep

(* An injected executor runs the task.                                     *)
LEMMA ExecuteStep == ASSUME Defers!Assumptions, DeferInv, Defers!Execute PROVE DeferInv'
<1>1. /\ ~Defers!HereLocal /\ Defers!Scheduler = "executor"
      /\ hour \in Nat /\ UNCHANGED <<env, asked, hour, deferrals, held, took>>
  BY DEF Defers!Execute, DeferInv, DeferTypes, Waiting
<1>2. PICK st \in {"returned", "raised"} :
        /\ deferral' = [deferral EXCEPT !.st = st]
        /\ ran' = IF deferral'.st = "returned" THEN ran \cup {hour} ELSE ran
  BY DEF Defers!Execute
<1>3. /\ deferral' \in DeferCall /\ deferral'.st = st
      /\ deferral'.began = deferral.began /\ deferral'.run_at = deferral.run_at
  BY <1>2, CallMoves DEF DeferStates
<1>4. Defers!HereLocal' = Defers!HereLocal /\ Defers!Scheduler' = Defers!Scheduler
  BY <1>1 DEF Defers!HereLocal, Defers!Scheduler, Defers!AwsScheduler, Defers!SqsIf
<1>5. DeferTypes'
  BY <1>1, <1>2, <1>3 DEF DeferInv, DeferTypes
<1>6. Moments' /\ Handing' /\ Waiting' /\ Defers!LocalOnTime'
  BY <1>1, <1>2, <1>3, <1>4 DEF DeferInv, Moments, Handing, Waiting, Defers!LocalOnTime
<1>7. Defers!StrictHandsOver'
  BY <1>1, <1>2, <1>3, <1>4 DEF Defers!StrictHandsOver
<1> QED
  BY <1>5, <1>6, <1>7 DEF DeferInv

(* The task is brought, or wakes: what was taken stays taken.              *)
LEMMA BringStep ==
    ASSUME Defers!Assumptions, DeferInv, NEW m \in held, Defers!Deliver(m) \/ Defers!Wake(m)
    PROVE  DeferInv'
<1>1. /\ UNCHANGED <<env, asked, hour, deferral, deferrals, took>> /\ held' \subseteq held
      /\ ran' = ran \/ ran' = ran \cup {hour}
      /\ Defers!HereLocal => m.via = "local"
      /\ m.via = "local" => /\ held' = held \ {m}
                            /\ ran' = ran \/ m.due <= hour
  BY DEF Defers!Deliver, Defers!Wake, DeferInv, Waiting
<1>2. Defers!HereLocal' = Defers!HereLocal /\ Defers!Scheduler' = Defers!Scheduler
  BY <1>1 DEF Defers!HereLocal, Defers!Scheduler, Defers!AwsScheduler, Defers!SqsIf
<1>3. DeferTypes'
  BY <1>1 DEF DeferInv, DeferTypes
<1>4. Moments' /\ Handing' /\ Defers!StrictHandsOver'
  BY <1>1, <1>2 DEF DeferInv, Moments, Handing, Defers!StrictHandsOver
<1>5. Waiting'
  BY <1>1, <1>2 DEF DeferInv, Waiting
<1>6. Defers!LocalOnTime'
  <2>1. m.due \in Nat /\ hour \in Nat /\ deferral.run_at \in Nat \cup {None}
    BY DEF DeferInv, DeferTypes, Defers!Messages, DeferCall
  <2>2. Defers!HereLocal => held' = {} /\ ran = {} /\ (deferral.run_at = None \/ m.due >= deferral.run_at)
    BY <1>1 DEF DeferInv, Waiting
  <2> QED
    BY <1>1, <1>2, <2>1, <2>2 DEF Defers!LocalOnTime
<1> QED
  BY <1>3, <1>4, <1>5, <1>6 DEF DeferInv

LEMMA PassStep == ASSUME Defers!Assumptions, DeferInv, Defers!Tick PROVE DeferInv'
<1>1. UNCHANGED <<env, asked, deferral, deferrals, held, took, ran>> /\ hour' = hour + 1 /\ hour \in Nat
  BY DEF Defers!Tick, DeferInv, DeferTypes
<1>2. Defers!HereLocal' = Defers!HereLocal /\ Defers!Scheduler' = Defers!Scheduler
  BY <1>1 DEF Defers!HereLocal, Defers!Scheduler, Defers!AwsScheduler, Defers!SqsIf
<1>3. deferral.began \in Nat /\ deferral.run_at \in Nat \cup {None}
  BY DEF DeferInv, DeferTypes, DeferCall
<1>4. DeferTypes' /\ Waiting' /\ Defers!StrictHandsOver' /\ Defers!LocalOnTime'
  BY <1>1, <1>2 DEF DeferInv, DeferTypes, Waiting, Defers!StrictHandsOver, Defers!LocalOnTime
<1>5. Moments' /\ Handing'
  BY <1>1, <1>2, <1>3 DEF DeferInv, Moments, Handing, Defers!Limit
<1> QED
  BY <1>4, <1>5 DEF DeferInv

LEMMA DeferStep == ASSUME Defers!Assumptions PROVE DeferInv /\ [Defers!Next]_(Defers!vars) => DeferInv'
<1> SUFFICES ASSUME DeferInv, [Defers!Next]_(Defers!vars) PROVE DeferInv'
  OBVIOUS
<1>1. CASE UNCHANGED Defers!vars
  BY <1>1 DEF Defers!vars, DeferInv, DeferTypes, Moments, Handing, Waiting,
      Defers!StrictHandsOver, Defers!LocalOnTime,
              Defers!HereLocal, Defers!Scheduler, Defers!AwsScheduler, Defers!SqsIf
<1> QED
  BY <1>1, DispatchStep, CreateStep, BridgeStep, InvokeStep, SendStep, ExecuteStep, BringStep,
      PassStep DEF Defers!Next

(* A strict caller's task is with a provider that brings it in time.       *)
THEOREM TasksHandedOver ==
    Defers!Assumptions => (Defers!Spec => [](Defers!StrictHandsOver /\ Defers!LocalOnTime))
<1> SUFFICES ASSUME Defers!Assumptions
             PROVE  Defers!Spec => [](Defers!StrictHandsOver /\ Defers!LocalOnTime)
  OBVIOUS
<1>1. Defers!Init => DeferInv
  BY DeferInit
<1>2. DeferInv /\ [Defers!Next]_(Defers!vars) => DeferInv'
  BY DeferStep
<1>3. DeferInv => Defers!StrictHandsOver /\ Defers!LocalOnTime
  BY DEF DeferInv
<1> QED
  BY <1>1, <1>2, <1>3, PTL DEF Defers!Spec
-----------------------------------------------------------------------------
(* Webhooks.  Once a response is stored, every record with the identity of *)
(* the one it was stored in says so, and so does every copy of it that is  *)
(* yet to be saved, until cleanup.                                         *)
KeyRecord == [done : BOOLEAN, old : BOOLEAN, made : 1..MaxRecords]
KeyCopy == [made : 0..MaxRecords, done : BOOLEAN]
HookTypes ==
    /\ records \in Seq(KeyRecord)
    /\ place \in [Deliveries -> Hooks!Places]
    /\ copy \in [Deliveries -> KeyCopy]
    /\ \A d \in Deliveries : copy[d] = Hooks!NoCopy \/ copy[d].made \in 1..MaxRecords
    /\ stored \in BOOLEAN /\ late \subseteq Deliveries
StoredIn(m) ==
        /\ \E i \in DOMAIN records : records[i].made = m
        /\ \A i \in DOMAIN records : records[i].made = m => records[i].done
        /\ \A d \in Deliveries : place[d] = "save" /\ copy[d].made = m => copy[d].done
HookInv ==
    /\ HookTypes
    /\ stored \/ late # {} => \E m \in 1..MaxRecords : StoredIn(m)
    /\ Hooks!LateAnswered
-----------------------------------------------------------------------------
LEMMA HooksInit == ASSUME Hooks!Assumptions PROVE Hooks!Init => HookInv
<1> SUFFICES ASSUME Hooks!Init PROVE HookInv
  OBVIOUS
<1>1. Hooks!NoCopy \in KeyCopy /\ "new" \in Hooks!Places
  BY DEF Hooks!NoCopy, KeyCopy, Hooks!Places, Hooks!Assumptions
<1>2. << >> \in Seq(KeyRecord)
  OBVIOUS
<1> QED
  BY <1>1, <1>2 DEF Hooks!Init, HookInv, HookTypes, Hooks!LateAnswered

(* A step that leaves the records and the copies of those who save.        *)
LEMMA StoredFrame ==
    ASSUME HookTypes, UNCHANGED records,
           \A d \in Deliveries : place'[d] = "save" => place[d] = "save" /\ copy'[d] = copy[d],
           NEW m, StoredIn(m)
    PROVE  StoredIn(m)'
BY DEF StoredIn

(* A delivery goes on to another place.                                    *)
LEMMA PlaceMoves ==
    ASSUME HookTypes, NEW d \in Deliveries, NEW there \in Hooks!Places, Hooks!GoesOn(d, there)
    PROVE  /\ place' \in [Deliveries -> Hooks!Places] /\ place'[d] = there
           /\ \A e \in Deliveries \ {d} : place'[e] = place[e]
BY DEF HookTypes, Hooks!GoesOn

(* Steps that neither read nor save a record.                              *)
LEMMA HookPlainStep ==
    ASSUME HookInv, NEW d \in Deliveries,
           \/ Hooks!Deliver(d) \/ Hooks!check_idempotency(d) \/ Hooks!_queue_async_processing(d) \/ Hooks!CallHandler(d)
           \/ Hooks!Work(d)
    PROVE  HookInv'
<1>1. UNCHANGED <<records, copy, stored>>
  BY DEF Hooks!Deliver, Hooks!check_idempotency, Hooks!_queue_async_processing, Hooks!CallHandler,
      Hooks!Work
<1>2. PICK there \in {"check", "answered", "handle", "read", "work", "mark"} :
        /\ Hooks!GoesOn(d, there)
        /\ there = "check" => late' = IF stored THEN late \cup {d} ELSE late \ {d}
        /\ there # "check" => /\ UNCHANGED late /\ place[d] # "new" /\ place[d] # "answered"
                              /\ place[d] = "check" => there \in {"answered", "handle"}
                              /\ place[d] = "check" /\ Hooks!Processed /\ ~HookFaults => there = "answered"
  BY DEF Hooks!Deliver, Hooks!check_idempotency, Hooks!_queue_async_processing, Hooks!CallHandler,
      Hooks!Work
<1>3. /\ place' \in [Deliveries -> Hooks!Places] /\ place'[d] = there
      /\ \A e \in Deliveries \ {d} : place'[e] = place[e]
  BY <1>2, PlaceMoves DEF HookInv, Hooks!Places
<1>4. HookTypes'
  BY <1>1, <1>2, <1>3 DEF HookInv, HookTypes
<1>5. \A m \in 1..MaxRecords : StoredIn(m) => StoredIn(m)'
  BY <1>1, <1>2, <1>3, StoredFrame DEF HookInv
<1>6. stored' \/ late' # {} => \E m \in 1..MaxRecords : StoredIn(m)'
  BY <1>1, <1>2, <1>5 DEF HookInv
<1>7. Hooks!LateAnswered'
  <2>1. late # {} => Hooks!Processed
    BY DEF HookInv, StoredIn, Hooks!Processed
  <2> SUFFICES ASSUME ~HookFaults, NEW e \in late' PROVE place'[e] \in {"new", "check", "answered"}
    BY DEF Hooks!LateAnswered
  <2>2. e \in late => place[e] \in {"new", "check", "answered"}
    BY DEF HookInv, Hooks!LateAnswered
  <2>3. e \in Deliveries
    BY <1>4 DEF HookTypes
  <2>4. CASE e # d
    BY <1>2, <1>3, <2>2, <2>3, <2>4
  <2>5. CASE e = d /\ there = "check"
    BY <1>3, <2>5
  <2>6. CASE e = d /\ there # "check"
    BY <1>2, <1>3, <2>1, <2>2, <2>6
  <2> QED
    BY <2>4, <2>5, <2>6
<1> QED
  BY <1>4, <1>6, <1>7 DEF HookInv

(* The first record is read.                                               *)
LEMMA KeyTypes ==
    ASSUME Hooks!Assumptions, HookTypes
    PROVE  /\ Hooks!FirstRecord \in KeyCopy
           /\ (Hooks!FirstRecord = Hooks!NoCopy \/ Hooks!FirstRecord.made \in 1..MaxRecords)
           /\ Hooks!FirstRecord.made # 0 => /\ 1 \in DOMAIN records
                                            /\ Hooks!FirstRecord.made = records[1].made
                                            /\ Hooks!FirstRecord.done = records[1].done
<1>1. CASE records = << >>
  BY <1>1 DEF Hooks!FirstRecord, Hooks!NoCopy, KeyCopy, Hooks!Assumptions
<1>2. CASE records # << >>
  <2>1. 1 \in DOMAIN records /\ records[1] \in KeyRecord
    BY <1>2 DEF HookTypes
  <2> QED
    BY <1>2, <2>1 DEF Hooks!FirstRecord, KeyRecord, KeyCopy
<1> QED
  BY <1>1, <1>2

LEMMA KeyReadStep ==
    ASSUME Hooks!Assumptions, HookInv, NEW d \in Deliveries, Hooks!Read(d) \/ Hooks!MarkRead(d)
    PROVE  HookInv'
<1>1. /\ UNCHANGED <<records, stored, late>> /\ copy' = [copy EXCEPT ![d] = Hooks!FirstRecord]
      /\ place[d] \in {"read", "mark"}
  BY DEF Hooks!Read, Hooks!MarkRead
<1>2. PICK there \in {"save", "marked"} : Hooks!GoesOn(d, there)
  BY DEF Hooks!Read, Hooks!MarkRead
<1>3. /\ place' \in [Deliveries -> Hooks!Places] /\ place'[d] = there
      /\ \A e \in Deliveries \ {d} : place'[e] = place[e]
  BY <1>2, PlaceMoves DEF HookInv, Hooks!Places
<1>4. /\ Hooks!FirstRecord \in KeyCopy
      /\ (Hooks!FirstRecord = Hooks!NoCopy \/ Hooks!FirstRecord.made \in 1..MaxRecords)
      /\ Hooks!FirstRecord.made # 0 => /\ 1 \in DOMAIN records
                                       /\ Hooks!FirstRecord.made = records[1].made
                                       /\ Hooks!FirstRecord.done = records[1].done
  BY KeyTypes DEF HookInv
<1>5. copy'[d] = Hooks!FirstRecord /\ \A e \in Deliveries \ {d} : copy'[e] = copy[e]
  BY <1>1 DEF HookInv, HookTypes
<1>6. HookTypes'
  BY <1>1, <1>3, <1>4, <1>5 DEF HookInv, HookTypes
<1>7. \A m \in 1..MaxRecords : StoredIn(m) => StoredIn(m)'
  BY <1>1, <1>3, <1>4, <1>5 DEF StoredIn
<1>8. Hooks!LateAnswered'
  <2> SUFFICES ASSUME ~HookFaults, NEW e \in late PROVE place'[e] \in {"new", "check", "answered"}
    BY <1>1 DEF Hooks!LateAnswered
  <2>1. place[e] \in {"new", "check", "answered"} /\ e \in Deliveries
    BY DEF HookInv, Hooks!LateAnswered, HookTypes
  <2> QED
    BY <1>1, <1>3, <2>1
<1> QED
  BY <1>1, <1>6, <1>7, <1>8 DEF HookInv

(* A record is written: it is there, and the others are as they were.      *)
LEMMA WriteKeeps ==
    ASSUME HookTypes, NEW r \in KeyCopy, r.made \in 1..MaxRecords, records' = Hooks!Write(r)
    PROVE  /\ records' \in Seq(KeyRecord)
           /\ \E i \in DOMAIN records' : records'[i].made = r.made
           /\ \A i \in DOMAIN records' : records'[i].made = r.made => records'[i].done = r.done
           /\ \A m \in 1..MaxRecords \ {r.made} :
                /\ (\E i \in DOMAIN records : records[i].made = m) => \E i \in DOMAIN records' : records'[i].made = m
                /\ \A i \in DOMAIN records' : records'[i].made = m => i \in DOMAIN records /\ records'[i] = records[i]
<1>1. r.done \in BOOLEAN
  BY DEF KeyCopy
<1>2. CASE r.made \in Hooks!Made
  <2>1. /\ DOMAIN records' = DOMAIN records
        /\ records' = [i \in DOMAIN records |-> IF records[i].made = r.made
                                   THEN [records[i] EXCEPT !.done = r.done] ELSE records[i]]
    BY <1>2 DEF Hooks!Write
  <2>2. \A i \in DOMAIN records :
          /\ records[i] \in KeyRecord /\ records'[i] \in KeyRecord
          /\ records'[i].made = records[i].made
          /\ records[i].made = r.made => records'[i].done = r.done
          /\ records[i].made # r.made => records'[i] = records[i]
    <3>1. \A x \in KeyRecord : /\ [x EXCEPT !.done = r.done] \in KeyRecord
                               /\ [x EXCEPT !.done = r.done].made = x.made
                               /\ [x EXCEPT !.done = r.done].done = r.done
      BY <1>1 DEF KeyRecord
    <3>2. \A i \in DOMAIN records : records[i] \in KeyRecord
      BY DEF HookTypes
    <3>3. \A i \in DOMAIN records : records'[i] = IF records[i].made = r.made
                                                 THEN [records[i] EXCEPT !.done = r.done] ELSE records[i]
      BY <2>1
    <3> SUFFICES ASSUME NEW i \in DOMAIN records
                 PROVE  /\ records[i] \in KeyRecord /\ records'[i] \in KeyRecord
                        /\ records'[i].made = records[i].made
                        /\ records[i].made = r.made => records'[i].done = r.done
                        /\ records[i].made # r.made => records'[i] = records[i]
      OBVIOUS
    <3>4. CASE records[i].made = r.made
      <4>1. records[i] \in KeyRecord /\ records'[i] = [records[i] EXCEPT !.done = r.done]
        BY <3>2, <3>3, <3>4
      <4> QED
        BY <3>1, <3>4, <4>1
    <3>5. CASE records[i].made # r.made
      BY <3>2, <3>3, <3>5
    <3> QED
      BY <3>4, <3>5
  <2>3. records' \in Seq(KeyRecord)
    <3>1. DOMAIN records = 1..Len(records) /\ Len(records) \in Nat
      BY DEF HookTypes
    <3>2. /\ DOMAIN records' = 1..Len(records)
          /\ \A i \in 1..Len(records) : records'[i] \in KeyRecord
      BY <2>1, <2>2, <3>1
    <3>3. records' = [i \in 1..Len(records) |-> records'[i]]
      BY <2>1, <3>1
    <3> QED
      BY <3>1, <3>2, <3>3
  <2>4. \E i \in DOMAIN records : records[i].made = r.made
    BY <1>2 DEF Hooks!Made
  <2> QED
    BY <2>1, <2>2, <2>3, <2>4
<1>3. CASE r.made \notin Hooks!Made
  <2> DEFINE x == [done |-> r.done, old |-> TRUE, made |-> r.made]
  <2>1. records' = Append(records, x) /\ x \in KeyRecord /\ x.made = r.made /\ x.done = r.done
    BY <1>1, <1>3 DEF Hooks!Write, Hooks!Again, KeyRecord
  <2> HIDE DEF x
  <2>2. \A i \in DOMAIN records : records[i].made # r.made
    BY <1>3 DEF Hooks!Made
  <2>3. /\ records' \in Seq(KeyRecord) /\ DOMAIN records' = DOMAIN records \cup {Len(records) + 1}
        /\ records'[Len(records) + 1] = x /\ \A i \in DOMAIN records : records'[i] = records[i]
        /\ Len(records) + 1 \notin DOMAIN records
    BY <2>1 DEF HookTypes
  <2> QED
    BY <2>1, <2>2, <2>3
<1> QED
  BY <1>2, <1>3

(* A copy is saved: a response that was stored is not lost by it.          *)
LEMMA KeySaveStep ==
    ASSUME Hooks!Assumptions, HookInv, NEW d \in Deliveries, Hooks!Save(d)
    PROVE  HookInv'
<1>1. /\ UNCHANGED <<copy, stored, late>> /\ place[d] = "save" /\ Hooks!GoesOn(d, "work")
  BY DEF Hooks!Save
<1>2. /\ place' \in [Deliveries -> Hooks!Places] /\ place'[d] = "work"
      /\ \A e \in Deliveries \ {d} : place'[e] = place[e]
  BY <1>1, PlaceMoves DEF HookInv, Hooks!Places
<1>3. /\ records' \in Seq(KeyRecord)
      /\ \A m \in 1..MaxRecords : StoredIn(m) =>
            /\ \E i \in DOMAIN records' : records'[i].made = m
            /\ \A i \in DOMAIN records' : records'[i].made = m => records'[i].done
  <2>1. CASE copy[d] # Hooks!NoCopy /\ records' = Hooks!Write(copy[d])
    <3>1. copy[d] \in KeyCopy /\ copy[d].made \in 1..MaxRecords
      BY <2>1 DEF HookInv, HookTypes
    <3> DEFINE r == copy[d]
    <3>2. /\ records' \in Seq(KeyRecord)
          /\ \E i \in DOMAIN records' : records'[i].made = r.made
          /\ \A i \in DOMAIN records' : records'[i].made = r.made => records'[i].done = r.done
          /\ \A m \in 1..MaxRecords \ {r.made} :
               /\ (\E i \in DOMAIN records : records[i].made = m) => \E i \in DOMAIN records' : records'[i].made = m
               /\ \A i \in DOMAIN records' : records'[i].made = m => i \in DOMAIN records /\ records'[i] = records[i]
      BY <2>1, <3>1, WriteKeeps DEF HookInv
    <3>3. \A m \in 1..MaxRecords : StoredIn(m) /\ m = r.made => r.done
      BY <1>1 DEF StoredIn
    <3> QED
      BY <3>2, <3>3 DEF StoredIn
  <2>2. CASE \E m \in 1..MaxRecords \ Hooks!Made :
            records' = Append(records, [done |-> FALSE, old |-> FALSE, made |-> m])
    <3>1. PICK k \in 1..MaxRecords \ Hooks!Made :
              records' = Append(records, [done |-> FALSE, old |-> FALSE, made |-> k])
      BY <2>2
    <3> DEFINE x == [done |-> FALSE, old |-> FALSE, made |-> k]
    <3>2. records' = Append(records, x) /\ x \in KeyRecord /\ x.made = k
      BY <3>1 DEF KeyRecord
    <3> HIDE DEF x
    <3>3. /\ records' \in Seq(KeyRecord) /\ DOMAIN records' = DOMAIN records \cup {Len(records) + 1}
          /\ records'[Len(records) + 1] = x /\ \A i \in DOMAIN records : records'[i] = records[i]
      BY <3>2 DEF HookInv, HookTypes
    <3>4. \A i \in DOMAIN records : records[i].made # k
      BY DEF Hooks!Made
    <3> QED
      BY <3>2, <3>3, <3>4 DEF StoredIn
  <2> QED
    BY <2>1, <2>2 DEF Hooks!Save
<1>4. HookTypes'
  BY <1>1, <1>2, <1>3 DEF HookInv, HookTypes
<1>5. \A m \in 1..MaxRecords : StoredIn(m) => StoredIn(m)'
  BY <1>1, <1>2, <1>3 DEF StoredIn
<1>6. Hooks!LateAnswered'
  <2> SUFFICES ASSUME ~HookFaults, NEW e \in late PROVE place'[e] \in {"new", "check", "answered"}
    BY <1>1 DEF Hooks!LateAnswered
  <2>1. place[e] \in {"new", "check", "answered"} /\ e \in Deliveries
    BY DEF HookInv, Hooks!LateAnswered, HookTypes
  <2> QED
    BY <1>1, <1>2, <2>1
<1> QED
  BY <1>1, <1>4, <1>5, <1>6 DEF HookInv

(* The response is stored.                                                 *)
LEMMA KeyMarkStep ==
    ASSUME Hooks!Assumptions, HookInv, NEW d \in Deliveries, Hooks!Mark(d)
    PROVE  HookInv'
<1>1. /\ UNCHANGED <<copy, late>> /\ place[d] = "marked" /\ Hooks!GoesOn(d, "answered")
  BY DEF Hooks!Mark
<1>2. /\ place' \in [Deliveries -> Hooks!Places] /\ place'[d] = "answered"
      /\ \A e \in Deliveries \ {d} : place'[e] = place[e]
  BY <1>1, PlaceMoves DEF HookInv, Hooks!Places
<1>3. Hooks!LateAnswered'
  <2> SUFFICES ASSUME ~HookFaults, NEW e \in late PROVE place'[e] \in {"new", "check", "answered"}
    BY <1>1 DEF Hooks!LateAnswered
  <2>1. place[e] \in {"new", "check", "answered"} /\ e \in Deliveries
    BY DEF HookInv, Hooks!LateAnswered, HookTypes
  <2> QED
    BY <1>1, <1>2, <2>1
<1>4. CASE UNCHANGED <<records, stored>>
  <2>1. HookTypes'
    BY <1>1, <1>2, <1>4 DEF HookInv, HookTypes
  <2>2. \A m \in 1..MaxRecords : StoredIn(m) => StoredIn(m)'
    BY <1>1, <1>2, <1>4 DEF StoredIn
  <2> QED
    BY <1>1, <1>3, <1>4, <2>1, <2>2 DEF HookInv
<1>5. CASE /\ copy[d] # Hooks!NoCopy /\ records' = Hooks!Write([copy[d] EXCEPT !.done = TRUE])
           /\ stored' = \A e \in Deliveries : place[e] # "save"
  <2> DEFINE r == [copy[d] EXCEPT !.done = TRUE]
  <2>1. copy[d] \in KeyCopy /\ copy[d].made \in 1..MaxRecords
    BY <1>5 DEF HookInv, HookTypes
  <2>2. r \in KeyCopy /\ r.made = copy[d].made /\ r.done = TRUE
    BY <2>1 DEF KeyCopy
  <2>3. records' = Hooks!Write(r)
    BY <1>5
  <2> HIDE DEF r
  <2>4. /\ records' \in Seq(KeyRecord)
        /\ \E i \in DOMAIN records' : records'[i].made = r.made
        /\ \A i \in DOMAIN records' : records'[i].made = r.made => records'[i].done = r.done
        /\ \A m \in 1..MaxRecords \ {r.made} :
             /\ (\E i \in DOMAIN records : records[i].made = m) => \E i \in DOMAIN records' : records'[i].made = m
             /\ \A i \in DOMAIN records' : records'[i].made = m => i \in DOMAIN records /\ records'[i] = records[i]
    BY <2>1, <2>2, <2>3, WriteKeeps DEF HookInv
  <2>5. PICK b \in BOOLEAN : b = (\A e \in Deliveries : place[e] # "save")
    <3> (\A e \in Deliveries : place[e] # "save") \in BOOLEAN
      OBVIOUS
    <3> WITNESS (\A e \in Deliveries : place[e] # "save") \in BOOLEAN
    <3> QED
      OBVIOUS
  <2>6. stored' = b
    BY <1>5, <2>5
  <2>7. HookTypes'
    BY <1>1, <1>2, <2>4, <2>6 DEF HookInv, HookTypes
  <2>8. \A m \in 1..MaxRecords : StoredIn(m) => StoredIn(m)'
    BY <1>1, <1>2, <2>2, <2>4 DEF StoredIn
  <2>9. b => \E k \in 1..MaxRecords : StoredIn(k)'
    <3>1. PICK k \in 1..MaxRecords : k = r.made
      BY <2>1, <2>2
    <3>2. /\ \E i \in DOMAIN records' : records'[i].made = k
          /\ \A i \in DOMAIN records' : records'[i].made = k => records'[i].done
      BY <2>2, <2>4, <3>1
    <3>3. b => \A e \in Deliveries : place'[e] # "save"
      BY <1>1, <1>2, <2>5
    <3> QED
      BY <3>2, <3>3 DEF StoredIn
  <2> QED
    BY <1>1, <1>3, <2>1, <2>2, <2>6, <2>7, <2>8, <2>9 DEF HookInv
<1> QED
  BY <1>4, <1>5 DEF Hooks!Mark

(* Time passes, and a record that expired is deleted.                      *)
LEMMA KeyAgeStep == ASSUME HookInv, Hooks!Age PROVE HookInv'
<1>1. UNCHANGED <<place, copy, stored, late>>
  BY DEF Hooks!Age
<1>2. \/ UNCHANGED records
      \/ \E i \in DOMAIN records : records' = [records EXCEPT ![i].old = TRUE]
  BY DEF Hooks!Age
<1>3. /\ records' \in Seq(KeyRecord) /\ DOMAIN records' = DOMAIN records
      /\ \A i \in DOMAIN records : records'[i].made = records[i].made /\ records'[i].done = records[i].done
  <2>1. CASE UNCHANGED records
    BY <2>1 DEF HookInv, HookTypes
  <2>2. ASSUME NEW i \in DOMAIN records, records' = [records EXCEPT ![i].old = TRUE]
        PROVE  /\ records' \in Seq(KeyRecord) /\ DOMAIN records' = DOMAIN records
               /\ \A j \in DOMAIN records : records'[j].made = records[j].made /\ records'[j].done = records[j].done
    <3>1. records[i] \in KeyRecord
      BY DEF HookInv, HookTypes
    <3>2. /\ [records[i] EXCEPT !.old = TRUE] \in KeyRecord
          /\ [records[i] EXCEPT !.old = TRUE].made = records[i].made
          /\ [records[i] EXCEPT !.old = TRUE].done = records[i].done
      BY <3>1 DEF KeyRecord
    <3>3. records' = [records EXCEPT ![i] = [records[i] EXCEPT !.old = TRUE]]
      BY <2>2
    <3> QED
      BY <3>2, <3>3 DEF HookInv, HookTypes
  <2> QED
    BY <1>2, <2>1, <2>2
<1>4. HookTypes' /\ Hooks!LateAnswered'
  BY <1>1, <1>3 DEF HookInv, HookTypes, Hooks!LateAnswered
<1>5. \A m \in 1..MaxRecords : StoredIn(m) => StoredIn(m)'
  BY <1>1, <1>3 DEF StoredIn
<1> QED
  BY <1>1, <1>4, <1>5 DEF HookInv

LEMMA KeyCleanStep == ASSUME HookInv, Hooks!cleanup_expired_webhook_data PROVE HookInv'
<1>1. UNCHANGED <<place, copy>> /\ stored' = FALSE /\ late' = {}
  BY DEF Hooks!cleanup_expired_webhook_data
<1>2. PICK i \in DOMAIN records : records' = Hooks!Without(i)
  BY DEF Hooks!cleanup_expired_webhook_data
<1>3. records \in Seq(KeyRecord)
  BY DEF HookInv, HookTypes
<1>4. records' \in Seq(KeyRecord)
  <2>1. Len(records) \in Nat /\ DOMAIN records = 1..Len(records) /\ i \in 1..Len(records)
    BY <1>3
  <2>2. \A j \in 1..(Len(records) - 1) : (IF j < i THEN records[j] ELSE records[j + 1]) \in KeyRecord
    <3> SUFFICES ASSUME NEW j \in 1..(Len(records) - 1) PROVE records[j] \in KeyRecord /\ records[j + 1] \in KeyRecord
      OBVIOUS
    <3>1. j \in DOMAIN records /\ j + 1 \in DOMAIN records
      BY <2>1
    <3> QED
      BY <1>3, <3>1
  <2>3. Len(records) - 1 \in Nat
    BY <2>1
  <2>4. records' \in [1..(Len(records) - 1) -> KeyRecord]
    BY <1>2, <2>2 DEF Hooks!Without
  <2> QED
    BY <2>3, <2>4
<1>5. HookTypes' /\ Hooks!LateAnswered'
  BY <1>1, <1>4 DEF HookInv, HookTypes, Hooks!LateAnswered
<1> QED
  BY <1>1, <1>5 DEF HookInv

LEMMA HookStep == ASSUME Hooks!Assumptions PROVE HookInv /\ [Hooks!Next]_(Hooks!vars) => HookInv'
<1> SUFFICES ASSUME HookInv, [Hooks!Next]_(Hooks!vars) PROVE HookInv'
  OBVIOUS
<1>1. CASE UNCHANGED Hooks!vars
  BY <1>1 DEF Hooks!vars, HookInv, HookTypes, StoredIn, Hooks!LateAnswered
<1> QED
  BY <1>1, HookPlainStep, KeyReadStep, KeySaveStep, KeyMarkStep, KeyAgeStep,
      KeyCleanStep DEF Hooks!Next

(* However deliveries of a request interleave with the handlers and the    *)
(* cleanup, one made after a response was stored is answered               *)
(* (api/integrations/webhooks/middleware.py:196).                          *)
THEOREM RepeatsAnswered == Hooks!Assumptions => (Hooks!Spec => []LateAnswered)
<1> SUFFICES ASSUME Hooks!Assumptions PROVE Hooks!Spec => []LateAnswered
  OBVIOUS
<1>1. Hooks!Init => HookInv
  BY HooksInit
<1>2. HookInv /\ [Hooks!Next]_(Hooks!vars) => HookInv'
  BY HookStep
<1>3. HookInv => LateAnswered
  BY DEF HookInv, LateAnswered
<1> QED
  BY <1>1, <1>2, <1>3, PTL DEF Hooks!Spec
-----------------------------------------------------------------------------
(* Scheduler.  A run that was submitted has its task.                      *)
Future == [of : Tasks \cup {None}, st : {"new", "queued", "running", "ran", "done", "cancelled"}]
JobTypes ==
    /\ event \in {"none", "clear", "set"} /\ stop \in {"done", "join", "cancel", "clear"}
    /\ at \in [Threads -> {"off", "wait", "picked", "submitted"}]
    /\ due \in [Threads -> SUBSET Tasks] /\ jobs \subseteq Tasks
    /\ task \in [Threads -> Tasks \cup {None}]
    /\ future \in [Threads -> Jobs!Runs \cup {None}]
    /\ pool \in [Jobs!Runs -> Future]
    /\ queue \in Seq(Jobs!Runs) /\ running \in [Jobs!Ids -> Jobs!Runs \cup {None}]
    /\ \A t \in Threads : /\ at[t] \in {"picked", "submitted"} => task[t] \in Tasks
                          /\ at[t] = "submitted" => future[t] \in Jobs!Runs
    /\ \A r \in Jobs!Runs : pool[r].st # "new" => pool[r].of \in Tasks

(* The thread started last is the only one, if stop waits for it to end or *)
(* start is not called again.                                              *)
ThreadsApart ==
    /\ event = "none" => \A t \in Threads : at[t] = "off"
    /\ event # "none" => thread \in Threads
    /\ event = "clear" => at[thread] # "off"
    /\ stop # "done" => event = "set"
    /\ ~Overruns /\ event = "set" /\ stop # "join" => \A t \in Threads : at[t] = "off"
    /\ ~Overruns \/ ~Restarts => \A t \in Threads : at[t] # "off" => t = thread

(* Until stop has gone through what is recorded, a run of an id that       *)
(* allows one, from its submission to the removal of its entry, is the     *)
(* only one, and is recorded or about to be.                               *)
Begun(i) == {r \in Jobs!Runs : pool[r].st \in {"queued", "running", "ran"} /\ IdOf[pool[r].of] = i}
Handles(t, i) == at[t] # "off" /\ task[t] # None /\ IdOf[task[t]] = i
Recording(i) ==
    /\ \A r, s \in Begun(i) : r = s
    /\ \A r \in Begun(i) : running[i] = r \/ \E t \in Threads : at[t] = "submitted" /\ future[t] = r /\ Handles(t, i)
    /\ \A t \in Threads : Handles(t, i) =>
        /\ at[t] = "picked" => Begun(i) = {}
        /\ at[t] = "submitted" => Begun(i) \subseteq {future[t]}
Recordings ==
    ~Restarts /\ (event # "set" \/ stop \in {"join", "cancel"}) =>
        \A i \in Jobs!Ids : Jobs!Single(i) => Recording(i)
JobsCancelled ==
    ~Restarts /\ ~Overruns /\ event = "set" /\ stop \in {"clear", "done"} =>
        \A r \in Jobs!Runs : pool[r].st = "queued" => ~Jobs!Single(IdOf[pool[r].of])
JobInv == JobTypes /\ ThreadsApart /\ Recordings /\ JobsCancelled
-----------------------------------------------------------------------------
LEMMA JobsInit == Jobs!Init => JobInv
<1> SUFFICES ASSUME Jobs!Init PROVE JobInv
  OBVIOUS
<1>1. [of |-> None, st |-> "new"] \in Future /\ [of |-> None, st |-> "new"].st = "new"
  BY DEF Future
<1>2. pool \in [Jobs!Runs -> Future] /\ \A r \in Jobs!Runs : pool[r].st = "new"
  BY <1>1 DEF Jobs!Init
<1>3. JobTypes
  BY <1>2 DEF Jobs!Init, JobTypes
<1>4. ThreadsApart /\ JobsCancelled
  BY DEF Jobs!Init, ThreadsApart, JobsCancelled
<1>5. Recordings
  BY <1>2 DEF Jobs!Init, Recordings, Recording, Begun, Handles
<1> QED
  BY <1>3, <1>4, <1>5 DEF JobInv

LEMMA JobsHold == JobInv => Jobs!Orderly
<1> SUFFICES ASSUME JobInv PROVE Jobs!Orderly
  OBVIOUS
<1>1. Jobs!OneAtATime
  BY DEF JobInv, Recordings, Recording, Begun, Jobs!Active, Jobs!OneAtATime
<1>2. Jobs!StoppedStays
  BY DEF JobInv, JobsCancelled, Jobs!StoppedStays
<1>3. Jobs!OneThread
  BY DEF JobInv, ThreadsApart, Jobs!OneThread
<1> QED
  BY <1>1, <1>2, <1>3 DEF Jobs!Orderly

(* The caller registers tasks and switches them.                           *)
LEMMA TableStep ==
    ASSUME JobInv, jobs' \subseteq Tasks,
           UNCHANGED <<event, stop, thread, at, due, task, future, pool, queue, running>>
    PROVE  JobInv'
<1>1. JobTypes' /\ ThreadsApart' /\ JobsCancelled'
  BY DEF JobInv, JobTypes, ThreadsApart, JobsCancelled
<1>2. \A i : Begun(i)' = Begun(i) /\ \A t \in Threads : Handles(t, i)' <=> Handles(t, i)
  BY DEF Begun, Handles
<1>3. Recordings'
  BY <1>2 DEF JobInv, Recordings, Recording
<1> QED
  BY <1>1, <1>3 DEF JobInv

(* What a run of the pool goes through leaves its task.                    *)
LEMMA PoolStep ==
    ASSUME JobInv, UNCHANGED <<event, stop, thread, jobs, at, due, task, future, running>>,
           pool' \in [Jobs!Runs -> Future], queue' \in Seq(Jobs!Runs),
           \A r \in Jobs!Runs : /\ pool'[r].of = pool[r].of
                                /\ pool'[r].st \in {"queued", "running", "ran"} <=> pool[r].st \in {"queued", "running", "ran"}
                                /\ pool'[r].st = "queued" => pool[r].st = "queued"
                                /\ pool'[r].st # "new" => pool[r].st # "new"
    PROVE  JobInv'
<1>1. JobTypes'
  BY DEF JobInv, JobTypes
<1>2. ThreadsApart' /\ JobsCancelled'
  BY DEF JobInv, ThreadsApart, JobsCancelled
<1>3. \A i : Begun(i)' = Begun(i) /\ \A t \in Threads : Handles(t, i)' <=> Handles(t, i)
  BY DEF Begun, Handles
<1>4. Recordings'
  BY <1>3 DEF JobInv, Recordings, Recording
<1> QED
  BY <1>1, <1>2, <1>4 DEF JobInv

LEMMA TakeStep == ASSUME JobInv, Jobs!TakeFirst PROVE JobInv'
<1> DEFINE r == Head(queue)
           To(x) == IF x.st = "queued" THEN [x EXCEPT !.st = "running"] ELSE [x EXCEPT !.st = x.st]
<1>1. queue \in Seq(Jobs!Runs) /\ queue # << >> /\ r \in Jobs!Runs /\ queue' \in Seq(Jobs!Runs)
  BY DEF JobInv, JobTypes, Jobs!TakeFirst
<1>2. \A x \in Future : /\ To(x) \in Future /\ To(x).of = x.of
                        /\ To(x).st \in {"queued", "running", "ran"} <=> x.st \in {"queued", "running", "ran"}
                        /\ To(x).st # "queued" /\ (To(x).st # "new" => x.st # "new")
  BY DEF Future
<1>3. pool \in [Jobs!Runs -> Future]
  BY DEF JobInv, JobTypes
<1>4. pool' = [pool EXCEPT ![r] = To(pool[r])]
  BY DEF Jobs!TakeFirst
<1> HIDE DEF To, r
<1>5. pool' \in [Jobs!Runs -> Future]
  BY <1>1, <1>2, <1>3, <1>4
<1>6. \A s \in Jobs!Runs : pool'[s] = IF s = r THEN To(pool[s]) ELSE pool[s]
  BY <1>1, <1>3, <1>4
<1>7. \A s \in Jobs!Runs : /\ pool'[s].of = pool[s].of
                           /\ pool'[s].st \in {"queued", "running", "ran"} <=> pool[s].st \in {"queued", "running", "ran"}
                           /\ pool'[s].st = "queued" => pool[s].st = "queued"
                           /\ pool'[s].st # "new" => pool[s].st # "new"
  BY <1>2, <1>3, <1>6
<1> QED
  BY <1>1, <1>5, <1>7, PoolStep DEF Jobs!TakeFirst, Jobs!service, Jobs!threads

LEMMA JobEndStep == ASSUME JobInv, NEW r \in Jobs!Runs, Jobs!RunEnds(r) PROVE JobInv'
<1>1. pool \in [Jobs!Runs -> Future] /\ queue \in Seq(Jobs!Runs)
  BY DEF JobInv, JobTypes
<1>2. \A x \in Future : /\ [x EXCEPT !.st = "ran"] \in Future
                        /\ [x EXCEPT !.st = "ran"].of = x.of /\ [x EXCEPT !.st = "ran"].st = "ran"
  BY DEF Future
<1>3. pool' = [pool EXCEPT ![r] = [pool[r] EXCEPT !.st = "ran"]] /\ pool[r].st = "running"
  BY DEF Jobs!RunEnds
<1>4. pool' \in [Jobs!Runs -> Future]
  BY <1>1, <1>2, <1>3
<1>5. /\ pool'[r].of = pool[r].of /\ pool'[r].st = "ran"
      /\ \A s \in Jobs!Runs \ {r} : pool'[s] = pool[s]
  BY <1>1, <1>2, <1>3
<1>6. \A s \in Jobs!Runs : /\ pool'[s].of = pool[s].of
                           /\ pool'[s].st \in {"queued", "running", "ran"} <=> pool[s].st \in {"queued", "running", "ran"}
                           /\ pool'[s].st = "queued" => pool[s].st = "queued"
                           /\ pool'[s].st # "new" => pool[s].st # "new"
  BY <1>3, <1>5
<1> QED
  BY <1>1, <1>4, <1>6, PoolStep DEF Jobs!RunEnds, Jobs!service, Jobs!threads

(* The entry goes with the run; it was the only one of its id.             *)
LEMMA PopStep == ASSUME JobInv, NEW r \in Jobs!Runs, Jobs!Pop(r) PROVE JobInv'
<1>0. PICK k : k = IdOf[pool[r].of]
  OBVIOUS
<1>1. pool \in [Jobs!Runs -> Future] /\ pool[r].st = "ran" /\ pool[r].of \in Tasks
  BY DEF JobInv, JobTypes, Jobs!Pop
<1>2. \A x \in Future : /\ [x EXCEPT !.st = "done"] \in Future
                        /\ [x EXCEPT !.st = "done"].of = x.of /\ [x EXCEPT !.st = "done"].st = "done"
  BY DEF Future
<1>3. pool' = [pool EXCEPT ![r] = [pool[r] EXCEPT !.st = "done"]]
  BY DEF Jobs!Pop
<1>4. /\ pool' \in [Jobs!Runs -> Future] /\ pool'[r].st = "done" /\ pool'[r].of = pool[r].of
      /\ \A s \in Jobs!Runs \ {r} : pool'[s] = pool[s]
  BY <1>1, <1>2, <1>3
<1>5. k \in Jobs!Ids
  BY <1>0, <1>1 DEF Jobs!Ids
<1>6. running' = [running EXCEPT ![k] = None] /\ running \in [Jobs!Ids -> Jobs!Runs \cup {None}]
  BY <1>0 DEF Jobs!Pop, JobInv, JobTypes
<1>7. JobTypes'
  <2>1. /\ UNCHANGED <<event, stop, at, due, jobs, task, future, queue>>
        /\ running' \in [Jobs!Ids -> Jobs!Runs \cup {None}]
    BY <1>6 DEF Jobs!Pop, Jobs!service, Jobs!threads
  <2>2. \A s \in Jobs!Runs : pool'[s].st # "new" => pool'[s].of \in Tasks
    BY <1>1, <1>4 DEF JobInv, JobTypes
  <2> QED
    BY <1>4, <2>1, <2>2 DEF JobInv, JobTypes
<1>8. ThreadsApart'
  BY DEF Jobs!Pop, Jobs!service, Jobs!threads, JobInv, ThreadsApart
<1>9. JobsCancelled'
  BY <1>4 DEF Jobs!Pop, Jobs!service, Jobs!threads, JobInv, JobsCancelled
<1>10. r \in Begun(k) /\ \A i \in Jobs!Ids : Begun(i)' = IF i = k THEN Begun(k) \ {r} ELSE Begun(i)
  BY <1>0, <1>1, <1>4 DEF Begun
<1>11. \A i \in Jobs!Ids \ {k} : running'[i] = running[i]
  BY <1>6
<1>12. \A i \in Jobs!Ids : \A t \in Threads : Handles(t, i)' <=> Handles(t, i)
  BY DEF Handles, Jobs!Pop, Jobs!threads
<1>13. Recordings'
  <2> SUFFICES ASSUME ~Restarts, event # "set" \/ stop \in {"join", "cancel"},
                      NEW i \in Jobs!Ids, Jobs!Single(i)
               PROVE Recording(i)'
    BY DEF Recordings, Jobs!Pop, Jobs!service, Jobs!Single
  <2>1. Recording(i)
    BY DEF JobInv, Recordings
  <2>2. CASE i = k
    <3>1. Begun(i)' = {}
      BY <1>10, <2>1, <2>2 DEF Recording
    <3> QED
      BY <3>1 DEF Recording
  <2>3. CASE i # k
    BY <1>10, <1>11, <1>12, <2>1, <2>3 DEF Recording, Jobs!Pop, Jobs!threads
  <2> QED
    BY <2>2, <2>3
<1> QED
  BY <1>7, <1>8, <1>9, <1>13 DEF JobInv

(* A caller's step that leaves the pool alone, and what is recorded: the   *)
(* threads that are at a task are the same.                                *)
LEMMA SettingStep ==
    ASSUME JobInv, UNCHANGED <<jobs, due, task, future, pool, queue, running>>,
           JobTypes', ThreadsApart', JobsCancelled',
           \A t \in Threads : at'[t] \in {"picked", "submitted"} \/ at[t] \in {"picked", "submitted"} => at'[t] = at[t],
           (event' # "set" \/ stop' \in {"join", "cancel"}) /\ ~Restarts => event # "set" \/ stop \in {"join", "cancel"}
    PROVE  JobInv'
<1>1. \A i : Begun(i)' = Begun(i)
  BY DEF Begun
<1>2. \A i : \A t \in Threads :
        at'[t] \in {"picked", "submitted"} => at[t] = at'[t] /\ (Handles(t, i)' <=> Handles(t, i))
  BY DEF Handles
<1>3. Recordings'
  <2> SUFFICES ASSUME ~Restarts, event' # "set" \/ stop' \in {"join", "cancel"},
                      NEW i \in Jobs!Ids, Jobs!Single(i)
               PROVE Recording(i)'
    BY DEF Recordings, Jobs!Single
  <2>1. Recording(i)
    BY DEF JobInv, Recordings
  <2>2. \A r \in Begun(i) : running'[i] = r \/ \E t \in Threads :
          at'[t] = "submitted" /\ future'[t] = r /\ Handles(t, i)'
    <3> SUFFICES ASSUME NEW r \in Begun(i), running[i] # r
                 PROVE \E t \in Threads : at'[t] = "submitted" /\ future[t] = r /\ Handles(t, i)'
      OBVIOUS
    <3>1. PICK t \in Threads : at[t] = "submitted" /\ future[t] = r /\ Handles(t, i)
      BY <2>1 DEF Recording
    <3> QED
      BY <1>2, <3>1
  <2>3. \A t \in Threads : Handles(t, i)' =>
          /\ at'[t] = "picked" => Begun(i) = {}
          /\ at'[t] = "submitted" => Begun(i) \subseteq {future[t]}
    BY <1>2, <2>1 DEF Recording
  <2> QED
    BY <1>1, <2>1, <2>2, <2>3 DEF Recording
<1> QED
  BY <1>3 DEF JobInv

LEMMA JobStartStep == ASSUME Jobs!Assumptions, JobInv, NEW t \in Threads, Jobs!start(t) PROVE JobInv'
<1>1. /\ stop = "done" /\ at[t] = "off" /\ at' = [at EXCEPT ![t] = "wait"]
      /\ event' = "clear" /\ thread' = t
      /\ UNCHANGED <<stop, jobs, due, task, future, pool, queue, running>>
      /\ (event = "none" \/ Restarts)
  BY DEF Jobs!start
<1>2. at'[t] = "wait" /\ \A u \in Threads \ {t} : at'[u] = at[u]
  BY <1>1 DEF JobInv, JobTypes
<1>3. JobTypes'
  BY <1>1, <1>2 DEF JobInv, JobTypes
<1>4. ~Overruns \/ ~Restarts => \A u \in Threads : at[u] = "off"
  <2> SUFFICES ASSUME ~Overruns \/ ~Restarts, NEW u \in Threads, at[u] # "off" PROVE FALSE
    OBVIOUS
  <2>1. event # "none" /\ u = thread /\ Restarts /\ ~Overruns
    BY <1>1 DEF JobInv, ThreadsApart
  <2>2. event = "clear"
    BY <1>1, <2>1 DEF JobInv, JobTypes, ThreadsApart
  <2>3. thread # None
    BY <2>1 DEF JobInv, ThreadsApart, Jobs!Assumptions
  <2> QED
    BY <2>1, <2>2, <2>3 DEF Jobs!start, Jobs!is_running
<1>5. ThreadsApart'
  BY <1>1, <1>2, <1>4 DEF JobInv, ThreadsApart
<1>6. JobsCancelled'
  BY <1>1 DEF JobsCancelled
<1> QED
  BY <1>1, <1>2, <1>3, <1>5, <1>6, SettingStep DEF JobInv, JobTypes, ThreadsApart

LEMMA JobStopStep == ASSUME JobInv, Jobs!stop_begin \/ Jobs!Joined PROVE JobInv'
<1>1. /\ UNCHANGED <<jobs, thread, at, due, task, future, pool, queue, running>> /\ event' = "set"
      /\ \/ stop = "done" /\ event = "clear" /\ stop' = "join"
         \/ stop = "join" /\ event = "set" /\ stop' = "cancel" /\ (Overruns \/ at[thread] = "off")
  BY DEF Jobs!stop_begin, Jobs!Joined, Jobs!threads, JobInv, ThreadsApart
<1>2. JobTypes'
  BY <1>1 DEF JobInv, JobTypes
<1>3. ThreadsApart'
  BY <1>1 DEF JobInv, ThreadsApart
<1>4. JobsCancelled'
  BY <1>1 DEF JobsCancelled
<1> QED
  BY <1>1, <1>2, <1>3, <1>4, SettingStep

(* When all threads are off, every run of an id that allows one is         *)
(* recorded, so stop cancels it if it is queued.                           *)
LEMMA CancelStep == ASSUME Jobs!Assumptions, JobInv, Jobs!CancelQueued PROVE JobInv'
<1> DEFINE To(r) == IF r \in Jobs!Recorded /\ pool[r].st = "queued"
                    THEN [pool[r] EXCEPT !.st = "cancelled"] ELSE pool[r]
<1>1. pool \in [Jobs!Runs -> Future] /\ event = "set"
  BY DEF JobInv, JobTypes, ThreadsApart, Jobs!CancelQueued
<1>2. \A x \in Future : /\ [x EXCEPT !.st = "cancelled"] \in Future
                        /\ [x EXCEPT !.st = "cancelled"].of = x.of
                        /\ [x EXCEPT !.st = "cancelled"].st = "cancelled"
  BY DEF Future
<1>3. pool' = [r \in Jobs!Runs |-> To(r)]
  BY DEF Jobs!CancelQueued
<1>4. \A r \in Jobs!Runs : /\ To(r) \in Future /\ To(r).of = pool[r].of
                           /\ To(r).st # "new" => pool[r].st # "new"
                           /\ To(r).st = "queued" => pool[r].st = "queued" /\ r \notin Jobs!Recorded
  BY <1>1, <1>2
<1> HIDE DEF To
<1>5. pool' \in [Jobs!Runs -> Future] /\ \A r \in Jobs!Runs : pool'[r] = To(r)
  BY <1>3, <1>4
<1>6. JobTypes'
  BY <1>4, <1>5 DEF JobInv, JobTypes, Jobs!CancelQueued, Jobs!threads
<1>7. ThreadsApart'
  BY DEF JobInv, ThreadsApart, Jobs!CancelQueued, Jobs!threads
<1>8. Recordings'
  BY <1>1 DEF Recordings, Jobs!CancelQueued
<1>9. JobsCancelled'
  <2> SUFFICES ASSUME ~Restarts, ~Overruns, NEW r \in Jobs!Runs, pool'[r].st = "queued",
                      Jobs!Single(IdOf[pool'[r].of])
               PROVE FALSE
    BY DEF JobsCancelled, Jobs!Single
  <2>1. pool[r].st = "queued" /\ r \notin Jobs!Recorded /\ pool[r].of = pool'[r].of
    BY <1>4, <1>5
  <2>2. \A t \in Threads : at[t] = "off"
    BY <1>1 DEF JobInv, ThreadsApart, Jobs!CancelQueued
  <2> DEFINE i == IdOf[pool[r].of]
  <2>3. i \in Jobs!Ids /\ r \in Begun(i) /\ Jobs!Single(i)
    BY <2>1 DEF JobInv, JobTypes, Jobs!Ids, Begun
  <2>4. Recording(i)
    BY <2>3 DEF JobInv, Recordings, Jobs!CancelQueued
  <2>5. running[i] = r
    BY <2>2, <2>3, <2>4 DEF Recording
  <2> QED
    BY <2>1, <2>3, <2>5 DEF Jobs!Recorded, Jobs!Assumptions
<1> QED
  BY <1>6, <1>7, <1>8, <1>9 DEF JobInv

LEMMA ClearStep == ASSUME JobInv, Jobs!ClearRunning PROVE JobInv'
<1>1. event = "set" /\ event' = "set" /\ stop = "clear" /\ stop' = "done"
  BY DEF JobInv, ThreadsApart, Jobs!ClearRunning
<1>2. JobTypes'
  BY DEF JobInv, JobTypes, Jobs!ClearRunning, Jobs!threads
<1>3. ThreadsApart' /\ Recordings' /\ JobsCancelled'
  BY <1>1 DEF JobInv, ThreadsApart, Recordings, JobsCancelled, Jobs!ClearRunning, Jobs!threads
<1> QED
  BY <1>2, <1>3 DEF JobInv

(* The thread wakes, finds jobs due, leaves; none of it is at a task.      *)
LEMMA JobWaitStep == ASSUME JobInv, NEW t \in Threads, Jobs!Wake(t) \/ Jobs!Leave(t) PROVE JobInv'
<1>1. /\ UNCHANGED <<event, stop, thread, jobs, task, future, pool, queue, running>> /\ at[t] = "wait"
      /\ due' \in [Threads -> SUBSET Tasks]
      /\ \/ at' = at /\ event = "clear"
         \/ at' = [at EXCEPT ![t] = "off"] /\ event = "set"
  BY DEF Jobs!Wake, Jobs!Leave, Jobs!service, JobInv, JobTypes
<1>2. /\ \A u \in Threads : at'[u] = at[u] \/ (u = t /\ at'[u] = "off" /\ event = "set")
      /\ at' \in [Threads -> {"off", "wait", "picked", "submitted"}]
  BY <1>1 DEF JobInv, JobTypes
<1>3. JobTypes'
  BY <1>1, <1>2 DEF JobInv, JobTypes
<1>4. ThreadsApart' /\ JobsCancelled'
  BY <1>1, <1>2 DEF JobInv, ThreadsApart, JobsCancelled
<1>5. \A i : Begun(i)' = Begun(i)
  BY <1>1 DEF Begun
<1>6. \A i : \A u \in Threads :
        /\ at'[u] \in {"picked", "submitted"} \/ at[u] \in {"picked", "submitted"} => at'[u] = at[u]
        /\ at'[u] \in {"picked", "submitted"} => (Handles(u, i)' <=> Handles(u, i))
  BY <1>1, <1>2 DEF Handles
<1>7. Recordings'
  <2> SUFFICES ASSUME ~Restarts, event' # "set" \/ stop' \in {"join", "cancel"},
                      NEW i \in Jobs!Ids, Jobs!Single(i)
               PROVE Recording(i)'
    BY DEF Recordings, Jobs!Single
  <2>1. Recording(i)
    BY <1>1 DEF JobInv, Recordings
  <2>2. \A r \in Begun(i) : running'[i] = r \/ \E u \in Threads :
          at'[u] = "submitted" /\ future'[u] = r /\ Handles(u, i)'
    BY <1>1, <1>6, <2>1 DEF Recording
  <2>3. \A u \in Threads : Handles(u, i)' =>
          /\ at'[u] = "picked" => Begun(i) = {}
          /\ at'[u] = "submitted" => Begun(i) \subseteq {future'[u]}
    BY <1>1, <1>6, <2>1 DEF Recording
  <2> QED
    BY <1>5, <2>1, <2>2, <2>3 DEF Recording
<1> QED
  BY <1>3, <1>4, <1>7 DEF JobInv

(* The thread is at another task, or another place, than it was.           *)
LEMMA ThreadStep ==
    ASSUME JobInv, NEW t \in Threads, UNCHANGED Jobs!service, JobTypes',
           at[t] # "off", at'[t] # "off", \A u \in Threads \ {t} : at'[u] = at[u],
           \A r \in Jobs!Runs : pool'[r].st = "queued" => pool[r] = pool'[r] \/ at[t] = "picked",
           ~Restarts /\ (event # "set" \/ stop \in {"join", "cancel"}) =>
               \A i \in Jobs!Ids : Jobs!Single(i) => Recording(i)'
    PROVE  JobInv'
<1>1. ThreadsApart'
  BY DEF JobInv, ThreadsApart, Jobs!service
<1>2. JobsCancelled'
  BY DEF JobInv, ThreadsApart, JobsCancelled, Jobs!service
<1>3. Recordings'
  BY DEF Recordings, Jobs!service, Jobs!Single
<1> QED
  BY <1>1, <1>2, <1>3 DEF JobInv

(* Nothing of the id is recorded, and no other thread is about to record   *)
(* it: it has no live run.                                                 *)
LEMMA PickStep ==
    ASSUME Jobs!Assumptions, JobInv, NEW t \in Threads, NEW o \in Tasks, Jobs!Pick(t, o)
    PROVE  JobInv'
<1>1. /\ UNCHANGED <<Jobs!service, future, pool, queue, running>> /\ at[t] = "wait"
      /\ due' \in [Threads -> SUBSET Tasks]
      /\ \/ /\ Jobs!Allowed(o) /\ at' = [at EXCEPT ![t] = "picked"] /\ task' = [task EXCEPT ![t] = o]
         \/ at' = at /\ task' = task
  BY DEF Jobs!Pick, JobInv, JobTypes
<1>2. CASE at' = at /\ task' = task
  <2>1. JobTypes'
    BY <1>1, <1>2 DEF JobInv, JobTypes, Jobs!service
  <2>2. \A i : Begun(i)' = Begun(i) /\ \A u \in Threads : Handles(u, i)' <=> Handles(u, i)
    BY <1>1, <1>2 DEF Begun, Handles
  <2>3. \A i : Recording(i)' <=> Recording(i)
    BY <1>1, <1>2, <2>2 DEF Recording
  <2> QED
    BY <1>1, <1>2, <2>1, <2>3, ThreadStep DEF JobInv, Recordings
<1>3. CASE Jobs!Allowed(o) /\ at' = [at EXCEPT ![t] = "picked"] /\ task' = [task EXCEPT ![t] = o]
  <2>1. /\ at'[t] = "picked" /\ task'[t] = o
        /\ \A u \in Threads \ {t} : at'[u] = at[u] /\ task'[u] = task[u]
    BY <1>3 DEF JobInv, JobTypes
  <2>2. JobTypes'
    BY <1>1, <1>3, <2>1 DEF JobInv, JobTypes, Jobs!service
  <2>3. \A i : Begun(i)' = Begun(i) /\ \A u \in Threads \ {t} : Handles(u, i)' <=> Handles(u, i)
    BY <1>1, <2>1 DEF Begun, Handles
  <2>4. \A i : Handles(t, i)' => i = IdOf[o]
    BY <2>1 DEF Handles
  <2>5. ASSUME ~Restarts, event # "set" \/ stop \in {"join", "cancel"}, NEW i \in Jobs!Ids, Jobs!Single(i)
        PROVE  Recording(i)'
    <3>1. Recording(i)
      BY <2>5 DEF JobInv, Recordings
    <3>2. \A u \in Threads : at[u] = "submitted" => FALSE
      <4> SUFFICES ASSUME NEW u \in Threads, at[u] = "submitted" PROVE FALSE
        OBVIOUS
      <4>1. u = thread /\ t = thread
        BY <1>1, <2>5 DEF JobInv, ThreadsApart
      <4> QED
        BY <1>1, <4>1
    <3>3. i = IdOf[o] => Begun(i) = {}
      <4> SUFFICES ASSUME i = IdOf[o], NEW r \in Begun(i) PROVE FALSE
        OBVIOUS
      <4>1. Quota[o] <= 1 /\ Quota[o] \in Nat
        BY <2>5 DEF Jobs!Single, Jobs!Assumptions
      <4>2. running[i] = None
        BY <1>3, <4>1 DEF Jobs!Allowed
      <4>3. running[i] = r
        BY <3>1, <3>2 DEF Recording
      <4>4. r \in Jobs!Runs
        BY DEF Begun
      <4> QED
        BY <4>2, <4>3, <4>4 DEF Jobs!Assumptions
    <3>4. \A r \in Begun(i) : running'[i] = r
      BY <1>1, <3>1, <3>2 DEF Recording
    <3>5. \A u \in Threads : Handles(u, i)' =>
            /\ at'[u] = "picked" => Begun(i) = {}
            /\ at'[u] = "submitted" => Begun(i) \subseteq {future'[u]}
      BY <1>1, <2>1, <2>3, <2>4, <3>1, <3>3 DEF Recording
    <3> QED
      BY <2>3, <3>1, <3>4, <3>5 DEF Recording
  <2> QED
    BY <1>1, <2>1, <2>2, <2>5, ThreadStep
<1> QED
  BY <1>1, <1>2, <1>3

(* The new run is the only one of its id.                                  *)
LEMMA SubmitStep == ASSUME Jobs!Assumptions, JobInv, NEW t \in Threads, Jobs!Submit(t) PROVE JobInv'
<1> DEFINE made == [of |-> task[t], st |-> "queued"]
<1>1. PICK r \in Jobs!Runs :
        /\ pool[r].st = "new" /\ pool' = [pool EXCEPT ![r] = made]
        /\ queue' = Append(queue, r) /\ future' = [future EXCEPT ![t] = r]
        /\ at' = [at EXCEPT ![t] = "submitted"] /\ at[t] = "picked"
        /\ UNCHANGED <<Jobs!service, due, task, running>>
  BY DEF Jobs!Submit
<1>2. task[t] \in Tasks /\ made \in Future /\ made.of = task[t] /\ made.st = "queued"
  BY <1>1 DEF JobInv, JobTypes, Future
<1> HIDE DEF made
<1>3. /\ pool' \in [Jobs!Runs -> Future] /\ pool'[r] = made /\ \A s \in Jobs!Runs \ {r} : pool'[s] = pool[s]
      /\ future' \in [Threads -> Jobs!Runs \cup {None}] /\ future'[t] = r
      /\ at' \in [Threads -> {"off", "wait", "picked", "submitted"}] /\ at'[t] = "submitted"
      /\ queue' \in Seq(Jobs!Runs)
      /\ \A u \in Threads \ {t} : at'[u] = at[u] /\ future'[u] = future[u]
  BY <1>1, <1>2 DEF JobInv, JobTypes
<1>4. JobTypes'
  <2>1. \A u \in Threads : /\ at'[u] \in {"picked", "submitted"} => task'[u] \in Tasks
                           /\ at'[u] = "submitted" => future'[u] \in Jobs!Runs
    BY <1>1, <1>2, <1>3 DEF JobInv, JobTypes
  <2>2. \A s \in Jobs!Runs : pool'[s].st # "new" => pool'[s].of \in Tasks
    BY <1>2, <1>3 DEF JobInv, JobTypes
  <2> QED
    BY <1>1, <1>3, <2>1, <2>2 DEF JobInv, JobTypes, Jobs!service
<1>5. ASSUME ~Restarts, event # "set" \/ stop \in {"join", "cancel"}, NEW i \in Jobs!Ids, Jobs!Single(i)
      PROVE  Recording(i)'
  <2>1. Recording(i)
    BY <1>5 DEF JobInv, Recordings
  <2>2. \A u \in Threads \ {t} : at[u] \notin {"picked", "submitted"}
    BY <1>1, <1>5 DEF JobInv, JobTypes, ThreadsApart
  <2>3. Handles(t, IdOf[task[t]]) /\ Handles(t, IdOf[task[t]])' /\ \A j : Handles(t, j)' <=> Handles(t, j)
    BY <1>1, <1>2, <1>3 DEF Handles, Jobs!Assumptions
  <2>4. CASE i = IdOf[task[t]]
    <3>1. Begun(i) = {}
      BY <1>1, <2>1, <2>3, <2>4 DEF Recording
    <3>2. Begun(i)' = {r}
      BY <1>2, <1>3, <2>4, <3>1 DEF Begun
    <3>3. Handles(t, i)'
      BY <1>1, <1>2, <1>3, <2>4 DEF Handles, Jobs!Assumptions
    <3> QED
      BY <1>3, <2>2, <3>2, <3>3 DEF Recording
  <2>5. CASE i # IdOf[task[t]]
    <3>1. Begun(i)' = Begun(i)
      BY <1>1, <1>2, <1>3, <2>5 DEF Begun
    <3>2. ~Handles(t, i)' /\ ~Handles(t, i)
      BY <1>1, <2>5 DEF Handles
    <3> QED
      BY <1>1, <1>3, <2>1, <2>2, <3>1, <3>2 DEF Recording
  <2> QED
    BY <2>4, <2>5
<1> QED
  BY <1>1, <1>3, <1>4, <1>5, ThreadStep

LEMMA RecordStep == ASSUME Jobs!Assumptions, JobInv, NEW t \in Threads, Jobs!Record(t) PROVE JobInv'
<1>0. PICK k : k = IdOf[task[t]]
  OBVIOUS
<1>1. /\ at[t] = "submitted" /\ task[t] \in Tasks /\ future[t] \in Jobs!Runs
      /\ running' = [running EXCEPT ![k] = future[t]]
      /\ at' = [at EXCEPT ![t] = "wait"] /\ task' = [task EXCEPT ![t] = None]
      /\ future' = [future EXCEPT ![t] = None] /\ UNCHANGED <<Jobs!service, due, pool, queue>>
  BY <1>0 DEF JobInv, JobTypes, Jobs!Record
<1>2. k \in Jobs!Ids
  BY <1>0, <1>1 DEF Jobs!Ids
<1>3. /\ running' \in [Jobs!Ids -> Jobs!Runs \cup {None}] /\ running'[k] = future[t]
      /\ \A i \in Jobs!Ids \ {k} : running'[i] = running[i]
      /\ at'[t] = "wait" /\ task'[t] = None
      /\ \A u \in Threads \ {t} : at'[u] = at[u] /\ task'[u] = task[u] /\ future'[u] = future[u]
  BY <1>1, <1>2 DEF JobInv, JobTypes
<1>4. JobTypes'
  BY <1>1, <1>3 DEF JobInv, JobTypes, Jobs!service
<1>5. ASSUME ~Restarts, event # "set" \/ stop \in {"join", "cancel"}, NEW i \in Jobs!Ids, Jobs!Single(i)
      PROVE  Recording(i)'
  <2>1. Recording(i)
    BY <1>5 DEF JobInv, Recordings
  <2>2. Begun(i)' = Begun(i) /\ ~Handles(t, i)' /\ \A u \in Threads \ {t} : Handles(u, i)' <=> Handles(u, i)
    BY <1>1, <1>3 DEF Begun, Handles
  <2>3. i = k => Begun(i) \subseteq {future[t]}
    BY <1>0, <1>1, <2>1 DEF Recording, Handles, Jobs!Assumptions
  <2>4. i # k => ~Handles(t, i)
    BY <1>0 DEF Handles
  <2>5. \A r \in Begun(i) : running'[i] = r \/ \E u \in Threads :
          at'[u] = "submitted" /\ future'[u] = r /\ Handles(u, i)'
    <3>1. CASE i = k
      BY <1>3, <2>3, <3>1
    <3>2. CASE i # k
      <4> SUFFICES ASSUME NEW r \in Begun(i), running[i] # r
                   PROVE \E u \in Threads : at'[u] = "submitted" /\ future'[u] = r /\ Handles(u, i)'
        BY <1>3, <3>2
      <4>1. PICK u \in Threads : at[u] = "submitted" /\ future[u] = r /\ Handles(u, i)
        BY <2>1 DEF Recording
      <4> QED
        BY <1>3, <2>2, <2>4, <3>2, <4>1
    <3> QED
      BY <3>1, <3>2
  <2>6. \A u \in Threads : Handles(u, i)' =>
          /\ at'[u] = "picked" => Begun(i) = {}
          /\ at'[u] = "submitted" => Begun(i) \subseteq {future'[u]}
    BY <1>3, <2>1, <2>2 DEF Recording
  <2> QED
    BY <2>1, <2>2, <2>5, <2>6 DEF Recording
<1> QED
  BY <1>1, <1>3, <1>4, <1>5, ThreadStep

LEMMA JobStep == ASSUME Jobs!Assumptions PROVE JobInv /\ [Jobs!Next]_(Jobs!vars) => JobInv'
<1> SUFFICES ASSUME JobInv, [Jobs!Next]_(Jobs!vars) PROVE JobInv'
  OBVIOUS
<1>1. CASE UNCHANGED Jobs!vars
  BY <1>1, TableStep DEF Jobs!vars, Jobs!service, Jobs!threads, JobInv, JobTypes
<1>2. ASSUME NEW o \in Tasks, Jobs!register_task(o) \/ Jobs!register_scheduled_tasks(o) PROVE JobInv'
  BY <1>2, TableStep DEF Jobs!register_task, Jobs!register_scheduled_tasks, Jobs!Parse,
      Jobs!threads, JobInv, JobTypes
<1>3. ASSUME NEW i \in Jobs!Ids, Jobs!unregister_task(i) \/ \E on \in BOOLEAN : Jobs!SetEnabled(i, on)
      PROVE  JobInv'
  BY <1>3, TableStep DEF Jobs!unregister_task, Jobs!SetEnabled, Jobs!threads, JobInv, JobTypes
<1>4. CASE Jobs!stop_begin \/ Jobs!Joined \/ Jobs!CancelQueued \/ Jobs!ClearRunning
  BY <1>4, JobStopStep, CancelStep, ClearStep
<1>5. ASSUME NEW t \in Threads, Jobs!start(t) \/ Jobs!Wake(t) \/ Jobs!Leave(t) PROVE JobInv'
  BY <1>5, JobStartStep, JobWaitStep
<1>6. ASSUME NEW t \in Threads, (\E o \in Tasks : Jobs!Pick(t, o)) \/ Jobs!Submit(t) \/ Jobs!Record(t)
      PROVE  JobInv'
  BY <1>6, PickStep, SubmitStep, RecordStep
<1>7. CASE Jobs!TakeFirst \/ \E r \in Jobs!Runs : Jobs!RunEnds(r) \/ Jobs!Pop(r)
  BY <1>7, TakeStep, JobEndStep, PopStep
<1> QED
  BY <1>1, <1>2, <1>3, <1>4, <1>5, <1>6, <1>7 DEF Jobs!Next

(* Whatever a late record or a task registered twice does: unless the      *)
(* service is started again, no two runs of an id that allows one, none    *)
(* left by a stop that saw its thread end, and never two threads if every  *)
(* stop does (api/integrations/scheduler/scheduler.py:108, 161, 483).      *)
THEOREM JobsOrderly == Jobs!Assumptions => (Jobs!Spec => []Jobs!Orderly)
<1> SUFFICES ASSUME Jobs!Assumptions PROVE Jobs!Spec => []Jobs!Orderly
  OBVIOUS
<1> QED
  BY JobsInit, JobStep, JobsHold, PTL DEF Jobs!Spec
-----------------------------------------------------------------------------
(* A behaviour is of one of the two modules of tasks, as scene says.       *)
TaskScenes ==
    /\ [][UNCHANGED scene]_scene
    /\ (scene = "tasks" /\ Defers!Spec) \/ (scene = "jobs" /\ Jobs!Spec)

(* Tasks that are handed over are kept and run in order, for all           *)
(* environments, schedulers, threads, workers and tasks                    *)
(* (serverless/tasks/aws_lambda.py:224,                                    *)
(* api/integrations/scheduler/scheduler.py:161, 483).                      *)
THEOREM TasksAreKept == Defers!Assumptions /\ Jobs!Assumptions => (TaskScenes => []TasksKept)
<1> SUFFICES ASSUME Defers!Assumptions, Jobs!Assumptions PROVE TaskScenes => []TasksKept
  OBVIOUS
<1> DEFINE Handed == scene = "tasks"
           Timed == scene = "jobs"
<1>1. Handed /\ [UNCHANGED scene]_scene => Handed' /\ ~Timed'
  OBVIOUS
<1>2. Timed /\ [UNCHANGED scene]_scene => Timed' /\ ~Handed'
  OBVIOUS
<1>3. ~(Handed /\ Timed)
  OBVIOUS
<1>4. (Handed => Defers!StrictHandsOver /\ Defers!LocalOnTime) /\ (Timed => Jobs!Orderly) => TasksKept
  BY DEF TasksKept
<1> HIDE DEF Handed, Timed
<1>5. Defers!Spec => [](Defers!StrictHandsOver /\ Defers!LocalOnTime)
  BY TasksHandedOver
<1>6. Jobs!Spec => []Jobs!Orderly
  BY JobsOrderly
<1>7. TaskScenes => [][UNCHANGED scene]_scene /\ ((Handed /\ Defers!Spec) \/ (Timed /\ Jobs!Spec))
  BY DEF TaskScenes, Handed, Timed
<1> QED
  BY <1>1, <1>2, <1>3, <1>4, <1>5, <1>6, <1>7, PTL
-----------------------------------------------------------------------------
(* The tokens of a user, for every number of callers, processes and tokens,  *)
(* all times a database call may take, and settings g.  A step that a lemma  *)
(* is not about leaves what it says; Steady is what no step undoes.          *)

LEMMA TokensInit == ASSUME NEW g, Tokens(g)!Assumptions, Tokens(g)!Init PROVE Tokens(g)!TokensInv
<1>1. Tokens(g)!Never \in Nat /\ Tokens(g)!Never > 0 /\ 0 \in Tokens(g)!Times /\ Tokens(g)!Never \in Tokens(g)!Times
  BY DEF Tokens!Assumptions, Tokens!Never, Tokens!Times
<1>2. Tokens(g)!Resting \in [op : Tokens(g)!Ops, at : Tokens(g)!Places, acc : g.access \cup {None}, ref : g.refresh \cup {None},
                           refs : SUBSET g.refresh, accs : SUBSET g.access, seen : BOOLEAN,
                           alone : BOOLEAN, began : Tokens(g)!Times, since : Tokens(g)!Times]
  BY <1>1 DEF Tokens!Resting, Tokens!Ops, Tokens!Places
<1>3. Tokens(g)!TypeOK
  BY <1>1, <1>2 DEF Tokens!Assumptions, Tokens!Init, Tokens!TypeOK
<1>4. Tokens(g)!InPlaces /\ Tokens(g)!Looked /\ Tokens(g)!Alone /\ Tokens(g)!RevokedExpires
  BY <1>1 DEF Tokens!Init, Tokens!InPlaces, Tokens!InPlace, Tokens!Looked, Tokens!Alone,
     Tokens!RevokedExpires, Tokens!Accepts, Tokens!Resting
<1>5. Tokens(g)!Listed /\ Tokens(g)!Stored
  BY <1>1 DEF Tokens!Init, Tokens!Listed, Tokens!Stored, Tokens!Assumptions
<1>6. Tokens(g)!Retired /\ Tokens(g)!LoggedOut
  BY <1>1 DEF Tokens!Init, Tokens!Retired, Tokens!LoggedOut
<1> QED
  BY <1>3, <1>4, <1>5, <1>6 DEF Tokens!TokensInv

LEMMA TokenTypes ==
  ASSUME NEW g, Tokens(g)!Assumptions, Tokens(g)!TokensInv, [Tokens(g)!Next]_(Tokens(g)!vars)
  PROVE  Tokens(g)!TypeOK'
<1> DEFINE Calls == [op : Tokens(g)!Ops, at : Tokens(g)!Places, acc : g.access \cup {None}, ref : g.refresh \cup {None},
                    refs : SUBSET g.refresh, accs : SUBSET g.access, seen : BOOLEAN,
                    alone : BOOLEAN, began : Tokens(g)!Times, since : Tokens(g)!Times]
<1>1. /\ Tokens(g)!Never \in Nat /\ Tokens(g)!Never > 0 /\ 0 \in Tokens(g)!Times
      /\ Tokens(g)!Never \in Tokens(g)!Times /\ moment \in Tokens(g)!Times
      /\ moment + g.life \in Tokens(g)!Times /\ moment + g.ttl \in Tokens(g)!Times
  BY DEF Tokens!Assumptions, Tokens!Never, Tokens!Times, Tokens!TokensInv, Tokens!TypeOK
<1>2. Tokens(g)!TypeOK /\ Tokens(g)!InPlaces
  BY DEF Tokens!TokensInv
<1>3. login \in [Callers -> Calls] /\ Tokens(g)!Resting \in Calls
  BY <1>1, <1>2 DEF Tokens!TypeOK, Tokens!Resting, Tokens!Ops, Tokens!Places
<1>4. \A c \in Callers : Tokens(g)!Ends(c) => login' \in [Callers -> Calls]
  BY <1>3 DEF Tokens!Ends
<1>5. \A c \in Callers, spot \in Tokens(g)!Places : Tokens(g)!GoesOn(c, spot) => login' \in [Callers -> Calls]
  <2> SUFFICES ASSUME NEW c \in Callers, NEW spot \in Tokens(g)!Places, Tokens(g)!GoesOn(c, spot)
               PROVE  login' \in [Callers -> Calls]
    OBVIOUS
  <2>1. [login[c] EXCEPT !.at = spot, !.since = moment] \in Calls
    BY <1>1, <1>3, Zenon
  <2>2. login' = [login EXCEPT ![c] = [login[c] EXCEPT !.at = spot, !.since = moment]]
    BY <1>3 DEF Tokens!GoesOn
  <2> QED
    BY <1>3, <2>1, <2>2
<1>6. \A c \in Callers, op \in Tokens(g)!Ops, spot \in Tokens(g)!Places, a \in g.access \cup {None}, r \in g.refresh \cup {None} :
        Tokens(g)!Begin(c, op, spot, a, r) => login' \in [Callers -> Calls]
  <2> SUFFICES ASSUME NEW c \in Callers, NEW op \in Tokens(g)!Ops, NEW spot \in Tokens(g)!Places,
                      NEW a \in g.access \cup {None}, NEW r \in g.refresh \cup {None},
                      Tokens(g)!Begin(c, op, spot, a, r)
               PROVE  login' \in [Callers -> Calls]
    OBVIOUS
  <2>1. [Tokens(g)!Resting EXCEPT !.op = op, !.at = spot, !.acc = a, !.ref = r,
                                  !.alone = \A e \in Callers \ {c} : Tokens(g)!Over(e), !.began = moment, !.since = moment] \in Calls
    BY <1>1, <1>3, Zenon
  <2>2. \A d \in Callers : [login[d] EXCEPT !.alone = FALSE] \in Calls
    BY <1>3, Zenon
  <2> QED
    BY <2>1, <2>2, ZenonT(30) DEF Tokens!Begin
<1>7. \A c \in Callers, a \in g.access, began \in Tokens(g)!Times, refused \in BOOLEAN :
        Tokens(g)!Judge(c, a, began, refused) => login' \in [Callers -> Calls]
  <2> SUFFICES ASSUME NEW c \in Callers, NEW a \in g.access, NEW began \in Tokens(g)!Times,
                      NEW refused \in BOOLEAN,
                      Tokens(g)!Judge(c, a, began, refused)
               PROVE  login' \in [Callers -> Calls]
    OBVIOUS
  <2>1. Tokens(g)!Accepted(a, began) \in Calls
    BY <1>1, <1>3 DEF Tokens!Accepted, Tokens!Ops
  <2> QED
    BY <1>3, <2>1 DEF Tokens!Judge
<1>8. \A a \in g.access, r \in g.refresh : Tokens(g)!Issue(a, r) =>
        /\ expires' \in [g.access -> Tokens(g)!Times] /\ active' \in [g.refresh -> BOOLEAN]
        /\ jti' \in [g.refresh -> g.access \cup {None}]
  BY <1>1, <1>2 DEF Tokens!Issue, Tokens!TypeOK
<1>9. \A s \in Tokens(g)!Stores, a \in g.access, val \in BOOLEAN : Tokens(g)!SetStore(s, a, val) =>
        store' \in [Tokens(g)!Stores -> [g.access -> [val : BOOLEAN, until : Tokens(g)!Times]]]
  BY <1>1, <1>2 DEF Tokens!SetStore, Tokens!TypeOK
<1>10. \A a \in g.access : Tokens(g)!Blacken(a) => black' \in [g.access -> Tokens(g)!Times] /\ out' \in [g.access -> Tokens(g)!Times]
  BY <1>1, <1>2 DEF Tokens!Blacken, Tokens!TypeOK
<1>11. Tokens(g)!Places = {"done", "find", "put", "save", "retire", "create", "black"}
       /\ Tokens(g)!Ops = {"none", "validate", "logout", "refresh", "revoke", "revoke_all"}
  BY DEF Tokens!Places, Tokens!Ops
<1> HIDE DEF Calls
<1>a. CASE UNCHANGED Tokens(g)!vars
  BY <1>a, <1>2 DEF Tokens!vars, Tokens!TypeOK
<1>b. ASSUME NEW a \in g.access, NEW r \in g.refresh, Tokens(g)!login(a, r) PROVE Tokens(g)!TypeOK'
  BY <1>b, <1>2, <1>8 DEF Tokens!login, Tokens!TypeOK
<1>c. ASSUME NEW c \in Callers, NEW a \in g.access, Tokens(g)!validate_token(c, a)
      PROVE  Tokens(g)!TypeOK'
  <2>1. login' \in [Callers -> Calls]
    <3>1. store[g.storeOf[c]][a].val \in BOOLEAN
      <4>1. store[g.storeOf[c]] \in [g.access -> [val : BOOLEAN, until : Tokens(g)!Times]]
        BY <1>2 DEF Tokens!TypeOK, Tokens!Stores
      <4> QED
        BY <4>1
    <3>2. Tokens(g)!Begin(c, "validate", "find", a, None) => login' \in [Callers -> Calls]
      BY <1>6, <1>11
    <3> QED
      BY <1>c, <1>1, <1>7, <3>1, <3>2 DEF Tokens!validate_token
  <2> QED
    BY <1>c, <1>2, <2>1 DEF Tokens!validate_token, Tokens!tokens, Tokens!TypeOK, Calls
<1>d. ASSUME NEW c \in Callers, NEW a \in g.access, Tokens(g)!logout_user(c, a)
      PROVE  Tokens(g)!TypeOK'
  <2>1. login' \in [Callers -> Calls]
    BY <1>d, <1>6, <1>11 DEF Tokens!logout_user
  <2> QED
    BY <1>d, <1>2, <2>1 DEF Tokens!logout_user, Tokens!tokens, Tokens!TypeOK, Calls
<1>e. ASSUME NEW c \in Callers, Tokens(g)!FindBlack(c) PROVE Tokens(g)!TypeOK'
  <2>1. login' \in [Callers -> Calls]
    <3>1. login[c].acc \in g.access /\ login[c].began \in Tokens(g)!Times /\ g.failClosed \in BOOLEAN
      BY <1>e, <1>2, <1>3 DEF Tokens!FindBlack, Tokens!InPlaces, Tokens!InPlace, Tokens!Issued,
         Tokens!Assumptions, Calls
    <3>2. \A b \in BOOLEAN : [login[c] EXCEPT !.at = "put", !.since = moment, !.seen = b] \in Calls
      <4>1. login[c] \in Calls /\ "put" \in Tokens(g)!Places
        BY <1>3, <1>11
      <4>2. \A i \in Calls, m \in Tokens(g)!Times, b \in BOOLEAN :
              "put" \in Tokens(g)!Places => [i EXCEPT !.at = "put", !.since = m, !.seen = b] \in Calls
        BY DEF Calls
      <4> QED
        BY <1>1, <4>1, <4>2
    <3>3. (black[login[c].acc] > 0) \in BOOLEAN
      OBVIOUS
    <3> QED
      BY <1>e, <1>3, <1>7, <3>1, <3>2, <3>3, Zenon DEF Tokens!FindBlack
  <2> QED
    BY <1>e, <1>2, <2>1 DEF Tokens!FindBlack, Tokens!tokens, Tokens!TypeOK, Calls
<1>f. ASSUME NEW c \in Callers, Tokens(g)!PutSeen(c) PROVE Tokens(g)!TypeOK'
  <2>1. login[c].acc \in g.access /\ login[c].began \in Tokens(g)!Times /\ login[c].seen \in BOOLEAN /\ g.storeOf[c] \in Tokens(g)!Stores
    BY <1>f, <1>2, <1>3 DEF Tokens!PutSeen, Tokens!InPlaces, Tokens!InPlace, Tokens!Issued,
       Tokens!Stores, Calls
  <2>2. login' \in [Callers -> Calls]
    BY <1>f, <1>7, <2>1 DEF Tokens!PutSeen
  <2>3. store' \in [Tokens(g)!Stores -> [g.access -> [val : BOOLEAN, until : Tokens(g)!Times]]]
    BY <1>f, <1>9, <2>1 DEF Tokens!PutSeen
  <2> QED
    BY <1>f, <1>2, <2>2, <2>3 DEF Tokens!PutSeen, Tokens!TypeOK, Calls
<1>g. ASSUME NEW c \in Callers, Tokens(g)!BlackenOut(c) PROVE Tokens(g)!TypeOK'
  <2>1. login' \in [Callers -> Calls]
    BY <1>g, <1>5, <1>11 DEF Tokens!BlackenOut
  <2>2. black' \in [g.access -> Tokens(g)!Times]
    BY <1>g, <1>1, <1>2, Zenon DEF Tokens!BlackenOut, Tokens!TypeOK
  <2> QED
    BY <1>g, <1>2, <2>1, <2>2 DEF Tokens!BlackenOut, Tokens!TypeOK, Calls
<1>h. ASSUME NEW c \in Callers, Tokens(g)!PutOut(c) PROVE Tokens(g)!TypeOK'
  <2>1. login[c].acc \in g.access /\ g.storeOf[c] \in Tokens(g)!Stores
    BY <1>h, <1>2 DEF Tokens!PutOut, Tokens!InPlaces, Tokens!InPlace, Tokens!Issued, Tokens!Stores
  <2>2. login' \in [Callers -> Calls]
    BY <1>h, <1>4 DEF Tokens!PutOut
  <2>3. store' \in [Tokens(g)!Stores -> [g.access -> [val : BOOLEAN, until : Tokens(g)!Times]]]
    BY <1>h, <1>9, <2>1 DEF Tokens!PutOut
  <2>4. out' \in [g.access -> Tokens(g)!Times]
    BY <1>h, <1>1, <1>2 DEF Tokens!PutOut, Tokens!TypeOK
  <2>5. calm' \subseteq (Tokens(g)!Stores \X g.access) \cup g.refresh
    BY <1>h, <1>2, <2>1 DEF Tokens!PutOut, Tokens!TypeOK
  <2> QED
    BY <1>h, <1>2, <2>2, <2>3, <2>4, <2>5 DEF Tokens!PutOut, Tokens!TypeOK, Calls
<1>i. ASSUME NEW c \in Callers, NEW r \in g.refresh, NEW op \in {"refresh", "revoke"},
             Tokens(g)!UseRefresh(c, op, r)
      PROVE Tokens(g)!TypeOK'
  <2>1. login' \in [Callers -> Calls]
    BY <1>i, <1>6, <1>11 DEF Tokens!UseRefresh
  <2> QED
    BY <1>i, <1>2, <2>1 DEF Tokens!UseRefresh, Tokens!tokens, Tokens!TypeOK, Calls
<1>j. ASSUME NEW c \in Callers, Tokens(g)!revoke_all(c) PROVE Tokens(g)!TypeOK'
  <2>1. login' \in [Callers -> Calls]
    BY <1>j, <1>6, <1>11 DEF Tokens!revoke_all
  <2> QED
    BY <1>j, <1>2, <2>1 DEF Tokens!revoke_all, Tokens!tokens, Tokens!TypeOK, Calls
<1>k. ASSUME NEW c \in Callers, Tokens(g)!FindRefresh(c) PROVE Tokens(g)!TypeOK'
  <2>1. login' \in [Callers -> Calls]
    BY <1>k, <1>4, <1>5, <1>11 DEF Tokens!FindRefresh
  <2> QED
    BY <1>k, <1>2, <2>1 DEF Tokens!FindRefresh, Tokens!tokens, Tokens!TypeOK, Calls
<1>l. ASSUME NEW c \in Callers, Tokens(g)!SaveUse(c) \/ Tokens(g)!Retire(c) PROVE Tokens(g)!TypeOK'
  <2>1. login' \in [Callers -> Calls]
    BY <1>l, <1>5, <1>11 DEF Tokens!SaveUse, Tokens!Retire
  <2>2. active' \in [g.refresh -> BOOLEAN]
    BY <1>l, <1>2 DEF Tokens!SaveUse, Tokens!Retire, Tokens!TypeOK
  <2> QED
    BY <1>l, <1>2, <2>1, <2>2 DEF Tokens!SaveUse, Tokens!Retire, Tokens!TypeOK, Calls
<1>m. ASSUME NEW c \in Callers, Tokens(g)!Create(c) PROVE Tokens(g)!TypeOK'
  <2>1. login' \in [Callers -> Calls]
    BY <1>m, <1>4 DEF Tokens!Create
  <2>2. /\ expires' \in [g.access -> Tokens(g)!Times] /\ active' \in [g.refresh -> BOOLEAN]
        /\ jti' \in [g.refresh -> g.access \cup {None}]
    <3>1. ASSUME NEW a \in g.access \ Tokens(g)!Issued,
                 expires' = [expires EXCEPT ![a] = moment + g.life],
                 UNCHANGED <<jti, active>>
          PROVE  <2>2!1 /\ <2>2!2
      BY <3>1, <1>1, <1>2 DEF Tokens!TypeOK
    <3> QED
      BY <1>m, <1>8, <3>1 DEF Tokens!Create
  <2>3. calm' \subseteq (Tokens(g)!Stores \X g.access) \cup g.refresh
    <3>1. login[c].ref \in g.refresh
      BY <1>m, <1>2, <1>3, <1>11 DEF Tokens!Create, Tokens!InPlaces, Tokens!InPlace, Calls
    <3> QED
      BY <1>m, <1>2, <3>1 DEF Tokens!Create, Tokens!TypeOK
  <2> QED
    BY <1>m, <1>2, <2>1, <2>2, <2>3 DEF Tokens!Create, Tokens!TypeOK, Calls
<1>n. ASSUME NEW c \in Callers, Tokens(g)!BlackenOne(c) PROVE Tokens(g)!TypeOK'
  <2>1. login' \in [Callers -> Calls]
    BY <1>n, <1>4 DEF Tokens!BlackenOne
  <2>2. login[c].ref \in g.refresh /\ jti[login[c].ref] \in g.access
    BY <1>n, <1>2 DEF Tokens!BlackenOne, Tokens!InPlaces, Tokens!InPlace, Tokens!TypeOK
  <2>3. black' \in [g.access -> Tokens(g)!Times] /\ out' \in [g.access -> Tokens(g)!Times]
    BY <1>n, <1>10, <2>2 DEF Tokens!BlackenOne
  <2>4. calm' \subseteq (Tokens(g)!Stores \X g.access) \cup g.refresh
    BY <1>n, <1>2, <2>2 DEF Tokens!BlackenOne, Tokens!TypeOK
  <2> QED
    BY <1>n, <1>2, <2>1, <2>3, <2>4 DEF Tokens!BlackenOne, Tokens!TypeOK, Calls
<1>o. ASSUME NEW c \in Callers, Tokens(g)!FindAll(c) PROVE Tokens(g)!TypeOK'
  <2>1. login' \in [Callers -> Calls]
    <3> DEFINE found == [login[c] EXCEPT !.at = "retire", !.since = moment,
                            !.refs = {r \in g.refresh : active[r]},
                            !.accs = {jti[r] : r \in {q \in g.refresh : active[q]}}]
    <3>1. {jti[r] : r \in {q \in g.refresh : active[q]}} \subseteq g.access
      BY <1>2 DEF Tokens!TokensInv, Tokens!Listed, Tokens!TypeOK
    <3>2. found \in Calls
      <4>1. login[c] \in Calls /\ "retire" \in Tokens(g)!Places
        BY <1>3, <1>11
      <4>2. \A i \in Calls, m \in Tokens(g)!Times, R \in SUBSET g.refresh, A \in SUBSET g.access :
              "retire" \in Tokens(g)!Places
                => [i EXCEPT !.at = "retire", !.since = m, !.refs = R, !.accs = A] \in Calls
        BY DEF Calls
      <4>3. {r \in g.refresh : active[r]} \in SUBSET g.refresh
        OBVIOUS
      <4> QED
        BY <1>1, <3>1, <4>1, <4>2, <4>3
    <3>3. login' = [login EXCEPT ![c] = found]
      BY <1>o, <1>3 DEF Tokens!FindAll
    <3> QED
      BY <1>3, <3>2, <3>3
  <2> QED
    BY <1>o, <1>2, <2>1 DEF Tokens!FindAll, Tokens!tokens, Tokens!TypeOK, Calls
<1>p. ASSUME NEW c \in Callers, Tokens(g)!RetireEach(c) PROVE Tokens(g)!TypeOK'
  <2>1. CASE login[c].refs = {} /\ Tokens(g)!GoesOn(c, "black") /\ UNCHANGED <<active, calm>>
    <3>1. login' \in [Callers -> Calls]
      BY <2>1, <1>5, <1>11
    <3> QED
      BY <1>p, <1>2, <2>1, <3>1 DEF Tokens!RetireEach, Tokens!TypeOK, Calls
  <2>2. ASSUME NEW r \in login[c].refs,
               active' = [active EXCEPT ![r] = FALSE],
               login' = [login EXCEPT ![c].refs = @ \ {r}, ![c].since = moment],
               calm' = IF login[c].alone THEN calm \cup {r} ELSE calm
        PROVE  Tokens(g)!TypeOK'
    <3>1. r \in g.refresh /\ login[c].refs \ {r} \subseteq g.refresh
      BY <1>3 DEF Calls
    <3>2. [login[c] EXCEPT !.refs = @ \ {r}, !.since = moment] \in Calls
      BY <1>1, <1>3, <3>1, Zenon DEF Calls
    <3>3. login' \in [Callers -> Calls]
      BY <1>3, <2>2, <3>2
    <3>4. active' \in [g.refresh -> BOOLEAN] /\ calm' \subseteq (Tokens(g)!Stores \X g.access) \cup g.refresh
      BY <1>2, <2>2, <3>1 DEF Tokens!TypeOK
    <3> QED
      BY <1>p, <1>2, <3>3, <3>4 DEF Tokens!RetireEach, Tokens!TypeOK, Calls
  <2> QED
    BY <1>p, <2>1, <2>2 DEF Tokens!RetireEach
<1>q. ASSUME NEW c \in Callers, Tokens(g)!BlackenEach(c) PROVE Tokens(g)!TypeOK'
  <2>1. CASE login[c].accs = {} /\ Tokens(g)!Ends(c) /\ UNCHANGED <<black, out>>
    BY <1>q, <1>2, <1>4, <2>1 DEF Tokens!BlackenEach, Tokens!TypeOK, Calls
  <2>2. ASSUME NEW a \in login[c].accs,
               Tokens(g)!Blacken(a), login' = [login EXCEPT ![c].accs = @ \ {a}, ![c].since = moment]
        PROVE  Tokens(g)!TypeOK'
    <3>1. a \in g.access /\ login[c].accs \ {a} \subseteq g.access
      BY <1>3 DEF Calls
    <3>2. [login[c] EXCEPT !.accs = @ \ {a}, !.since = moment] \in Calls
      BY <1>1, <1>3, <3>1, Zenon DEF Calls
    <3>3. login' \in [Callers -> Calls]
      BY <1>3, <2>2, <3>2
    <3> QED
      BY <1>q, <1>2, <1>10, <2>2, <3>1, <3>3 DEF Tokens!BlackenEach, Tokens!TypeOK, Calls
  <2> QED
    BY <1>q, <2>1, <2>2 DEF Tokens!BlackenEach
<1>r. ASSUME NEW a \in g.access, Tokens(g)!cleanup(a) PROVE Tokens(g)!TypeOK'
  BY <1>r, <1>1, <1>2 DEF Tokens!cleanup, Tokens!TypeOK
<1>s. CASE Tokens(g)!Tick
  <2>1. moment' \in 0..g.maxTime
    BY <1>s, <1>2 DEF Tokens!Tick, Tokens!TypeOK, Tokens!Assumptions
  <2> QED
    BY <1>s, <1>2, <2>1 DEF Tokens!Tick, Tokens!tokens, Tokens!TypeOK
<1> QED
  BY <1>a, <1>b, <1>c, <1>d, <1>e, <1>f, <1>g, <1>h, <1>i, <1>j, <1>k, <1>l, <1>m, <1>n, <1>o, <1>p,
     <1>q, <1>r, <1>s DEF Tokens!Next

LEMMA TokensSteady ==
  ASSUME NEW g, Tokens(g)!Assumptions, Tokens(g)!TokensInv, [Tokens(g)!Next]_(Tokens(g)!vars)
  PROVE  Tokens(g)!Steady
<1>1. /\ moment \in Nat /\ g.maxTime \in Nat /\ g.life \in Nat /\ g.life > 0 /\ moment <= g.maxTime
      /\ Tokens(g)!Never \in Nat /\ Tokens(g)!Never > moment + g.life /\ Tokens(g)!Never > g.maxTime
  BY DEF Tokens!Assumptions, Tokens!Never, Tokens!TokensInv, Tokens!TypeOK
<1>2. /\ expires \in [g.access -> Nat] /\ black \in [g.access -> Nat] /\ out \in [g.access -> Nat]
      /\ jti \in [g.refresh -> g.access \cup {None}] /\ \A a \in g.access : black[a] <= Tokens(g)!Never
  BY <1>1 DEF Tokens!TokensInv, Tokens!TypeOK, Tokens!Times
<1>3. Tokens(g)!InPlaces /\ Tokens(g)!Listed
  BY DEF Tokens!TokensInv
<1>4. ASSUME moment' = moment, UNCHANGED <<black, out>>, UNCHANGED <<expires, jti, active>>
      PROVE  Tokens(g)!Steady
  BY <1>1, <1>2, <1>3, <1>4 DEF Tokens!Steady, Tokens!Issued, Tokens!Listed
<1>5. ASSUME NEW a \in g.access, NEW r \in g.refresh, Tokens(g)!Issue(a, r),
             UNCHANGED <<moment, black, out>>
      PROVE  Tokens(g)!Steady
  BY <1>1, <1>2, <1>3, <1>5 DEF Tokens!Steady, Tokens!Issue, Tokens!Issued, Tokens!Listed,
     Tokens!Assumptions
<1>6. ASSUME NEW a \in g.access, a \in Tokens(g)!Issued, Tokens(g)!Blacken(a),
             UNCHANGED <<moment, expires, jti, active>>
      PROVE  Tokens(g)!Steady
  BY <1>1, <1>2, <1>3, <1>6 DEF Tokens!Steady, Tokens!Blacken, Tokens!Issued, Tokens!Listed
<1>a. CASE UNCHANGED Tokens(g)!vars
  BY <1>a, <1>4 DEF Tokens!vars
<1>b. ASSUME NEW a \in g.access, NEW r \in g.refresh, Tokens(g)!login(a, r) PROVE Tokens(g)!Steady
  BY <1>b, <1>5 DEF Tokens!login
<1>c. ASSUME NEW c \in Callers, NEW a \in g.access,
             Tokens(g)!validate_token(c, a) \/ Tokens(g)!logout_user(c, a)
      PROVE  Tokens(g)!Steady
  BY <1>c, <1>4 DEF Tokens!validate_token, Tokens!logout_user, Tokens!tokens
<1>d. ASSUME NEW c \in Callers,
             Tokens(g)!FindBlack(c) \/ Tokens(g)!PutSeen(c) \/ Tokens(g)!FindRefresh(c)
                                \/ Tokens(g)!revoke_all(c) \/ Tokens(g)!FindAll(c)
      PROVE Tokens(g)!Steady
  BY <1>d, <1>4 DEF Tokens!FindBlack, Tokens!PutSeen, Tokens!FindRefresh, Tokens!revoke_all,
     Tokens!FindAll, Tokens!tokens
<1>m. ASSUME NEW c \in Callers,
             Tokens(g)!SaveUse(c) \/ Tokens(g)!Retire(c) \/ Tokens(g)!RetireEach(c)
      PROVE  Tokens(g)!Steady
  <2>1. moment' = moment /\ UNCHANGED <<expires, black, jti, out>>
    BY <1>m DEF Tokens!SaveUse, Tokens!Retire, Tokens!RetireEach
  <2>2. \A r \in g.refresh : active'[r] => jti[r] # None
    <3>1. active \in [g.refresh -> BOOLEAN] /\ \A r \in g.refresh : active[r] => jti[r] # None
      BY <1>3 DEF Tokens!Listed, Tokens!TokensInv, Tokens!TypeOK
    <3>2. CASE Tokens(g)!SaveUse(c)
      <4>1. login[c].op \in {"refresh", "revoke"}
        BY <1>3, <3>2, Zenon DEF Tokens!SaveUse, Tokens!InPlaces, Tokens!InPlace, Tokens!TokensInv,
           Tokens!TypeOK, Tokens!Ops
      <4>2. jti[login[c].ref] # None
        BY <1>3, <4>1 DEF Tokens!InPlaces, Tokens!InPlace
      <4> QED
        BY <3>1, <3>2, <4>2 DEF Tokens!SaveUse
    <3> QED
      BY <1>m, <3>1, <3>2, Zenon DEF Tokens!Retire, Tokens!RetireEach
  <2> QED
    BY <1>1, <1>2, <2>1, <2>2 DEF Tokens!Steady, Tokens!Issued
<1>e. ASSUME NEW c \in Callers, NEW r \in g.refresh, NEW op \in {"refresh", "revoke"},
             Tokens(g)!UseRefresh(c, op, r)
      PROVE Tokens(g)!Steady
  BY <1>e, <1>4 DEF Tokens!UseRefresh, Tokens!tokens
<1>f. ASSUME NEW c \in Callers, Tokens(g)!BlackenOut(c) PROVE Tokens(g)!Steady
  BY <1>f, <1>1, <1>2, <1>3 DEF Tokens!BlackenOut, Tokens!Steady, Tokens!Issued, Tokens!Listed
<1>g. ASSUME NEW c \in Callers, Tokens(g)!PutOut(c) PROVE Tokens(g)!Steady
  <2>1. login[c].acc \in Tokens(g)!Issued /\ black[login[c].acc] = Tokens(g)!Never
    BY <1>g, <1>3 DEF Tokens!PutOut, Tokens!InPlaces, Tokens!InPlace
  <2> QED
    BY <1>g, <1>1, <1>2, <1>3, <2>1 DEF Tokens!PutOut, Tokens!Steady, Tokens!Issued, Tokens!Listed
<1>h. ASSUME NEW c \in Callers, Tokens(g)!Create(c) PROVE Tokens(g)!Steady
  <2>1. ASSUME NEW a \in g.access \ Tokens(g)!Issued,
               expires' = [expires EXCEPT ![a] = moment + g.life],
               UNCHANGED <<jti, active>>, UNCHANGED <<moment, black, store, out>>
        PROVE  Tokens(g)!Steady
    BY <2>1, <1>1, <1>2, <1>3 DEF Tokens!Steady, Tokens!Issued, Tokens!Listed
  <2> QED
    BY <1>h, <1>5, <2>1 DEF Tokens!Create
<1>i. ASSUME NEW c \in Callers, Tokens(g)!BlackenOne(c) PROVE Tokens(g)!Steady
  <2>1. jti[login[c].ref] \in g.access /\ jti[login[c].ref] \in Tokens(g)!Issued
    BY <1>i, <1>2, <1>3 DEF Tokens!BlackenOne, Tokens!InPlaces, Tokens!InPlace, Tokens!Listed
  <2> QED
    BY <1>i, <1>6, <2>1 DEF Tokens!BlackenOne
<1>j. ASSUME NEW c \in Callers, Tokens(g)!BlackenEach(c) PROVE Tokens(g)!Steady
  <2>1. login[c].accs \subseteq Tokens(g)!Issued
    BY <1>j, <1>3 DEF Tokens!BlackenEach, Tokens!InPlaces, Tokens!InPlace
  <2> QED
    BY <1>j, <1>4, <1>6, <2>1 DEF Tokens!BlackenEach, Tokens!Issued
<1>k. ASSUME NEW a \in g.access, Tokens(g)!cleanup(a) PROVE Tokens(g)!Steady
  BY <1>k, <1>1, <1>2, <1>3 DEF Tokens!cleanup, Tokens!Steady, Tokens!Issued, Tokens!Listed
<1>l. CASE Tokens(g)!Tick
  BY <1>l, <1>1, <1>2, <1>3 DEF Tokens!Tick, Tokens!tokens, Tokens!Steady, Tokens!Issued,
     Tokens!Listed
<1> QED
  BY <1>a, <1>b, <1>c, <1>d, <1>e, <1>f, <1>g, <1>h, <1>i, <1>j, <1>k, <1>l, <1>m DEF Tokens!Next

(* A call that takes no step stays in its place; and no step but Tick      *)
(* changes the clock.                                                      *)
LEMMA PlaceKept ==
  ASSUME NEW g, Tokens(g)!Assumptions, Tokens(g)!TokensInv, Tokens(g)!Steady, NEW c \in Callers,
         Tokens(g)!Kept(c), moment' = moment \/ Tokens(g)!Tick
  PROVE  Tokens(g)!InPlace(c)'
<1>1. Tokens(g)!InPlace(c) /\ Tokens(g)!TypeOK
  BY DEF Tokens!TokensInv, Tokens!InPlaces
<1>2. login[c].refs \subseteq g.refresh /\ login[c].accs \subseteq g.access
      /\ login[c].began \in Nat /\ login[c].since \in Nat /\ moment \in Nat /\ g.latency \in Nat
  BY <1>1 DEF Tokens!TypeOK, Tokens!Times, Tokens!Never, Tokens!Assumptions
<1>3. /\ login'[c].op = login[c].op /\ login'[c].at = login[c].at /\ login'[c].acc = login[c].acc
      /\ login'[c].ref = login[c].ref /\ login'[c].refs = login[c].refs
      /\ login'[c].accs = login[c].accs
      /\ login'[c].began = login[c].began /\ login'[c].since = login[c].since
      /\ login'[c].alone => login[c].alone
  BY <1>1 DEF Tokens!Kept, Tokens!TypeOK
<1>4. login[c].at # "done" => moment' <= login[c].since + g.latency
  BY <1>1, <1>2 DEF Tokens!InPlace, Tokens!Tick, Tokens!Over
<1>5. login[c].acc \in Tokens(g)!Issued => login'[c].acc \in Tokens(g)!Issued'
  BY <1>3 DEF Tokens!Steady, Tokens!Issued
<1>6. Tokens(g)!Never' = Tokens(g)!Never
  BY DEF Tokens!Never
<1>7. login[c].accs \subseteq Tokens(g)!Issued => login'[c].accs \subseteq Tokens(g)!Issued'
  BY <1>2, <1>3 DEF Tokens!Steady
<1>8. /\ login[c].ref \in g.refresh /\ jti[login[c].ref] # None => jti'[login[c].ref] # None
      /\ (\A r \in login[c].refs : jti[r] # None) => \A r \in login[c].refs : jti'[r] # None
  BY <1>2 DEF Tokens!Steady
<1>9. login[c].acc \in Tokens(g)!Issued /\ black[login[c].acc] = Tokens(g)!Never => black'[login[c].acc] = Tokens(g)!Never
  BY DEF Tokens!Steady, Tokens!Issued
<1>10. moment' \in Nat /\ moment <= moment'
  BY DEF Tokens!Steady
<1> QED
  BY <1>1, <1>2, <1>3, <1>4, <1>5, <1>6, <1>7, <1>8, <1>9, <1>10 DEF Tokens!InPlace

LEMMA PlacesStep ==
  ASSUME NEW g, Tokens(g)!Assumptions, Tokens(g)!TokensInv, [Tokens(g)!Next]_(Tokens(g)!vars)
  PROVE  Tokens(g)!InPlaces'
<1>0. Tokens(g)!Steady
  BY TokensSteady
<1>1. /\ moment \in Nat /\ g.latency \in Nat /\ Tokens(g)!InPlaces /\ Tokens(g)!TypeOK
      /\ Tokens(g)!Never' = Tokens(g)!Never
      /\ \A c \in Callers : Tokens(g)!InPlace(c) /\ login[c].began \in Nat /\ login[c].since \in Nat
      /\ \A a \in g.access : expires[a] \in Nat
  BY DEF Tokens!TokensInv, Tokens!TypeOK, Tokens!Times, Tokens!Never, Tokens!Assumptions, Tokens!InPlaces
<1>2. ASSUME moment' = moment \/ Tokens(g)!Tick, \A d \in Callers : Tokens(g)!Kept(d)
      PROVE  Tokens(g)!InPlaces'
  BY <1>0, <1>2, PlaceKept DEF Tokens!InPlaces
<1>3. ASSUME NEW c \in Callers, moment' = moment, \A d \in Callers \ {c} : Tokens(g)!Kept(d),
             Tokens(g)!InPlace(c)'
      PROVE  Tokens(g)!InPlaces'
  BY <1>0, <1>3, PlaceKept DEF Tokens!InPlaces
<1>4. ASSUME NEW c \in Callers, moment' = moment, Tokens(g)!Ends(c) PROVE Tokens(g)!InPlaces'
  <2>1. \A d \in Callers \ {c} : Tokens(g)!Kept(d)
    BY <1>1, <1>4 DEF Tokens!Ends, Tokens!Kept, Tokens!TypeOK
  <2>2. login'[c] = Tokens(g)!Resting
    BY <1>1, <1>4 DEF Tokens!Ends, Tokens!TypeOK
  <2>3. Tokens(g)!InPlace(c)'
    BY <1>1, <1>4, <2>2 DEF Tokens!InPlace, Tokens!Resting
  <2> QED
    BY <1>3, <1>4, <2>1, <2>3
<1>5. ASSUME NEW c \in Callers, moment' = moment, NEW a \in Tokens(g)!Issued, NEW began \in Nat,
             began <= moment,
             NEW refused, Tokens(g)!Judge(c, a, began, refused)
      PROVE  Tokens(g)!InPlaces'
  <2>1. \A d \in Callers \ {c} : Tokens(g)!Kept(d)
    BY <1>1, <1>5 DEF Tokens!Judge, Tokens!Kept, Tokens!TypeOK
  <2>2. login'[c] = Tokens(g)!Resting \/ login'[c] = Tokens(g)!Accepted(a, began)
    BY <1>1, <1>5 DEF Tokens!Judge, Tokens!TypeOK
  <2>3. a \in Tokens(g)!Issued'
    BY <1>0 DEF Tokens!Steady, Tokens!Issued
  <2>4. /\ login'[c].op \in {"none", "validate"} /\ login'[c].at = "done" /\ ~login'[c].alone
        /\ login'[c].op = "validate" => login'[c].acc = a
        /\ login'[c].began \in {0, began}
    <3>1. CASE login'[c] = Tokens(g)!Resting
      BY <3>1 DEF Tokens!Resting
    <3>2. CASE login'[c] = Tokens(g)!Accepted(a, began)
      BY <3>2 DEF Tokens!Accepted, Tokens!Resting
    <3> QED
      BY <2>2, <3>1, <3>2
  <2>5. Tokens(g)!InPlace(c)'
    BY <1>1, <1>5, <2>3, <2>4 DEF Tokens!InPlace
  <2> QED
    BY <1>3, <1>5, <2>1, <2>5
<1>6. ASSUME NEW c \in Callers, NEW op, NEW spot, NEW a, NEW r, moment' = moment,
             Tokens(g)!Begin(c, op, spot, a, r)
      PROVE  /\ \A d \in Callers \ {c} : Tokens(g)!Kept(d)
             /\ login'[c].op = op /\ login'[c].at = spot /\ login'[c].acc = a /\ login'[c].ref = r
             /\ login'[c].refs = {} /\ login'[c].accs = {}
             /\ login'[c].began = moment /\ login'[c].since = moment
  <2>1. /\ \A d \in Callers \ {c} : Tokens(g)!Kept(d)
        /\ login'[c] = [Tokens(g)!Resting EXCEPT !.op = op, !.at = spot, !.acc = a, !.ref = r,
                              !.alone = \A e \in Callers \ {c} : Tokens(g)!Over(e),
                              !.began = moment, !.since = moment]
    BY <1>1, <1>6 DEF Tokens!Begin, Tokens!Kept
  <2> QED
    BY <2>1 DEF Tokens!Resting
<1>7. ASSUME NEW c \in Callers, NEW spot, moment' = moment, Tokens(g)!GoesOn(c, spot)
      PROVE  /\ \A d \in Callers \ {c} : Tokens(g)!Kept(d)
             /\ login'[c].at = spot /\ login'[c].since = moment /\ login'[c].op = login[c].op
             /\ login'[c].acc = login[c].acc /\ login'[c].ref = login[c].ref
             /\ login'[c].refs = login[c].refs
             /\ login'[c].accs = login[c].accs /\ login'[c].began = login[c].began
  <2>1. /\ \A d \in Callers \ {c} : Tokens(g)!Kept(d)
        /\ login'[c] = [login[c] EXCEPT !.at = spot, !.since = moment]
    BY <1>1, <1>7 DEF Tokens!GoesOn, Tokens!Kept, Tokens!TypeOK
  <2> QED
    BY <1>1, <2>1 DEF Tokens!TypeOK
<1>a. CASE UNCHANGED Tokens(g)!vars
  BY <1>a, <1>2 DEF Tokens!vars, Tokens!Kept
<1>b. ASSUME NEW a \in g.access, NEW r \in g.refresh, Tokens(g)!login(a, r)
      PROVE  Tokens(g)!InPlaces'
  BY <1>b, <1>2 DEF Tokens!login, Tokens!Kept
<1>c. ASSUME NEW c \in Callers, NEW a \in g.access, Tokens(g)!validate_token(c, a)
      PROVE  Tokens(g)!InPlaces'
  <2>1. a \in Tokens(g)!Issued /\ a \in Tokens(g)!Issued'
    BY <1>1, <1>c DEF Tokens!validate_token, Tokens!Issued, Tokens!tokens
  <2>2. CASE Tokens(g)!Begin(c, "validate", "find", a, None)
    <3>1. Tokens(g)!InPlace(c)'
      BY <1>1, <1>6, <1>c, <2>1, <2>2 DEF Tokens!InPlace, Tokens!validate_token
    <3> QED
      BY <1>3, <1>6, <1>c, <2>2, <3>1 DEF Tokens!validate_token
  <2> QED
    BY <1>1, <1>5, <1>c, <2>1, <2>2 DEF Tokens!validate_token
<1>d. ASSUME NEW c \in Callers, NEW a \in g.access, Tokens(g)!logout_user(c, a)
      PROVE  Tokens(g)!InPlaces'
  <2>1. a \in Tokens(g)!Issued /\ a \in Tokens(g)!Issued'
    BY <1>1, <1>d DEF Tokens!logout_user, Tokens!Issued, Tokens!tokens
  <2>2. Tokens(g)!InPlace(c)'
    BY <1>1, <1>6, <1>d, <2>1 DEF Tokens!InPlace, Tokens!logout_user
  <2> QED
    BY <1>3, <1>6, <1>d, <2>2 DEF Tokens!logout_user
<1>e. ASSUME NEW c \in Callers, Tokens(g)!FindBlack(c) PROVE Tokens(g)!InPlaces'
  <2>1. login[c].acc \in Tokens(g)!Issued /\ login[c].began <= moment
    BY <1>1, <1>e DEF Tokens!FindBlack, Tokens!InPlace
  <2>2. CASE login' = [login EXCEPT ![c].at = "put", ![c].since = moment, ![c].seen = black[login[c].acc] > 0]
    <3>1. \A d \in Callers \ {c} : Tokens(g)!Kept(d)
      BY <1>1, <2>2 DEF Tokens!Kept, Tokens!TypeOK
    <3>2. login'[c] = [login[c] EXCEPT !.at = "put", !.since = moment, !.seen = black[login[c].acc] > 0]
      BY <1>1, <2>2 DEF Tokens!TypeOK
    <3>3. login[c].acc \in Tokens(g)!Issued' /\ moment' = moment
      BY <1>e, <2>1 DEF Tokens!FindBlack, Tokens!tokens, Tokens!Issued
    <3>4. Tokens(g)!InPlace(c)'
      BY <1>1, <1>e, <3>2, <3>3 DEF Tokens!InPlace, Tokens!FindBlack, Tokens!TypeOK
    <3> QED
      BY <1>3, <3>1, <3>3, <3>4
  <2> QED
    BY <1>1, <1>5, <1>e, <2>1, <2>2 DEF Tokens!FindBlack
<1>f. ASSUME NEW c \in Callers, Tokens(g)!PutSeen(c) PROVE Tokens(g)!InPlaces'
  <2>1. login[c].acc \in Tokens(g)!Issued /\ login[c].began <= moment
    BY <1>1, <1>f DEF Tokens!PutSeen, Tokens!InPlace
  <2> QED
    BY <1>1, <1>5, <1>f, <2>1 DEF Tokens!PutSeen
<1>g. ASSUME NEW c \in Callers, Tokens(g)!BlackenOut(c) PROVE Tokens(g)!InPlaces'
  <2>1. login'[c].acc \in Tokens(g)!Issued' /\ black'[login'[c].acc] = Tokens(g)!Never
    BY <1>1, <1>7, <1>g DEF Tokens!BlackenOut, Tokens!InPlace, Tokens!Issued, Tokens!TypeOK
  <2>2. Tokens(g)!InPlace(c)'
    BY <1>1, <1>7, <1>g, <2>1 DEF Tokens!InPlace, Tokens!BlackenOut, Tokens!TypeOK
  <2> QED
    BY <1>3, <1>7, <1>g, <2>2 DEF Tokens!BlackenOut
<1>h. ASSUME NEW c \in Callers, Tokens(g)!PutOut(c) PROVE Tokens(g)!InPlaces'
  BY <1>4, <1>h DEF Tokens!PutOut
<1>i. ASSUME NEW c \in Callers, NEW r \in g.refresh, NEW op \in {"refresh", "revoke"},
             Tokens(g)!UseRefresh(c, op, r)
      PROVE Tokens(g)!InPlaces'
  <2>1. Tokens(g)!InPlace(c)'
    BY <1>1, <1>6, <1>i DEF Tokens!InPlace, Tokens!UseRefresh, Tokens!tokens
  <2> QED
    BY <1>3, <1>6, <1>i, <2>1 DEF Tokens!UseRefresh
<1>j. ASSUME NEW c \in Callers, Tokens(g)!revoke_all(c) PROVE Tokens(g)!InPlaces'
  <2>1. Tokens(g)!InPlace(c)'
    BY <1>1, <1>6, <1>j DEF Tokens!InPlace, Tokens!revoke_all
  <2> QED
    BY <1>3, <1>6, <1>j, <2>1 DEF Tokens!revoke_all
<1>k. ASSUME NEW c \in Callers, Tokens(g)!FindRefresh(c) PROVE Tokens(g)!InPlaces'
  <2>1. CASE Tokens(g)!GoesOn(c, "save")
    <3>1. Tokens(g)!InPlace(c)'
      BY <1>1, <1>7, <1>k, <2>1 DEF Tokens!InPlace, Tokens!FindRefresh, Tokens!tokens, Tokens!TypeOK
    <3> QED
      BY <1>3, <1>7, <1>k, <2>1, <3>1 DEF Tokens!FindRefresh
  <2> QED
    BY <1>4, <1>k, <2>1 DEF Tokens!FindRefresh
<1>l. ASSUME NEW c \in Callers, Tokens(g)!SaveUse(c) \/ Tokens(g)!Retire(c)
      PROVE  Tokens(g)!InPlaces'
  <2>1. login[c].op \in {"refresh", "revoke"} /\ login[c].ref \in g.refresh /\ jti[login[c].ref] # None
    BY <1>1, <1>l DEF Tokens!InPlace, Tokens!SaveUse, Tokens!Retire, Tokens!TypeOK, Tokens!Ops
  <2>2. PICK spot \in {"retire"} \cup (IF login[c].op = "refresh" THEN {"create"} ELSE {"black"}) :
          Tokens(g)!GoesOn(c, spot)
    BY <1>l, <2>1 DEF Tokens!SaveUse, Tokens!Retire
  <2>3. moment' = moment /\ jti' = jti
    BY <1>l DEF Tokens!SaveUse, Tokens!Retire
  <2>4. Tokens(g)!InPlace(c)'
    BY <1>1, <1>7, <2>1, <2>2, <2>3 DEF Tokens!InPlace, Tokens!TypeOK
  <2> QED
    BY <1>3, <1>7, <2>2, <2>3, <2>4
<1>m. ASSUME NEW c \in Callers, Tokens(g)!Create(c) PROVE Tokens(g)!InPlaces'
  BY <1>4, <1>m DEF Tokens!Create
<1>n. ASSUME NEW c \in Callers, Tokens(g)!BlackenOne(c) PROVE Tokens(g)!InPlaces'
  BY <1>4, <1>n DEF Tokens!BlackenOne
<1>o. ASSUME NEW c \in Callers, Tokens(g)!FindAll(c) PROVE Tokens(g)!InPlaces'
  <2>1. \A d \in Callers \ {c} : Tokens(g)!Kept(d)
    BY <1>1, <1>o DEF Tokens!FindAll, Tokens!Kept, Tokens!TypeOK
  <2>2. login'[c] = [login[c] EXCEPT !.at = "retire", !.since = moment, !.refs = {r \in g.refresh : active[r]},
                              !.accs = {jti[r] : r \in {q \in g.refresh : active[q]}}]
    BY <1>1, <1>o DEF Tokens!FindAll, Tokens!TypeOK
  <2>3. /\ \A r \in {q \in g.refresh : active[q]} : jti'[r] # None /\ jti[r] \in Tokens(g)!Issued'
        /\ moment' = moment
    BY <1>o DEF Tokens!FindAll, Tokens!tokens, Tokens!Issued, Tokens!TokensInv, Tokens!Listed
  <2>4. /\ login'[c].op = "revoke_all" /\ login'[c].at = "retire"
        /\ login'[c].began = login[c].began /\ login[c].began <= moment /\ login'[c].since = moment
        /\ \A r \in login'[c].refs : jti'[r] # None
        /\ login'[c].accs \subseteq Tokens(g)!Issued'
    <3>1. login[c].op = "revoke_all" /\ login[c].at = "find" /\ login[c].began <= moment
      BY <1>1, <1>o DEF Tokens!FindAll, Tokens!InPlace
    <3>2. /\ login'[c].op = login[c].op /\ login'[c].at = "retire"
          /\ login'[c].began = login[c].began
          /\ login'[c].since = moment /\ login'[c].refs = {r \in g.refresh : active[r]}
          /\ login'[c].accs = {jti[r] : r \in {q \in g.refresh : active[q]}}
      BY <1>1, <2>2 DEF Tokens!TypeOK
    <3> QED
      BY <2>3, <3>1, <3>2
  <2>5. Tokens(g)!InPlace(c)'
    BY <1>1, <2>3, <2>4 DEF Tokens!InPlace
  <2> QED
    BY <1>3, <2>1, <2>3, <2>5
<1>p. ASSUME NEW c \in Callers, Tokens(g)!RetireEach(c) PROVE Tokens(g)!InPlaces'
  <2>1. CASE Tokens(g)!GoesOn(c, "black")
    <3>1. Tokens(g)!InPlace(c)'
      BY <1>1, <1>7, <1>p, <2>1 DEF Tokens!InPlace, Tokens!RetireEach, Tokens!TypeOK, Tokens!Issued
    <3> QED
      BY <1>3, <1>7, <1>p, <2>1, <3>1 DEF Tokens!RetireEach
  <2>2. ASSUME NEW r \in login[c].refs,
               login' = [login EXCEPT ![c].refs = @ \ {r}, ![c].since = moment]
        PROVE  Tokens(g)!InPlaces'
    <3>1. \A d \in Callers \ {c} : Tokens(g)!Kept(d)
      BY <1>1, <2>2 DEF Tokens!Kept, Tokens!TypeOK
    <3>2. login'[c] = [login[c] EXCEPT !.refs = @ \ {r}, !.since = moment]
      BY <1>1, <2>2 DEF Tokens!TypeOK
    <3>3. Tokens(g)!InPlace(c)'
      BY <1>1, <1>p, <3>2 DEF Tokens!InPlace, Tokens!RetireEach, Tokens!TypeOK, Tokens!Issued
    <3> QED
      BY <1>3, <1>p, <3>1, <3>3 DEF Tokens!RetireEach
  <2> QED
    BY <1>p, <2>1, <2>2 DEF Tokens!RetireEach
<1>q. ASSUME NEW c \in Callers, Tokens(g)!BlackenEach(c) PROVE Tokens(g)!InPlaces'
  <2>2. ASSUME NEW a \in login[c].accs,
               login' = [login EXCEPT ![c].accs = @ \ {a}, ![c].since = moment]
        PROVE  Tokens(g)!InPlaces'
    <3>1. \A d \in Callers \ {c} : Tokens(g)!Kept(d)
      BY <1>1, <2>2 DEF Tokens!Kept, Tokens!TypeOK
    <3>2. login'[c] = [login[c] EXCEPT !.accs = @ \ {a}, !.since = moment]
      BY <1>1, <2>2 DEF Tokens!TypeOK
    <3>3. Tokens(g)!InPlace(c)'
      BY <1>1, <1>q, <3>2 DEF Tokens!InPlace, Tokens!BlackenEach, Tokens!TypeOK, Tokens!Issued
    <3> QED
      BY <1>3, <1>q, <3>1, <3>3 DEF Tokens!BlackenEach
  <2> QED
    BY <1>4, <1>q, <2>2 DEF Tokens!BlackenEach
<1>r. ASSUME NEW a \in g.access, Tokens(g)!cleanup(a) PROVE Tokens(g)!InPlaces'
  BY <1>r, <1>2 DEF Tokens!cleanup, Tokens!Kept
<1>s. CASE Tokens(g)!Tick
  BY <1>s, <1>2 DEF Tokens!Tick, Tokens!Kept
<1> QED
  BY <1>a, <1>b, <1>c, <1>d, <1>e, <1>f, <1>g, <1>h, <1>i, <1>j, <1>k, <1>l, <1>m, <1>n, <1>o, <1>p,
     <1>q, <1>r, <1>s DEF Tokens!Next

LEMMA ListedStep ==
  ASSUME NEW g, Tokens(g)!Assumptions, Tokens(g)!TokensInv, Tokens(g)!Steady
  PROVE  Tokens(g)!Listed'
<1>1. /\ moment \in Nat /\ g.life \in Nat /\ Tokens(g)!Listed /\ Tokens(g)!Never' = Tokens(g)!Never
      /\ moment' \in Nat /\ moment <= moment'
      /\ expires \in [g.access -> Nat] /\ black \in [g.access -> Nat] /\ out \in [g.access -> Nat]
  BY DEF Tokens!TokensInv, Tokens!TypeOK, Tokens!Times, Tokens!Never, Tokens!Assumptions, Tokens!Steady
<1>2. ASSUME NEW a \in g.access
      PROVE  /\ expires'[a] <= moment' + g.life
             /\ out'[a] # Tokens(g)!Never => /\ out'[a] <= moment' /\ a \in Tokens(g)!Issued'
                                             /\ (black'[a] >= expires'[a] \/ expires'[a] < moment')
  <2>1. /\ expires[a] \in Nat /\ black[a] \in Nat /\ out[a] \in Nat
        /\ expires[a] <= moment + g.life
        /\ out[a] # Tokens(g)!Never => /\ out[a] <= moment /\ a \in Tokens(g)!Issued
                                       /\ (black[a] >= expires[a] \/ expires[a] < moment)
    BY <1>1 DEF Tokens!Listed
  <2>2. /\ a \in Tokens(g)!Issued => a \in Tokens(g)!Issued' /\ expires'[a] = expires[a]
        /\ expires'[a] = expires[a] \/ expires'[a] = moment + g.life
        /\ \/ out'[a] = out[a]
           \/ /\ out[a] = Tokens(g)!Never /\ out'[a] = moment /\ moment' = moment /\ a \in Tokens(g)!Issued
              /\ black'[a] >= moment + g.life
        /\ black'[a] >= black[a] \/ black[a] < moment
        /\ black'[a] \in Nat
    BY DEF Tokens!Steady
  <2>3. expires'[a] <= moment' + g.life
    BY <1>1, <2>1, <2>2
  <2>4. ASSUME out'[a] = out[a], out[a] # Tokens(g)!Never
        PROVE  out'[a] <= moment' /\ a \in Tokens(g)!Issued' /\ (black'[a] >= expires'[a] \/ expires'[a] < moment')
    <3>1. a \in Tokens(g)!Issued' /\ expires'[a] = expires[a]
      BY <2>1, <2>2, <2>4
    <3> QED
      BY <1>1, <2>1, <2>2, <2>4, <3>1
  <2>5. ASSUME out'[a] # out[a]
        PROVE  out'[a] <= moment' /\ a \in Tokens(g)!Issued' /\ (black'[a] >= expires'[a] \/ expires'[a] < moment')
    BY <1>1, <2>1, <2>2, <2>5
  <2> QED
    BY <1>1, <2>3, <2>4, <2>5
<1>3. \A r \in g.refresh : (active'[r] => jti'[r] # None) /\ (jti'[r] # None => jti'[r] \in Tokens(g)!Issued')
  BY <1>1, Zenon DEF Tokens!Listed, Tokens!Steady, Tokens!Issued
<1> QED
  BY <1>1, <1>2, <1>3 DEF Tokens!Listed

(* What a store is told is what the call found, no longer ago than a call  *)
(* takes.                                                                  *)
LEMMA StoredStep ==
  ASSUME NEW g, Tokens(g)!Assumptions, Tokens(g)!TokensInv, Tokens(g)!Steady,
         [Tokens(g)!Next]_(Tokens(g)!vars)
  PROVE  Tokens(g)!Stored'
<1>1. /\ moment \in Nat /\ g.ttl \in Nat /\ g.latency \in Nat /\ Tokens(g)!Never' = Tokens(g)!Never
      /\ moment' \in Nat /\ moment <= moment'
      /\ expires \in [g.access -> Nat] /\ out \in [g.access -> Nat] /\ Tokens(g)!Stored
      /\ Tokens(g)!InPlaces /\ Tokens(g)!Looked /\ Tokens(g)!Listed
      /\ \A a \in g.access : out'[a] \in Nat /\ out[a] <= Tokens(g)!Never
      /\ store \in [Tokens(g)!Stores -> [g.access -> [val : BOOLEAN, until : Nat]]]
      /\ Tokens(g)!Never >= moment + g.ttl
  BY DEF Tokens!TokensInv, Tokens!TypeOK, Tokens!Times, Tokens!Never, Tokens!Assumptions, Tokens!Steady
<1>2. ASSUME NEW s \in Tokens(g)!Stores, NEW a \in g.access, store'[s][a] = store[s][a]
      PROVE  /\ store'[s][a].until <= moment' + g.ttl
             /\ \/ store'[s][a].val
                \/ store'[s][a].until <= out'[a] + g.ttl + g.latency
                \/ a \in Tokens(g)!Issued' /\ expires'[a] < moment'
  BY <1>1, <1>2 DEF Tokens!Stored, Tokens!Steady
<1>3. ASSUME UNCHANGED store PROVE Tokens(g)!Stored'
  BY <1>2, <1>3 DEF Tokens!Stored
<1>4. ASSUME NEW c \in Callers, Tokens(g)!PutSeen(c) PROVE Tokens(g)!Stored'
  <2> DEFINE a == login[c].acc
  <2>1. /\ a \in g.access /\ a \in Tokens(g)!Issued /\ g.storeOf[c] \in Tokens(g)!Stores
        /\ moment' = moment
        /\ UNCHANGED <<expires, out>> /\ login[c].seen \in BOOLEAN
        /\ login[c].since \in Nat /\ login[c].since <= moment
        /\ moment <= login[c].since + g.latency
    BY <1>1, <1>4 DEF Tokens!PutSeen, Tokens!InPlaces, Tokens!InPlace, Tokens!Issued,
       Tokens!Stores, Tokens!TokensInv, Tokens!TypeOK, Tokens!Times
  <2>2. store' = [store EXCEPT ![g.storeOf[c]][a] = [val |-> login[c].seen, until |-> moment + g.ttl]]
    BY <1>4 DEF Tokens!PutSeen, Tokens!SetStore
  <2>3. login[c].seen \/ login[c].since <= out[a] \/ expires[a] < login[c].since
    BY <1>1, <1>4 DEF Tokens!PutSeen, Tokens!Looked
  <2>4. store'[g.storeOf[c]][a] = [val |-> login[c].seen, until |-> moment + g.ttl]
    BY <1>1, <2>1, <2>2
  <2>5. \A s \in Tokens(g)!Stores, b \in g.access : s # g.storeOf[c] \/ b # a => store'[s][b] = store[s][b]
    BY <1>1, <2>1, <2>2
  <2>6. /\ store'[g.storeOf[c]][a].until <= moment' + g.ttl
        /\ \/ store'[g.storeOf[c]][a].val
           \/ store'[g.storeOf[c]][a].until <= out'[a] + g.ttl + g.latency
           \/ a \in Tokens(g)!Issued' /\ expires'[a] < moment'
    BY <1>1, <2>1, <2>3, <2>4 DEF Tokens!Issued
  <2> QED
    BY <1>2, <2>5, <2>6 DEF Tokens!Stored
<1>5. ASSUME NEW c \in Callers, Tokens(g)!PutOut(c) PROVE Tokens(g)!Stored'
  <2> DEFINE a == login[c].acc
  <2>1. a \in g.access /\ g.storeOf[c] \in Tokens(g)!Stores /\ moment' = moment
    BY <1>1, <1>5 DEF Tokens!PutOut, Tokens!InPlaces, Tokens!InPlace, Tokens!Issued, Tokens!Stores
  <2>2. store' = [store EXCEPT ![g.storeOf[c]][a] = [val |-> TRUE, until |-> moment + g.ttl]]
    BY <1>5 DEF Tokens!PutOut, Tokens!SetStore
  <2>3. store'[g.storeOf[c]][a] = [val |-> TRUE, until |-> moment + g.ttl]
    BY <1>1, <2>1, <2>2
  <2>4. \A s \in Tokens(g)!Stores, b \in g.access : s # g.storeOf[c] \/ b # a => store'[s][b] = store[s][b]
    BY <1>1, <2>1, <2>2
  <2> QED
    BY <1>1, <1>2, <2>1, <2>3, <2>4 DEF Tokens!Stored
<1> QED
  BY <1>3, <1>4, <1>5, ZenonT(30) DEF Tokens!Next, Tokens!vars, Tokens!tokens, Tokens!login,
     Tokens!validate_token, Tokens!logout_user, Tokens!UseRefresh, Tokens!revoke_all,
     Tokens!FindBlack, Tokens!BlackenOut, Tokens!FindRefresh, Tokens!SaveUse, Tokens!Retire, Tokens!Create, Tokens!BlackenOne, Tokens!FindAll, Tokens!RetireEach,
     Tokens!BlackenEach, Tokens!cleanup, Tokens!Tick

LEMMA TokenGoesOn ==
  ASSUME NEW g, Tokens(g)!TypeOK, NEW c \in Callers, NEW spot, Tokens(g)!GoesOn(c, spot)
  PROVE  /\ \A d \in Callers \ {c} : login'[d] = login[d]
         /\ login'[c].at = spot /\ login'[c].since = moment /\ login'[c].op = login[c].op
         /\ login'[c].acc = login[c].acc /\ login'[c].ref = login[c].ref
         /\ login'[c].refs = login[c].refs
         /\ login'[c].accs = login[c].accs /\ login'[c].began = login[c].began
         /\ login'[c].alone = login[c].alone
<1>1. /\ \A d \in Callers \ {c} : login'[d] = login[d]
      /\ login'[c] = [login[c] EXCEPT !.at = spot, !.since = moment]
  BY DEF Tokens!GoesOn, Tokens!TypeOK
<1> QED
  BY <1>1 DEF Tokens!TypeOK

LEMMA TokenBegins ==
  ASSUME NEW g, Tokens(g)!TypeOK, NEW c \in Callers, NEW op, NEW spot, NEW a, NEW r,
         Tokens(g)!Begin(c, op, spot, a, r)
  PROVE  /\ \A d \in Callers \ {c} : Tokens(g)!Kept(d) /\ ~login'[d].alone /\ login'[d].at = login[d].at
         /\ login[c].at = "done"
         /\ login'[c].op = op /\ login'[c].at = spot /\ login'[c].acc = a /\ login'[c].ref = r
         /\ login'[c].alone => \A d \in Callers \ {c} : Tokens(g)!Over(d)
<1>1. /\ \A d \in Callers \ {c} : login'[d] = [login[d] EXCEPT !.alone = FALSE]
      /\ login'[c] = [Tokens(g)!Resting EXCEPT !.op = op, !.at = spot, !.acc = a, !.ref = r,
                            !.alone = \A e \in Callers \ {c} : Tokens(g)!Over(e),
                            !.began = moment, !.since = moment]
      /\ login[c].at = "done"
  BY DEF Tokens!Begin, Tokens!TypeOK, Tokens!Over
<1>2. \A d \in Callers : login[d] \in [op : Tokens(g)!Ops, at : Tokens(g)!Places, acc : g.access \cup {None},
                           ref : g.refresh \cup {None}, refs : SUBSET g.refresh, accs : SUBSET g.access,
                           seen : BOOLEAN, alone : BOOLEAN, began : Tokens(g)!Times, since : Tokens(g)!Times]
  BY DEF Tokens!TypeOK
<1> QED
  BY <1>1, <1>2 DEF Tokens!Resting, Tokens!Kept

LEMMA TokenEnds ==
  ASSUME NEW g, Tokens(g)!TypeOK, NEW c \in Callers, Tokens(g)!Ends(c)
  PROVE  /\ \A d \in Callers \ {c} : login'[d] = login[d]
         /\ login'[c].op = "none" /\ login'[c].at = "done" /\ ~login'[c].alone
  BY DEF Tokens!Ends, Tokens!TypeOK, Tokens!Resting

LEMMA TokenJudged ==
  ASSUME NEW g, Tokens(g)!TypeOK, NEW c \in Callers, NEW a, NEW began, NEW refused,
         Tokens(g)!Judge(c, a, began, refused)
  PROVE  /\ \A d \in Callers \ {c} : login'[d] = login[d]
         /\ login'[c].at = "done" /\ ~login'[c].alone
         /\ login'[c].op = "validate" => ~refused /\ login'[c].acc = a /\ login'[c].began = began
<1>1. /\ \A d \in Callers \ {c} : login'[d] = login[d]
      /\ login'[c] = IF refused THEN Tokens(g)!Resting ELSE Tokens(g)!Accepted(a, began)
  BY DEF Tokens!Judge, Tokens!TypeOK
<1>2. Tokens(g)!Resting.op = "none" /\ Tokens(g)!Resting.at = "done" /\ ~Tokens(g)!Resting.alone
  BY DEF Tokens!Resting
<1>3. /\ Tokens(g)!Accepted(a, began).at = "done" /\ ~Tokens(g)!Accepted(a, began).alone
      /\ Tokens(g)!Accepted(a, began).acc = a /\ Tokens(g)!Accepted(a, began).began = began
  BY DEF Tokens!Accepted, Tokens!Resting
<1> QED
  BY <1>1, <1>2, <1>3

LEMMA TokenFound ==
  ASSUME NEW g, Tokens(g)!TypeOK, NEW c \in Callers, NEW b,
         login' = [login EXCEPT ![c].at = "put", ![c].since = moment, ![c].seen = b]
  PROVE  /\ login'[c].at = "put" /\ login'[c].since = moment /\ login'[c].seen = b
         /\ login'[c].op = login[c].op /\ login'[c].acc = login[c].acc
         /\ login'[c].ref = login[c].ref /\ login'[c].alone = login[c].alone
<1>1. login'[c] = [login[c] EXCEPT !.at = "put", !.since = moment, !.seen = b]
  BY DEF Tokens!TypeOK
<1> QED
  BY <1>1 DEF Tokens!TypeOK

LEMMA TokenFindsAll ==
  ASSUME NEW g, Tokens(g)!TypeOK, NEW c \in Callers, Tokens(g)!FindAll(c)
  PROVE  /\ login'[c].at = "retire" /\ login'[c].op = login[c].op /\ login'[c].acc = login[c].acc
         /\ login'[c].ref = login[c].ref /\ login'[c].alone = login[c].alone
<1> DEFINE refs == {r \in g.refresh : active[r]}
           accs == {jti[r] : r \in {q \in g.refresh : active[q]}}
<1>1. login' = [login EXCEPT ![c].at = "retire", ![c].since = moment, ![c].refs = refs, ![c].accs = accs]
  BY DEF Tokens!FindAll
<1> HIDE DEF refs, accs
<1>2. login'[c] = [login[c] EXCEPT !.at = "retire", !.since = moment, !.refs = refs, !.accs = accs]
  BY <1>1 DEF Tokens!TypeOK
<1> QED
  BY <1>2 DEF Tokens!TypeOK

(* No other call moves; and only a look-up comes to tell a store.          *)
LEMMA OthersKept ==
  ASSUME NEW g, Tokens(g)!TokensInv, NEW c \in Callers, Tokens(g)!CallerStep(c)
  PROVE  \A d \in Callers \ {c} : Tokens(g)!Kept(d)
<1>1. Tokens(g)!TypeOK
  BY DEF Tokens!TokensInv
<1>2. \A a \in g.access : Tokens(g)!validate_token(c, a) => \A d \in Callers \ {c} : Tokens(g)!Kept(d)
  BY <1>1, TokenBegins, TokenJudged DEF Tokens!validate_token, Tokens!Kept
<1>3. \A a \in g.access : Tokens(g)!logout_user(c, a) => \A d \in Callers \ {c} : Tokens(g)!Kept(d)
  BY <1>1, TokenBegins DEF Tokens!logout_user
<1>4. \A r \in g.refresh, op \in {"refresh", "revoke"} : Tokens(g)!UseRefresh(c, op, r) => \A d \in Callers \ {c} : Tokens(g)!Kept(d)
  BY <1>1, TokenBegins DEF Tokens!UseRefresh
<1>5. Tokens(g)!revoke_all(c) => \A d \in Callers \ {c} : Tokens(g)!Kept(d)
  BY <1>1, TokenBegins DEF Tokens!revoke_all
<1>6. Tokens(g)!PutSeen(c) => \A d \in Callers \ {c} : Tokens(g)!Kept(d)
  BY <1>1, TokenJudged DEF Tokens!PutSeen, Tokens!Kept
<1>7. Tokens(g)!PutOut(c) \/ Tokens(g)!Create(c) \/ Tokens(g)!BlackenOne(c) => \A d \in Callers \ {c} : Tokens(g)!Kept(d)
  BY <1>1, TokenEnds DEF Tokens!PutOut, Tokens!Create, Tokens!BlackenOne, Tokens!Kept
<1>8. Tokens(g)!BlackenOut(c) \/ Tokens(g)!SaveUse(c) \/ Tokens(g)!Retire(c) => \A d \in Callers \ {c} : Tokens(g)!Kept(d)
  BY <1>1, TokenGoesOn DEF Tokens!BlackenOut, Tokens!SaveUse, Tokens!Retire, Tokens!Kept
<1>9. Tokens(g)!FindRefresh(c) => \A d \in Callers \ {c} : Tokens(g)!Kept(d)
  BY <1>1, TokenGoesOn, TokenEnds DEF Tokens!FindRefresh, Tokens!Kept
<1>10. Tokens(g)!FindBlack(c) => \A d \in Callers \ {c} : Tokens(g)!Kept(d)
  <2>1. login' = [login EXCEPT ![c].at = "put", ![c].since = moment, ![c].seen = black[login[c].acc] > 0]
          => \A d \in Callers \ {c} : login'[d] = login[d]
    BY <1>1 DEF Tokens!TypeOK
  <2> QED
    BY <1>1, <2>1, TokenJudged DEF Tokens!FindBlack, Tokens!Kept
<1>11. Tokens(g)!FindAll(c) => \A d \in Callers \ {c} : Tokens(g)!Kept(d)
  BY <1>1 DEF Tokens!FindAll, Tokens!Kept, Tokens!TypeOK
<1>12. Tokens(g)!RetireEach(c) => \A d \in Callers \ {c} : Tokens(g)!Kept(d)
  <2>1. \A r : login' = [login EXCEPT ![c].refs = @ \ {r}, ![c].since = moment]
          => \A d \in Callers \ {c} : login'[d] = login[d]
    BY <1>1 DEF Tokens!TypeOK
  <2> QED
    BY <1>1, <2>1, TokenGoesOn, Zenon DEF Tokens!RetireEach, Tokens!Kept
<1>13. Tokens(g)!BlackenEach(c) => \A d \in Callers \ {c} : Tokens(g)!Kept(d)
  <2>1. \A a : login' = [login EXCEPT ![c].accs = @ \ {a}, ![c].since = moment]
          => \A d \in Callers \ {c} : login'[d] = login[d]
    BY <1>1 DEF Tokens!TypeOK
  <2> QED
    BY <1>1, <2>1, TokenEnds DEF Tokens!BlackenEach, Tokens!Kept
<1> QED
  BY <1>2, <1>3, <1>4, <1>5, <1>6, <1>7, <1>8, <1>9, <1>10, <1>11, <1>12, <1>13 DEF Tokens!CallerStep

LEMMA NextCalls ==
  ASSUME NEW g, [Tokens(g)!Next]_(Tokens(g)!vars)
  PROVE  login' = login \/ \E c \in Callers : Tokens(g)!CallerStep(c)
BY DEF Tokens!Next, Tokens!CallerStep, Tokens!vars, Tokens!login, Tokens!cleanup, Tokens!Tick

LEMMA EachCall ==
  ASSUME NEW g, Tokens(g)!TokensInv, [Tokens(g)!Next]_(Tokens(g)!vars), NEW c \in Callers
  PROVE  Tokens(g)!Kept(c) \/ Tokens(g)!CallerStep(c)
<1>1. CASE login' = login
  BY <1>1 DEF Tokens!Kept
<1>2. ASSUME NEW d \in Callers, Tokens(g)!CallerStep(d), c # d PROVE Tokens(g)!Kept(c)
  BY <1>2, OthersKept
<1>3. login' = login \/ \E d \in Callers : Tokens(g)!CallerStep(d)
  BY NextCalls
<1> QED
  BY <1>1, <1>2, <1>3

LEMMA Lookers ==
  ASSUME NEW g, Tokens(g)!TokensInv, NEW c \in Callers, Tokens(g)!CallerStep(c),
         login'[c].op = "validate", login'[c].at = "put"
  PROVE  /\ login[c].op = "validate" /\ login[c].at = "find" /\ UNCHANGED <<moment, Tokens(g)!tokens, out, calm>>
         /\ login'[c].acc = login[c].acc /\ login'[c].since = moment
         /\ login'[c].seen = (black[login[c].acc] > 0)
<1>1. Tokens(g)!TypeOK
  BY DEF Tokens!TokensInv
<1>2. \A a \in g.access : ~Tokens(g)!validate_token(c, a) /\ ~Tokens(g)!logout_user(c, a)
  BY <1>1, TokenBegins, TokenJudged DEF Tokens!validate_token, Tokens!logout_user
<1>3. (\A r \in g.refresh, op \in {"refresh", "revoke"} : ~Tokens(g)!UseRefresh(c, op, r)) /\ ~Tokens(g)!revoke_all(c)
  BY <1>1, TokenBegins DEF Tokens!UseRefresh, Tokens!revoke_all
<1>4. ~Tokens(g)!PutSeen(c) /\ ~Tokens(g)!PutOut(c) /\ ~Tokens(g)!Create(c) /\ ~Tokens(g)!BlackenOne(c)
  BY <1>1, TokenJudged, TokenEnds DEF Tokens!PutSeen, Tokens!PutOut, Tokens!Create,
     Tokens!BlackenOne
<1>5. ~Tokens(g)!BlackenOut(c) /\ ~Tokens(g)!SaveUse(c) /\ ~Tokens(g)!Retire(c) /\ ~Tokens(g)!FindRefresh(c)
  <2>1. ~Tokens(g)!BlackenOut(c)
    BY <1>1, TokenGoesOn DEF Tokens!BlackenOut
  <2>2. ~Tokens(g)!SaveUse(c) /\ ~Tokens(g)!Retire(c)
    BY <1>1, TokenGoesOn DEF Tokens!SaveUse, Tokens!Retire
  <2>3. ~Tokens(g)!FindRefresh(c)
    BY <1>1, TokenGoesOn, TokenEnds DEF Tokens!FindRefresh
  <2> QED
    BY <2>1, <2>2, <2>3
<1>6. ~Tokens(g)!FindAll(c)
  BY <1>1, TokenFindsAll
<1>7. ~Tokens(g)!RetireEach(c)
  <2>1. \A r : login' = [login EXCEPT ![c].refs = @ \ {r}, ![c].since = moment]
          => login'[c].at = login[c].at
    BY <1>1 DEF Tokens!TypeOK
  <2> QED
    BY <1>1, <2>1, TokenGoesOn DEF Tokens!RetireEach
<1>8. ~Tokens(g)!BlackenEach(c)
  <2>1. \A a : login' = [login EXCEPT ![c].accs = @ \ {a}, ![c].since = moment]
          => login'[c].at = login[c].at
    BY <1>1 DEF Tokens!TypeOK
  <2> QED
    BY <1>1, <2>1, TokenEnds DEF Tokens!BlackenEach
<1>9. Tokens(g)!FindBlack(c)
  BY <1>2, <1>3, <1>4, <1>5, <1>6, <1>7, <1>8 DEF Tokens!CallerStep
<1>10. login' = [login EXCEPT ![c].at = "put", ![c].since = moment, ![c].seen = black[login[c].acc] > 0]
  BY <1>1, <1>9, TokenJudged DEF Tokens!FindBlack
<1> QED
  <2> DEFINE b == black[login[c].acc] > 0
  <2>1. login[c].op = "validate" /\ login[c].at = "find" /\ login'[c].seen = b
    BY <1>1, <1>9, <1>10 DEF Tokens!FindBlack, Tokens!TypeOK
  <2>2. login' = [login EXCEPT ![c].at = "put", ![c].since = moment, ![c].seen = b]
    BY <1>10
  <2> HIDE DEF b
  <2>3. login'[c].since = moment /\ login'[c].op = login[c].op /\ login'[c].acc = login[c].acc
    BY <1>1, <2>2, TokenFound
  <2> QED
    BY <1>9, <2>1, <2>3 DEF Tokens!FindBlack, b

LEMMA KeptFields ==
  ASSUME NEW g, Tokens(g)!TypeOK, NEW c \in Callers, Tokens(g)!Kept(c)
  PROVE  /\ login'[c].op = login[c].op /\ login'[c].at = login[c].at /\ login'[c].acc = login[c].acc
         /\ login'[c].ref = login[c].ref /\ login'[c].seen = login[c].seen
         /\ login'[c].began = login[c].began /\ login'[c].since = login[c].since
         /\ login'[c].alone => login'[c] = login[c]
<1>1. login[c] \in [op : Tokens(g)!Ops, at : Tokens(g)!Places, acc : g.access \cup {None}, ref : g.refresh \cup {None},
                    refs : SUBSET g.refresh, accs : SUBSET g.access, seen : BOOLEAN,
                    alone : BOOLEAN, began : Tokens(g)!Times, since : Tokens(g)!Times]
  BY DEF Tokens!TypeOK
<1> QED
  BY <1>1 DEF Tokens!Kept

LEMMA LookedStep ==
  ASSUME NEW g, Tokens(g)!Assumptions, Tokens(g)!TokensInv, Tokens(g)!Steady,
         [Tokens(g)!Next]_(Tokens(g)!vars)
  PROVE  Tokens(g)!Looked'
<1>1. /\ moment \in Nat /\ Tokens(g)!TypeOK /\ Tokens(g)!Looked /\ Tokens(g)!InPlaces
      /\ Tokens(g)!Listed /\ Tokens(g)!Never' = Tokens(g)!Never /\ Tokens(g)!Never > moment
      /\ expires \in [g.access -> Nat] /\ black \in [g.access -> Nat] /\ out \in [g.access -> Nat]
      /\ \A c \in Callers : login[c].since \in Nat
  BY DEF Tokens!TokensInv, Tokens!TypeOK, Tokens!Times, Tokens!Never, Tokens!Assumptions
<1> SUFFICES ASSUME NEW c \in Callers, login'[c].op = "validate", login'[c].at = "put",
                    ~login'[c].seen
             PROVE  login'[c].since <= out'[login'[c].acc] \/ expires'[login'[c].acc] < login'[c].since
  BY DEF Tokens!Looked
<1>2. CASE Tokens(g)!Kept(c)
  <2> DEFINE a == login[c].acc
  <2>1. /\ login[c].op = "validate" /\ login[c].at = "put" /\ ~login[c].seen
        /\ login'[c].acc = a /\ login'[c].since = login[c].since
    BY <1>1, <1>2, KeptFields
  <2>2. /\ a \in g.access /\ a \in Tokens(g)!Issued /\ login[c].since <= moment
        /\ login[c].since <= out[a] \/ expires[a] < login[c].since
    BY <1>1, <2>1 DEF Tokens!InPlaces, Tokens!InPlace, Tokens!Looked, Tokens!Issued
  <2>3. expires'[a] = expires[a] /\ (out'[a] = out[a] \/ out'[a] = moment)
    BY <2>2 DEF Tokens!Steady
  <2> QED
    BY <1>1, <2>1, <2>2, <2>3
<1>3. CASE Tokens(g)!CallerStep(c)
  <2> DEFINE a == login[c].acc
  <2>1. /\ login[c].op = "validate" /\ login[c].at = "find"
        /\ UNCHANGED <<moment, Tokens(g)!tokens, out, calm>>
        /\ login'[c].acc = a /\ login'[c].since = moment /\ ~(black[a] > 0)
    BY <1>3, Lookers
  <2>2. a \in g.access /\ expires[a] > 0
    BY <1>1, <2>1 DEF Tokens!InPlaces, Tokens!InPlace, Tokens!Issued
  <2>3. moment <= out[a] \/ expires[a] < moment
    <3>1. out[a] # Tokens(g)!Never => black[a] >= expires[a] \/ expires[a] < moment
      BY <1>1, <2>2 DEF Tokens!Listed
    <3>2. black[a] \in Nat /\ expires[a] \in Nat /\ out[a] \in Nat
      BY <1>1, <2>2
    <3> QED
      BY <1>1, <2>1, <2>2, <3>1, <3>2
  <2> QED
    BY <2>1, <2>3 DEF Tokens!tokens
<1>4. Tokens(g)!Kept(c) \/ Tokens(g)!CallerStep(c)
  BY EachCall
<1> QED
  BY <1>2, <1>3, <1>4

(* What is inactive becomes active by a save alone, and what was reported  *)
(* revoked is by a call that ends, or revokes all.                         *)
LEMMA Activates ==
  ASSUME NEW g, Tokens(g)!Assumptions, Tokens(g)!TokensInv, [Tokens(g)!Next]_(Tokens(g)!vars),
         NEW r \in g.refresh, jti[r] # None, ~active[r], active'[r]
  PROVE  \E c \in Callers : login[c].at = "save" /\ login[c].ref = r
<1>1. active \in [g.refresh -> BOOLEAN] /\ jti \in [g.refresh -> g.access \cup {None}]
  BY DEF Tokens!TokensInv, Tokens!TypeOK
<1>2. \A a \in g.access, q \in g.refresh : ~Tokens(g)!Issue(a, q)
  BY <1>1 DEF Tokens!Issue
<1>3. ASSUME NEW c \in Callers, Tokens(g)!SaveUse(c) PROVE login[c].at = "save" /\ login[c].ref = r
  BY <1>1, <1>3 DEF Tokens!SaveUse
<1>4. ASSUME NEW c \in Callers
      PROVE  ~Tokens(g)!Retire(c) /\ ~Tokens(g)!RetireEach(c) /\ ~Tokens(g)!Create(c)
  BY <1>1, <1>2 DEF Tokens!Retire, Tokens!RetireEach, Tokens!Create
<1>5. active' # active
  OBVIOUS
<1> QED
  BY <1>2, <1>3, <1>4, <1>5, ZenonT(30) DEF Tokens!Next, Tokens!vars, Tokens!tokens, Tokens!login,
     Tokens!validate_token, Tokens!logout_user, Tokens!UseRefresh,
     Tokens!revoke_all, Tokens!FindBlack, Tokens!PutSeen, Tokens!BlackenOut, Tokens!PutOut, Tokens!FindRefresh, Tokens!BlackenOne, Tokens!FindAll,
     Tokens!BlackenEach, Tokens!cleanup, Tokens!Tick

LEMMA Reports ==
  ASSUME NEW g, Tokens(g)!Assumptions, Tokens(g)!TokensInv, [Tokens(g)!Next]_(Tokens(g)!vars),
         out' # out
  PROVE  \E c \in Callers : login[c].at # "done" /\ (login[c].op # "logout" \/ ~login'[c].alone)
<1>1. Tokens(g)!TypeOK
  BY DEF Tokens!TokensInv
<1>2. ASSUME NEW c \in Callers, Tokens(g)!PutOut(c) PROVE login[c].at # "done" /\ ~login'[c].alone
  BY <1>1, <1>2, TokenEnds DEF Tokens!PutOut
<1>3. ASSUME NEW c \in Callers, Tokens(g)!BlackenOne(c) \/ Tokens(g)!BlackenEach(c)
      PROVE  login[c].at # "done" /\ login[c].op # "logout"
  BY <1>3 DEF Tokens!BlackenOne, Tokens!BlackenEach
<1> QED
  BY <1>2, <1>3, ZenonT(30) DEF Tokens!Next, Tokens!vars, Tokens!tokens, Tokens!login, Tokens!validate_token,
     Tokens!logout_user, Tokens!UseRefresh, Tokens!revoke_all,
     Tokens!FindBlack, Tokens!PutSeen, Tokens!BlackenOut, Tokens!FindRefresh, Tokens!SaveUse, Tokens!Retire, Tokens!Create, Tokens!FindAll, Tokens!RetireEach,
     Tokens!cleanup, Tokens!Tick

(* How a call that is alone came to be, or went on.                        *)
LEMMA OwnAlone ==
  ASSUME NEW g, Tokens(g)!Assumptions, Tokens(g)!TokensInv, NEW c \in Callers,
         Tokens(g)!CallerStep(c), login'[c].alone
  PROVE  \/ /\ \A d \in Callers \ {c} : Tokens(g)!Over(d)
            /\ login'[c].at \in {"find", "black"}
            /\ (login'[c].at = "black" => login'[c].op = "logout")
            /\ login'[c].op = "logout" => out'[login'[c].acc] = Tokens(g)!Never
         \/ /\ login[c].alone /\ login[c].at # "done" /\ login'[c].op = login[c].op
            /\ login'[c].acc = login[c].acc /\ login'[c].ref = login[c].ref
            /\ login[c].op = "logout" => out' = out
            /\ \/ login[c].op = "refresh" /\ login'[c].at = "create" /\ g.rotation
               \/ login[c].op = "revoke" /\ login'[c].at = "black"
               => ~active'[login[c].ref]
<1>1. Tokens(g)!TypeOK /\ Tokens(g)!InPlace(c)
  BY DEF Tokens!TokensInv, Tokens!InPlaces
<1>2. \A a \in g.access : Tokens(g)!validate_token(c, a) =>
        (\A d \in Callers \ {c} : Tokens(g)!Over(d)) /\ login'[c].at = "find" /\ login'[c].op = "validate"
  BY <1>1, TokenBegins, TokenJudged DEF Tokens!validate_token
<1>3. \A a \in g.access : Tokens(g)!logout_user(c, a) =>
        /\ \A d \in Callers \ {c} : Tokens(g)!Over(d)
        /\ login'[c].at = "black" /\ login'[c].op = "logout"
        /\ out'[login'[c].acc] = Tokens(g)!Never
  BY <1>1, TokenBegins DEF Tokens!logout_user
<1>4. \A r \in g.refresh, op \in {"refresh", "revoke"} : Tokens(g)!UseRefresh(c, op, r) =>
        (\A d \in Callers \ {c} : Tokens(g)!Over(d)) /\ login'[c].at = "find" /\ login'[c].op # "logout"
  BY <1>1, TokenBegins DEF Tokens!UseRefresh
<1>5. Tokens(g)!revoke_all(c) =>
        (\A d \in Callers \ {c} : Tokens(g)!Over(d)) /\ login'[c].at = "find" /\ login'[c].op # "logout"
  BY <1>1, TokenBegins DEF Tokens!revoke_all
<1>6. ~Tokens(g)!PutSeen(c) /\ ~Tokens(g)!PutOut(c) /\ ~Tokens(g)!Create(c) /\ ~Tokens(g)!BlackenOne(c)
  BY <1>1, TokenJudged, TokenEnds DEF Tokens!PutSeen, Tokens!PutOut, Tokens!Create,
     Tokens!BlackenOne
<1> DEFINE AllGo == /\ login[c].alone /\ login[c].at # "done" /\ login'[c].op = login[c].op
                    /\ login'[c].acc = login[c].acc /\ login'[c].ref = login[c].ref
           Left == \/ login[c].op = "refresh" /\ login'[c].at = "create" /\ g.rotation
                   \/ login[c].op = "revoke" /\ login'[c].at = "black"
<1>7. Tokens(g)!BlackenOut(c) => AllGo /\ ~Left /\ out' = out
  BY <1>1, TokenGoesOn DEF Tokens!BlackenOut
<1>8. Tokens(g)!FindRefresh(c) => AllGo /\ ~Left /\ out' = out
  BY <1>1, TokenGoesOn, TokenEnds DEF Tokens!FindRefresh
<1>9. Tokens(g)!SaveUse(c) => AllGo /\ ~Left /\ out' = out
  <2> SUFFICES ASSUME Tokens(g)!SaveUse(c) PROVE AllGo /\ ~Left /\ out' = out
    OBVIOUS
  <2>1. Tokens(g)!GoesOn(c, IF login[c].op = "revoke" \/ g.rotation THEN "retire" ELSE "create") /\ out' = out
        /\ login[c].at = "save"
    BY DEF Tokens!SaveUse
  <2>2. AllGo /\ login'[c].at = (IF login[c].op = "revoke" \/ g.rotation THEN "retire" ELSE "create")
    BY <1>1, <2>1, TokenGoesOn
  <2> QED
    BY <2>1, <2>2
<1>10. Tokens(g)!Retire(c) => AllGo /\ ~active'[login[c].ref] /\ out' = out
  <2> SUFFICES ASSUME Tokens(g)!Retire(c) PROVE AllGo /\ ~active'[login[c].ref] /\ out' = out
    OBVIOUS
  <2>1. AllGo /\ out' = out
    BY <1>1, TokenGoesOn DEF Tokens!Retire
  <2>2. login[c].ref \in g.refresh /\ active \in [g.refresh -> BOOLEAN]
    BY <1>1 DEF Tokens!Retire, Tokens!InPlace, Tokens!TypeOK
  <2> QED
    BY <2>1, <2>2 DEF Tokens!Retire
<1>11. Tokens(g)!FindBlack(c) => AllGo /\ ~Left /\ out' = out
  <2>1. ASSUME NEW b, login' = [login EXCEPT ![c].at = "put", ![c].since = moment, ![c].seen = b]
        PROVE  /\ login'[c].at = "put" /\ login'[c].op = login[c].op /\ login'[c].acc = login[c].acc
               /\ login'[c].ref = login[c].ref /\ login'[c].alone = login[c].alone
    BY <1>1, <2>1, TokenFound
  <2>2. ASSUME NEW a, NEW began, Tokens(g)!Judge(c, a, began, g.failClosed) PROVE ~login'[c].alone
    BY <1>1, <2>2, TokenJudged
  <2> QED
    BY <2>1, <2>2, Zenon DEF Tokens!FindBlack
<1>12. Tokens(g)!FindAll(c) => AllGo /\ ~Left /\ out' = out
  <2>1. Tokens(g)!FindAll(c) => login[c].at = "find" /\ out' = out
    BY DEF Tokens!FindAll
  <2> QED
    BY <1>1, <2>1, TokenFindsAll
<1>13. Tokens(g)!RetireEach(c) => AllGo /\ ~Left /\ login[c].op # "logout"
  <2>1. ASSUME NEW r, login' = [login EXCEPT ![c].refs = @ \ {r}, ![c].since = moment]
        PROVE  /\ login'[c].at = login[c].at /\ login'[c].op = login[c].op /\ login'[c].acc = login[c].acc
               /\ login'[c].ref = login[c].ref /\ login'[c].alone = login[c].alone
    <3> DEFINE Rest == login[c].refs \ {r}
    <3>1. login'[c] = [login[c] EXCEPT !.refs = Rest, !.since = moment]
      BY <1>1, <2>1 DEF Tokens!TypeOK
    <3> HIDE DEF Rest
    <3>2. login[c] \in [op : Tokens(g)!Ops, at : Tokens(g)!Places, acc : g.access \cup {None},
                       ref : g.refresh \cup {None}, refs : SUBSET g.refresh, accs : SUBSET g.access,
                       seen : BOOLEAN, alone : BOOLEAN, began : Tokens(g)!Times, since : Tokens(g)!Times]
      BY <1>1 DEF Tokens!TypeOK
    <3> QED
      BY <3>1, <3>2, ZenonT(30)
  <2> QED
    BY <1>1, <2>1, TokenGoesOn, Zenon DEF Tokens!RetireEach
<1>14. Tokens(g)!BlackenEach(c) => AllGo /\ ~Left /\ login[c].op # "logout"
  <2>1. ASSUME NEW a, login' = [login EXCEPT ![c].accs = @ \ {a}, ![c].since = moment]
        PROVE  /\ login'[c].at = login[c].at /\ login'[c].op = login[c].op /\ login'[c].acc = login[c].acc
               /\ login'[c].ref = login[c].ref /\ login'[c].alone = login[c].alone
    <3> DEFINE Rest == login[c].accs \ {a}
    <3>1. login'[c] = [login[c] EXCEPT !.accs = Rest, !.since = moment]
      BY <1>1, <2>1 DEF Tokens!TypeOK
    <3> HIDE DEF Rest
    <3>2. login[c] \in [op : Tokens(g)!Ops, at : Tokens(g)!Places, acc : g.access \cup {None},
                       ref : g.refresh \cup {None}, refs : SUBSET g.refresh, accs : SUBSET g.access,
                       seen : BOOLEAN, alone : BOOLEAN, began : Tokens(g)!Times, since : Tokens(g)!Times]
      BY <1>1 DEF Tokens!TypeOK
    <3> QED
      BY <3>1, <3>2, ZenonT(30)
  <2> QED
    BY <1>1, <2>1, TokenEnds DEF Tokens!BlackenEach
<1> QED
  BY <1>2, <1>3, <1>4, <1>5, <1>6, <1>7, <1>8, <1>9, <1>10, <1>11, <1>12, <1>13, <1>14 DEF Tokens!CallerStep

LEMMA TokenAloneStep ==
  ASSUME NEW g, Tokens(g)!Assumptions, Tokens(g)!TokensInv, Tokens(g)!Steady,
         [Tokens(g)!Next]_(Tokens(g)!vars)
  PROVE  Tokens(g)!Alone'
<1>1. Tokens(g)!TypeOK /\ Tokens(g)!Alone /\ Tokens(g)!InPlaces /\ Tokens(g)!Never' = Tokens(g)!Never
  BY DEF Tokens!TokensInv, Tokens!Never
<1> SUFFICES ASSUME NEW c \in Callers, login'[c].alone
             PROVE  /\ \A d \in Callers \ {c} : Tokens(g)!Over(d)'
                    /\ login'[c].op = "logout" => out'[login'[c].acc] = Tokens(g)!Never
                    /\ login'[c].op = "refresh" /\ login'[c].at = "create" /\ g.rotation => ~active'[login'[c].ref]
                    /\ login'[c].op = "revoke" /\ login'[c].at = "black" => ~active'[login'[c].ref]
  BY <1>1 DEF Tokens!Alone
<1>2. CASE Tokens(g)!CallerStep(c)
  <2>1. \A d \in Callers \ {c} : Tokens(g)!Over(d)
    BY <1>1, <1>2, OwnAlone DEF Tokens!Alone
  <2>2. \A d \in Callers \ {c} : Tokens(g)!Over(d)'
    BY <1>1, <1>2, <2>1, OthersKept, KeptFields DEF Tokens!Over
  <2>3. login[c].alone /\ login[c].op = "logout" => out[login[c].acc] = Tokens(g)!Never
    BY <1>1 DEF Tokens!Alone
  <2> QED
    BY <1>2, <2>2, <2>3, OwnAlone
<1>3. CASE Tokens(g)!Kept(c) /\ (login' = login \/ \E d \in Callers \ {c} : Tokens(g)!CallerStep(d))
  <2>1. login'[c] = login[c] /\ login[c].alone
    BY <1>1, <1>3, KeptFields
  <2>2. /\ \A d \in Callers \ {c} : Tokens(g)!Over(d)
        /\ login[c].op = "logout" => out[login[c].acc] = Tokens(g)!Never
        /\ login[c].op = "refresh" /\ login[c].at = "create" /\ g.rotation => ~active[login[c].ref]
        /\ login[c].op = "revoke" /\ login[c].at = "black" => ~active[login[c].ref]
    BY <1>1, <2>1 DEF Tokens!Alone
  <2>3. \A d \in Callers \ {c} : Tokens(g)!Over(d)'
    <3>1. ASSUME NEW e \in Callers \ {c}, Tokens(g)!CallerStep(e) PROVE Tokens(g)!Over(e)'
      <4>1. login[e].at = "done"
        BY <2>2 DEF Tokens!Over
      <4>2. \A op, spot, a, r : ~Tokens(g)!Begin(e, op, spot, a, r)
        BY <1>1, TokenBegins
      <4>3. PICK a \in g.access : Tokens(g)!validate_token(e, a)
        BY <3>1, <4>1, <4>2 DEF Tokens!CallerStep, Tokens!logout_user, Tokens!UseRefresh,
           Tokens!revoke_all, Tokens!FindBlack, Tokens!PutSeen,
           Tokens!BlackenOut, Tokens!PutOut, Tokens!FindRefresh, Tokens!SaveUse, Tokens!Retire, Tokens!Create, Tokens!BlackenOne, Tokens!FindAll, Tokens!RetireEach,
           Tokens!BlackenEach
      <4> QED
        BY <1>1, <4>2, <4>3, TokenJudged DEF Tokens!validate_token, Tokens!Over
    <3>2. ASSUME NEW e \in Callers \ {c}, Tokens(g)!CallerStep(e), NEW d \in Callers \ {c, e}
          PROVE  Tokens(g)!Over(d)'
      BY <1>1, <2>2, <3>2, OthersKept, KeptFields DEF Tokens!Over
    <3> QED
      BY <1>3, <2>2, <3>1, <3>2 DEF Tokens!Over
  <2>4. login[c].op = "logout" => out' = out
    BY <2>1, <2>2, Reports DEF Tokens!Over
  <2>5. ASSUME login[c].op \in {"refresh", "revoke"}, ~active[login[c].ref], login[c].at # "save"
        PROVE  ~active'[login[c].ref]
    <3>1. login[c].ref \in g.refresh /\ jti[login[c].ref] # None
      BY <1>1, <2>5, Zenon DEF Tokens!InPlaces, Tokens!InPlace
    <3> QED
      BY <2>2, <2>5, <3>1, Activates DEF Tokens!Over
  <2> QED
    BY <2>1, <2>2, <2>3, <2>4, <2>5
<1>4. login' = login \/ \E d \in Callers : Tokens(g)!CallerStep(d)
  BY NextCalls
<1> QED
  BY <1>2, <1>3, <1>4, EachCall

LEMMA CalmGrows ==
  ASSUME NEW g, [Tokens(g)!Next]_(Tokens(g)!vars), NEW x, x \in calm', x \notin calm
  PROVE  \E c \in Callers : Tokens(g)!Calms(c, x)
<1>1. ASSUME NEW c \in Callers, Tokens(g)!PutOut(c)
      PROVE  login[c].alone /\ x = <<g.storeOf[c], login[c].acc>>
  BY <1>1 DEF Tokens!PutOut
<1>2. ASSUME NEW c \in Callers, Tokens(g)!Create(c)
      PROVE  login[c].alone /\ g.rotation /\ x = login[c].ref
  BY <1>2 DEF Tokens!Create
<1>3. ASSUME NEW c \in Callers, Tokens(g)!BlackenOne(c) PROVE login[c].alone /\ x = login[c].ref
  BY <1>3 DEF Tokens!BlackenOne
<1>4. ASSUME NEW c \in Callers, Tokens(g)!RetireEach(c)
      PROVE  /\ login[c].alone
             /\ \E r \in login[c].refs : x = r /\ active' = [active EXCEPT ![r] = FALSE]
                                       /\ login' = [login EXCEPT ![c].refs = @ \ {r}, ![c].since = moment]
  BY <1>4 DEF Tokens!RetireEach
<1>5. calm' # calm
  OBVIOUS
<1> QED
  BY <1>1, <1>2, <1>3, <1>4, <1>5, ZenonT(30) DEF Tokens!Calms, Tokens!Next, Tokens!vars, Tokens!tokens,
     Tokens!login, Tokens!validate_token, Tokens!logout_user, Tokens!UseRefresh,
     Tokens!revoke_all, Tokens!FindBlack, Tokens!PutSeen, Tokens!BlackenOut, Tokens!FindRefresh, Tokens!SaveUse, Tokens!Retire, Tokens!FindAll, Tokens!BlackenEach,
     Tokens!cleanup, Tokens!Tick

(* A call comes to save a record that it found active.                     *)
LEMMA Savers ==
  ASSUME NEW g, Tokens(g)!TokensInv, NEW c \in Callers, Tokens(g)!CallerStep(c),
         login'[c].at = "save"
  PROVE  active[login[c].ref] /\ login'[c].ref = login[c].ref
<1>1. Tokens(g)!TypeOK
  BY DEF Tokens!TokensInv
<1>2. \A a \in g.access : ~Tokens(g)!validate_token(c, a) /\ ~Tokens(g)!logout_user(c, a)
  BY <1>1, TokenBegins, TokenJudged DEF Tokens!validate_token, Tokens!logout_user
<1>3. (\A r \in g.refresh, op \in {"refresh", "revoke"} : ~Tokens(g)!UseRefresh(c, op, r)) /\ ~Tokens(g)!revoke_all(c)
  BY <1>1, TokenBegins DEF Tokens!UseRefresh, Tokens!revoke_all
<1>4. ~Tokens(g)!PutSeen(c) /\ ~Tokens(g)!PutOut(c) /\ ~Tokens(g)!Create(c) /\ ~Tokens(g)!BlackenOne(c)
  BY <1>1, TokenJudged, TokenEnds DEF Tokens!PutSeen, Tokens!PutOut, Tokens!Create,
     Tokens!BlackenOne
<1>5. ~Tokens(g)!BlackenOut(c) /\ ~Tokens(g)!SaveUse(c) /\ ~Tokens(g)!Retire(c)
  <2>1. ~Tokens(g)!BlackenOut(c)
    BY <1>1, TokenGoesOn DEF Tokens!BlackenOut
  <2>2. ~Tokens(g)!SaveUse(c) /\ ~Tokens(g)!Retire(c)
    BY <1>1, TokenGoesOn DEF Tokens!SaveUse, Tokens!Retire
  <2> QED
    BY <2>1, <2>2
<1>6. ~Tokens(g)!FindAll(c) /\ ~Tokens(g)!FindBlack(c)
  <2>1. ~Tokens(g)!FindAll(c)
    BY <1>1, TokenFindsAll
  <2>2. ASSUME NEW b, login' = [login EXCEPT ![c].at = "put", ![c].since = moment, ![c].seen = b]
        PROVE  FALSE
    BY <1>1, <2>2, TokenFound
  <2>3. ASSUME NEW a, NEW began, Tokens(g)!Judge(c, a, began, g.failClosed) PROVE FALSE
    BY <1>1, <2>3, TokenJudged
  <2> QED
    BY <2>1, <2>2, <2>3 DEF Tokens!FindBlack
<1>7. ~Tokens(g)!RetireEach(c)
  <2>1. \A r : login' = [login EXCEPT ![c].refs = @ \ {r}, ![c].since = moment]
          => login'[c].at = login[c].at
    BY <1>1 DEF Tokens!TypeOK
  <2>2. Tokens(g)!RetireEach(c) => login[c].at = "retire" /\ (Tokens(g)!GoesOn(c, "black") \/ login'[c].at = login[c].at)
    BY <2>1 DEF Tokens!RetireEach
  <2> QED
    BY <1>1, <2>2, TokenGoesOn
<1>8. ~Tokens(g)!BlackenEach(c)
  <2>1. \A a : login' = [login EXCEPT ![c].accs = @ \ {a}, ![c].since = moment]
          => login'[c].at = login[c].at
    BY <1>1 DEF Tokens!TypeOK
  <2> QED
    BY <1>1, <2>1, TokenEnds DEF Tokens!BlackenEach
<1>9. Tokens(g)!FindRefresh(c)
  BY <1>2, <1>3, <1>4, <1>5, <1>6, <1>7, <1>8 DEF Tokens!CallerStep
<1> QED
  BY <1>1, <1>9, TokenGoesOn, TokenEnds DEF Tokens!FindRefresh, Tokens!FindActive

LEMMA RetiredStep ==
  ASSUME NEW g, Tokens(g)!Assumptions, Tokens(g)!TokensInv, Tokens(g)!Steady,
         [Tokens(g)!Next]_(Tokens(g)!vars)
  PROVE  Tokens(g)!Retired'
<1>1. Tokens(g)!TypeOK /\ Tokens(g)!Alone /\ Tokens(g)!InPlaces /\ Tokens(g)!Retired
  BY DEF Tokens!TokensInv
<1> SUFFICES ASSUME NEW r \in g.refresh, r \in calm'
             PROVE  /\ jti'[r] # None /\ ~active'[r]
                    /\ \A c \in Callers : login'[c].at = "save" => login'[c].ref # r
  BY DEF Tokens!Retired
<1>2. ASSUME jti[r] # None, ~active[r] \/ ~active'[r],
             \A c \in Callers : login[c].at = "save" => login[c].ref # r,
             ~active[r] \/ \A c \in Callers : ~(Tokens(g)!CallerStep(c) /\ login'[c].at = "save")
      PROVE  /\ jti'[r] # None /\ ~active'[r]
             /\ \A c \in Callers : login'[c].at = "save" => login'[c].ref # r
  <2>1. jti'[r] # None
    BY <1>2 DEF Tokens!Steady
  <2>2. ~active'[r]
    BY <1>2, Activates
  <2>3. ASSUME NEW c \in Callers, login'[c].at = "save" PROVE login'[c].ref # r
    <3>1. CASE Tokens(g)!Kept(c)
      BY <1>1, <1>2, <2>3, <3>1, KeptFields
    <3>2. CASE Tokens(g)!CallerStep(c)
      BY <1>2, <2>3, <3>2, Savers
    <3> QED
      BY <3>1, <3>2, EachCall
  <2> QED
    BY <2>1, <2>2, <2>3
<1>3. CASE r \in calm
  BY <1>1, <1>2, <1>3 DEF Tokens!Retired
<1>4. CASE r \notin calm
  <2>0. PICK c \in Callers : Tokens(g)!Calms(c, r)
    BY <1>4, CalmGrows
  <2>1. /\ login[c].alone
        /\ \/ Tokens(g)!PutOut(c) /\ r = <<g.storeOf[c], login[c].acc>>
           \/ Tokens(g)!Create(c) /\ g.rotation /\ r = login[c].ref
           \/ Tokens(g)!BlackenOne(c) /\ r = login[c].ref
           \/ \E q \in login[c].refs : Tokens(g)!RetireEach(c) /\ r = q /\ active' = [active EXCEPT ![q] = FALSE]
                                     /\ login' = [login EXCEPT ![c].refs = @ \ {q}, ![c].since = moment]
    BY <2>0 DEF Tokens!Calms
  <2>2. /\ \A d \in Callers \ {c} : Tokens(g)!Over(d)
        /\ login[c].op = "refresh" /\ login[c].at = "create" /\ g.rotation => ~active[login[c].ref]
        /\ login[c].op = "revoke" /\ login[c].at = "black" => ~active[login[c].ref]
    BY <1>1, <2>1 DEF Tokens!Alone
  <2>3. ~Tokens(g)!PutOut(c) \/ r # <<g.storeOf[c], login[c].acc>>
    <3>1. Tokens(g)!PutOut(c) => login[c].acc \in g.access /\ g.storeOf[c] \in Tokens(g)!Stores
      BY <1>1 DEF Tokens!PutOut, Tokens!InPlaces, Tokens!InPlace, Tokens!Issued, Tokens!Stores
    <3>2. r \notin Tokens(g)!Stores \X g.access
      BY DEF Tokens!Assumptions
    <3> QED
      BY <3>1, <3>2
  <2>4. CASE Tokens(g)!Create(c) /\ g.rotation /\ r = login[c].ref
    <3>1. login[c].op = "refresh" /\ login[c].at = "create" /\ jti[r] # None
      BY <1>1, <2>4 DEF Tokens!Create, Tokens!InPlaces, Tokens!InPlace, Tokens!TypeOK, Tokens!Ops
    <3> QED
      BY <1>2, <2>2, <2>4, <3>1 DEF Tokens!Over
  <2>5. CASE Tokens(g)!BlackenOne(c) /\ r = login[c].ref
    <3>1. login[c].op = "revoke" /\ login[c].at = "black" /\ jti[r] # None
      BY <1>1, <2>5 DEF Tokens!BlackenOne, Tokens!InPlaces, Tokens!InPlace
    <3> QED
      BY <1>2, <2>2, <2>5, <3>1 DEF Tokens!Over
  <2>6. CASE /\ Tokens(g)!RetireEach(c) /\ r \in login[c].refs /\ active' = [active EXCEPT ![r] = FALSE]
             /\ login' = [login EXCEPT ![c].refs = @ \ {r}, ![c].since = moment]
    <3>1. login[c].op = "revoke_all" /\ login[c].at = "retire" /\ jti[r] # None
      BY <1>1, <2>6 DEF Tokens!RetireEach, Tokens!InPlaces, Tokens!InPlace
    <3>2. ~active'[r]
      BY <1>1, <2>6 DEF Tokens!TypeOK
    <3>3. login'[c].at = "retire" /\ \A d \in Callers \ {c} : login'[d] = login[d]
      <4>1. login'[c] = [login[c] EXCEPT !.refs = @ \ {r}, !.since = moment]
            /\ \A d \in Callers \ {c} : login'[d] = login[d]
        BY <1>1, <2>6 DEF Tokens!TypeOK
      <4> QED
        BY <1>1, <3>1, <4>1 DEF Tokens!TypeOK
    <3>4. \A d \in Callers : ~(Tokens(g)!CallerStep(d) /\ login'[d].at = "save")
      BY <2>2, <3>3, Zenon DEF Tokens!Over
    <3> QED
      BY <1>2, <2>2, <3>1, <3>2, <3>4 DEF Tokens!Over
  <2> QED
    BY <2>1, <2>3, <2>4, <2>5, <2>6
<1> QED
  BY <1>3, <1>4

(* What stores are told: what a look-up found, or that a token is revoked. *)
LEMMA TokenTold ==
  ASSUME NEW g, Tokens(g)!TokensInv, [Tokens(g)!Next]_(Tokens(g)!vars), NEW s \in Tokens(g)!Stores,
         NEW a \in g.access, store'[s][a] # store[s][a]
  PROVE  \/ store'[s][a].val
         \/ \E c \in Callers : /\ g.storeOf[c] = s /\ login[c].op = "validate" /\ login[c].at = "put"
                               /\ login[c].acc = a /\ store'[s][a].val = login[c].seen
<1>1. store \in [Tokens(g)!Stores -> [g.access -> [val : BOOLEAN, until : Tokens(g)!Times]]]
  BY DEF Tokens!TokensInv, Tokens!TypeOK
<1>2. \A t \in Tokens(g)!Stores, b \in g.access, val \in BOOLEAN : Tokens(g)!SetStore(t, b, val) => t = s /\ b = a /\ store'[s][a].val = val
  BY <1>1 DEF Tokens!SetStore
<1>3. ASSUME NEW c \in Callers, Tokens(g)!PutSeen(c) \/ Tokens(g)!PutOut(c)
      PROVE  g.storeOf[c] \in Tokens(g)!Stores /\ login[c].acc \in g.access /\ login[c].seen \in BOOLEAN
  BY <1>3 DEF Tokens!PutSeen, Tokens!PutOut, Tokens!TokensInv, Tokens!InPlaces, Tokens!InPlace,
     Tokens!Issued, Tokens!Stores, Tokens!TypeOK
<1>4. ASSUME NEW c \in Callers, Tokens(g)!PutOut(c) PROVE store'[s][a].val
  BY <1>2, <1>3, <1>4 DEF Tokens!PutOut
<1>5. ASSUME NEW c \in Callers, Tokens(g)!PutSeen(c)
      PROVE  /\ g.storeOf[c] = s /\ login[c].op = "validate" /\ login[c].at = "put"
             /\ login[c].acc = a /\ store'[s][a].val = login[c].seen
  BY <1>2, <1>3, <1>5 DEF Tokens!PutSeen
<1>6. store' # store
  OBVIOUS
<1> QED
  BY <1>4, <1>5, <1>6, ZenonT(30) DEF Tokens!Next, Tokens!vars, Tokens!tokens, Tokens!login,
     Tokens!validate_token, Tokens!logout_user, Tokens!UseRefresh,
     Tokens!revoke_all, Tokens!FindBlack, Tokens!BlackenOut, Tokens!FindRefresh, Tokens!SaveUse, Tokens!Retire, Tokens!Create, Tokens!BlackenOne, Tokens!FindAll,
     Tokens!RetireEach, Tokens!BlackenEach, Tokens!cleanup, Tokens!Tick

LEMMA CalmLogout ==
  ASSUME NEW g, Tokens(g)!Assumptions, Tokens(g)!TokensInv, [Tokens(g)!Next]_(Tokens(g)!vars),
         NEW s \in Tokens(g)!Stores, NEW a \in g.access,
         <<s, a>> \in calm', <<s, a>> \notin calm
  PROVE  \E c \in Callers : login[c].alone /\ Tokens(g)!PutOut(c) /\ g.storeOf[c] = s /\ login[c].acc = a
<1> DEFINE x == <<s, a>>
<1>1. x \notin g.refresh /\ x \in calm' /\ x \notin calm /\ Tokens(g)!TypeOK /\ Tokens(g)!InPlaces
  BY DEF Tokens!Assumptions, Tokens!TokensInv
<1> HIDE DEF x
<1>2. ASSUME NEW c \in Callers, Tokens(g)!Create(c) \/ Tokens(g)!BlackenOne(c)
      PROVE  login[c].ref # x
  BY <1>1, <1>2, Zenon DEF Tokens!Create, Tokens!BlackenOne, Tokens!InPlaces, Tokens!InPlace,
     Tokens!TypeOK, Tokens!Ops
<1>3. \A c \in Callers : x \notin login[c].refs
  BY <1>1 DEF Tokens!TypeOK
<1>4. PICK c \in Callers : login[c].alone /\ Tokens(g)!PutOut(c) /\ x = <<g.storeOf[c], login[c].acc>>
  <2>0. PICK c \in Callers : Tokens(g)!Calms(c, x)
    BY <1>1, CalmGrows
  <2>1. /\ login[c].alone
        /\ \/ Tokens(g)!PutOut(c) /\ x = <<g.storeOf[c], login[c].acc>>
           \/ Tokens(g)!Create(c) /\ g.rotation /\ x = login[c].ref
           \/ Tokens(g)!BlackenOne(c) /\ x = login[c].ref
           \/ \E r \in login[c].refs : Tokens(g)!RetireEach(c) /\ x = r /\ active' = [active EXCEPT ![r] = FALSE]
                                     /\ login' = [login EXCEPT ![c].refs = @ \ {r}, ![c].since = moment]
    BY <2>0 DEF Tokens!Calms
  <2> QED
    BY <1>2, <1>3, <2>1
<1> QED
  BY <1>4 DEF x

LEMMA LoggedStep ==
  ASSUME NEW g, Tokens(g)!Assumptions, Tokens(g)!TokensInv, Tokens(g)!Steady,
         [Tokens(g)!Next]_(Tokens(g)!vars)
  PROVE  Tokens(g)!LoggedOut'
<1>1. Tokens(g)!TypeOK /\ Tokens(g)!Alone /\ Tokens(g)!InPlaces /\ Tokens(g)!LoggedOut /\ Tokens(g)!Never' = Tokens(g)!Never /\ Tokens(g)!Never > 0
  BY DEF Tokens!TokensInv, Tokens!Never, Tokens!Assumptions
<1> SUFFICES ASSUME NEW s \in Tokens(g)!Stores, NEW a \in g.access, <<s, a>> \in calm'
             PROVE  /\ black'[a] = Tokens(g)!Never /\ store'[s][a].val
                    /\ \A c \in Callers : g.storeOf[c] = s /\ login'[c].op = "validate" /\ login'[c].at = "put"
                                             /\ login'[c].acc = a => login'[c].seen
  BY <1>1 DEF Tokens!LoggedOut
<1>2. CASE <<s, a>> \in calm
  <2>1. /\ black[a] = Tokens(g)!Never /\ store[s][a].val
        /\ \A c \in Callers : g.storeOf[c] = s /\ login[c].op = "validate" /\ login[c].at = "put"
                                 /\ login[c].acc = a => login[c].seen
    BY <1>1, <1>2 DEF Tokens!LoggedOut
  <2>2. black'[a] = Tokens(g)!Never
    BY <2>1 DEF Tokens!Steady
  <2>3. store'[s][a].val
    BY <2>1, TokenTold
  <2>4. ASSUME NEW c \in Callers, g.storeOf[c] = s, login'[c].op = "validate",
               login'[c].at = "put", login'[c].acc = a
        PROVE  login'[c].seen
    <3>1. CASE Tokens(g)!Kept(c)
      BY <1>1, <2>1, <2>4, <3>1, KeptFields
    <3>2. CASE Tokens(g)!CallerStep(c)
      BY <1>1, <2>1, <2>4, <3>2, Lookers, Zenon
    <3> QED
      BY <3>1, <3>2, EachCall
  <2> QED
    BY <2>2, <2>3, <2>4
<1>3. CASE <<s, a>> \notin calm
  <2>4. PICK c \in Callers : login[c].alone /\ Tokens(g)!PutOut(c) /\ g.storeOf[c] = s /\ login[c].acc = a
    BY <1>3, CalmLogout
  <2>5. g.storeOf[c] = s /\ login[c].acc = a /\ login[c].op = "logout" /\ login[c].at = "put"
    BY <2>4 DEF Tokens!PutOut
  <2>6. black[a] = Tokens(g)!Never
    BY <1>1, <2>5 DEF Tokens!InPlaces, Tokens!InPlace
  <2>7. black'[a] = Tokens(g)!Never
    BY <2>6 DEF Tokens!Steady
  <2>8. store'[s][a].val
    BY <1>1, <2>4, <2>5 DEF Tokens!PutOut, Tokens!SetStore, Tokens!TypeOK
  <2>9. ASSUME NEW d \in Callers PROVE login'[d].at = "done"
    BY <1>1, <2>4, TokenEnds DEF Tokens!PutOut, Tokens!Alone, Tokens!Over
  <2> QED
    BY <2>7, <2>8, <2>9
<1> QED
  BY <1>2, <1>3

(* A token comes to be accepted from the store, or by a look-up.           *)
LEMMA Accepting ==
  ASSUME NEW g, Tokens(g)!TokensInv, NEW c \in Callers, Tokens(g)!CallerStep(c),
         Tokens(g)!Accepts(c)', g.failClosed \/ ~g.faults
  PROVE  LET a == login'[c].acc
         IN \/ /\ a \in g.access /\ g.storeOf[c] \in Tokens(g)!Stores /\ login'[c].began = moment
               /\ UNCHANGED <<moment, Tokens(g)!tokens, out, calm>>
               /\ store[g.storeOf[c]][a].until > moment /\ ~store[g.storeOf[c]][a].val
            \/ /\ login[c].op = "validate" /\ login[c].at = "put" /\ ~login[c].seen
               /\ login[c].acc = a /\ login'[c].began = login[c].began
               /\ UNCHANGED <<moment, expires, out, calm>>
<1>1. Tokens(g)!TypeOK
  BY DEF Tokens!TokensInv
<1>2. login'[c].op = "validate" /\ login'[c].at = "done"
  BY DEF Tokens!Accepts
<1>3. ASSUME NEW a \in g.access, Tokens(g)!validate_token(c, a)
      PROVE  /\ login'[c].acc = a /\ g.storeOf[c] \in Tokens(g)!Stores /\ login'[c].began = moment
             /\ UNCHANGED <<moment, Tokens(g)!tokens, out, calm>>
             /\ store[g.storeOf[c]][a].until > moment /\ ~store[g.storeOf[c]][a].val
  <2>1. ~Tokens(g)!Begin(c, "validate", "find", a, None)
    BY <1>1, <1>2, TokenBegins
  <2> QED
    BY <1>1, <1>2, <1>3, <2>1, TokenJudged DEF Tokens!validate_token, Tokens!Remembered,
       Tokens!Stores
<1>4. ASSUME Tokens(g)!PutSeen(c)
      PROVE  /\ login[c].op = "validate" /\ login[c].at = "put" /\ ~login[c].seen
             /\ login'[c].acc = login[c].acc /\ login'[c].began = login[c].began
             /\ UNCHANGED <<moment, expires, out, calm>>
  BY <1>1, <1>2, <1>4, TokenJudged DEF Tokens!PutSeen
<1>5. \A a \in g.access : ~Tokens(g)!logout_user(c, a)
  BY <1>1, <1>2, TokenBegins DEF Tokens!logout_user
<1>6. (\A r \in g.refresh, op \in {"refresh", "revoke"} : ~Tokens(g)!UseRefresh(c, op, r)) /\ ~Tokens(g)!revoke_all(c)
  BY <1>1, <1>2, TokenBegins DEF Tokens!UseRefresh, Tokens!revoke_all
<1>7. ~Tokens(g)!PutOut(c) /\ ~Tokens(g)!Create(c) /\ ~Tokens(g)!BlackenOne(c)
  BY <1>1, <1>2, TokenEnds DEF Tokens!PutOut, Tokens!Create, Tokens!BlackenOne
<1>8. ~Tokens(g)!BlackenOut(c) /\ ~Tokens(g)!FindRefresh(c)
  BY <1>1, <1>2, TokenGoesOn, TokenEnds DEF Tokens!BlackenOut, Tokens!FindRefresh
<1>9. ~Tokens(g)!SaveUse(c) /\ ~Tokens(g)!Retire(c)
  BY <1>1, <1>2, TokenGoesOn DEF Tokens!SaveUse, Tokens!Retire
<1>10. ~Tokens(g)!FindAll(c)
  BY <1>1, <1>2, TokenFindsAll
<1>11. ~Tokens(g)!FindBlack(c)
  <2>1. ASSUME NEW b, login' = [login EXCEPT ![c].at = "put", ![c].since = moment, ![c].seen = b]
        PROVE  FALSE
    BY <1>1, <1>2, <2>1, TokenFound
  <2>2. ASSUME g.faults, NEW a, NEW began, Tokens(g)!Judge(c, a, began, g.failClosed) PROVE FALSE
    BY <1>1, <1>2, <2>2, TokenJudged
  <2> QED
    BY <2>1, <2>2 DEF Tokens!FindBlack
<1>12. ~Tokens(g)!RetireEach(c)
  <2>1. \A r : login' = [login EXCEPT ![c].refs = @ \ {r}, ![c].since = moment]
          => login'[c].at = login[c].at
    BY <1>1 DEF Tokens!TypeOK
  <2>2. Tokens(g)!RetireEach(c) => login[c].at = "retire" /\ (Tokens(g)!GoesOn(c, "black") \/ login'[c].at = login[c].at)
    BY <2>1 DEF Tokens!RetireEach
  <2> QED
    BY <1>1, <1>2, <2>2, TokenGoesOn
<1>13. ~Tokens(g)!BlackenEach(c)
  <2>1. \A a : login' = [login EXCEPT ![c].accs = @ \ {a}, ![c].since = moment]
          => login'[c].at = login[c].at
    BY <1>1 DEF Tokens!TypeOK
  <2>2. Tokens(g)!BlackenEach(c) => login[c].at = "black" /\ (Tokens(g)!Ends(c) \/ login'[c].at = login[c].at)
    BY <2>1 DEF Tokens!BlackenEach
  <2> QED
    BY <1>1, <1>2, <2>2, TokenEnds
<1> QED
  BY <1>3, <1>4, <1>5, <1>6, <1>7, <1>8, <1>9, <1>10, <1>11, <1>12, <1>13 DEF Tokens!CallerStep

LEMMA RevokedExpiresStep ==
  ASSUME NEW g, Tokens(g)!Assumptions, Tokens(g)!TokensInv, Tokens(g)!Steady,
         [Tokens(g)!Next]_(Tokens(g)!vars)
  PROVE  Tokens(g)!RevokedExpires'
<1>1. /\ Tokens(g)!TypeOK /\ Tokens(g)!Alone /\ Tokens(g)!InPlaces /\ Tokens(g)!LoggedOut
      /\ Tokens(g)!Stored /\ Tokens(g)!Looked /\ Tokens(g)!RevokedExpires /\ Tokens(g)!Listed
      /\ moment \in Nat /\ g.ttl \in Nat /\ g.ttl > 0 /\ g.latency \in Nat
      /\ Tokens(g)!Never' = Tokens(g)!Never /\ Tokens(g)!Never > moment
      /\ expires \in [g.access -> Nat] /\ out \in [g.access -> Nat]
      /\ \A c \in Callers : login[c].since \in Nat /\ login[c].began \in Nat
      /\ store \in [Tokens(g)!Stores -> [g.access -> [val : BOOLEAN, until : Nat]]]
  BY DEF Tokens!TokensInv, Tokens!TypeOK, Tokens!Never, Tokens!Assumptions, Tokens!Times
<1> SUFFICES ASSUME NEW c \in Callers, Tokens(g)!Accepts(c)', g.failClosed \/ ~g.faults
             PROVE  /\ \/ login'[c].began < out'[login'[c].acc] + g.ttl + g.latency
                       \/ expires'[login'[c].acc] < login'[c].began + g.latency
                    /\ <<g.storeOf[c], login'[c].acc>> \in calm' => login'[c].began <= out'[login'[c].acc]
  BY DEF Tokens!RevokedExpires
<1>2. CASE Tokens(g)!CallerStep(c)
  <2> DEFINE a == login'[c].acc
  <2>1. CASE /\ a \in g.access /\ g.storeOf[c] \in Tokens(g)!Stores /\ login'[c].began = moment
             /\ UNCHANGED <<moment, Tokens(g)!tokens, out, calm>>
             /\ store[g.storeOf[c]][a].until > moment /\ ~store[g.storeOf[c]][a].val
    <3>1. <<g.storeOf[c], a>> \notin calm
      BY <1>1, <2>1 DEF Tokens!LoggedOut
    <3>2. store[g.storeOf[c]][a].until <= out[a] + g.ttl + g.latency \/ expires[a] < moment
      BY <1>1, <2>1 DEF Tokens!Stored
    <3>3. /\ store[g.storeOf[c]][a].until \in Nat /\ out[a] \in Nat /\ expires[a] \in Nat
          /\ out' = out /\ expires' = expires /\ calm' = calm
      BY <1>1, <2>1 DEF Tokens!tokens
    <3>4. moment < out[a] + g.ttl + g.latency \/ expires[a] < moment + g.latency
      BY <1>1, <2>1, <3>2, <3>3
    <3> QED
      BY <2>1, <3>1, <3>3, <3>4
  <2>2. CASE /\ login[c].op = "validate" /\ login[c].at = "put" /\ ~login[c].seen
             /\ login[c].acc = a /\ login'[c].began = login[c].began
             /\ UNCHANGED <<moment, expires, out, calm>>
    <3>1. /\ a \in g.access /\ g.storeOf[c] \in Tokens(g)!Stores
          /\ login[c].began <= login[c].since /\ login[c].since <= login[c].began + g.latency
      BY <1>1, <2>2 DEF Tokens!InPlaces, Tokens!InPlace, Tokens!Issued, Tokens!Stores
    <3>2. <<g.storeOf[c], a>> \notin calm
      BY <1>1, <2>2, <3>1 DEF Tokens!LoggedOut
    <3>3. login[c].since <= out[a] \/ expires[a] < login[c].since
      BY <1>1, <2>2 DEF Tokens!Looked
    <3>4. /\ out[a] \in Nat /\ expires[a] \in Nat /\ out' = out /\ expires' = expires
          /\ calm' = calm
          /\ login[c].since \in Nat /\ login[c].began \in Nat
      BY <1>1, <2>2, <3>1
    <3>5. login[c].began < out[a] + g.ttl + g.latency \/ expires[a] < login[c].began + g.latency
      BY <1>1, <3>1, <3>3, <3>4
    <3> QED
      BY <2>2, <3>2, <3>4, <3>5
  <2> QED
    BY <1>2, <2>1, <2>2, Accepting
<1>3. CASE Tokens(g)!Kept(c)
  <2> DEFINE a == login[c].acc
  <2>1. /\ Tokens(g)!Accepts(c) /\ login'[c].acc = a /\ login'[c].began = login[c].began
        /\ login[c].op = "validate" /\ login[c].at = "done"
    BY <1>1, <1>3, KeptFields DEF Tokens!Accepts
  <2>2. a \in g.access /\ a \in Tokens(g)!Issued /\ login[c].began <= moment /\ g.storeOf[c] \in Tokens(g)!Stores
    BY <1>1, <2>1 DEF Tokens!InPlaces, Tokens!InPlace, Tokens!Issued, Tokens!Stores
  <2>3. /\ login[c].began < out[a] + g.ttl + g.latency \/ expires[a] < login[c].began + g.latency
        /\ <<g.storeOf[c], a>> \in calm => login[c].began <= out[a]
    BY <1>1, <2>1 DEF Tokens!RevokedExpires
  <2>4. expires'[a] = expires[a] /\ (out'[a] = out[a] \/ out'[a] = moment)
    BY <2>2 DEF Tokens!Steady
  <2>5. out[a] \in Nat /\ expires[a] \in Nat /\ login[c].began \in Nat
    BY <1>1, <2>2
  <2>6. login[c].began < out'[a] + g.ttl + g.latency \/ expires'[a] < login[c].began + g.latency
    BY <1>1, <2>2, <2>3, <2>4, <2>5
  <2>7. ASSUME <<g.storeOf[c], a>> \in calm', <<g.storeOf[c], a>> \notin calm PROVE out'[a] = moment
    <3>4. PICK d \in Callers : login[d].alone /\ Tokens(g)!PutOut(d) /\ login[d].acc = a
      BY <2>2, <2>7, CalmLogout
    <3>5. login[d].acc = a /\ login[d].op = "logout"
      BY <3>4 DEF Tokens!PutOut
    <3>6. out[a] = Tokens(g)!Never
      BY <1>1, <3>4, <3>5 DEF Tokens!Alone
    <3> QED
      BY <1>1, <2>2, <3>4, <3>5, <3>6 DEF Tokens!PutOut
  <2> QED
    BY <1>1, <2>1, <2>2, <2>3, <2>4, <2>5, <2>6, <2>7
<1> QED
  BY <1>2, <1>3, EachCall

LEMMA TokensStep ==
  ASSUME NEW g, Tokens(g)!Assumptions
  PROVE  Tokens(g)!TokensInv /\ [Tokens(g)!Next]_(Tokens(g)!vars) => Tokens(g)!TokensInv'
<1> SUFFICES ASSUME Tokens(g)!TokensInv, [Tokens(g)!Next]_(Tokens(g)!vars)
             PROVE  Tokens(g)!TokensInv'
  OBVIOUS
<1>1. Tokens(g)!Steady
  BY TokensSteady
<1>2. Tokens(g)!TypeOK' /\ Tokens(g)!InPlaces' /\ Tokens(g)!Listed' /\ Tokens(g)!Stored'
  BY <1>1, TokenTypes, PlacesStep, ListedStep, StoredStep
<1>3. Tokens(g)!Looked' /\ Tokens(g)!Alone' /\ Tokens(g)!Retired' /\ Tokens(g)!LoggedOut' /\ Tokens(g)!RevokedExpires'
  BY <1>1, LookedStep, TokenAloneStep, RetiredStep, LoggedStep, RevokedExpiresStep
<1> QED
  BY <1>2, <1>3 DEF Tokens!TokensInv

(* A behaviour is of the tokens with the settings of a scene.              *)
TokenScene(s) == [][UNCHANGED scene]_scene /\ scene = s /\ Tokens(TokenScenes[s])!Spec

(* A token that was revoked is refused as soon as stores forget, in all    *)
(* processes and through every cleanup, and a refresh token that was       *)
(* retired alone is not active again (api/auth/service.py:494, 1190).      *)
THEOREM TokensStayRevoked ==
    ASSUME ScenesApart, NEW s \in DOMAIN TokenScenes, Tokens(TokenScenes[s])!Assumptions
    PROVE  TokenScene(s) => []RevokedStays
<1> DEFINE Here == scene = s
           Inv == Tokens(TokenScenes[s])!TokensInv
<1>1. Tokens(TokenScenes[s])!Init => Inv
  BY TokensInit
<1>2. Inv /\ [Tokens(TokenScenes[s])!Next]_(Tokens(TokenScenes[s])!vars) => Inv'
  BY TokensStep
<1>3. Here /\ [UNCHANGED scene]_scene => Here'
  OBVIOUS
<1>4. Here /\ Inv => RevokedStays
  BY DEF RevokedStays, ScenesApart, Tokens!TokensInv, Tokens!Retired, Tokens!RetiredForGood
<1>5. TokenScene(s) => /\ [][UNCHANGED scene]_scene /\ Here /\ Tokens(TokenScenes[s])!Init
                       /\ [][Tokens(TokenScenes[s])!Next]_(Tokens(TokenScenes[s])!vars)
  BY DEF TokenScene, Tokens!Spec
<1> HIDE DEF Here, Inv
<1> QED
  BY <1>1, <1>2, <1>3, <1>4, <1>5, PTL
-----------------------------------------------------------------------------
(* API keys, for every number of requests, processes, keys and origins, and  *)
(* settings g.                                                               *)

LEMMA KeysInit == ASSUME NEW g, Knocks(g)!Assumptions, Knocks(g)!Init PROVE Knocks(g)!KeysInv
<1>1. Knocks(g)!Never \in Nat /\ g.maxTime \in Nat /\ Knocks(g)!Never > 0 /\ Knocks(g)!Never > g.maxTime /\ 0 \in Knocks(g)!Times /\ Knocks(g)!Never \in Knocks(g)!Times /\ 0 \in 0..g.maxTime /\ g.ttl \in Nat
  BY DEF Knocks!Assumptions, Knocks!Never, Knocks!Times
<1>2. Knocks(g)!TypeOK
  BY <1>1 DEF Knocks!Init, Knocks!TypeOK, Knocks!Resting
<1>3. Knocks(g)!AllHold /\ Knocks(g)!RevokesAlone
  BY <1>1 DEF Knocks!Init, Knocks!AllHold, Knocks!Holds, Knocks!RevokesAlone, Knocks!Resting,
     Knocks!Over
<1>4. Knocks(g)!CachesEnd /\ Knocks(g)!KeysEnd /\ Knocks(g)!KeysExpire
  BY <1>1 DEF Knocks!Init, Knocks!CachesEnd, Knocks!KeysEnd, Knocks!KeysExpire, Knocks!Admitted,
     Knocks!Over, Knocks!Resting, Knocks!Uses
<1> QED
  BY <1>2, <1>3, <1>4 DEF Knocks!KeysInv

LEMMA KeyCalls ==
  ASSUME NEW g, Knocks(g)!TypeOK, NEW c \in Callers, NEW op \in {"request", "hook", "revoke"},
         NEW k \in g.keys,
         NEW origins \in SUBSET g.origins, Knocks(g)!Assumptions, Knocks(g)!Calls(c, op, "find", k, origins)
  PROVE  /\ knock' \in [Callers -> Knocks(g)!CallTypes]
         /\ \A d \in Callers \ {c} : Knocks(g)!Kept(d) /\ ~knock'[d].alone
         /\ knock[c].at = "done" /\ knock'[c].key = {k} /\ knock'[c].at = "find"
         /\ knock'[c].op = op
         /\ knock'[c].began \in {0, moments}
         /\ knock'[c].alone => op = "revoke" /\ adrift = {} /\ \A d \in Callers \ {c} : Knocks(g)!Over(d)
<1> DEFINE yes == op = "revoke" /\ adrift = {} /\ \A e \in Callers \ {c} : Knocks(g)!Over(e)
           new == [op |-> op, at |-> "find", key |-> {k}, from |-> origins, alone |-> yes,
                   began |-> IF op = "revoke" THEN 0 ELSE moments, since |-> moments]
<1>1. 0 \in 0..g.maxTime /\ moments \in 0..g.maxTime
  BY DEF Knocks!Assumptions, Knocks!TypeOK
<1>2. \A d \in Callers : knock[d] \in Knocks(g)!CallTypes /\ [knock[d] EXCEPT !.alone = FALSE] \in Knocks(g)!CallTypes
  <2>1. \A d \in Callers : knock[d] \in Knocks(g)!CallTypes
    BY DEF Knocks!TypeOK, Knocks!CallTypes
  <2>2. \A i \in Knocks(g)!CallTypes : [i EXCEPT !.alone = FALSE] \in Knocks(g)!CallTypes
    BY DEF Knocks!CallTypes
  <2> QED
    BY <2>1, <2>2
<1>3. /\ knock' = [d \in Callers |-> IF d # c THEN [knock[d] EXCEPT !.alone = FALSE] ELSE new]
      /\ knock[c].at = "done"
  BY DEF Knocks!Calls, Knocks!Over
<1>4. /\ new \in Knocks(g)!CallTypes /\ new.key = {k} /\ new.at = "find" /\ new.op = op
      /\ new.began \in {0, moments}
      /\ new.alone => yes
  BY <1>1 DEF Knocks!CallTypes
<1> HIDE DEF new
<1>5. /\ knock'[c] = new /\ DOMAIN knock' = Callers
      /\ \A d \in Callers \ {c} : knock'[d] = [knock[d] EXCEPT !.alone = FALSE]
  BY <1>3
<1>6. knock' \in [Callers -> Knocks(g)!CallTypes]
  <2>1. \A d \in Callers : knock'[d] \in Knocks(g)!CallTypes
    <3> HIDE DEF Knocks!CallTypes
    <3>1. ASSUME NEW d \in Callers, d # c PROVE knock'[d] \in Knocks(g)!CallTypes
      <4>1. [knock[d] EXCEPT !.alone = FALSE] \in Knocks(g)!CallTypes
        BY <1>2
      <4> QED
        BY <1>5, <3>1, <4>1
    <3> QED
      BY <1>4, <1>5, <3>1
  <2>2. knock' = [d \in Callers |-> knock'[d]]
    BY <1>3
  <2> HIDE DEF yes
  <2> QED
    BY <2>1, <2>2
<1>7. \A d \in Callers \ {c} : Knocks(g)!Kept(d) /\ ~knock'[d].alone
  BY <1>2, <1>5 DEF Knocks!Kept, Knocks!CallTypes
<1>8. knock'[c].alone => op = "revoke" /\ adrift = {} /\ \A d \in Callers \ {c} : Knocks(g)!Over(d)
  BY <1>4, <1>5
<1> QED
  BY <1>3, <1>4, <1>5, <1>6, <1>7, <1>8

LEMMA KeyGoesOn ==
  ASSUME NEW g, Knocks(g)!TypeOK, NEW c \in Callers, NEW spot, Knocks(g)!GoesOn(c, spot)
  PROVE  /\ \A d \in Callers \ {c} : knock'[d] = knock[d]
         /\ knock'[c].at = spot /\ knock'[c].op = knock[c].op /\ knock'[c].key = knock[c].key
         /\ knock'[c].began = knock[c].began /\ knock'[c].alone = knock[c].alone
         /\ spot \in {"use", "put", "again", "save", "drop"} => knock' \in [Callers -> Knocks(g)!CallTypes]
<1>1. /\ \A d \in Callers \ {c} : knock'[d] = knock[d]
      /\ knock'[c] = [knock[c] EXCEPT !.at = spot, !.since = moments]
      /\ knock' = [knock EXCEPT ![c] = [knock[c] EXCEPT !.at = spot, !.since = moments]]
  <2>1. knock \in [Callers -> Knocks(g)!CallTypes]
    BY DEF Knocks!TypeOK, Knocks!CallTypes
  <2>2. knock' = [knock EXCEPT ![c].at = spot, ![c].since = moments]
    BY Zenon DEF Knocks!GoesOn
  <2>3. knock'[c] = [knock[c] EXCEPT !.at = spot, !.since = moments]
    BY <2>1, <2>2
  <2>4. \A d \in Callers \ {c} : knock'[d] = knock[d]
    BY <2>1, <2>2
  <2>5. knock' = [d \in Callers |-> knock'[d]]
    BY <2>1, <2>2
  <2> QED
    BY <2>1, <2>3, <2>4, <2>5
<1>2. spot \in {"use", "put", "again", "save", "drop"} =>
        [knock[c] EXCEPT !.at = spot, !.since = moments] \in Knocks(g)!CallTypes
  <2>1. knock[c] \in Knocks(g)!CallTypes /\ moments \in 0..g.maxTime
    BY DEF Knocks!TypeOK, Knocks!CallTypes
  <2>2. \A k \in Knocks(g)!CallTypes, m \in 0..g.maxTime, i \in {"use", "put", "again", "save", "drop"} :
          [k EXCEPT !.at = i, !.since = m] \in Knocks(g)!CallTypes
    BY DEF Knocks!CallTypes
  <2> QED
    BY <2>1, <2>2
<1> QED
  BY <1>1, <1>2 DEF Knocks!TypeOK, Knocks!CallTypes

LEMMA KeyEnds ==
  ASSUME NEW g, Knocks(g)!TypeOK, Knocks(g)!Assumptions, NEW c \in Callers, Knocks(g)!Ends(c)
  PROVE  /\ \A d \in Callers \ {c} : knock'[d] = knock[d]
         /\ knock'[c].op = "none" /\ knock'[c].at = "done" /\ knock'[c].key = {} /\ ~knock'[c].alone
         /\ knock'[c].began = 0
         /\ knock' \in [Callers -> Knocks(g)!CallTypes]
<1>1. Knocks(g)!Resting \in Knocks(g)!CallTypes
  BY DEF Knocks!Resting, Knocks!CallTypes, Knocks!Assumptions
<1>2. knock' = [knock EXCEPT ![c] = Knocks(g)!Resting] /\ knock \in [Callers -> Knocks(g)!CallTypes]
  BY DEF Knocks!Ends, Knocks!TypeOK, Knocks!CallTypes
<1> QED
  BY <1>1, <1>2 DEF Knocks!Resting

LEMMA KeyAdmits ==
  ASSUME NEW g, Knocks(g)!TypeOK, Knocks(g)!Assumptions, NEW c \in Callers, Knocks(g)!Admits(c)
  PROVE  /\ \A d \in Callers \ {c} : knock'[d] = knock[d]
         /\ knock'[c].at = "done" /\ knock'[c].op = knock[c].op /\ knock'[c].key = knock[c].key
         /\ knock'[c].began = knock[c].began /\ ~knock'[c].alone
         /\ knock' \in [Callers -> Knocks(g)!CallTypes]
<1>1. /\ \A d \in Callers \ {c} : knock'[d] = knock[d]
      /\ knock'[c] = [knock[c] EXCEPT !.at = "done", !.alone = FALSE, !.since = 0]
      /\ knock' = [knock EXCEPT ![c] = [knock[c] EXCEPT !.at = "done", !.alone = FALSE, !.since = 0]]
  BY DEF Knocks!Admits, Knocks!TypeOK
<1>2. 0 \in 0..g.maxTime
  BY DEF Knocks!Assumptions
<1>3. [knock[c] EXCEPT !.at = "done", !.alone = FALSE, !.since = 0] \in Knocks(g)!CallTypes
  <2>1. knock[c] \in Knocks(g)!CallTypes
    BY DEF Knocks!TypeOK, Knocks!CallTypes
  <2>2. \A k \in Knocks(g)!CallTypes :
          [k EXCEPT !.at = "done", !.alone = FALSE, !.since = 0] \in Knocks(g)!CallTypes
    BY <1>2 DEF Knocks!CallTypes
  <2> QED
    BY <2>1, <2>2
<1> QED
  BY <1>1, <1>3 DEF Knocks!TypeOK, Knocks!CallTypes

LEMMA KeyMoves ==
  ASSUME NEW g, Knocks(g)!Assumptions, Knocks(g)!TypeOK, NEW c \in Callers, NEW k \in g.keys,
         Knocks(g)!CallStep(c, k)
  PROVE  /\ knock' \in [Callers -> Knocks(g)!CallTypes]
         /\ \A d \in Callers \ {c} : Knocks(g)!Kept(d)
         /\ Knocks(g)!Moves(c)
         /\ knock[c].at # "done" => knock[c].key = {k}
<1> DEFINE Fine == /\ knock' \in [Callers -> Knocks(g)!CallTypes]
                   /\ \A d \in Callers \ {c} : Knocks(g)!Kept(d)
                   /\ Knocks(g)!Moves(c)
<1>1. ASSUME moments' = moments, Knocks(g)!Ends(c) PROVE Fine
  BY <1>1, KeyEnds DEF Knocks!Moves, Knocks!Kept
<1>2. ASSUME NEW spot \in {"use", "put", "again", "save", "drop"}, moments' = moments,
             Knocks(g)!GoesOn(c, spot),
             knock'[c].at = spot => Knocks(g)!Passes(c)
      PROVE  Fine
  BY <1>2, KeyGoesOn DEF Knocks!Moves, Knocks!Kept
<1>3. ASSUME NEW op \in {"request", "hook", "revoke"}, NEW origins \in SUBSET g.origins,
             moments' = moments,
             keys[k].state # "none", Knocks(g)!Calls(c, op, "find", k, origins), adrift' = adrift
      PROVE  Fine /\ knock[c].at = "done"
  BY <1>3, KeyCalls DEF Knocks!Moves
<1>4. ASSUME NEW o \in g.origins, Knocks(g)!_authenticate_api_key(c, k, o)
      PROVE  Fine /\ knock[c].at = "done"
  BY <1>3, <1>4 DEF Knocks!_authenticate_api_key, Knocks!held
<1>5. ASSUME NEW o \in g.origins, Knocks(g)!authenticate_webhook_api_key(c, k, o)
      PROVE  Fine /\ knock[c].at = "done"
  <2>1. CASE Knocks(g)!Calls(c, "hook", "find", k, {o})
    BY <1>3, <1>5, <2>1 DEF Knocks!authenticate_webhook_api_key
  <2>2. CASE Knocks(g)!Ends(c)
    BY <1>1, <1>5, <2>2 DEF Knocks!authenticate_webhook_api_key, Knocks!Over
  <2>3. CASE /\ Knocks(g)!Remembers(g.processOf[c], k)
             /\ knock' = [knock EXCEPT ![c] =
                         [Knocks(g)!Resting EXCEPT !.op = "hook", !.key = {k}, !.from = {o}, !.began = moments]]
    <3> DEFINE new == [Knocks(g)!Resting EXCEPT !.op = "hook", !.key = {k}, !.from = {o}, !.began = moments]
    <3>1. /\ new \in Knocks(g)!CallTypes /\ new.key = {k} /\ new.at = "done" /\ new.op = "hook"
          /\ new.began = moments
          /\ ~new.alone
      <4>1. moments \in 0..g.maxTime /\ Knocks(g)!Resting \in Knocks(g)!CallTypes /\ {k} \in SUBSET g.keys /\ {o} \in SUBSET g.origins
        BY DEF Knocks!TypeOK, Knocks!Assumptions, Knocks!Resting, Knocks!CallTypes
      <4>2. Knocks(g)!Resting.at = "done" /\ ~Knocks(g)!Resting.alone
        BY DEF Knocks!Resting
      <4> QED
        BY <4>1, <4>2 DEF Knocks!CallTypes
    <3>2. knock' = [knock EXCEPT ![c] = new]
      BY <2>3
    <3> HIDE DEF new
    <3>3. knock \in [Callers -> Knocks(g)!CallTypes]
      BY DEF Knocks!TypeOK, Knocks!CallTypes
    <3>4. knock' \in [Callers -> Knocks(g)!CallTypes] /\ knock'[c] = new /\ \A d \in Callers \ {c} : knock'[d] = knock[d]
      BY <3>1, <3>2, <3>3
    <3>5. remembered[g.processOf[c]][k] > moments /\ keys[k].state # "none" /\ moments' = moments /\ knock[c].at = "done"
      BY <1>5, <2>3 DEF Knocks!Remembers, Knocks!authenticate_webhook_api_key, Knocks!Over
    <3>6. Knocks(g)!Moves(c)
      BY <3>1, <3>4, <3>5 DEF Knocks!Moves
    <3> QED
      BY <3>4, <3>5, <3>6 DEF Knocks!Kept
  <2> QED
    BY <1>5, <2>1, <2>2, <2>3 DEF Knocks!authenticate_webhook_api_key
<1>6. ASSUME Knocks(g)!revoke_key(c, k) PROVE Fine /\ knock[c].at = "done"
  BY <1>3, <1>6 DEF Knocks!revoke_key, Knocks!held
<1>7. ASSUME Knocks(g)!validate_key(c, k) PROVE Fine /\ knock[c].key = {k}
  <2>1. CASE Knocks(g)!Ends(c)
    BY <1>1, <1>7, <2>1 DEF Knocks!validate_key
  <2>2. CASE Knocks(g)!Finds(k) /\ Knocks(g)!GoesOn(c, "use")
    BY <1>2, <1>7, <2>2 DEF Knocks!validate_key, Knocks!Passes, Knocks!At, Knocks!held
  <2> QED
    BY <1>7, <2>1, <2>2 DEF Knocks!validate_key
<1>8. ASSUME Knocks(g)!update_key_usage(c, k) PROVE Fine /\ knock[c].key = {k}
  <2>1. CASE Knocks(g)!Ends(c)
    BY <1>1, <1>8, <2>1 DEF Knocks!update_key_usage
  <2>2. CASE knock[c].op = "hook" /\ Knocks(g)!GoesOn(c, "put")
    BY <1>2, <1>8, <2>2 DEF Knocks!update_key_usage, Knocks!Passes, Knocks!At
  <2>3. CASE knock[c].op # "hook" /\ Knocks(g)!GoesOn(c, "again")
    BY <1>2, <1>8, <2>3 DEF Knocks!update_key_usage, Knocks!Passes, Knocks!At
  <2> QED
    BY <1>8, <2>1, <2>2, <2>3 DEF Knocks!update_key_usage, Knocks!Checked
<1>9. ASSUME Knocks(g)!GivesUp(c, k) PROVE Fine /\ knock[c].key = {k}
  BY <1>1, <1>9 DEF Knocks!GivesUp
<1>10. ASSUME Knocks(g)!Remember(c, k) PROVE Fine /\ knock[c].key = {k}
  <2>1. CASE Knocks(g)!Ends(c)
    BY <1>1, <1>10, <2>1 DEF Knocks!Remember
  <2>2. CASE Knocks(g)!GoesOn(c, "again")
    BY <1>2, <1>10, <2>2 DEF Knocks!Remember, Knocks!Passes, Knocks!At
  <2> QED
    BY <1>10, <2>1, <2>2 DEF Knocks!Remember, Knocks!Checked
<1>11. ASSUME Knocks(g)!UsedAgain(c, k) PROVE Fine /\ knock[c].key = {k}
  <2>1. Knocks(g)!Admits(c) /\ knock[c].at = "again" /\ knock[c].op \in {"request", "hook"} /\ moments' = moments
    BY <1>11 DEF Knocks!UsedAgain, Knocks!At
  <2> QED
    BY <1>11, <2>1, KeyAdmits DEF Knocks!Moves, Knocks!Passes, Knocks!Kept, Knocks!UsedAgain
<1>12. ASSUME Knocks(g)!Deactivate(c, k) PROVE Fine /\ knock[c].key = {k}
  <2>1. CASE Knocks(g)!Ends(c)
    BY <1>1, <1>12, <2>1 DEF Knocks!Deactivate
  <2>2. CASE keys' = [keys EXCEPT ![k].state = "revoked"] /\ Knocks(g)!GoesOn(c, "drop")
    <3>1. keys'[k].state = "revoked"
      BY <2>2 DEF Knocks!TypeOK
    <3> QED
      BY <1>2, <1>12, <2>2, <3>1 DEF Knocks!Deactivate, Knocks!Passes, Knocks!At
  <2> QED
    BY <1>12, <2>1, <2>2 DEF Knocks!Deactivate
<1>13. ASSUME Knocks(g)!Drop(c, k) PROVE Fine /\ knock[c].key = {k}
  BY <1>1, <1>13 DEF Knocks!Drop
<1> QED
  BY <1>4, <1>5, <1>6, <1>7, <1>8, <1>9, <1>10, <1>11, <1>12, <1>13 DEF Knocks!CallStep

LEMMA GetMoves ==
  ASSUME NEW g, Knocks(g)!Assumptions, Knocks(g)!TypeOK, NEW c \in Callers, Knocks(g)!GetOwn(c)
  PROVE  knock' \in [Callers -> Knocks(g)!CallTypes] /\ Knocks(g)!Moves(c) /\ \A d \in Callers \ {c} : Knocks(g)!Kept(d)
<1>1. CASE Knocks(g)!Ends(c)
  BY <1>1, KeyEnds DEF Knocks!GetOwn, Knocks!Moves, Knocks!Kept
<1>2. CASE Knocks(g)!GoesOn(c, "save")
  BY <1>2, KeyGoesOn DEF Knocks!GetOwn, Knocks!Moves, Knocks!Kept, Knocks!Passes, Knocks!At
<1> QED
  BY <1>1, <1>2 DEF Knocks!GetOwn

LEMMA KeysGo ==
  ASSUME NEW g, Knocks(g)!Assumptions, Knocks(g)!TypeOK, [Knocks(g)!Next]_(Knocks(g)!vars)
  PROVE  Knocks(g)!DataTypes' /\ Knocks(g)!RecordsGo /\ Knocks(g)!AdriftGoes /\ Knocks(g)!CachesGo /\ Knocks(g)!GoneGoes /\ moments' >= moments
<1> DEFINE AllGo == Knocks(g)!DataTypes' /\ Knocks(g)!RecordsGo /\ Knocks(g)!AdriftGoes /\ Knocks(g)!CachesGo /\ Knocks(g)!GoneGoes /\ moments' >= moments
<1>1. /\ g.maxTime \in Nat /\ g.ttl \in Nat /\ moments \in Nat /\ moments <= g.maxTime
      /\ Knocks(g)!Never = g.maxTime + g.maxTime + g.ttl + 1
      /\ Knocks(g)!Times = 0..Knocks(g)!Never /\ Knocks(g)!Never' = Knocks(g)!Never
  BY DEF Knocks!Assumptions, Knocks!TypeOK, Knocks!Never, Knocks!Times
<1>2. /\ keys \in [g.keys -> [state : {"none", "active", "revoked"}, until : Knocks(g)!Times]]
      /\ remembered \in [Knocks(g)!Processes -> [g.keys -> Knocks(g)!Times]]
      /\ adrift \subseteq g.keys
      /\ gone \in [Knocks(g)!Processes -> [g.keys -> Knocks(g)!Times]]
      /\ \A c \in Callers : knock[c].began \in 0..g.maxTime /\ g.processOf[c] \in Knocks(g)!Processes
  BY DEF Knocks!TypeOK, Knocks!Processes
<1>3. ASSUME UNCHANGED <<keys, remembered, adrift, gone>>, moments' \in 0..g.maxTime,
             moments' >= moments
      PROVE  AllGo
  BY <1>1, <1>2, <1>3 DEF Knocks!DataTypes, Knocks!RecordsGo, Knocks!AdriftGoes, Knocks!CachesGo,
     Knocks!GoneGoes, Knocks!Times
<1>4. ASSUME UNCHANGED <<remembered, gone>>, moments' = moments, NEW k \in g.keys,
             Knocks(g)!Used(k),
             k \in adrift \/ \E c \in Callers : /\ knock[c].op \in {"request", "hook"}
                                            /\ knock[c].at \in {"use", "again"}
                                            /\ knock[c].key = {k},
             adrift' \subseteq adrift
      PROVE  AllGo
  <2>1. keys' = [keys EXCEPT ![k] = [keys[k] EXCEPT !.state = "active"]]
    BY <1>2, <1>4 DEF Knocks!Used
  <2>2. Knocks(g)!DataTypes'
    <3>1. [keys[k] EXCEPT !.state = "active"] \in [state : {"none", "active", "revoked"}, until : Knocks(g)!Times]
      BY <1>2
    <3>2. keys' \in [g.keys -> [state : {"none", "active", "revoked"}, until : Knocks(g)!Times]]
      BY <1>2, <2>1, <3>1
    <3> QED
      BY <1>1, <1>2, <1>4, <3>2 DEF Knocks!DataTypes, Knocks!TypeOK
  <2>3. Knocks(g)!RecordsGo
    BY <1>2, <1>4, <2>1 DEF Knocks!RecordsGo
  <2> QED
    BY <1>1, <1>4, <2>2, <2>3 DEF Knocks!AdriftGoes, Knocks!CachesGo, Knocks!GoneGoes
<1>5. ASSUME NEW k \in g.keys, NEW life \in g.lives, Knocks(g)!generate_key(k, life) PROVE AllGo
  <2> DEFINE till == IF life = 0 THEN Knocks(g)!Never ELSE moments + life
  <2>1. till \in Knocks(g)!Times /\ keys' = [keys EXCEPT ![k] = [state |-> "active", until |-> till]]
    BY <1>1, <1>5 DEF Knocks!generate_key, Knocks!Assumptions
  <2>2. UNCHANGED <<moments, remembered, adrift, gone>> /\ keys[k].state = "none"
    BY <1>5 DEF Knocks!generate_key
  <2> HIDE DEF till
  <2>3. Knocks(g)!DataTypes'
    BY <1>1, <1>2, <2>1, <2>2 DEF Knocks!DataTypes, Knocks!TypeOK
  <2>4. Knocks(g)!RecordsGo
    BY <1>2, <2>1, <2>2 DEF Knocks!RecordsGo
  <2> QED
    BY <1>1, <2>2, <2>3, <2>4 DEF Knocks!AdriftGoes, Knocks!CachesGo, Knocks!GoneGoes
<1>7. ASSUME NEW c \in Callers, NEW k \in g.keys, NEW o \in g.origins,
             Knocks(g)!authenticate_webhook_api_key(c, k, o)
      PROVE  AllGo
  <2>1. CASE UNCHANGED remembered
    BY <1>1, <1>3, <1>7, <2>1, <1>2 DEF Knocks!authenticate_webhook_api_key, Knocks!TypeOK
  <2>2. CASE remembered' = [remembered EXCEPT ![g.processOf[c]][k] = 0]
    <3>1. UNCHANGED <<moments, keys, adrift, gone>>
      BY <1>7 DEF Knocks!authenticate_webhook_api_key
    <3>2. /\ remembered' \in [Knocks(g)!Processes -> [g.keys -> Knocks(g)!Times]]
          /\ \A p \in Knocks(g)!Processes, x \in g.keys : remembered'[p][x] \in {0, remembered[p][x]}
      BY <1>1, <1>2, <2>2
    <3> QED
      BY <1>1, <1>2, <3>1, <3>2 DEF Knocks!DataTypes, Knocks!RecordsGo, Knocks!AdriftGoes,
         Knocks!CachesGo, Knocks!GoneGoes, Knocks!TypeOK
  <2> QED
    BY <1>7, <2>1, <2>2 DEF Knocks!authenticate_webhook_api_key
<1>8. ASSUME NEW c \in Callers, NEW k \in g.keys, Knocks(g)!update_key_usage(c, k) PROVE AllGo
  <2>1. UNCHANGED <<moments, remembered, adrift, gone>> /\ knock[c].key = {k} /\ knock[c].at = "use"
        /\ knock[c].op \in {"request", "hook"} /\ (Knocks(g)!Used(k) \/ UNCHANGED keys)
    BY <1>8 DEF Knocks!update_key_usage, Knocks!At
  <2> QED
    BY <1>1, <1>3, <1>4, <2>1
<1>9. ASSUME NEW c \in Callers, NEW k \in g.keys, Knocks(g)!GivesUp(c, k) PROVE AllGo
  <2>1. UNCHANGED <<moments, keys, remembered, gone>> /\ knock[c].op = "hook" /\ knock[c].key = {k}
        /\ (adrift' = adrift \/ (knock[c].at = "use" /\ adrift' = adrift \cup {k}))
    BY <1>9 DEF Knocks!GivesUp
  <2>2. Knocks(g)!DataTypes' /\ Knocks(g)!AdriftGoes
    BY <1>1, <1>2, <2>1 DEF Knocks!DataTypes, Knocks!AdriftGoes, Knocks!TypeOK
  <2> QED
    BY <1>1, <2>1, <2>2 DEF Knocks!RecordsGo, Knocks!CachesGo, Knocks!GoneGoes
<1>10. ASSUME NEW c \in Callers, NEW k \in g.keys, Knocks(g)!Remember(c, k) PROVE AllGo
  <2> DEFINE own == g.processOf[c]
             kept == Knocks(g)!_api_key_cache_cleanup_locked(remembered[own])
  <2>1. /\ UNCHANGED <<moments, keys, adrift, gone>> /\ knock[c].op = "hook" /\ knock[c].at = "put"
        /\ knock[c].key = {k} /\ own \in Knocks(g)!Processes /\ knock[c].began \in 0..g.maxTime
        /\ remembered' = [remembered EXCEPT ![own] = [kept EXCEPT ![k] = knock[c].began + g.ttl]]
    BY <1>2, <1>10 DEF Knocks!Remember, Knocks!At
  <2>2. kept \in [g.keys -> Knocks(g)!Times] /\ \A x \in g.keys : kept[x] \in {0, remembered[own][x]}
    <3>1. remembered[own] \in [g.keys -> Knocks(g)!Times] /\ 0 \in Knocks(g)!Times
      BY <1>1, <1>2, <2>1
    <3> QED
      BY <3>1 DEF Knocks!_api_key_cache_cleanup_locked
  <2> HIDE DEF kept, own
  <2>3. knock[c].began + g.ttl \in Knocks(g)!Times
    BY <1>1, <2>1
  <2>4. /\ remembered' \in [Knocks(g)!Processes -> [g.keys -> Knocks(g)!Times]]
        /\ remembered'[own][k] = knock[c].began + g.ttl
        /\ \A q \in Knocks(g)!Processes, x \in g.keys : q # own \/ x # k => remembered'[q][x] \in {0, remembered[q][x]}
    BY <1>2, <2>1, <2>2, <2>3
  <2>5. Knocks(g)!CachesGo
    BY <2>1, <2>4 DEF Knocks!CachesGo
  <2> QED
    BY <1>1, <1>2, <2>1, <2>4, <2>5 DEF Knocks!DataTypes, Knocks!RecordsGo, Knocks!AdriftGoes,
       Knocks!GoneGoes, Knocks!TypeOK
<1>11. ASSUME NEW c \in Callers, NEW k \in g.keys, Knocks(g)!UsedAgain(c, k) PROVE AllGo
  <2>1. UNCHANGED <<moments, remembered, adrift, gone>> /\ knock[c].key = {k} /\ knock[c].at = "again"
        /\ knock[c].op \in {"request", "hook"} /\ (Knocks(g)!Used(k) \/ UNCHANGED keys)
    BY <1>11 DEF Knocks!UsedAgain, Knocks!At
  <2> QED
    BY <1>1, <1>3, <1>4, <2>1
<1>12. ASSUME NEW c \in Callers, NEW k \in g.keys, Knocks(g)!Deactivate(c, k) PROVE AllGo
  <2>1. UNCHANGED <<moments, remembered, adrift, gone>>
        /\ (UNCHANGED keys \/ keys' = [keys EXCEPT ![k] = [keys[k] EXCEPT !.state = "revoked"]])
    BY <1>2, <1>12 DEF Knocks!Deactivate
  <2>2. ASSUME keys' = [keys EXCEPT ![k] = [keys[k] EXCEPT !.state = "revoked"]] PROVE AllGo
    <3>1. Knocks(g)!DataTypes' /\ Knocks(g)!RecordsGo
      BY <1>1, <1>2, <2>1, <2>2 DEF Knocks!DataTypes, Knocks!RecordsGo, Knocks!TypeOK
    <3> QED
      BY <1>1, <2>1, <3>1 DEF Knocks!AdriftGoes, Knocks!CachesGo, Knocks!GoneGoes
  <2> QED
    BY <1>1, <1>3, <2>1, <2>2
<1>13. ASSUME NEW c \in Callers, NEW k \in g.keys, Knocks(g)!Drop(c, k) PROVE AllGo
  <2> DEFINE own == g.processOf[c]
  <2>1. /\ UNCHANGED <<moments, keys, adrift>> /\ knock[c].op = "revoke" /\ knock[c].at = "drop"
        /\ knock[c].key = {k} /\ own \in Knocks(g)!Processes /\ Knocks(g)!Ends(c)
        /\ remembered' = [remembered EXCEPT ![own][k] = 0]
        /\ gone' = [gone EXCEPT ![own][k] = IF knock[c].alone /\ moments < gone[own][k] THEN moments ELSE gone[own][k]]
    BY <1>2, <1>13 DEF Knocks!Drop, Knocks!At, Knocks!invalidate_api_key_cache_hash
  <2> HIDE DEF own
  <2>2. /\ remembered' \in [Knocks(g)!Processes -> [g.keys -> Knocks(g)!Times]]
        /\ remembered'[own][k] = 0
        /\ \A q \in Knocks(g)!Processes, x \in g.keys : remembered'[q][x] \in {0, remembered[q][x]}
    BY <1>1, <1>2, <2>1
  <2>3. /\ gone' \in [Knocks(g)!Processes -> [g.keys -> Knocks(g)!Times]]
        /\ \A q \in Knocks(g)!Processes, x \in g.keys :
              gone'[q][x] = gone[q][x] \/ (q = own /\ x = k /\ knock[c].alone /\ gone'[q][x] = moments)
    BY <1>1, <1>2, <2>1
  <2>4. knock'[c].at = "done" /\ \A d \in Callers \ {c} : knock'[d] = knock[d]
    BY <2>1, KeyEnds
  <2>5. Knocks(g)!DataTypes'
    BY <1>1, <1>2, <2>1, <2>2, <2>3 DEF Knocks!DataTypes, Knocks!TypeOK
  <2>6. Knocks(g)!GoneGoes
    BY <2>1, <2>2, <2>3, <2>4 DEF Knocks!GoneGoes
  <2> QED
    BY <1>1, <2>1, <2>2, <2>5, <2>6 DEF Knocks!RecordsGo, Knocks!AdriftGoes, Knocks!CachesGo
<1>14. ASSUME NEW k \in g.keys, Knocks(g)!Lands(k) PROVE AllGo
  BY <1>1, <1>4, <1>14 DEF Knocks!Lands
<1>15. CASE Knocks(g)!Tick
  BY <1>1, <1>3, <1>15 DEF Knocks!Tick, Knocks!held
<1>16. ASSUME NEW c \in Callers, NEW k \in g.keys, NEW o \in g.origins,
              Knocks(g)!_authenticate_api_key(c, k, o)
       PROVE  AllGo
  BY <1>1, <1>3, <1>16 DEF Knocks!_authenticate_api_key, Knocks!held
<1>17. ASSUME NEW c \in Callers, NEW k \in g.keys,
              Knocks(g)!revoke_key(c, k) \/ Knocks(g)!validate_key(c, k)
       PROVE  AllGo
  BY <1>1, <1>3, <1>17 DEF Knocks!revoke_key, Knocks!validate_key, Knocks!held
<1>18. ASSUME NEW c \in Callers, Knocks(g)!GetOwn(c) PROVE AllGo
  BY <1>1, <1>3, <1>18 DEF Knocks!GetOwn, Knocks!held
<1>19. CASE UNCHANGED Knocks(g)!vars
  BY <1>1, <1>3, <1>19 DEF Knocks!vars
<1> QED
  BY <1>5, <1>7, <1>8, <1>9, <1>10, <1>11, <1>12, <1>13, <1>14, <1>15, <1>16, <1>17, <1>18, <1>19 DEF Knocks!Next

LEMMA KeyNext ==
  ASSUME NEW g, Knocks(g)!Assumptions, Knocks(g)!TypeOK, [Knocks(g)!Next]_(Knocks(g)!vars)
  PROVE  /\ knock' \in [Callers -> Knocks(g)!CallTypes]
         /\ \/ \A d \in Callers : Knocks(g)!Kept(d)
            \/ \E c \in Callers : Knocks(g)!Moves(c) /\ \A d \in Callers \ {c} : Knocks(g)!Kept(d)
<1>1. CASE knock' = knock
  BY <1>1 DEF Knocks!TypeOK, Knocks!CallTypes, Knocks!Kept
<1>2. ASSUME NEW c \in Callers, NEW k \in g.keys, Knocks(g)!CallStep(c, k)
      PROVE  knock' \in [Callers -> Knocks(g)!CallTypes] /\ Knocks(g)!Moves(c) /\ \A d \in Callers \ {c} : Knocks(g)!Kept(d)
  BY <1>2, KeyMoves
<1>3. ASSUME NEW c \in Callers, Knocks(g)!GetOwn(c)
      PROVE  knock' \in [Callers -> Knocks(g)!CallTypes] /\ Knocks(g)!Moves(c) /\ \A d \in Callers \ {c} : Knocks(g)!Kept(d)
  BY <1>3, GetMoves
<1>4. \/ knock' = knock \/ (\E c \in Callers, k \in g.keys : Knocks(g)!CallStep(c, k)) \/ \E c \in Callers : Knocks(g)!GetOwn(c)
  BY DEF Knocks!Next, Knocks!vars, Knocks!CallStep, Knocks!generate_key, Knocks!Lands, Knocks!Tick
<1> QED
  BY <1>1, <1>2, <1>3, <1>4

LEMMA KeyKept ==
  ASSUME NEW g, Knocks(g)!TypeOK, NEW c \in Callers, Knocks(g)!Kept(c)
  PROVE  /\ knock'[c].op = knock[c].op /\ knock'[c].at = knock[c].at /\ knock'[c].key = knock[c].key
         /\ knock'[c].began = knock[c].began /\ (knock'[c].alone => knock'[c] = knock[c])
<1>1. knock[c] \in Knocks(g)!CallTypes
  BY DEF Knocks!TypeOK, Knocks!CallTypes
<1> QED
  BY <1>1 DEF Knocks!Kept, Knocks!CallTypes

LEMMA HoldStep ==
  ASSUME NEW g, Knocks(g)!Assumptions, Knocks(g)!KeysInv, [Knocks(g)!Next]_(Knocks(g)!vars)
  PROVE  Knocks(g)!AllHold'
<1>1. /\ Knocks(g)!TypeOK /\ Knocks(g)!RecordsGo /\ moments' >= moments /\ moments \in Nat
      /\ moments' \in Nat
      /\ keys \in [g.keys -> [state : {"none", "active", "revoked"}, until : Nat]]
      /\ \A c \in Callers : knock[c].began \in Nat /\ Knocks(g)!Holds(c)
  BY KeysGo DEF Knocks!KeysInv, Knocks!TypeOK, Knocks!DataTypes, Knocks!AllHold,
     Knocks!Assumptions, Knocks!Times
<1> SUFFICES ASSUME NEW c \in Callers PROVE Knocks(g)!Holds(c)'
  BY DEF Knocks!AllHold
<1>2. /\ Knocks(g)!Holds(c) /\ knock[c].began \in Nat
      /\ \A x \in g.keys : keys[x].state # "none" => keys'[x].until = keys[x].until /\ keys'[x].state # "none"
  BY <1>1 DEF Knocks!RecordsGo
<1>3. CASE Knocks(g)!Kept(c)
  <2>1. /\ knock'[c].op = knock[c].op /\ knock'[c].at = knock[c].at /\ knock'[c].key = knock[c].key
        /\ knock'[c].began = knock[c].began /\ (knock'[c].alone => knock'[c] = knock[c])
    BY <1>1, <1>3, KeyKept
  <2>2. knock'[c].alone => knock'[c].op = "revoke"
    BY <1>2, <2>1 DEF Knocks!Holds
  <2> QED
    BY <1>1, <1>2, <2>1, <2>2 DEF Knocks!Holds, Knocks!Over
<1>4. CASE Knocks(g)!Moves(c)
  <2>1. CASE knock'[c].op = "none" /\ knock'[c].at = "done" /\ knock'[c].key = {} /\ ~knock'[c].alone
             /\ knock'[c].began = 0
    BY <1>1, <2>1 DEF Knocks!Holds, Knocks!Over
  <2>2. CASE \E k \in g.keys :
            /\ keys[k].state # "none" /\ knock'[c].key = {k} /\ knock'[c].at = "find"
            /\ knock'[c].op \in {"request", "hook", "revoke"} /\ knock'[c].began \in {0, moments}
            /\ knock'[c].alone => knock'[c].op = "revoke"
    BY <1>1, <1>2, <2>2 DEF Knocks!Holds, Knocks!Over
  <2>3. CASE \E k \in g.keys :
            /\ keys[k].state # "none" /\ knock'[c].key = {k} /\ knock'[c].at = "done"
            /\ knock'[c].op = "hook" /\ knock'[c].began = moments /\ ~knock'[c].alone
    BY <1>1, <1>2, <2>3 DEF Knocks!Holds, Knocks!Over
  <2>4. CASE /\ knock'[c].op = knock[c].op /\ knock'[c].key = knock[c].key /\ knock'[c].began = knock[c].began
             /\ knock'[c].alone => knock[c].alone
             /\ Knocks(g)!Passes(c)
    <3>1. /\ knock'[c].op # "none" /\ \E x \in g.keys : knock'[c].key = {x} /\ keys[x].state # "none"
          /\ knock'[c].alone => knock'[c].op = "revoke"
          /\ knock'[c].began <= moments'
      BY <1>1, <1>2, <2>4 DEF Knocks!Holds, Knocks!Passes, Knocks!Over
    <3>2. ASSUME knock'[c].op \in {"request", "hook"}
          PROVE  /\ knock'[c].at \in {"done", "use", "put", "again"}
                 /\ knock'[c].at = "put" => knock'[c].op = "hook"
                 /\ \A x \in knock'[c].key : knock'[c].began <= keys'[x].until
      <4>1. PICK x \in g.keys : knock'[c].key = {x} /\ keys[x].state # "none"
        BY <3>1
      <4>2. knock[c].began <= keys[x].until
        BY <1>1, <1>2, <2>4, <3>2, <4>1 DEF Knocks!Holds, Knocks!Passes, Knocks!Finds, Knocks!Over
      <4> QED
        BY <1>2, <2>4, <3>2, <4>1, <4>2 DEF Knocks!Passes
    <3>3. knock'[c].op = "revoke" => knock'[c].at \in {"save", "drop"}
      BY <2>4 DEF Knocks!Passes
    <3> QED
      BY <1>1, <1>2, <3>1, <3>2, <3>3 DEF Knocks!Holds
  <2> QED
    BY <1>4, <2>1, <2>2, <2>3, <2>4 DEF Knocks!Moves
<1> QED
  BY <1>1, <1>3, <1>4, KeyNext

LEMMA RevokesAloneStep ==
  ASSUME NEW g, Knocks(g)!Assumptions, Knocks(g)!KeysInv, [Knocks(g)!Next]_(Knocks(g)!vars)
  PROVE  Knocks(g)!RevokesAlone'
<1>1. Knocks(g)!TypeOK /\ Knocks(g)!RevokesAlone /\ Knocks(g)!AllHold /\ Knocks(g)!RecordsGo /\ Knocks(g)!AdriftGoes
  BY KeysGo DEF Knocks!KeysInv
<1> SUFFICES ASSUME NEW c \in Callers, knock'[c].alone
             PROVE  /\ adrift' = {} /\ \A d \in Callers \ {c} : Knocks(g)!Over(d)'
                    /\ knock'[c].at = "drop" => \A k \in knock'[c].key : keys'[k].state = "revoked"
  BY DEF Knocks!RevokesAlone
<1>2. ASSUME adrift = {}, \A d \in Callers \ {c} : Knocks(g)!Over(d), knock[c].op = "revoke"
      PROVE  adrift' = {}
  BY <1>1, <1>2 DEF Knocks!AdriftGoes, Knocks!Over
<1>3. CASE Knocks(g)!Kept(c) /\ ((\A d \in Callers : Knocks(g)!Kept(d)) \/ \E d \in Callers \ {c} : Knocks(g)!Moves(d) /\ \A e \in Callers \ {d} : Knocks(g)!Kept(e))
  <2>1. knock'[c] = knock[c] /\ knock[c].alone /\ knock[c].op = "revoke"
    BY <1>1, <1>3, KeyKept DEF Knocks!AllHold, Knocks!Holds
  <2>2. /\ adrift = {} /\ \A d \in Callers \ {c} : Knocks(g)!Over(d)
        /\ knock[c].at = "drop" => \A k \in knock[c].key : keys[k].state = "revoked"
    BY <1>1, <2>1 DEF Knocks!RevokesAlone
  <2>3. ASSUME NEW d \in Callers \ {c} PROVE Knocks(g)!Over(d)'
    <3>1. CASE Knocks(g)!Kept(d)
      BY <1>1, <2>2, <3>1, KeyKept DEF Knocks!Over
    <3>2. CASE Knocks(g)!Moves(d)
      BY <2>1, <2>2, <3>2 DEF Knocks!Moves, Knocks!Passes, Knocks!Over
    <3> QED
      BY <1>3, <3>1, <3>2
  <2>4. ASSUME knock[c].at = "drop", NEW k \in knock[c].key PROVE keys'[k].state = "revoked"
    <3>1. k \in g.keys /\ keys[k].state = "revoked"
      BY <1>1, <2>1, <2>2, <2>4 DEF Knocks!AllHold, Knocks!Holds
    <3> QED
      BY <1>1, <2>1, <2>2, <3>1 DEF Knocks!RecordsGo, Knocks!Over
  <2> QED
    BY <1>2, <2>1, <2>2, <2>3, <2>4
<1>4. CASE Knocks(g)!Moves(c) /\ \A d \in Callers \ {c} : Knocks(g)!Kept(d)
  <2>1. ASSUME \A d \in Callers \ {c} : Knocks(g)!Over(d)
        PROVE  \A d \in Callers \ {c} : Knocks(g)!Over(d)'
    BY <1>1, <1>4, <2>1, KeyKept DEF Knocks!Over
  <2>2. CASE knock'[c].at = "find" /\ adrift' = {} /\ \A d \in Callers \ {c} : Knocks(g)!Over(d)
    BY <2>1, <2>2
  <2>3. CASE knock'[c].op = knock[c].op /\ knock'[c].key = knock[c].key /\ knock[c].alone /\ Knocks(g)!Passes(c)
    <3>1. /\ adrift = {} /\ \A d \in Callers \ {c} : Knocks(g)!Over(d)
          /\ knock[c].op = "revoke"
      BY <1>1, <2>3 DEF Knocks!RevokesAlone, Knocks!AllHold, Knocks!Holds
    <3>2. knock'[c].at = "drop" => \A k \in knock'[c].key : keys'[k].state = "revoked"
      BY <2>3, <3>1 DEF Knocks!Passes
    <3> QED
      BY <1>2, <2>1, <3>1, <3>2
  <2> QED
    BY <1>4, <2>2, <2>3 DEF Knocks!Moves
<1> QED
  BY <1>1, <1>3, <1>4, KeyNext

(* A key that nobody uses and is revoked stays so.                         *)
LEMMA StaysRevoked ==
  ASSUME NEW g, Knocks(g)!Assumptions, Knocks(g)!KeysInv, [Knocks(g)!Next]_(Knocks(g)!vars),
         NEW k \in g.keys,
         keys[k].state = "revoked", k \notin adrift, \A c \in Callers : ~Knocks(g)!Uses(c, k)
  PROVE  /\ keys'[k].state = "revoked" /\ k \notin adrift' /\ \A c \in Callers : ~Knocks(g)!Uses(c, k)'
         /\ \A p \in Knocks(g)!Processes : remembered'[p][k] \in {0, remembered[p][k]}
<1>1. Knocks(g)!TypeOK /\ Knocks(g)!AllHold /\ Knocks(g)!RecordsGo /\ Knocks(g)!AdriftGoes /\ Knocks(g)!CachesGo
  BY KeysGo DEF Knocks!KeysInv
<1>2. keys'[k].state = "revoked"
  BY <1>1 DEF Knocks!RecordsGo, Knocks!Uses
<1>3. k \notin adrift'
  BY <1>1 DEF Knocks!AdriftGoes, Knocks!Uses
<1>4. \A p \in Knocks(g)!Processes : remembered'[p][k] \in {0, remembered[p][k]}
  BY <1>1 DEF Knocks!CachesGo, Knocks!Uses
<1>5. ASSUME NEW c \in Callers, Knocks(g)!Uses(c, k)' PROVE FALSE
  <2>1. CASE Knocks(g)!Kept(c)
    BY <1>1, <1>5, <2>1, KeyKept DEF Knocks!Uses
  <2>2. CASE Knocks(g)!Moves(c)
    <3>1. knock'[c].key = knock[c].key /\ knock'[c].op = knock[c].op /\ Knocks(g)!Passes(c)
      BY <1>5, <2>2 DEF Knocks!Moves, Knocks!Uses
    <3> QED
      BY <1>5, <3>1 DEF Knocks!Passes, Knocks!Uses, Knocks!Finds
  <2> QED
    BY <1>1, <2>1, <2>2, KeyNext
<1> QED
  BY <1>2, <1>3, <1>4, <1>5

LEMMA CachesEndStep ==
  ASSUME NEW g, Knocks(g)!Assumptions, Knocks(g)!KeysInv, [Knocks(g)!Next]_(Knocks(g)!vars)
  PROVE  Knocks(g)!CachesEnd'
<1>1. /\ Knocks(g)!TypeOK /\ Knocks(g)!AllHold /\ Knocks(g)!RecordsGo /\ Knocks(g)!AdriftGoes
      /\ Knocks(g)!CachesGo /\ Knocks(g)!GoneGoes /\ Knocks(g)!CachesEnd /\ Knocks(g)!RevokesAlone
      /\ moments' >= moments /\ moments \in Nat /\ moments' \in Nat /\ g.ttl \in Nat
      /\ keys \in [g.keys -> [state : {"none", "active", "revoked"}, until : Nat]]
      /\ keys' \in [g.keys -> [state : {"none", "active", "revoked"}, until : Nat]]
      /\ remembered \in [Knocks(g)!Processes -> [g.keys -> Nat]]
      /\ remembered' \in [Knocks(g)!Processes -> [g.keys -> Nat]]
      /\ gone \in [Knocks(g)!Processes -> [g.keys -> Nat]]
      /\ \A c \in Callers : knock[c].began \in Nat
      /\ Knocks(g)!Never' = Knocks(g)!Never /\ Knocks(g)!Never \in Nat /\ moments < Knocks(g)!Never
  BY KeysGo DEF Knocks!KeysInv, Knocks!TypeOK, Knocks!DataTypes, Knocks!AllHold,
     Knocks!Assumptions, Knocks!Times, Knocks!Never
<1> SUFFICES ASSUME NEW k \in g.keys
             PROVE  /\ \A p \in Knocks(g)!Processes : /\ remembered'[p][k] <= moments' + g.ttl /\ remembered'[p][k] <= keys'[k].until + g.ttl
                                                      /\ keys'[k].state = "none" => remembered'[p][k] = 0
                    /\ keys'[k].state = "none" => k \notin adrift'
                    /\ \A p \in Knocks(g)!Processes : gone'[p][k] # Knocks(g)!Never =>
                          /\ gone'[p][k] <= moments' /\ keys'[k].state = "revoked"
                          /\ k \notin adrift'
                          /\ \A c \in Callers : ~Knocks(g)!Uses(c, k)'
                          /\ remembered'[p][k] = 0 /\ \A q \in Knocks(g)!Processes : remembered'[q][k] <= gone'[p][k] + g.ttl
  BY DEF Knocks!CachesEnd
<1>2. /\ keys[k].until \in Nat /\ keys'[k].until \in Nat
      /\ keys[k].state # "none" => keys'[k].until = keys[k].until /\ keys'[k].state # "none"
  BY <1>1 DEF Knocks!RecordsGo
<1>3. ASSUME NEW c \in Callers, knock[c].op \in {"request", "hook"},
             knock[c].at \in {"use", "put", "again"}, knock[c].key = {k}
      PROVE  keys[k].state # "none" /\ knock[c].began <= keys[k].until /\ knock[c].began <= moments
  BY <1>1, <1>3, Zenon DEF Knocks!AllHold, Knocks!Holds, Knocks!Over
<1>4. ASSUME NEW p \in Knocks(g)!Processes
      PROVE  /\ remembered'[p][k] <= moments' + g.ttl /\ remembered'[p][k] <= keys'[k].until + g.ttl
             /\ keys'[k].state = "none" => remembered'[p][k] = 0
             /\ remembered'[p][k] <= moments + g.ttl
  <2>1. /\ remembered[p][k] <= moments + g.ttl /\ remembered[p][k] <= keys[k].until + g.ttl
        /\ keys[k].state = "none" => remembered[p][k] = 0
        /\ remembered[p][k] \in Nat /\ remembered'[p][k] \in Nat
    <3>1. remembered[p] \in [g.keys -> Nat] /\ remembered'[p] \in [g.keys -> Nat]
      BY <1>1
    <3>2. /\ remembered[p][k] <= moments + g.ttl /\ remembered[p][k] <= keys[k].until + g.ttl
          /\ keys[k].state = "none" => remembered[p][k] = 0
      BY <1>1, Zenon DEF Knocks!CachesEnd
    <3> QED
      BY <3>1, <3>2
  <2>2. CASE remembered'[p][k] \in {0, remembered[p][k]}
    BY <1>1, <1>2, <2>1, <2>2
  <2>3. ASSUME NEW c \in Callers, knock[c].op = "hook", knock[c].at = "put", knock[c].key = {k},
               remembered'[p][k] = knock[c].began + g.ttl
        PROVE  /\ remembered'[p][k] <= moments' + g.ttl /\ remembered'[p][k] <= keys'[k].until + g.ttl
               /\ keys'[k].state = "none" => remembered'[p][k] = 0
               /\ remembered'[p][k] <= moments + g.ttl
    <3>1. keys[k].state # "none" /\ knock[c].began <= keys[k].until /\ knock[c].began <= moments
          /\ knock[c].began \in Nat
      BY <1>1, <1>3, <2>3
    <3> QED
      BY <1>1, <1>2, <2>1, <2>3, <3>1
  <2> QED
    <3>1. Knocks(g)!CachesGo
      BY <1>1
    <3>2. CASE remembered'[p][k] \notin {0, remembered[p][k]}
      <4>1. PICK c \in Callers : /\ knock[c].op = "hook" /\ knock[c].at = "put" /\ knock[c].key = {k}
                               /\ remembered'[p][k] = knock[c].began + g.ttl
        BY <3>1, <3>2 DEF Knocks!CachesGo
      <4> QED
        BY <4>1, <2>3
    <3> QED
      BY <2>2, <3>2
<1>5. keys'[k].state = "none" => k \notin adrift'
  <2> SUFFICES ASSUME keys'[k].state = "none", k \in adrift' PROVE FALSE
    OBVIOUS
  <2>1. keys[k].state = "none" /\ k \notin adrift
    BY <1>1, <1>2 DEF Knocks!CachesEnd
  <2>2. PICK c \in Callers : knock[c].op = "hook" /\ knock[c].at = "use" /\ knock[c].key = {k}
    BY <1>1, <2>1 DEF Knocks!AdriftGoes
  <2> QED
    BY <1>3, <2>1, <2>2
<1>6. ASSUME NEW p \in Knocks(g)!Processes, gone'[p][k] # Knocks(g)!Never
      PROVE  /\ gone'[p][k] <= moments' /\ keys'[k].state = "revoked" /\ k \notin adrift'
             /\ \A c \in Callers : ~Knocks(g)!Uses(c, k)'
             /\ remembered'[p][k] = 0 /\ \A q \in Knocks(g)!Processes : remembered'[q][k] <= gone'[p][k] + g.ttl
  <2>1. CASE gone'[p][k] = gone[p][k]
    <3>1. /\ gone[p][k] <= moments /\ keys[k].state = "revoked" /\ k \notin adrift
          /\ \A c \in Callers : ~Knocks(g)!Uses(c, k)
          /\ remembered[p][k] = 0 /\ \A q \in Knocks(g)!Processes : remembered[q][k] <= gone[p][k] + g.ttl
          /\ gone[p][k] \in Nat
      <4>1. gone[p] \in [g.keys -> Nat] /\ gone[p][k] # Knocks(g)!Never
        BY <1>1, <1>6, <2>1
      <4> QED
        BY <1>1, <4>1 DEF Knocks!CachesEnd
    <3>2. /\ keys'[k].state = "revoked" /\ k \notin adrift' /\ \A c \in Callers : ~Knocks(g)!Uses(c, k)'
          /\ \A q \in Knocks(g)!Processes : remembered'[q][k] \in {0, remembered[q][k]}
      BY <3>1, StaysRevoked
    <3>3. \A q \in Knocks(g)!Processes : remembered[q][k] \in Nat
      BY <1>1
    <3>4. \A q \in Knocks(g)!Processes : remembered'[q][k] <= gone[p][k] + g.ttl
      <4> TAKE q \in Knocks(g)!Processes
      <4>1. /\ remembered[q][k] \in Nat /\ remembered[q][k] <= gone[p][k] + g.ttl
            /\ remembered'[q][k] \in {0, remembered[q][k]}
        BY <3>1, <3>2, <3>3
      <4> QED
        BY <1>1, <3>1, <4>1
    <3>5. remembered'[p][k] = 0
      BY <3>1, <3>2
    <3>6. gone'[p][k] <= moments'
      BY <1>1, <2>1, <3>1
    <3> QED
      BY <2>1, <3>2, <3>4, <3>5, <3>6
  <2>2. ASSUME NEW c \in Callers, knock[c].alone, knock[c].op = "revoke", knock[c].at = "drop",
               knock[c].key = {k},
               remembered'[p][k] = 0, gone'[p][k] = moments, UNCHANGED <<moments, keys, adrift>>,
               knock'[c].at = "done", \A d \in Callers \ {c} : knock'[d] = knock[d]
        PROVE  /\ gone'[p][k] <= moments' /\ keys'[k].state = "revoked" /\ k \notin adrift'
               /\ \A d \in Callers : ~Knocks(g)!Uses(d, k)'
               /\ remembered'[p][k] = 0 /\ \A q \in Knocks(g)!Processes : remembered'[q][k] <= gone'[p][k] + g.ttl
    <3>1. adrift = {} /\ (\A d \in Callers \ {c} : Knocks(g)!Over(d)) /\ keys[k].state = "revoked"
      BY <1>1, <2>2 DEF Knocks!RevokesAlone
    <3>2. \A d \in Callers : ~Knocks(g)!Uses(d, k)'
      BY <2>2, <3>1 DEF Knocks!Uses, Knocks!Over
    <3> QED
      BY <1>1, <1>4, <2>2, <3>1, <3>2
  <2> QED
    <3>1. Knocks(g)!GoneGoes
      BY <1>1
    <3>2. CASE gone'[p][k] # gone[p][k]
      <4>1. PICK c \in Callers : /\ knock[c].alone /\ knock[c].op = "revoke" /\ knock[c].at = "drop" /\ knock[c].key = {k}
                               /\ remembered'[p][k] = 0 /\ gone'[p][k] = moments
                               /\ UNCHANGED <<moments, keys, adrift>>
                               /\ knock'[c].at = "done" /\ \A d \in Callers \ {c} : knock'[d] = knock[d]
        BY <3>1, <3>2, Zenon DEF Knocks!GoneGoes
      <4> QED
        BY <4>1, <2>2
    <3> QED
      BY <2>1, <3>2
<1> QED
  BY <1>4, <1>5, <1>6

LEMMA KeysEndStep ==
  ASSUME NEW g, Knocks(g)!Assumptions, Knocks(g)!KeysInv, [Knocks(g)!Next]_(Knocks(g)!vars)
  PROVE  Knocks(g)!KeysEnd'
<1>0. /\ moments \in Nat /\ g.ttl \in Nat /\ remembered \in [Knocks(g)!Processes -> [g.keys -> Nat]]
      /\ gone \in [Knocks(g)!Processes -> [g.keys -> Nat]] /\ Knocks(g)!Never' = Knocks(g)!Never
      /\ \A c \in Callers : g.processOf[c] \in Knocks(g)!Processes
  BY DEF Knocks!KeysInv, Knocks!TypeOK, Knocks!Assumptions, Knocks!Times, Knocks!Never, Knocks!Processes
<1>1. /\ Knocks(g)!TypeOK /\ Knocks(g)!AllHold /\ Knocks(g)!AllHold' /\ Knocks(g)!GoneGoes
      /\ Knocks(g)!CachesEnd /\ Knocks(g)!CachesEnd' /\ Knocks(g)!KeysEnd
      /\ \A c \in Callers : knock'[c].began \in Nat
  <2>1. \A c \in Callers : knock'[c].began \in 0..g.maxTime
    BY KeyNext DEF Knocks!KeysInv, Knocks!CallTypes
  <2> QED
    BY <2>1, KeysGo, HoldStep, CachesEndStep DEF Knocks!KeysInv, Knocks!Assumptions
<1> SUFFICES ASSUME NEW p \in Knocks(g)!Processes, NEW k \in g.keys, gone'[p][k] # Knocks(g)!Never
             PROVE  /\ keys'[k].state = "revoked"
                    /\ \A c \in Callers : Knocks(g)!Admitted(c, k)' /\ knock'[c].began > gone'[p][k] =>
                          knock'[c].op = "hook" /\ g.processOf[c] # p /\ knock'[c].began < gone'[p][k] + g.ttl
  BY DEF Knocks!KeysEnd
<1>2. keys'[k].state = "revoked"
  BY <1>1 DEF Knocks!CachesEnd
<1>3. ASSUME NEW c \in Callers, Knocks(g)!Admitted(c, k)', knock'[c].began > gone'[p][k]
      PROVE  knock'[c].op = "hook" /\ g.processOf[c] # p /\ knock'[c].began < gone'[p][k] + g.ttl
  <2>1. CASE gone'[p][k] = gone[p][k]
    <3>1. /\ \A d \in Callers : ~Knocks(g)!Uses(d, k)
          /\ remembered[p][k] = 0 /\ \A q \in Knocks(g)!Processes : remembered[q][k] <= gone[p][k] + g.ttl
          /\ gone[p][k] \in Nat
      BY <1>0, <1>1, <2>1 DEF Knocks!CachesEnd
    <3>2. CASE Knocks(g)!Kept(c)
      <4>1. knock'[c].op = knock[c].op /\ knock'[c].began = knock[c].began /\ Knocks(g)!Admitted(c, k)
        BY <1>1, <1>3, <3>2, KeyKept DEF Knocks!Admitted, Knocks!Over
      <4> QED
        BY <1>1, <1>3, <2>1, <4>1 DEF Knocks!KeysEnd
    <3>3. CASE Knocks(g)!Moves(c)
      <4>1. CASE /\ knock'[c].op = "hook" /\ knock'[c].began = moments /\ remembered[g.processOf[c]][k] > moments
        <5>1. remembered[g.processOf[c]][k] \in Nat /\ remembered[g.processOf[c]][k] <= gone[p][k] + g.ttl
          BY <1>0, <1>1, <3>1
        <5> QED
          BY <1>0, <1>1, <2>1, <3>1, <4>1, <5>1
      <4>2. ASSUME knock'[c].op = knock[c].op, knock'[c].key = knock[c].key, Knocks(g)!Passes(c)
            PROVE  FALSE
        BY <1>3, <3>1, <4>2 DEF Knocks!Admitted, Knocks!Over, Knocks!Passes, Knocks!Uses
      <4> QED
        BY <1>3, <3>3, <4>1, <4>2 DEF Knocks!Moves, Knocks!Admitted, Knocks!Over
    <3> QED
      BY <1>1, <3>2, <3>3, KeyNext
  <2>2. CASE gone'[p][k] = moments /\ moments' = moments
    BY <1>0, <1>1, <1>3, <2>2 DEF Knocks!AllHold, Knocks!Holds
  <2> QED
    BY <1>1, <2>1, <2>2 DEF Knocks!GoneGoes
<1> QED
  BY <1>2, <1>3

LEMMA KeysExpireStep ==
  ASSUME NEW g, Knocks(g)!Assumptions, Knocks(g)!KeysInv, [Knocks(g)!Next]_(Knocks(g)!vars)
  PROVE  Knocks(g)!KeysExpire'
<1>1. /\ Knocks(g)!TypeOK /\ Knocks(g)!AllHold /\ Knocks(g)!RecordsGo /\ Knocks(g)!CachesEnd
      /\ Knocks(g)!KeysExpire
      /\ moments \in Nat /\ g.ttl \in Nat /\ g.ttl >= 1
      /\ remembered \in [Knocks(g)!Processes -> [g.keys -> Nat]]
      /\ keys \in [g.keys -> [state : {"none", "active", "revoked"}, until : Nat]]
      /\ \A c \in Callers : knock[c].began \in Nat /\ g.processOf[c] \in Knocks(g)!Processes
  <2>1. Knocks(g)!TypeOK /\ Knocks(g)!AllHold /\ Knocks(g)!RecordsGo /\ Knocks(g)!CachesEnd /\ Knocks(g)!KeysExpire
    BY KeysGo DEF Knocks!KeysInv
  <2> QED
    BY <2>1 DEF Knocks!TypeOK, Knocks!Assumptions, Knocks!Times, Knocks!Processes
<1> SUFFICES ASSUME NEW c \in Callers, NEW k \in g.keys, Knocks(g)!Admitted(c, k)'
             PROVE  knock'[c].began < keys'[k].until + (IF knock'[c].op = "hook" THEN g.ttl ELSE 1)
  BY DEF Knocks!KeysExpire
<1>2. keys[k].until \in Nat /\ (keys[k].state # "none" => keys'[k].until = keys[k].until)
  BY <1>1 DEF Knocks!RecordsGo
<1>3. CASE Knocks(g)!Kept(c)
  <2>1. Knocks(g)!Admitted(c, k) /\ knock'[c].began = knock[c].began /\ knock'[c].op = knock[c].op
    BY <1>1, <1>3, KeyKept DEF Knocks!Admitted, Knocks!Over
  <2>2. keys[k].state # "none"
    BY <1>1, <2>1, Zenon DEF Knocks!Admitted, Knocks!AllHold, Knocks!Holds
  <2> QED
    BY <1>1, <1>2, <2>1, <2>2 DEF Knocks!KeysExpire
<1>4. CASE Knocks(g)!Moves(c)
  <2>1. CASE /\ keys[k].state # "none" /\ knock'[c].op = "hook" /\ knock'[c].began = moments
             /\ remembered[g.processOf[c]][k] > moments
    <3>1. remembered[g.processOf[c]] \in [g.keys -> Nat]
      BY <1>1
    <3>2. remembered[g.processOf[c]][k] <= keys[k].until + g.ttl
      BY <1>1, Zenon DEF Knocks!CachesEnd
    <3> QED
      BY <1>1, <1>2, <2>1, <3>1, <3>2
  <2>2. CASE /\ knock'[c].op = knock[c].op /\ knock'[c].key = knock[c].key /\ knock'[c].began = knock[c].began
             /\ Knocks(g)!Passes(c)
    <3>1. knock[c].at = "again" /\ knock[c].op \in {"request", "hook"} /\ knock[c].key = {k}
      BY <2>2 DEF Knocks!Passes, Knocks!Admitted, Knocks!Over
    <3>2. keys[k].state # "none" /\ knock[c].began <= keys[k].until
      BY <1>1, <3>1, Zenon DEF Knocks!AllHold, Knocks!Holds, Knocks!Over
    <3> QED
      BY <1>1, <1>2, <2>2, <3>2
  <2> QED
    BY <1>4, <2>1, <2>2 DEF Knocks!Moves, Knocks!Admitted, Knocks!Over
<1> QED
  BY <1>1, <1>3, <1>4, KeyNext

LEMMA KeysStep ==
  ASSUME NEW g, Knocks(g)!Assumptions
  PROVE  Knocks(g)!KeysInv /\ [Knocks(g)!Next]_(Knocks(g)!vars) => Knocks(g)!KeysInv'
<1> SUFFICES ASSUME Knocks(g)!KeysInv, [Knocks(g)!Next]_(Knocks(g)!vars) PROVE Knocks(g)!KeysInv'
  OBVIOUS
<1>1. Knocks(g)!TypeOK'
  BY KeysGo, KeyNext DEF Knocks!KeysInv, Knocks!DataTypes, Knocks!TypeOK, Knocks!CallTypes
<1> QED
  BY <1>1, HoldStep, RevokesAloneStep, CachesEndStep, KeysEndStep, KeysExpireStep DEF Knocks!KeysInv

(* A behaviour is of the keys with the settings of a scene.                *)
KeyScene(s) == [][UNCHANGED scene]_scene /\ scene = s /\ Knocks(KeyScenes[s])!Spec

(* A key that was revoked alone stays so whatever requests save, and is    *)
(* refused as soon as caches forget; so is a key that has expired          *)
(* (api/auth/api_key_service.py:209, 217, 249).                            *)
THEOREM KeysStayRevoked ==
    ASSUME ScenesApart, NEW s \in DOMAIN KeyScenes, Knocks(KeyScenes[s])!Assumptions
    PROVE  KeyScene(s) => []RevokedStays
<1> DEFINE Here == scene = s
           Inv == Knocks(KeyScenes[s])!KeysInv
<1>1. Knocks(KeyScenes[s])!Init => Inv
  BY KeysInit
<1>2. Inv /\ [Knocks(KeyScenes[s])!Next]_(Knocks(KeyScenes[s])!vars) => Inv'
  BY KeysStep
<1>3. Here /\ [UNCHANGED scene]_scene => Here'
  OBVIOUS
<1>4. Here /\ Inv => RevokedStays
  BY DEF RevokedStays, ScenesApart, Knocks!KeysInv
<1>5. KeyScene(s) => /\ [][UNCHANGED scene]_scene /\ Here /\ Knocks(KeyScenes[s])!Init
                     /\ [][Knocks(KeyScenes[s])!Next]_(Knocks(KeyScenes[s])!vars)
  BY DEF KeyScene, Knocks!Spec
<1> HIDE DEF Here, Inv
<1> QED
  BY <1>1, <1>2, <1>3, <1>4, <1>5, PTL
=============================================================================
