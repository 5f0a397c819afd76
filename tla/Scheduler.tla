------------------------------ MODULE Scheduler ------------------------------
(***************************************************************************)
(* The scheduler service (api/integrations/scheduler/scheduler.py): a      *)
(* thread that takes the due jobs and submits their tasks to a pool, the   *)
(* pool's workers, and the caller that registers tasks, starts and stops.  *)
(* They are threads: a step is one access to what they share.              *)
(***************************************************************************)
EXTENDS Naturals, Sequences, FiniteSets

CONSTANTS Tasks,          \* ScheduledTask objects
          IdOf,           \* their task_id
          Limit,          \* their max_concurrent
          Parsed,         \* those whose schedule_spec is understood
          Threads,        \* identities of scheduler threads
          Workers,        \* max_concurrent_tasks, the size of the pool
          Restarts,       \* start may be called again after stop
          Overruns,       \* a job may keep the thread for longer than stop waits
          None,           \* no future, no task
          MaxRuns         \* bound: futures submitted

Ids == {IdOf[o] : o \in Tasks}
Runs == 1..MaxRuns

Assumptions ==
    /\ \A o \in Tasks : Limit[o] \in Nat
    /\ Parsed \subseteq Tasks /\ Workers \in Nat \ {0} /\ MaxRuns \in Nat
    /\ {Restarts, Overruns} \subseteq BOOLEAN /\ None \notin Runs \cup Tasks \cup Threads

VARIABLES table,          \* _tasks: id to the task registered last
          enabled,        \* the tasks whose enabled flag is set
          jobs,           \* the jobs of the schedule library, by task
          event,          \* _event: "none", "clear" or "set"
          thread,         \* _thread, the thread started last
          at,             \* a thread is "off", "wait"s, or has a task "picked" or "submitted"
          due,            \* the jobs it found due and has not come to
          task, future,   \* the task it is at, and the future it has to record
          pool,           \* per future: its task, and "new", "queued", "running", ...
          queue,          \* the work queue of the pool
          running,        \* _running_tasks: id to the future recorded
          stop            \* where stop is: "done", "join", "cancel" or "clear"

service == <<table, enabled, jobs, event, thread, stop>>
threads == <<at, due, task, future>>
vars == <<service, threads, pool, queue, running>>

TypeOK ==
    /\ table \in [Ids -> Tasks \cup {None}] /\ enabled \subseteq Tasks /\ jobs \subseteq Tasks
    /\ event \in {"none", "clear", "set"} /\ thread \in Threads \cup {None}
    /\ at \in [Threads -> {"off", "wait", "picked", "submitted"}]
    /\ due \in [Threads -> SUBSET Tasks] /\ task \in [Threads -> Tasks \cup {None}]
    /\ future \in [Threads -> Runs \cup {None}]
    /\ pool \in [Runs -> [of : Tasks \cup {None},
                          st : {"new", "queued", "running", "ran", "done", "cancelled"}]]
    /\ queue \in Seq(Runs) /\ running \in [Ids -> Runs \cup {None}]
    /\ stop \in {"done", "join", "cancel", "clear"}

Init ==
    /\ table = [i \in Ids |-> None] /\ enabled = Tasks /\ jobs = {}
    /\ event = "none" /\ thread = None
    /\ at = [t \in Threads |-> "off"] /\ due = [t \in Threads |-> {}]
    /\ task = [t \in Threads |-> None] /\ future = [t \in Threads |-> None]
    /\ pool = [r \in Runs |-> [of |-> None, st |-> "new"]] /\ queue = << >>
    /\ running = [i \in Ids |-> None] /\ stop = "done"
-----------------------------------------------------------------------------
(* The caller.  A job keeps the task object it was made for; one with an   *)
(* id that is taken replaces it in the table, and its job stays.           *)
Parse(o) == IF o \in Parsed THEN {o} ELSE {}  \* an error is logged, and no job made

register_task(o) ==
    /\ stop = "done" /\ o \notin jobs /\ table[IdOf[o]] # o
    /\ table' = [table EXCEPT ![IdOf[o]] = o]
    /\ jobs' = jobs \cup Parse(o)
    /\ UNCHANGED <<enabled, event, thread, stop, threads, pool, queue, running>>

(* Functions decorated with on_schedule get an entry, and no job.          *)
register_scheduled_tasks(o) ==
    /\ stop = "done" /\ o \notin jobs /\ table[IdOf[o]] # o
    /\ table' = [table EXCEPT ![IdOf[o]] = o]
    /\ UNCHANGED <<enabled, jobs, event, thread, stop, threads, pool, queue, running>>

unregister_task(i) ==
    /\ stop = "done" /\ table[i] # None
    /\ table' = [table EXCEPT ![i] = None]
    /\ jobs' = {o \in jobs : IdOf[o] # i}
    /\ UNCHANGED <<enabled, event, thread, stop, threads, pool, queue, running>>

SetEnabled(i, on) ==
    /\ stop = "done" /\ table[i] # None
    /\ enabled' = IF on THEN enabled \cup {table[i]} ELSE enabled \ {table[i]}
    /\ UNCHANGED <<table, jobs, event, thread, stop, threads, pool, queue, running>>

is_running == thread # None /\ at[thread] # "off" /\ event = "clear"

start(t) ==
    /\ stop = "done" /\ ~is_running /\ at[t] = "off"
    /\ event = "none" \/ Restarts
    /\ event' = "clear" /\ thread' = t /\ at' = [at EXCEPT ![t] = "wait"]
    /\ UNCHANGED <<table, enabled, jobs, stop, due, task, future, pool, queue, running>>

stop_begin ==
    /\ stop = "done" /\ event = "clear"
    /\ event' = "set" /\ stop' = "join"
    /\ UNCHANGED <<table, enabled, jobs, thread, threads, pool, queue, running>>

(* The thread has ended, or five seconds have passed.                      *)
Joined ==
    /\ stop = "join" /\ stop' = "cancel"
    /\ Overruns \/ at[thread] = "off"
    /\ UNCHANGED <<table, enabled, jobs, event, thread, threads, pool, queue, running>>

(* Only a future that is still queued can be cancelled.                    *)
Recorded == {running[i] : i \in Ids} \ {None}
CancelQueued ==
    /\ stop = "cancel" /\ stop' = "clear"
    /\ pool' = [r \in Runs |-> IF r \in Recorded /\ pool[r].st = "queued"
                               THEN [pool[r] EXCEPT !.st = "cancelled"] ELSE pool[r]]
    /\ UNCHANGED <<table, enabled, jobs, event, thread, threads, queue, running>>

ClearRunning ==
    /\ stop = "clear" /\ stop' = "done"
    /\ running' = [i \in Ids |-> None]
    /\ UNCHANGED <<table, enabled, jobs, event, thread, threads, pool, queue>>
-----------------------------------------------------------------------------
(* The scheduler thread tests the event the service has now, which after a *)
(* restart is not the one it was started with.                             *)
Wake(t) ==
    /\ at[t] = "wait" /\ due[t] = {} /\ event = "clear"
    /\ \E found \in SUBSET jobs \ {{}} : due' = [due EXCEPT ![t] = found]
    /\ UNCHANGED <<service, at, task, future, pool, queue, running>>

Leave(t) ==
    /\ at[t] = "wait" /\ due[t] = {} /\ event = "set"
    /\ at' = [at EXCEPT ![t] = "off"]
    /\ UNCHANGED <<service, due, task, future, pool, queue, running>>

AllowedAlways(o) == TRUE                      \* mutant of Allowed: no test
Allowed(o) == running[IdOf[o]] = None \/ Limit[o] > 1

(* A job that is due is picked if its task is enabled and may run.         *)
Pick(t, o) ==
    /\ at[t] = "wait" /\ o \in due[t]
    /\ due' = [due EXCEPT ![t] = @ \ {o}]
    /\ \/ /\ o \in enabled /\ Allowed(o)
          /\ at' = [at EXCEPT ![t] = "picked"] /\ task' = [task EXCEPT ![t] = o]
       \/ /\ ~(o \in enabled /\ Allowed(o))
          /\ UNCHANGED <<at, task>>
    /\ UNCHANGED <<service, future, pool, queue, running>>

Submit(t) ==
    /\ at[t] = "picked"
    /\ \E r \in Runs :
        /\ pool[r].st = "new" /\ \A s \in 1..(r - 1) : pool[s].st # "new"
        /\ pool' = [pool EXCEPT ![r] = [of |-> task[t], st |-> "queued"]]
        /\ queue' = Append(queue, r)
        /\ future' = [future EXCEPT ![t] = r]
    /\ at' = [at EXCEPT ![t] = "submitted"]
    /\ UNCHANGED <<service, due, task, running>>

(* By now the future may have run to its end.                              *)
Record(t) ==
    /\ at[t] = "submitted"
    /\ running' = [running EXCEPT ![IdOf[task[t]]] = future[t]]
    /\ at' = [at EXCEPT ![t] = "wait"] /\ task' = [task EXCEPT ![t] = None]
    /\ future' = [future EXCEPT ![t] = None]
    /\ UNCHANGED <<service, due, pool, queue>>
-----------------------------------------------------------------------------
(* A worker of the pool takes the first future; a cancelled one it drops.  *)
Busy == {r \in Runs : pool[r].st \in {"running", "ran"}}
TakeFirst ==
    /\ queue # << >> /\ Cardinality(Busy) < Workers
    /\ queue' = Tail(queue)
    /\ pool' = [pool EXCEPT ![Head(queue)].st = IF @ = "queued" THEN "running" ELSE @]
    /\ UNCHANGED <<service, threads, running>>

(* The task returned, raised or timed out, and is counted; then its entry  *)
(* goes, whichever future it names.                                        *)
RunEnds(r) ==
    /\ pool[r].st = "running"
    /\ pool' = [pool EXCEPT ![r].st = "ran"]
    /\ UNCHANGED <<service, threads, queue, running>>

Pop(r) ==
    /\ pool[r].st = "ran"
    /\ pool' = [pool EXCEPT ![r].st = "done"]
    /\ running' = [running EXCEPT ![IdOf[pool[r].of]] = None]
    /\ UNCHANGED <<service, threads, queue>>

Next ==
    \/ \E o \in Tasks : register_task(o) \/ register_scheduled_tasks(o)
    \/ \E i \in Ids : unregister_task(i) \/ \E on \in BOOLEAN : SetEnabled(i, on)
    \/ stop_begin \/ Joined \/ CancelQueued \/ ClearRunning
    \/ \E t \in Threads :
        start(t) \/ Wake(t) \/ Leave(t) \/ (\E o \in Tasks : Pick(t, o)) \/ Submit(t) \/ Record(t)
    \/ TakeFirst \/ \E r \in Runs : RunEnds(r) \/ Pop(r)

Spec == Init /\ [][Next]_vars
-----------------------------------------------------------------------------
Active(i) == {r \in Runs : pool[r].st \in {"queued", "running"} /\ IdOf[pool[r].of] = i}
Single(i) == \A o \in Tasks : IdOf[o] = i => Limit[o] <= 1

\* Unless it was stopped and started again, the service never has two runs of
\* tasks of one id that all allow one, queued or under way (scheduler.py:483):
\* neither a late record of a future that has ended, nor a task registered twice,
\* lets a second one in.  With another task of the id that allows more, it may.
OneAtATime ==
    ~Restarts /\ event # "set" => \A i \in Ids : Single(i) => \A r, s \in Active(i) : r = s

\* Once a stop that saw the thread end has returned, no queued future is left
\* that would start a task that allows one run (scheduler.py:161).
StoppedStays ==
    ~Restarts /\ ~Overruns /\ event = "set" /\ stop = "done" =>
        \A r \in Runs : pool[r].st = "queued" => ~Single(IdOf[pool[r].of])

\* If stop sees the thread end, there is one scheduler thread at most, however
\* often the service is stopped and started (scheduler.py:108).
OneThread == ~Overruns => \A t, u \in Threads : at[t] # "off" /\ at[u] # "off" => t = u

Orderly == OneAtATime /\ StoppedStays /\ OneThread
=============================================================================
