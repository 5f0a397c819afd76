---------------------------- MODULE DeferredTasks ----------------------------
(***************************************************************************)
(* Deferred tasks of a serverless deployment: a call of                    *)
(* dispatch_deferred_task (serverless/factory.py, serverless/tasks) hands  *)
(* a task to EventBridge, to Lambda or to SQS, which bring it back to the  *)
(* deferred-invoke route (serverless/deferred_invoke.py,                   *)
(* api/deferred_invoke_route.py).  A provider may accept a task although   *)
(* the call raised, and may bring one more than once.  create_task         *)
(* (async_utils) keeps the task in the process instead, where that is not  *)
(* serverless.  Time is in units of fifteen minutes, the longest that SQS  *)
(* delays and Lambda runs.                                                 *)
(***************************************************************************)
EXTENDS Naturals

CONSTANTS Schedulers,     \* schedulers that may be injected, "none" among them
          Delays,         \* how far ahead tasks are asked for
          None,           \* no moment
          MaxCalls,       \* bound: calls of dispatch_deferred_task
          MaxTime         \* bound: the last unit of time

Kinds == {"none", "lambda", "sqs", "noop", "sync", "executor", "legacy"}

Assumptions == /\ Schedulers \subseteq Kinds /\ "none" \in Schedulers
               /\ Delays \subseteq Nat /\ {MaxCalls, MaxTime} \subseteq Nat /\ None \notin Nat

Limit == 1                                    \* _SQS_MAX_DELAY_SECONDS, _LAMBDA_MAX_TIMEOUT_SECONDS

(* The environment: what is injected, where the process runs, what is set. *)
Environments ==
    [injected : Schedulers, serverless : BOOLEAN, aws : BOOLEAN,
     transport : {"", "sqs", "lambda_invoke"}, function : BOOLEAN, queue : BOOLEAN,
     boto3 : BOOLEAN, bridge : BOOLEAN, route : BOOLEAN]

(* What the caller asks for: a delay, a moment, or neither, by the function *)
(* dispatch_deferred_task or by create_task.                               *)
Asked == [creates : BOOLEAN, strict : BOOLEAN, by : {"delay", "run_at"}, ahead : Delays]

VARIABLES env, asked,     \* chosen initially
          now,
          call,           \* the call's state, when it began, and the moment it computed
          calls,          \* the number of calls
          held,           \* what providers hold: due when, and the moment it carries
          took,           \* everything a provider accepted in this call
          ran             \* when the task's handler ran

vars == <<env, asked, now, call, calls, held, took, ran>>

Messages == [via : {"bridge", "lambda", "sqs", "local"}, due : Nat, carries : Nat \cup {None}]

TypeOK ==
    /\ env \in Environments /\ asked \in Asked /\ now \in 0..MaxTime /\ calls \in 0..MaxCalls
    /\ call.st \in {"idle", "bridge", "invoke", "send", "returned", "raised"}
    /\ call.began \in 0..MaxTime /\ call.run_at \in Nat \cup {None}
    /\ held \subseteq Messages /\ took \subseteq held \cup Messages /\ ran \subseteq 0..MaxTime

Init ==
    /\ env \in Environments /\ asked \in Asked /\ now = 0 /\ calls = 0
    /\ call = [st |-> "idle", began |-> 0, run_at |-> None]
    /\ held = {} /\ took = {} /\ ran = {}
-----------------------------------------------------------------------------
SqsIf(boto3) == IF boto3 THEN "sqs" ELSE "noop"

AwsScheduler ==
    CASE env.queue /\ (env.transport = "sqs" \/ ~env.function) -> SqsIf(env.boto3)
      [] env.function /\ ~(env.transport = "sqs" /\ env.queue) -> "lambda"
      [] OTHER -> "noop"

Scheduler ==
    CASE env.injected # "none" -> env.injected
      [] env.injected = "none" /\ ~env.serverless -> "sync"
      [] OTHER -> IF env.aws THEN AwsScheduler ELSE "noop"

(* A scheduler that drops tasks silently is refused to a strict caller, and *)
(* so is one that knows no strict; for others it drops them.               *)
Refuses ==
    \/ Scheduler \in {"noop", "sync", "legacy"}
    \/ Scheduler = "lambda" /\ ~env.function
    \/ Scheduler = "sqs" /\ ~env.queue

RunAt == IF asked.by = "run_at" \/ asked.ahead > 0 THEN now + asked.ahead ELSE None

HereLocal == asked.creates /\ ~env.serverless  \* create_task starts an asyncio.Task

dispatch_deferred_task ==
    /\ ~HereLocal /\ call.st \in {"idle", "returned", "raised"} /\ calls < MaxCalls /\ held = {}
    /\ calls' = calls + 1 /\ took' = {} /\ ran' = {}
    /\ call' = [began |-> now, run_at |-> RunAt,
                st |-> IF Refuses THEN IF asked.strict THEN "raised" ELSE "returned"
                       ELSE IF Scheduler = "executor" THEN "invoke"
                       ELSE IF Scheduler = "sqs" THEN "send"
                       ELSE IF RunAt = None THEN "invoke" ELSE "bridge"]
    /\ UNCHANGED <<env, asked, now, held>>

Accept(m) == held' = held \cup {m} /\ took' = took \cup {m}

(* The task sleeps until its moment; strict is forgotten.                  *)
DueAtOnce == now                              \* mutant of Due: run_at is taken for no delay
Due == IF RunAt = None THEN now ELSE RunAt
_create_task_handler ==
    /\ HereLocal /\ calls < MaxCalls /\ held = {}
    /\ calls' = calls + 1 /\ call' = [st |-> "returned", began |-> now, run_at |-> RunAt]
    /\ held' = {[via |-> "local", due |-> Due, carries |-> RunAt]} /\ took' = held' /\ ran' = {}
    /\ UNCHANGED <<env, asked, now>>

(* EventBridge takes the task for its moment; or it is not set up or       *)
(* raises, the task taken or not, and Lambda is to wait for the moment.    *)
Bridge ==
    LET m == [via |-> "bridge", due |-> call.run_at, carries |-> call.run_at]
        TooFar == asked.strict /\ call.run_at > now + Limit
        failed == [call EXCEPT !.st = IF TooFar THEN "raised" ELSE "invoke"]
    IN /\ call.st = "bridge"
       /\ \/ env.bridge /\ Accept(m) /\ call' \in {[call EXCEPT !.st = "returned"], failed}
          \/ call' = failed /\ UNCHANGED <<held, took>>
       /\ UNCHANGED <<env, asked, now, calls, ran>>

RefusedSwallowed == [call EXCEPT !.st = "returned"]  \* mutant of Refused: strict is forgotten
Refused == [call EXCEPT !.st = IF asked.strict THEN "raised" ELSE "returned"]

Answer(m) ==
    /\ \/ Accept(m) /\ call' \in {[call EXCEPT !.st = "returned"], Refused}
       \/ call' = Refused /\ UNCHANGED <<held, took>>
    /\ UNCHANGED <<env, asked, now, calls, ran>>

(* The call may raise, and the answer may say that it was refused.         *)
Invoke ==
    /\ call.st = "invoke" /\ Scheduler = "lambda"
    /\ Answer([via |-> "lambda", due |-> now, carries |-> call.run_at])

(* SQS delays no longer than it can; the message carries the moment only   *)
(* if the caller gave one.                                                 *)
Send ==
    /\ call.st = "send"
    /\ LET wait == IF call.run_at = None \/ call.run_at < now THEN 0 ELSE call.run_at - now
       IN Answer([via |-> "sqs", due |-> now + (IF wait > Limit THEN Limit ELSE wait),
                  carries |-> IF asked.by = "run_at" THEN call.run_at ELSE None])

(* An injected executor runs the task on the spot; its errors are raised.  *)
Execute ==
    /\ call.st = "invoke" /\ Scheduler = "executor"
    /\ call' \in {[call EXCEPT !.st = "returned"], [call EXCEPT !.st = "raised"]}
    /\ ran' = IF call'.st = "returned" THEN ran \cup {now} ELSE ran
    /\ UNCHANGED <<env, asked, now, calls, held, took>>
-----------------------------------------------------------------------------
(* The provider brings the task.  If the route is enabled its handler runs; *)
(* the provider brings it again if there was no answer, or no route.       *)
Deliver(m) ==
    /\ m.due <= now /\ m.via # "local"
    /\ \/ env.route /\ ran' = ran \cup {now} /\ held' \in {held, held \ {m}}
       \/ ~env.route /\ held' = held \ {m} /\ UNCHANGED ran
    /\ UNCHANGED <<env, asked, now, call, calls, took>>

(* The task wakes, or the process ends before.  A task that no handler is  *)
(* registered for, or whose handler raises, is only logged.                *)
Wake(m) ==
    /\ m.via = "local" /\ held' = held \ {m}
    /\ \/ m.due <= now /\ env.route /\ ran' = ran \cup {now}
       \/ UNCHANGED ran
    /\ UNCHANGED <<env, asked, now, call, calls, took>>

Tick == now < MaxTime /\ now' = now + 1 /\ UNCHANGED <<env, asked, call, calls, held, took, ran>>

Next == \/ dispatch_deferred_task \/ _create_task_handler \/ Bridge \/ Invoke \/ Send \/ Execute
        \/ (\E m \in held : Deliver(m) \/ Wake(m)) \/ Tick

Spec == Init /\ [][Next]_vars
-----------------------------------------------------------------------------
\* A strict caller that got a reference has a provider that took the task, or
\* an executor that ran it (serverless/tasks/base.py).  With Lambda the task
\* comes at its moment, or carries it and comes no more than fifteen minutes
\* before (aws_lambda.py:224); with SQS it comes early only when the delay is
\* longer than SQS knows.
StrictHandsOver ==
    asked.strict /\ call.st = "returned" =>
        \/ Scheduler = "executor" /\ ran # {}
        \/ \E m \in took :
            \/ call.run_at = None
            \/ m.due >= call.run_at
            \/ m.via = "lambda" /\ m.carries = call.run_at /\ call.run_at <= m.due + Limit
            \/ m.via = "sqs" /\ asked.ahead > Limit

\* A task that waits in the process does not run before its moment, nor once more
\* (async_utils/__init__.py:600).
LocalOnTime ==
    HereLocal /\ ran # {} =>
        /\ \A t, s \in ran : t = s
        /\ held = {}
        /\ call.run_at # None => \A t \in ran : t >= call.run_at
=============================================================================
