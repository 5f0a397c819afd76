------------------------------ MODULE DatabaseLog ------------------------------
(***************************************************************************)
(* The handler that saves log records to a database (logging/handler.py).  *)
(* A message is handled by the thread that logs it, with the lock of the   *)
(* handler: the thread of the event loop, other threads, and the worker    *)
(* threads of the saves themselves, which log when they first use the      *)
(* database (db/jsondb.py:128, 143). A record is saved in a task of the    *)
(* loop, in a loop of its own in the thread that logs, or, in serverless   *)
(* mode, in a new thread that is waited for. A step is what a thread does  *)
(* between two calls that may block.                                       *)
(***************************************************************************)
EXTENDS Naturals

CONSTANTS Main, Threads, None,
          Modes,            \* how the program is set up, see below
          Faults,           \* saves fail
          MaxCalls,         \* bound: messages of the program
          MaxRecords        \* bound: of the program and of saves

(* serverless: is_serverless_mode; async: JVSPATIAL_DB_LOG_SERVERLESS_ASYNC;  *)
(* sync: sync_emit; warnings: the levels that are saved include that of a  *)
(* failed save; tidies: and that of a worker, which logs once; threads:    *)
(* those that log besides the event loop's.                                *)
Assumptions ==
    /\ Modes \subseteq [serverless : BOOLEAN, async : BOOLEAN, sync : BOOLEAN, warnings : BOOLEAN,
                       tidies : BOOLEAN, threads : SUBSET Threads]
    /\ Faults \in BOOLEAN
    /\ {MaxCalls, MaxRecords} \subseteq Nat /\ Main \notin Threads /\ None \notin Threads \cup {Main}

Records == 1..MaxRecords
Emitters == {Main} \cup Threads \cup Records    \* the n-th record's save has thread n

VARIABLES mode,             \* one of Modes
          lock,             \* of the handler: who holds it
          doing,            \* per thread: "idle", "locking", "holding", "running", "joining"
          record,           \* per thread: the record it handles
          entry,            \* per record: what became of it
          runner,           \* per record: the thread whose loop saves it
          records, calls,   \* so far
          registered,       \* the log database
          tidied,           \* a worker has logged
          stopped           \* the event loop has ended

vars == <<mode, lock, doing, record, entry, runner, records, calls, registered, tidied, stopped>>

Ended == {"saved", "failed", "lost", "dropped"}

TypeOK ==
    /\ mode \in Modes /\ lock \in Emitters \cup {None}
    /\ doing \in [Emitters -> {"idle", "locking", "holding", "running", "joining"}]
    /\ record \in [Emitters -> Records \cup {None}] /\ runner \in [Records -> Emitters \cup {None}]
    /\ entry \in [Records -> {"none", "emitted", "queued", "saving", "noting"} \cup Ended]
    /\ records \in 0..MaxRecords /\ calls \in 0..MaxCalls /\ {registered, tidied, stopped} \subseteq BOOLEAN

Init ==
    /\ mode \in Modes
    /\ lock = None /\ doing = [e \in Emitters |-> "idle"] /\ record = [e \in Emitters |-> None]
    /\ entry = [n \in Records |-> "none"] /\ runner = [n \in Records |-> None]
    /\ records = 0 /\ calls = 0 /\ registered = FALSE /\ tidied = FALSE /\ stopped = FALSE
-----------------------------------------------------------------------------
(* A thread logs a message whose level is saved.                           *)
Says(e, n) ==
    /\ doing[e] = "idle" /\ n \in Records /\ n = records + 1
    /\ records' = n /\ record' = [record EXCEPT ![e] = n]
    /\ doing' = [doing EXCEPT ![e] = "locking"]

Log(e) ==
    /\ e \in {Main} \cup mode.threads /\ calls < MaxCalls /\ (e = Main => ~stopped)
    /\ Says(e, records + 1) /\ calls' = calls + 1
    /\ entry' = [entry EXCEPT ![records + 1] = "emitted"]
    /\ UNCHANGED <<mode, lock, runner, registered, tidied, stopped>>

Register ==                                   \* initialize_logging_database
    /\ ~registered /\ registered' = TRUE
    /\ UNCHANGED <<mode, lock, doing, record, entry, runner, records, calls, tidied, stopped>>

Acquire(e) ==
    /\ doing[e] = "locking" /\ lock = None /\ lock' = e
    /\ doing' = [doing EXCEPT ![e] = "holding"]
    /\ UNCHANGED <<mode, record, entry, runner, records, calls, registered, tidied, stopped>>

Returns(e) == lock' = None /\ doing' = [doing EXCEPT ![e] = "idle"]
Becomes(e, state) == entry' = [entry EXCEPT ![record[e]] = state]
RunBy(e, w) == runner' = [runner EXCEPT ![record[e]] = w]

InTask(e) == e = Main /\ ~mode.sync /\ (mode.serverless => mode.async)

Handling(e) == /\ doing[e] = "holding"
               /\ UNCHANGED <<mode, record, records, calls, registered, tidied, stopped>>

EmitNowhere(e) ==                             \* without a database
    /\ Handling(e) /\ ~registered
    /\ Returns(e) /\ Becomes(e, "dropped") /\ UNCHANGED runner

EmitTask(e) ==                                \* create_task
    /\ Handling(e) /\ registered /\ InTask(e)
    /\ Returns(e) /\ Becomes(e, "queued") /\ RunBy(e, e)

(* asyncio.run raises in a running loop, and the error is suppressed.      *)
EmitInLoop(e) ==
    /\ Handling(e) /\ registered /\ ~mode.serverless /\ mode.sync /\ e = Main
    /\ Returns(e) /\ Becomes(e, "lost") /\ UNCHANGED runner

EmitHere(e) ==                                \* asyncio.run in this thread
    /\ Handling(e) /\ registered /\ ~mode.serverless /\ e # Main
    /\ doing' = [doing EXCEPT ![e] = "running"]
    /\ Becomes(e, "saving") /\ RunBy(e, e) /\ UNCHANGED lock

EmitAside(e) ==                               \* in a new thread
    /\ Handling(e) /\ registered /\ mode.serverless /\ ~InTask(e)
    /\ doing' = [doing EXCEPT ![e] = "joining"]
    /\ Becomes(e, "saving") /\ RunBy(e, record[e]) /\ UNCHANGED lock
-----------------------------------------------------------------------------
(* save_log.  A save in the event loop waits while the thread of the loop  *)
(* is blocked.                                                             *)
Free(n) == runner[n] = Main => doing[Main] = "idle"

Saves(n) ==
    /\ entry[n] = "queued" /\ Free(n)
    /\ entry' = [entry EXCEPT ![n] = "saving"]
    /\ UNCHANGED <<mode, lock, doing, record, runner, records, calls, registered, tidied, stopped>>

TidiesUp(n) ==
    /\ mode.tidies /\ ~tidied /\ entry[n] = "saving"
    /\ Says(n, records + 1) /\ tidied' = TRUE
    /\ entry' = [entry EXCEPT ![n] = "noting", ![records + 1] = "emitted"]
    /\ UNCHANGED <<mode, lock, runner, calls, registered, stopped>>

TidiedUp(n) ==
    /\ entry[n] = "noting" /\ doing[n] = "idle"
    /\ entry' = [entry EXCEPT ![n] = "saving"]
    /\ UNCHANGED <<mode, lock, doing, record, runner, records, calls, registered, tidied, stopped>>

DoneHeld(n) ==                                \* mutant of Done: it keeps the lock
    IF doing[runner[n]] = "running" /\ record[runner[n]] = n
    THEN doing' = [doing EXCEPT ![runner[n]] = "idle"] /\ UNCHANGED lock ELSE UNCHANGED <<mode, lock, doing>>

(* A thread that ran the save in a loop of its own goes on.                *)
Done(n) ==
    IF doing[runner[n]] = "running" /\ record[runner[n]] = n
    THEN Returns(runner[n]) ELSE UNCHANGED <<mode, lock, doing>>

Saved(n) ==
    /\ entry[n] = "saving" /\ Free(n) /\ Done(n)
    /\ entry' = [entry EXCEPT ![n] = "saved"]
    /\ UNCHANGED <<mode, record, runner, records, calls, registered, tidied, stopped>>

(* A save that failed is reported by the thread that ran it.  One with a   *)
(* loop of its own has the lock, and ends before the report is saved.      *)
Reports(n) == mode.warnings /\ runner[n] \in {Main, n}
Failed(n) ==
    /\ Faults /\ entry[n] = "saving" /\ Free(n) /\ ~Reports(n) /\ Done(n)
    /\ entry' = [entry EXCEPT ![n] = "failed"]
    /\ UNCHANGED <<mode, record, runner, records, calls, registered, tidied, stopped>>
FailedAndReported(n) ==
    /\ Faults /\ entry[n] = "saving" /\ Free(n) /\ Reports(n)
    /\ Says(runner[n], records + 1)
    /\ entry' = [entry EXCEPT ![n] = "failed", ![records + 1] = "emitted"]
    /\ UNCHANGED <<mode, lock, runner, calls, registered, tidied, stopped>>

Join(e) ==
    /\ doing[e] = "joining" /\ entry[record[e]] \in Ended /\ doing[record[e]] = "idle"
    /\ Returns(e) /\ UNCHANGED <<mode, record, entry, runner, records, calls, registered, tidied, stopped>>
JoinTimesOut(e) ==
    /\ doing[e] = "joining"
    /\ Returns(e) /\ UNCHANGED <<mode, record, entry, runner, records, calls, registered, tidied, stopped>>

(* The event loop ends and cancels its tasks.                              *)
Stop ==
    /\ ~stopped /\ doing[Main] = "idle" /\ stopped' = TRUE
    /\ entry' = [n \in Records |-> IF runner[n] = Main /\ entry[n] \notin Ended THEN "lost" ELSE entry[n]]
    /\ UNCHANGED <<mode, lock, doing, record, runner, records, calls, registered, tidied>>

Next ==
    \/ Register \/ Stop
    \/ \E e \in Emitters : \/ Log(e) \/ Acquire(e) \/ Join(e) \/ JoinTimesOut(e)
                           \/ EmitNowhere(e) \/ EmitTask(e) \/ EmitInLoop(e) \/ EmitHere(e) \/ EmitAside(e)
    \/ \E n \in Records : \/ Saves(n) \/ TidiesUp(n) \/ TidiedUp(n)
                          \/ Saved(n) \/ Failed(n) \/ FailedAndReported(n)

(* Threads and the event loop run, a save ends, a wait times out.          *)
Emits(e) == \/ Acquire(e) \/ Join(e) \/ JoinTimesOut(e) \/ EmitNowhere(e) \/ EmitTask(e)
            \/ EmitInLoop(e) \/ EmitHere(e) \/ EmitAside(e)
Works(n) == Saves(n) \/ TidiedUp(n) \/ Saved(n) \/ Failed(n) \/ FailedAndReported(n)
Fairness == (\A e \in Emitters : WF_vars(Emits(e))) /\ (\A n \in Records : WF_vars(Works(n)))

Spec == Init /\ [][Next]_vars /\ Fairness
-----------------------------------------------------------------------------
\* A call of a logger ends, although the handler saves its record with a lock
\* held, and what was handed to the loop or to a thread is saved, unless the save
\* fails or the loop ends (logging/handler.py:345-385).  Messages are bounded: it
\* is enough that the program always comes to a state with neither.
Quiet == /\ \A e \in {Main} \cup Threads : doing[e] = "idle"
         /\ \A n \in Records : entry[n] \notin {"queued", "saving", "noting"}
LogsEnd == []<>Quiet

\* LIMIT: a record is lost by the end of the loop only (sync_emit, handler.py:346-354).
LostAtEnd == \A n \in Records : entry[n] = "lost" => stopped

\* LIMIT: what the program logs and a worker's message are all the records there are
\* (a failed save is a new record, handler.py:338).
NoEcho == records <= calls + 1
=============================================================================
