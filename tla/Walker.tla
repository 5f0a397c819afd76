------------------------------- MODULE Walker --------------------------------
(***************************************************************************)
(* A walk over the graph (core/entities/walker.py): the queue of nodes,    *)
(* the batches taken from it, the limits that protect it, and pause,       *)
(* resume and disengage, which hooks and other tasks call while it runs.   *)
(* Protection is on, as by default.                                        *)
(***************************************************************************)
EXTENDS Naturals, Sequences, FiniteSets, Functions

CONSTANTS Nodes, None,
          Lists,          \* the lists of nodes that hooks enqueue
          Links,          \* the targets of each node's edges, in the order found
          Frontier,       \* frontier_batch_size
          Prefetch,       \* prefetch_neighbors
          MaxQueue,       \* max_queue_size (0, no limit, is left out)
          MaxSteps, MaxVisits

Assumptions ==
    /\ Lists \subseteq Seq(Nodes) /\ Links \in [Nodes -> Seq(Nodes)]
    /\ Frontier \in Nat \ {0} /\ MaxSteps \in Nat \ {0} /\ MaxVisits \in Nat \ {0}
    /\ MaxQueue \in Nat \ {0} /\ Prefetch \in BOOLEAN

VARIABLES queue, batch, current, paused,
          ph,             \* where run is; "idle" is outside of it
          spawned,        \* the run under way was started by spawn
          steps, counts, flagged, started,
          late,           \* max_execution_time is over
          outcome,        \* how the last run ended
          trail,          \* the nodes in the trail
          hooked,         \* how often the hooks of each node were run
          owed,           \* how often each is enqueued and neither visited nor removed
          dropped,        \* nodes of a batch were given up
          exited,         \* the exit hooks ran after the last visit
          gone            \* disengage was called

walk == <<queue, batch, owed, dropped>>
limits == <<steps, counts, flagged, started, late>>
past == <<trail, hooked, exited, gone, outcome>>
vars == <<walk, limits, past, current, paused, ph, spawned>>

Count(n, seq) == Cardinality({i \in DOMAIN seq : seq[i] = n})
Taken(set, seq) == SelectSeq(seq, LAMBDA n : n \notin set)
Counts == [Nodes -> 0..MaxVisits]

TypeOK ==
    /\ queue \in Seq(Nodes) /\ Len(queue) <= MaxQueue
    /\ batch \in Seq(Nodes) /\ Len(batch) <= Frontier
    /\ current \in Nodes \cup {None} /\ paused \in BOOLEAN
    /\ ph \in {"idle", "top", "fetch", "visit", "hooks"} /\ spawned \in BOOLEAN
    /\ steps \in 0..MaxSteps /\ counts \in Counts /\ flagged \in BOOLEAN
    /\ started \in BOOLEAN /\ late \in BOOLEAN
    /\ outcome \in {"none", "returned", "reported", "max_steps", "max_visits", "timeout"}
    /\ trail \subseteq Nodes /\ hooked \in Counts
    /\ owed \in [Nodes -> 0..MaxQueue + Frontier]
    /\ exited \in BOOLEAN /\ gone \in BOOLEAN /\ dropped \in BOOLEAN

Init ==
    /\ queue = << >> /\ batch = << >> /\ current = None /\ paused \in BOOLEAN
    /\ ph = "idle" /\ spawned = FALSE
    /\ steps = 0 /\ counts = [n \in Nodes |-> 0] /\ flagged = FALSE
    /\ started = FALSE /\ late = FALSE
    /\ outcome = "none" /\ trail = {} /\ hooked = [n \in Nodes |-> 0]
    /\ owed = [n \in Nodes |-> 0] /\ exited = FALSE /\ gone = FALSE /\ dropped = FALSE

(***************************************************************************)
(* The queue (walker_queue.py).  A list that does not fit is cut: at its   *)
(* end, or at its beginning when it is put in front.                       *)
(***************************************************************************)
Fitting(k, q) == IF MaxQueue - Len(q) < k THEN MaxQueue - Len(q) ELSE k
Cut(list, q) == SubSeq(list, 1, Fitting(Len(list), q))
CutFront(list, q) == SubSeq(list, Len(list) + 1 - Fitting(Len(list), q), Len(list))

Enqueue(list) == owed' = [n \in Nodes |-> owed[n] + Count(n, list)]

AddLast(list) == queue' = queue \o Cut(list, queue) /\ Enqueue(Cut(list, queue))
PrependAll(list) ==                           \* mutant of Prepend: passes the limit by
    queue' = list \o queue /\ Enqueue(list)
Prepend(list) == queue' = CutFront(list, queue) \o queue /\ Enqueue(CutFront(list, queue))

First(n, q) == CHOOSE i \in DOMAIN q : q[i] = n /\ \A j \in 1..(i - 1) : q[j] # n
InsertAtOver(i, list) ==                      \* mutant of InsertAt: overwrites the next node
    /\ queue' = SubSeq(queue, 1, i) \o Cut(list, queue) \o SubSeq(queue, i + 2, Len(queue))
    /\ Enqueue(Cut(list, queue))
InsertAt(i, list) ==
    /\ queue' = SubSeq(queue, 1, i) \o Cut(list, queue) \o SubSeq(queue, i + 1, Len(queue))
    /\ Enqueue(Cut(list, queue))
Insert(n, list) ==                            \* insert_before, insert_after
    \E i \in {First(n, queue) - 1, First(n, queue)} : InsertAt(i, list)

Dequeue(n) ==
    /\ queue' = Taken({n}, queue)
    /\ owed' = [owed EXCEPT ![n] = @ - Count(n, queue)]

Clear ==
    /\ queue' = << >>
    /\ owed' = [n \in Nodes |-> owed[n] - Count(n, queue)]

(* Hooks change the queue, and so does any other task while run awaits.    *)
Awaiting == ph \in {"idle", "fetch", "hooks"}
Change ==
    /\ Awaiting
    /\ \/ \E list \in Lists : AddLast(list) \/ Prepend(list)
       \/ \E list \in Lists : \E n \in Nodes : Count(n, queue) > 0 /\ Insert(n, list)
       \/ \E n \in Nodes : Dequeue(n)
       \/ Clear
    /\ UNCHANGED <<limits, past, batch, dropped, current, paused, ph, spawned>>

Pause ==
    /\ Awaiting
    /\ paused' = TRUE
    /\ UNCHANGED <<walk, limits, past, current, ph, spawned>>

Disengage ==
    /\ Awaiting
    /\ paused' = TRUE /\ current' = None /\ gone' = TRUE /\ Clear
    /\ UNCHANGED <<limits, trail, hooked, exited, outcome, batch, dropped, ph, spawned>>

(***************************************************************************)
(* run.                                                                    *)
(***************************************************************************)
(* start_if_needed: the counters outlive a pause. *)
Start ==
    /\ started' = TRUE
    /\ IF started THEN UNCHANGED <<steps, counts, flagged, late>>
       ELSE steps' = 0 /\ counts' = [n \in Nodes |-> 0] /\ flagged' = FALSE /\ late' = FALSE
StartAgain ==                                 \* mutant of Resumed: every run starts a session
    /\ started' = TRUE
    /\ steps' = 0 /\ counts' = [n \in Nodes |-> 0] /\ flagged' = FALSE /\ late' = FALSE
Resumed == Start

Spawn(n) ==
    /\ ph = "idle"
    /\ IF Count(n, queue) > 0 THEN UNCHANGED <<queue, owed>> ELSE AddLast(<<n>>)
    /\ UNCHANGED <<batch, dropped>>
    /\ Start
    /\ ph' = "top" /\ spawned' = TRUE
    /\ UNCHANGED <<past, current, paused>>

Resume ==
    /\ ph = "idle"
    /\ paused' = FALSE
    /\ Resumed
    /\ ph' = "top" /\ spawned' = FALSE
    /\ UNCHANGED <<walk, past, current>>

TimePasses ==
    /\ started /\ ~late
    /\ late' = TRUE
    /\ UNCHANGED <<walk, past, steps, counts, flagged, started, current, paused, ph, spawned>>

DoneEmpty == queue = << >>                    \* mutant of Done: goes on when paused
Done == queue = << >> \/ paused
WithinLimits == steps < MaxSteps /\ ~flagged /\ ~late

(* run ends; a run that spawn started and that returns runs the exit hooks. *)
End(how) ==
    /\ ph' = "idle" /\ outcome' = how
    /\ exited' = (exited \/ (spawned /\ how \in {"returned", "reported"}))
    /\ UNCHANGED <<gone, spawned>>

GiveUp(rest, due) ==
    /\ batch' = << >>
    /\ owed' = [n \in Nodes |-> due[n] - Count(n, rest)]
    /\ dropped' = (dropped \/ rest # << >>)

Stop ==
    /\ ph = "top" /\ (Done \/ ~WithinLimits)
    /\ End("returned")
    /\ UNCHANGED <<walk, limits, trail, hooked, current, paused>>

Drained == IF Len(queue) < Frontier THEN Len(queue) ELSE Frontier
Drain ==
    /\ ph = "top" /\ ~Done /\ WithinLimits
    /\ batch' = SubSeq(queue, 1, Drained)
    /\ queue' = SubSeq(queue, Drained + 1, Len(queue))
    /\ ph' = IF Prefetch THEN "fetch" ELSE "visit"
    /\ UNCHANGED <<owed, dropped, limits, past, current, paused, spawned>>

(* Neighbours not yet visited are enqueued before the hooks run.           *)
Found ==
    LET found[i \in 0..Len(batch)] ==
            IF i = 0 THEN << >> ELSE found[i - 1] \o Taken(trail, Links[batch[i]])
    IN found[Len(batch)]
Fetch ==
    /\ ph = "fetch"
    /\ AddLast(Found)
    /\ ph' = "visit"
    /\ UNCHANGED <<batch, dropped, limits, past, current, paused, spawned>>
FetchRaises ==
    /\ ph = "fetch"
    /\ End("reported")
    /\ GiveUp(batch, owed)
    /\ UNCHANGED <<queue, limits, trail, hooked, current, paused>>

(* One node of the batch: the limits, the trail, then its hooks.  When a   *)
(* limit raises, what is left of the batch is dropped.                     *)
VisitsAt(n) == counts[n] + 1
Trips(n) ==
    IF VisitsAt(n) >= MaxVisits THEN "max_visits"
    ELSE IF late THEN "timeout"
    ELSE IF steps + 1 >= MaxSteps THEN "max_steps" ELSE "none"

VisitUncounted ==                             \* mutant of Visit: counts nothing
    /\ ph = "visit" /\ ph' = "hooks" /\ batch' = Tail(batch)
    /\ owed' = [owed EXCEPT ![Head(batch)] = @ - 1]
    /\ UNCHANGED <<queue, dropped, limits, past, current, paused, spawned>>
Visit ==
    /\ ph = "visit"
    /\ LET n == Head(batch) IN
       /\ current' = n
       /\ counts' = [counts EXCEPT ![n] = VisitsAt(n)]
       /\ flagged' = (VisitsAt(n) >= MaxVisits)
       /\ trail' = IF Trips(n) = "max_visits" THEN trail ELSE trail \cup {n}
       /\ steps' = IF Trips(n) = "max_visits" THEN steps ELSE steps + 1
       /\ IF Trips(n) = "none"
          THEN /\ ph' = "hooks" /\ exited' = FALSE
               /\ hooked' = [hooked EXCEPT ![n] = @ + 1]
               /\ batch' = Tail(batch)
               /\ owed' = [owed EXCEPT ![n] = @ - 1]
               /\ UNCHANGED <<outcome, gone, spawned, dropped>>
          ELSE /\ End(Trips(n))
               /\ GiveUp(Tail(batch), [owed EXCEPT ![n] = @ - 1])
               /\ UNCHANGED hooked
    /\ UNCHANGED <<queue, started, late, paused>>

(* The hooks of the node are over; what they raise is reported, no more.   *)
HooksEnd ==
    /\ ph = "hooks"
    /\ ph' = IF batch = << >> THEN "top" ELSE "visit"
    /\ UNCHANGED <<walk, limits, past, current, paused, spawned>>

Next ==
    \/ \E n \in Nodes : Spawn(n)
    \/ Resume \/ Change \/ Pause \/ Disengage \/ TimePasses
    \/ Stop \/ Drain \/ Fetch \/ FetchRaises \/ Visit \/ HooksEnd

Spec == Init /\ [][Next]_vars

(* run is scheduled, and hooks and queries come to an end: in each phase   *)
(* of a run one of these is enabled, until it is taken.                    *)
Running == Stop \/ Drain \/ Visit \/ Fetch \/ FetchRaises \/ HooksEnd
Fairness == WF_vars(Running)

(***************************************************************************)
(* Properties.                                                             *)
(***************************************************************************)
(* What is enqueued is visited or taken out: "continue processing nodes    *)
(* from where it left off", whatever stopped the walk.                     *)
NothingDropped ==
    ~dropped /\ \A n \in Nodes : owed[n] = Count(n, queue) + Count(n, batch)

(* The limits hold for all the runs of a walk together: hooks run for      *)
(* fewer than max_steps nodes, and fewer than max_visits times for each.   *)
LimitsHold == FoldFunction(+, 0, hooked) < MaxSteps /\ \A n \in Nodes : hooked[n] < MaxVisits

(* "The walker will stop processing new nodes until resume() is called".   *)
Halts == paused /\ paused' => hooked' = hooked
PauseStops == [][Halts]_vars

(* Disengage "permanently halts a walker's traversal".                     *)
DisengageHalts == [][gone => hooked' = hooked]_vars

(* A run that stops short of the queue's end, and was not paused, raises:  *)
(* exceeding a limit raises the error of that limit.                       *)
LimitsRaise ==
    [][ph # "idle" /\ ph' = "idle" /\ outcome' = "returned" => queue' = << >> \/ paused']_vars

(* The visit limit trips when a node is visited more often than that.      *)
TripsBeyond == outcome = "max_visits" => \E n \in Nodes : hooked[n] >= MaxVisits

(* A walk that has come to the end of its queue has run its exit hooks.    *)
ExitHooksRun ==
    ph = "idle" /\ outcome = "returned" /\ queue = << >> /\ ~paused /\ trail # {} => exited

(* Every run ends, even if hooks enqueue without end.                      *)
RunEnds == ph # "idle" ~> ph = "idle"
=============================================================================
