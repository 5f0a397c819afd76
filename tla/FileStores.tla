------------------------------ MODULE FileStores ------------------------------
(***************************************************************************)
(* The file stores (storage/interfaces/local.py and s3.py), whole files    *)
(* under a name: a directory that processes share, or a bucket, with calls *)
(* that are made again when the service asks for it, and versions under    *)
(* random names.  A step is one call of the file system or of the service, *)
(* between which other tasks run.  The n-th change saves the content n, or *)
(* deletes by leaving -n; what FileValidator refuses changes nothing and   *)
(* is left out.  Names are numbers, in the order the bucket lists them.    *)
(***************************************************************************)
EXTENDS Integers, FiniteSets

CONSTANTS Tasks, None,
          Local,            \* a directory, not a bucket
          Ops,              \* what tasks call
          Faults,           \* the disk and the service raise, the service asks to slow down
          Crashes,          \* processes are killed
          MaxListed,        \* max_results
          MaxTries,         \* max_attempts
          MaxFile, MaxCalls \* bounds

Assumptions ==
    /\ {Local, Faults, Crashes} \subseteq BOOLEAN /\ {MaxListed, MaxTries, MaxFile, MaxCalls} \subseteq Nat \ {0}
    /\ Ops \subseteq {"save", "upload", "get", "stream", "serve", "delete", "list", "version", "latest"}
    /\ Local => Ops \cap {"version", "latest"} = {}

Names == 1..MaxFile
Part == MaxCalls + 1            \* some of a content
Written == (-MaxCalls)..MaxCalls

VARIABLES stored,           \* per name its content; none is no file
          temps,            \* temporary files of saves
          req,              \* the call of each task
          begun,            \* changes so far
          used,             \* history: names that were saved to
          may               \* history: what a file may hold, by the calls that ended

vars == <<stored, temps, req, begun, used, may>>

Resting == [op |-> "none", at |-> "done", n |-> 0, name |-> None, tries |-> 1, got |-> 0, did |-> FALSE,
            todo |-> {}, found |-> {}, failed |-> FALSE, seen |-> {}, sure |-> {}, old |-> {}]

TypeOK ==
    /\ stored \in [Names -> Written \cup {Part}] /\ temps \subseteq 1..MaxCalls /\ begun \in 0..MaxCalls
    /\ \A t \in Tasks : /\ req[t].op \in Ops \cup {"none"} /\ req[t].tries \in 1..MaxTries
                        /\ req[t].name \in Names \cup {None} /\ req[t].found \subseteq Names

Init ==
    /\ stored = [f \in Names |-> 0] /\ temps = {} /\ req = [t \in Tasks |-> Resting]
    /\ begun = 0 /\ used = {} /\ may = [f \in Names |-> {0}]
-----------------------------------------------------------------------------
At(t, place) == req[t].at = place
Goes(t, place) == req' = [req EXCEPT ![t].at = place]
Ends(t) == req' = [req EXCEPT ![t] = Resting]
There(f) == stored[f] > 0
Present == {f \in Names : There(f)}

Saves == {"save", "upload", "version"}
Changes == Saves \cup {"delete"}
Lists == {"list", "latest"}
ValueOf(op, n) == IF op = "delete" THEN -n ELSE n
UnderWay == {ValueOf(req[t].op, req[t].n) : t \in {u \in Tasks : req[u].op \in Changes}}

Start(op) == CASE op \in Saves -> "write"
               [] op \in Lists -> "walk"
               [] ~Local /\ op \in {"get", "stream"} -> "fetch"
               [] OTHER -> "look"

(* A call begins.  What a file may hold grows by what a change will leave,  *)
(* for the calls under way too; a version has a name of its own.           *)
Begin(t, op, f) ==
    /\ At(t, "done") /\ op \in Ops /\ (op \in Changes => begun < MaxCalls)
    /\ op = "version" => f \notin used
    /\ begun' = (IF op \in Changes THEN begun + 1 ELSE begun) /\ used' = IF op \in Saves THEN used \cup {f} ELSE used
    /\ LET left == IF op \in Changes THEN {ValueOf(op, begun')} ELSE {}
           call == [Resting EXCEPT !.op = op, !.at = Start(op), !.name = f]
           mine == IF op \in Changes THEN [call EXCEPT !.n = begun', !.old = may[f] \ UnderWay]
                   ELSE IF op \in Lists
                   THEN [call EXCEPT !.name = None, !.sure = {g \in Present : \A v \in may[g] : v > 0}]
                   ELSE [call EXCEPT !.seen = may[f]]
           told(u) == [req[u] EXCEPT !.seen = IF req[u].name = f /\ @ # {} THEN @ \cup left ELSE @,
                                     !.sure = IF op = "delete" THEN @ \ {f} ELSE @]
       IN /\ may' = [may EXCEPT ![f] = @ \cup left]
          /\ req' = [u \in Tasks |-> IF u = t THEN mine ELSE told(u)]
    /\ UNCHANGED <<stored, temps>>

(* When the service asks to slow down, or fails, the call is made again,   *)
(* MaxTries times at most.                                                 *)
AsksAgain(t) == req[t].tries < MaxTries /\ req' = [req EXCEPT ![t].tries = @ + 1]
-----------------------------------------------------------------------------
(* save_file in a directory: a temporary file that replaces the other.     *)
WriteInPlace(t) ==                            \* mutant of WriteTemp
    /\ At(t, "write") /\ Local
    /\ stored' = [stored EXCEPT ![req[t].name] = Part] /\ Goes(t, "replace")
    /\ UNCHANGED <<temps, begun, used, may>>
WriteTemp(t) ==
    /\ At(t, "write") /\ Local
    /\ temps' = temps \cup {req[t].n} /\ Goes(t, "replace")
    /\ UNCHANGED <<stored, begun, used, may>>

Replace(t) ==
    /\ At(t, "replace")
    /\ stored' = [stored EXCEPT ![req[t].name] = req[t].n] /\ temps' = temps \ {req[t].n}
    /\ Goes(t, "saved") /\ UNCHANGED <<begun, used, may>>

WriteRaises(t) ==
    /\ Faults /\ Local /\ req[t].at \in {"write", "replace"}
    /\ temps' = temps \ {req[t].n} /\ Ends(t)
    /\ UNCHANGED <<stored, begun, used, may>>

(* save_file in a bucket: put_object, or an upload in parts that is seen   *)
(* when it is complete.                                                    *)
Put(t) ==
    /\ At(t, "write") /\ ~Local
    /\ stored' = [stored EXCEPT ![req[t].name] = req[t].n]
    /\ Goes(t, "saved") /\ UNCHANGED <<temps, begun, used, may>>

GivesUpQuietly(t) ==                          \* mutant of PutFails: taken for a success
    /\ Faults /\ At(t, "write") /\ ~Local
    /\ IF req[t].tries < MaxTries THEN AsksAgain(t) ELSE Goes(t, "saved")
    /\ UNCHANGED <<stored, temps, begun, used, may>>
PutFails(t) ==
    /\ Faults /\ At(t, "write") /\ ~Local
    /\ stored' \in {stored, [stored EXCEPT ![req[t].name] = req[t].n]}
    /\ AsksAgain(t) \/ Ends(t)
    /\ UNCHANGED <<temps, begun, used, may>>

(* The call returns; handle_upload asks for the URL of the file then.      *)
Kept(t) == may' = [may EXCEPT ![req[t].name] = @ \ req[t].old]

Saved(t) ==
    /\ At(t, "saved") /\ Kept(t)
    /\ IF req[t].op = "upload" THEN Goes(t, "url") ELSE Ends(t)
    /\ UNCHANGED <<stored, temps, begun, used>>

get_file_url(t) == At(t, "url") /\ Ends(t) /\ UNCHANGED <<stored, temps, begun, used, may>>
-----------------------------------------------------------------------------
Answers(t, content) ==
    /\ req' = [req EXCEPT ![t].at = "answer", ![t].got = content]
    /\ UNCHANGED <<stored, temps, begun, used, may>>

(* exists and is_file, or head_object.                                     *)
Look(t) ==
    /\ At(t, "look")
    /\ IF There(req[t].name)
       THEN Goes(t, IF req[t].op = "delete" THEN "remove" ELSE "fetch")
            /\ UNCHANGED <<stored, temps, begun, used, may>>
       ELSE Answers(t, 0)

(* The file is opened and read to its end, or the object and its body.     *)
Fetch(t) == At(t, "fetch") /\ Answers(t, stored[req[t].name])

ReadRaises(t) ==
    /\ Faults /\ req[t].at \in {"look", "fetch"}
    /\ \/ ~Local /\ At(t, "fetch") /\ req[t].op # "stream" /\ AsksAgain(t)
       \/ Ends(t)
    /\ UNCHANGED <<stored, temps, begun, used, may>>

Return(t) == At(t, "answer") /\ Ends(t) /\ UNCHANGED <<stored, temps, begun, used, may>>

(* unlink raises when the file has gone since; delete_object does not.     *)
Remove(t) ==
    /\ At(t, "remove")
    /\ IF Local /\ ~There(req[t].name) THEN Ends(t) /\ UNCHANGED stored
       ELSE /\ stored' = [stored EXCEPT ![req[t].name] = -req[t].n]
            /\ req' = [req EXCEPT ![t].at = "removed", ![t].did = @ \/ There(req[t].name)]
    /\ UNCHANGED <<temps, begun, used, may>>

RemoveFails(t) ==
    /\ Faults /\ At(t, "remove")
    /\ IF Local THEN Ends(t) /\ UNCHANGED stored
       ELSE /\ stored' \in {stored, [stored EXCEPT ![req[t].name] = -req[t].n]}
            /\ AsksAgain(t) \/ Ends(t)
    /\ UNCHANGED <<temps, begun, used, may>>

Removed(t) == At(t, "removed") /\ Kept(t) /\ Ends(t) /\ UNCHANGED <<stored, temps, begun, used>>
-----------------------------------------------------------------------------
(* list_files: temporary files take room in a directory, whose entries are *)
(* described one by one; a bucket lists the first names, or nothing when   *)
(* it fails.                                                               *)
FirstNames == {f \in Present : Cardinality({g \in Present : g < f}) < MaxListed}
SomeNames == {some \in SUBSET Present :
                \/ some = Present /\ Cardinality(Present) + Cardinality(temps) <= MaxListed
                \/ Cardinality(some) <= MaxListed /\ MaxListed <= Cardinality(some) + Cardinality(temps)}

Walk(t) ==
    /\ At(t, "walk")
    /\ IF Local THEN \E some \in SomeNames : req' = [req EXCEPT ![t].at = "describe", ![t].todo = some]
       ELSE req' = [req EXCEPT ![t].at = "listed", ![t].found = FirstNames]
    /\ UNCHANGED <<stored, temps, begun, used, may>>

WalkFails(t) ==
    /\ Faults /\ At(t, "walk")
    /\ req' = [req EXCEPT ![t].at = "listed", ![t].failed = TRUE]
    /\ UNCHANGED <<stored, temps, begun, used, may>>

get_metadata(t, f) ==
    /\ At(t, "describe") /\ f \in req[t].todo
    /\ req' = [req EXCEPT ![t].todo = @ \ {f}, ![t].found = IF There(f) THEN @ \cup {f} ELSE @]
    /\ UNCHANGED <<stored, temps, begun, used, may>>

Described(t) ==
    /\ At(t, "describe") /\ req[t].todo = {} /\ Goes(t, "listed")
    /\ UNCHANGED <<stored, temps, begun, used, may>>

(* list_versions gives them in the order of their names; get_latest_version *)
(* reads the last of them.                                                 *)
Listed(t) ==
    /\ At(t, "listed")
    /\ IF req[t].op = "list" \/ req[t].found = {} THEN Ends(t)
       ELSE \E last \in req[t].found :
              /\ \A f \in req[t].found : f <= last
              /\ req' = [req EXCEPT ![t].name = last, ![t].at = "fetch", ![t].seen = may[last]]
    /\ UNCHANGED <<stored, temps, begun, used, may>>

(* A killed process leaves its temporary files; what it asked the service  *)
(* is done by then, or never.                                              *)
Crash(t) ==
    /\ Crashes /\ ~At(t, "done") /\ Ends(t)
    /\ UNCHANGED <<stored, temps, begun, used, may>>

Next == \E t \in Tasks :
    \/ \E op \in Ops, f \in Names : Begin(t, op, f)
    \/ WriteTemp(t) \/ Replace(t) \/ WriteRaises(t) \/ Put(t) \/ PutFails(t) \/ Saved(t) \/ get_file_url(t)
    \/ Look(t) \/ Fetch(t) \/ ReadRaises(t) \/ Return(t) \/ Remove(t) \/ RemoveFails(t) \/ Removed(t)
    \/ Walk(t) \/ WalkFails(t) \/ Described(t) \/ Listed(t) \/ Crash(t)
    \/ \E f \in Names : get_metadata(t, f)

Spec == Init /\ [][Next]_vars
-----------------------------------------------------------------------------
\* A file holds what the last save or delete left that returned, or one under
\* way or that failed (storage/interfaces/local.py:455, s3.py:420).
SavedKept == \A f \in Names : stored[f] \in may[f]

\* What a reader gets is the whole of a content the file had meanwhile, and
\* nothing only if there was none (local.py:542, s3.py:471).
ReadRegular == \A t \in Tasks : At(t, "answer") /\ req[t].op # "delete" =>
    IF req[t].got > 0 THEN req[t].got \in req[t].seen ELSE \E v \in req[t].seen : v <= 0

\* A list that has room for more has every file that was there all along.
ListsAll == \A t \in Tasks :
    At(t, "listed") /\ ~req[t].failed /\ Cardinality(req[t].found) < MaxListed => req[t].sure \subseteq req[t].found

\* LIMIT: the latest version is none older than another (s3.py:913).
LatestIsLast == \A t \in Tasks : At(t, "answer") /\ req[t].op = "latest" =>
    \A f \in req[t].sure : stored[f] <= req[t].got

\* LIMIT: a file that is served has content (s3.py:744).
ServesContent == \A t \in Tasks : At(t, "fetch") /\ req[t].op = "serve" => There(req[t].name)

\* LIMIT: a delete returns True for a file it deleted (s3.py:583).
DeletesTold == \A t \in Tasks : At(t, "removed") => req[t].did

\* LIMIT: a failed list is told from an empty one (local.py:819, s3.py:797).
FailsLoudly == \A t \in Tasks : At(t, "listed") => ~req[t].failed
=============================================================================
