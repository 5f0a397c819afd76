----------------------------- MODULE VersionedFiles ----------------------------
(***************************************************************************)
(* Versions of one file in a directory (storage/interfaces/local.py): each *)
(* has its content in one file and its description in another, and a third *)
(* names the latest.  Writes are atomic and last (db/_atomic.py); between  *)
(* any two steps, which run in threads, other calls run, or the process is *)
(* killed.  A power loss, which may bring back what was deleted, is left   *)
(* out.  Every create has a version of its own, as by default.             *)
(***************************************************************************)
CONSTANTS Callers, Versions, None,
          Faults            \* writes and unlinks may raise

Assumptions == Faults \in BOOLEAN /\ None \notin Versions

VARIABLES contents,     \* versions with a .bin file
          described,    \* versions with a .meta.json file
          latest,       \* the .latest file, or None
          call,
          begun,        \* history: versions that a create began
          kept,         \* history: versions created, with no delete begun
          condemned,    \* history: versions with a delete begun
          older,        \* history: per version, those created before it began
          wrong         \* history: calls that gave an answer they should not

vars == <<contents, described, latest, call, begun, kept, condemned, older, wrong>>
files == <<contents, described, latest>>
history == <<begun, kept, condemned, older, wrong>>

Ops == {"create", "get", "latest", "list", "delete"}
Resting == [op |-> "none", at |-> "done", version |-> None, todo |-> {}, found |-> {}, sure |-> {}]

TypeOK ==
    /\ contents \subseteq Versions /\ described \subseteq Versions /\ latest \in Versions \cup {None}
    /\ begun \subseteq Versions /\ kept \cup condemned \subseteq Versions
    /\ \A c \in Callers :
        /\ call[c].op \in Ops \cup {"none"} /\ call[c].version \in Versions \cup {None}
        /\ call[c].todo \cup call[c].found \cup call[c].sure \subseteq Versions

Init ==
    /\ contents = {} /\ described = {} /\ latest = None
    /\ call = [c \in Callers |-> Resting]
    /\ begun = {} /\ kept = {} /\ condemned = {} /\ older = [v \in Versions |-> {}] /\ wrong = {}
-----------------------------------------------------------------------------
At(c, op, place) == call[c].op = op /\ call[c].at = place
Goes(c, place) == call' = [call EXCEPT ![c].at = place]
Ends(c) == call' = [call EXCEPT ![c] = Resting]

(* A call knows at its begin which versions it has to see: those kept.     *)
Begin(c, op, v, first) ==
    /\ call[c].op = "none"
    /\ call' = [call EXCEPT ![c] = [Resting EXCEPT !.op = op, !.at = first, !.version = v, !.sure = kept]]
    /\ UNCHANGED <<files, wrong>>

create_version(c, v) ==
    /\ v \notin begun /\ begun' = begun \cup {v} /\ older' = [older EXCEPT ![v] = kept]
    /\ Begin(c, "create", v, "bin") /\ UNCHANGED <<kept, condemned>>
get_version(c, v) == Begin(c, "get", v, "exists") /\ UNCHANGED <<begun, kept, condemned, older>>
get_latest_version(c) == Begin(c, "latest", None, "pointer") /\ UNCHANGED <<begun, kept, condemned, older>>
list_versions(c) == Begin(c, "list", None, "glob") /\ UNCHANGED <<begun, kept, condemned, older>>
delete_version(c, v) ==
    /\ condemned' = condemned \cup {v} /\ kept' = kept \ {v}
    /\ Begin(c, "delete", v, "exists") /\ UNCHANGED <<begun, older>>

(* create_version: the content first, then what describes it, then what    *)
(* points to it.                                                           *)
FirstMeta(v) == described' = described \cup {v} /\ UNCHANGED contents
                                        \* mutant of FirstWritten: the description first
FirstWritten(v) == contents' = contents \cup {v} /\ UNCHANGED described
SecondWritten(v) == contents' = contents \cup {v} /\ described' = described \cup {v}

WriteBin(c) ==
    /\ At(c, "create", "bin") /\ FirstWritten(call[c].version) /\ Goes(c, "meta")
    /\ UNCHANGED <<latest, history>>
WriteMeta(c) ==
    /\ At(c, "create", "meta") /\ SecondWritten(call[c].version) /\ Goes(c, "latest")
    /\ UNCHANGED <<latest, history>>
WriteLatest(c) ==
    /\ At(c, "create", "latest") /\ latest' = call[c].version /\ Ends(c)
    /\ kept' = kept \cup ({call[c].version} \ condemned)
    /\ UNCHANGED <<contents, described, begun, condemned, older, wrong>>

(* delete_version: a file that another delete took after it was seen       *)
(* raises.                                                                 *)
SeeBin(c) ==
    /\ At(c, "delete", "exists")
    /\ Goes(c, IF call[c].version \in contents THEN "unlink" ELSE "exists meta")
    /\ UNCHANGED <<files, history>>
UnlinkBin(c) ==
    /\ At(c, "delete", "unlink")
    /\ contents' = contents \ {call[c].version}
    /\ IF call[c].version \in contents THEN Goes(c, "exists meta") ELSE Ends(c)
    /\ UNCHANGED <<described, latest, history>>
SeeMeta(c) ==
    /\ At(c, "delete", "exists meta")
    /\ IF call[c].version \in described THEN Goes(c, "unlink meta") ELSE Ends(c)
    /\ UNCHANGED <<files, history>>
UnlinkMeta(c) ==
    /\ At(c, "delete", "unlink meta") /\ described' = described \ {call[c].version} /\ Ends(c)
    /\ UNCHANGED <<contents, latest, history>>

(* What must not be: a version that was kept at the begin and still is,    *)
(* is not found, not listed, or newer than the latest.                     *)
Answers(c, bad) == /\ Ends(c) /\ wrong' = IF bad THEN wrong \cup {call[c].op} ELSE wrong
                   /\ UNCHANGED <<files, begun, kept, condemned, older>>
Looks(c, change) == call' = change /\ UNCHANGED <<files, history>>
Missed(c, found) == call[c].sure \cap kept \cap found # {}

(* get_version: no content is None, or an error if it went after it was    *)
(* seen; without a description the content comes alone.                    *)
Exists(c) ==
    /\ call[c].op \in {"get", "latest"} /\ call[c].at = "exists"
    /\ IF call[c].version \in contents THEN Looks(c, [call EXCEPT ![c].at = "read"])
       ELSE Answers(c, Missed(c, {call[c].version}))
Read(c) ==
    /\ call[c].op \in {"get", "latest"} /\ call[c].at = "read"
    /\ IF call[c].version \in contents THEN Looks(c, [call EXCEPT ![c].at = "describe"])
       ELSE Answers(c, Missed(c, {call[c].version}))
Describe(c) ==
    /\ call[c].op \in {"get", "latest"} /\ call[c].at = "describe"
    /\ Answers(c, call[c].version \notin described /\ Missed(c, {call[c].version}))

Pointer(c) ==
    /\ At(c, "latest", "pointer")
    /\ IF latest = None THEN Answers(c, call[c].sure # {})
       ELSE IF \E v \in call[c].sure : latest \in older[v] THEN Answers(c, TRUE)
       ELSE Looks(c, [call EXCEPT ![c].version = latest, ![c].at = "exists"])

(* list_versions leaves out what it cannot read.                           *)
Glob(c) == At(c, "list", "glob") /\ Looks(c, [call EXCEPT ![c].todo = described, ![c].at = "each"])
Each(c) ==
    /\ At(c, "list", "each")
    /\ \/ \E v \in call[c].todo :
            Looks(c, [call EXCEPT ![c].todo = @ \ {v}, ![c].found = @ \cup ({v} \cap described)])
       \/ call[c].todo = {} /\ Answers(c, Missed(c, Versions \ call[c].found))

Raise(c) ==
    /\ Faults /\ call[c].op \in {"create", "delete"} /\ Ends(c) /\ UNCHANGED <<files, history>>

Kill == /\ \E c \in Callers : call[c].op # "none"
        /\ call' = [c \in Callers |-> Resting] /\ UNCHANGED <<files, history>>

Next ==
    \/ Kill
    \/ \E c \in Callers :
        \/ \E v \in Versions : create_version(c, v) \/ get_version(c, v) \/ delete_version(c, v)
        \/ get_latest_version(c) \/ list_versions(c)
        \/ WriteBin(c) \/ WriteMeta(c) \/ WriteLatest(c)
        \/ SeeBin(c) \/ UnlinkBin(c) \/ SeeMeta(c) \/ UnlinkMeta(c)
        \/ Exists(c) \/ Read(c) \/ Describe(c) \/ Pointer(c) \/ Glob(c) \/ Each(c) \/ Raise(c)

Spec == Init /\ [][Next]_vars
-----------------------------------------------------------------------------
\* A version whose create returned is found, described and listed until a delete of
\* it begins, whatever is written, deleted or killed beside; the latest is no version
\* that was created before a later one began (storage/interfaces/local.py:248-257).
VersionsKept == wrong = {}

\* What has a description has its content, until its delete begins: a create that
\* is cut off leaves nothing listed that cannot be read
\* (storage/interfaces/local.py:248).
ListedReadable == described \subseteq contents \cup condemned

\* A delete leaves nothing listed; a kill or an error in between does.
DeletedUnlisted == (\A c \in Callers : call[c].op # "delete") => described \subseteq contents
=============================================================================
