------------------------------- MODULE MCStore -------------------------------
(***************************************************************************)
(* The file stores on small instances: the lock table (PathLocks), the     *)
(* records (JsonStore), the versions of a file (VersionedFiles) and whole  *)
(* files (FileStores).  They share no state, JsonStore has the locks as    *)
(* mutexes, so a behaviour is of one of them: scene says of which, and     *)
(* with which constants.                                                   *)
(*   tight    one path more than the table has room for                    *)
(*   few      two paths more, and at most two threads at a time            *)
(*   roomy    room for every path that is asked for                        *)
(*   one      two threads of one JsonDB, one record                        *)
(*   read     a writer and a reader of two records                         *)
(*   two      two JsonDBs, each with a thread that saves, one process or two *)
(*   shared   the same in one process, with the pid of one that is gone    *)
(*   versions two calls at a time on two versions of one file              *)
(*   folder   two tasks, two files of a directory, kills                   *)
(*   bucket   two tasks, two files of a bucket, calls that fail            *)
(***************************************************************************)
EXTENDS PathLocks, TLC

(***************************************************************************)
(* Sets whose members are never compared with each other share their model *)
(* values: one permutation of Threads then permutes the pids too.          *)
(***************************************************************************)
CONSTANTS k1, k2, k3,                         \* among Keys
          s1, s2, w1, w2, r1,                 \* JsonDBs and their threads
          h1, h2, h3, v1, v2, v3,             \* hexes and pids, values
          Absent, Torn

VARIABLES scene,
          disk, revealed, tmps, pid, swept, sweeper, reap, held, at, wants, val, file,
          todo, found, live, safe, alone, before, window,
          contents, described, latest, call, begun, kept, condemned, older, wrong,
          stored, temps, req, reqs, used, may

files == <<disk, revealed, tmps, pid, swept, sweeper, reap, held, at, wants, val, file,
           todo, found, live, safe, alone, before, window>>
versions == <<contents, described, latest, call, begun, kept, condemned, older, wrong>>
whole == <<stored, temps, req, reqs, used, may>>
all == <<scene, vars, files, versions, whole>>

One == INSTANCE JsonStore WITH
    Stores <- {s1}, Writers <- {w1, w2}, Readers <- {}, StoreOf <- [w \in {w1, w2} |-> s1],
    Keys <- {k1}, Vals <- {v1, v2}, Pids <- Threads, Hexes <- {h1, h2},
    PidReuse <- FALSE, pc <- at, key <- wants
Reading == INSTANCE JsonStore WITH
    Stores <- {s1}, Writers <- {w1}, Readers <- {r1}, StoreOf <- [t \in {w1, r1} |-> s1],
    Keys <- {k1, k2}, Vals <- {v1}, Pids <- {h1, h2}, Hexes <- {h3},
    PidReuse <- FALSE, pc <- at, key <- wants
Two == INSTANCE JsonStore WITH
    Stores <- {s1, s2}, Writers <- {w1, w2}, Readers <- {}, StoreOf <- w1 :> s1 @@ w2 :> s2,
    Keys <- {k1}, Vals <- {v3}, Pids <- {v1, v2}, Hexes <- {h1, h2},
    PidReuse <- TRUE, pc <- at, key <- wants
Shared == INSTANCE JsonStore WITH
    Stores <- {s1, s2}, Writers <- {w1, w2}, Readers <- {}, StoreOf <- w1 :> s1 @@ w2 :> s2,
    Keys <- {k1}, Vals <- {v3}, Pids <- {v1}, Hexes <- {h1, h2},
    PidReuse <- TRUE, pc <- at, key <- wants
Versioned == INSTANCE VersionedFiles WITH
    Callers <- {h1, h2}, Versions <- {v1, v2}, Faults <- TRUE
Folder == INSTANCE FileStores WITH
    begun <- reqs, Tasks <- {h1, h2}, Local <- TRUE,
    Ops <- {"save", "upload", "get", "stream", "serve", "delete", "list"},
    Faults <- TRUE, Crashes <- TRUE, MaxListed <- 5, MaxTries <- 1, MaxFile <- 2, MaxCalls <- 2
Bucket == INSTANCE FileStores WITH
    begun <- reqs, Tasks <- {h1, h2}, Local <- FALSE,
    Ops <- {"save", "get", "stream", "serve", "delete", "list", "version", "latest"},
    Faults <- TRUE, Crashes <- FALSE, MaxListed <- 1, MaxTries <- 2, MaxFile <- 2, MaxCalls <- 2

ASSUME ScenesAssumption ==
    /\ One!Assumptions /\ Reading!Assumptions /\ Two!Assumptions /\ Shared!Assumptions
    /\ Versioned!Assumptions /\ Folder!Assumptions /\ Bucket!Assumptions

(* The state of the modules that a scene is not about.                       *)
NoRecords ==
    /\ disk = None /\ revealed = None /\ tmps = None /\ pid = None /\ swept = None
    /\ sweeper = None /\ reap = None /\ held = None /\ at = None /\ wants = None /\ val = None
    /\ file = None /\ todo = None /\ found = None /\ live = None /\ safe = None /\ alone = None
    /\ before = None /\ window = None
NoVersions ==
    /\ contents = None /\ described = None /\ latest = None /\ call = None /\ begun = None
    /\ kept = None /\ condemned = None /\ older = None /\ wrong = None
NoFiles ==
    /\ stored = None /\ temps = None /\ req = None /\ reqs = None /\ used = None /\ may = None

StoreInit ==
    /\ scene \in {"tight", "few", "roomy", "one", "read", "two", "shared", "versions",
                 "folder", "bucket"}
    /\ Init
    /\ CASE scene = "one" -> One!Init
         [] scene = "read" -> Reading!Init
         [] scene = "two" -> Two!Init
         [] scene = "shared" -> Shared!Init
         [] OTHER -> NoRecords
    /\ IF scene = "versions" THEN Versioned!Init ELSE NoVersions
    /\ IF scene \in {"folder", "bucket"} THEN Folder!Init ELSE NoFiles

\* Which identity a new lock object has is of no matter: the first free one.
Locking ==
    /\ Next
    /\ Live' \subseteq Live \cup {None, CHOOSE l \in Locks : l \notin Live}
    /\ LET wanted == {key'[t] : t \in Threads} \ {None}
       IN /\ scene = "tight" => wanted \subseteq {k1, k2, k3}
          /\ scene = "few" => Cardinality({t \in Threads : pc'[t] # "idle"}) <= 2
          /\ scene = "roomy" => wanted \subseteq {k1, k2}

Recording ==
    /\ scene \in {"one", "read", "two", "shared"}
    /\ UNCHANGED <<vars, versions, whole>>
    /\ \/ scene = "one" /\ One!Next
       \/ scene = "read" /\ Reading!Next
       \/ scene = "two" /\ Two!Next /\ \A w \in {w1, w2} : wants'[w] = None \/ val'[w] # Absent
       \/ scene = "shared" /\ Shared!Next

StoreNext ==
    /\ UNCHANGED scene
    /\ \/ scene \in {"tight", "few", "roomy"} /\ UNCHANGED <<files, versions, whole>> /\ Locking
       \/ Recording
       \/ scene = "versions" /\ UNCHANGED <<vars, files, whole>> /\ Versioned!Next
       \/ /\ scene \in {"folder", "bucket"} /\ UNCHANGED <<vars, files, versions>>
          /\ \/ scene = "folder" /\ Folder!Next
             \/ scene = "bucket" /\ Bucket!Next

StoreSpec == StoreInit /\ [][StoreNext]_all

Symmetry == Permutations(Threads) \cup Permutations({h1, h2}) \cup Permutations({v1, v2})
-----------------------------------------------------------------------------
\* The types of the modules, and of the lock table more: its LRU order lists
\* the same paths, each once, and it outgrows its cap by locks in use only
\* (db/_path_locks.py:70).
StoreTypes == /\ TypeOK /\ OrderMatchesTable /\ TableBounded
              /\ (scene = "one" => One!TypeOK) /\ (scene = "versions" => Versioned!TypeOK)
              /\ (scene = "folder" => Folder!TypeOK) /\ (scene = "bucket" => Bucket!TypeOK)

\* With room for every path, the table acts as one mutex per path: no two
\* threads are in the with-block of one (db/jsondb.py:18).
Blocks == [k \in Keys |-> Inside(k)]
RoomyImplements == [][scene = "roomy" => M!Next]_Blocks

\* A record shows what its last writers left (db/jsondb.py:5-11), and a power
\* loss undoes no acknowledged save and tears no record (db/_atomic.py:3-7).
SavesDurable == /\ scene = "one" => One!SavesDurable
                /\ scene = "read" => Reading!SavesDurable
                /\ scene = "two" => Two!SavesDurable
                /\ scene = "shared" => Shared!SavesDurable

\* A read sees each record as it was at some moment of it (db/jsondb.py:23-24).
ReadRegular == scene = "read" => Reading!ReadRegular

\* A sweep takes no file of a save in progress in its process
\* (db/jsondb.py:86), and leaves no orphan behind (db/jsondb.py:95); within one
\* JsonDB no delete raises because the record is gone.
RemovesOnce == /\ scene = "shared" => Shared!RemovesOnce
               /\ scene = "one" => One!RemovesOnce
               /\ scene = "read" => Reading!RemovesOnce
               /\ scene = "two" => Two!RemovesOnce

\* A version of a file is found and listed from the end of its create to the begin
\* of a delete, and what is listed can be read (storage/interfaces/local.py:248-257).
\* A file holds what the last save or delete left, or one that failed
\* (storage/interfaces/local.py:455, s3.py:420), a read gets it whole (local.py:542,
\* s3.py:471), and a list leaves none out.
FilesKept == /\ scene = "versions" => Versioned!VersionsKept /\ Versioned!ListedReadable
             /\ scene = "folder" => Folder!SavedKept /\ Folder!ReadRegular /\ Folder!ListsAll
             /\ scene = "bucket" => Bucket!SavedKept /\ Bucket!ReadRegular /\ Bucket!ListsAll
=============================================================================
