----------------------------- MODULE JsonStore -----------------------------
(***************************************************************************)
(* JsonDB on one collection directory (db/jsondb.py, db/_atomic.py): one   *)
(* file per record, written as tmp + fsync + rename + fsync(dir) under a   *)
(* per-path lock of the writing process, read without a lock, with a sweep *)
(* of orphaned tmp files on the first use by each JsonDB.                  *)
(*                                                                         *)
(* Several JsonDB objects may use the directory, in one process or in      *)
(* several; each has its own worker threads and path locks, and the locks  *)
(* act as KeyMutex does (see PathLocks).  A process can be killed, and the *)
(* machine can lose power: rename and unlink reach                         *)
(* the disk for certain only with the next fsync of the directory.  The    *)
(* serverless mode, which skips the sweep and the directory fsync on       *)
(* tmpfs, is left out.                                                     *)
(***************************************************************************)
EXTENDS Naturals, FiniteSets, TLAPS

CONSTANTS Stores,               \* JsonDB objects on the directory
          Writers, Readers,
          StoreOf,             \* thread -> its JsonDB
          Keys, Vals,          \* records and their contents
          Pids, Hexes,         \* process ids; random parts of tmp names
          PidReuse,            \* may a process get the pid of a dead one?
          Absent, Torn, None

Assumptions ==
    /\ StoreOf \in [Writers \cup Readers -> Stores] /\ Writers \cap Readers = {}
    /\ PidReuse \in BOOLEAN
    /\ Absent \notin Vals /\ Torn \notin Vals \cup {Absent}
    /\ None \notin Keys \cup Hexes \cup Writers \cup Readers \cup Pids

Callers == Writers \cup Readers
Contents == Vals \cup {Absent}

VARIABLES
    disk,       \* record -> what a reader sees now
    revealed,   \* record -> what a power loss now could leave
    tmps,       \* *.jvtmp files: [hex, pid, synced]
    pid,        \* store -> pid of its process, None when not running
    swept,      \* _tmp_sweep_done
    sweeper,    \* holder of _init_lock
    reap,       \* the files a sweep in progress still has to look at
    held,       \* store -> record -> holder of the path lock
    pc, key,
    val,        \* writer -> the contents to save, Absent for a delete
    file,       \* writer -> hex of its tmp file
    todo, found,\* reader -> the files left to load; record -> what it loaded
    \* what callers may rely on, for the properties:
    live, safe, \* record -> contents it may show; may show after a power loss
    alone,      \* writer -> no other write of its record has overlapped
    before,     \* writer -> <<live, safe>> of its record when it started
    window      \* reader -> record -> contents since the read started

disks == <<disk, revealed, tmps>>
procs == <<pid, swept, sweeper, reap>>
calls == <<key, val, file>>
reads == <<todo, found>>
hist == <<live, safe, alone, before>>
vars == <<disks, procs, held, pc, calls, reads, hist, window>>

Up(t) == pid[StoreOf[t]] # None
Mine(t) == {f \in tmps : f.hex = file[t]}

TypeOK ==
    /\ disk \in [Keys -> Contents \cup {Torn}]
    /\ revealed \in [Keys -> SUBSET (Contents \cup {Torn})]
    /\ tmps \in SUBSET [hex : Hexes, pid : Pids, synced : BOOLEAN]
    /\ pid \in [Stores -> Pids \cup {None}]
    /\ swept \in [Stores -> BOOLEAN]
    /\ sweeper \in [Stores -> Callers \cup {None}]
    /\ reap \in [Stores -> SUBSET Hexes]
    /\ held \in [Stores -> [Keys -> Writers \cup {None}]]
    /\ pc \in [Callers -> {"idle", "dir", "sweep", "lock", "check", "unlink", "create",
                           "write", "replace", "fsync", "list", "stat", "open", "done"}]
    /\ key \in [Callers -> Keys \cup {None}]
    /\ val \in [Writers -> Contents]
    /\ file \in [Writers -> Hexes \cup {None}]
    /\ todo \in [Readers -> SUBSET Keys]
    /\ found \in [Readers -> [Keys -> Contents \cup {Torn, None}]]

Init ==
    /\ disk = [k \in Keys |-> Absent]
    /\ revealed = [k \in Keys |-> {Absent}]
    /\ tmps = {}
    /\ pid = [p \in Stores |-> None]
    /\ swept = [p \in Stores |-> FALSE]
    /\ sweeper = [p \in Stores |-> None]
    /\ reap = [p \in Stores |-> {}]
    /\ held = [p \in Stores |-> [k \in Keys |-> None]]
    /\ pc = [t \in Callers |-> "idle"]
    /\ key = [t \in Callers |-> None]
    /\ val = [w \in Writers |-> Absent]
    /\ file = [w \in Writers |-> None]
    /\ todo = [r \in Readers |-> {}]
    /\ found = [r \in Readers |-> [k \in Keys |-> None]]
    /\ live = [k \in Keys |-> {Absent}]
    /\ safe = [k \in Keys |-> {Absent}]
    /\ alone = [w \in Writers |-> FALSE]
    /\ before = [w \in Writers |-> <<{}, {}>>]
    /\ window = [r \in Readers |-> [k \in Keys |-> {}]]

Goto(t, l) == pc' = [pc EXCEPT ![t] = l]
-----------------------------------------------------------------------------
\* Stores and their processes.

\* A JsonDB is created, in a process that runs or in a new one.
Start(p) ==
    /\ pid[p] = None
    /\ \E i \in Pids :
          /\ \/ \E q \in Stores : pid[q] = i
             \/ PidReuse
             \/ \A f \in tmps : f.pid # i
          /\ pid' = [pid EXCEPT ![p] = i]
    /\ UNCHANGED <<disks, swept, sweeper, reap, held, pc, calls, reads, hist, window>>

\* What is lost with the stores of P: memory, threads, locks, their calls.
Die(P) ==
    LET Lost(f, new) == [x \in DOMAIN f |-> IF x \in P THEN new ELSE f[x]]
        Gone(f, new) == [t \in DOMAIN f |-> IF StoreOf[t] \in P THEN new ELSE f[t]]
    IN  /\ pid' = Lost(pid, None)
        /\ swept' = Lost(swept, FALSE)
        /\ sweeper' = Lost(sweeper, None)
        /\ reap' = Lost(reap, {})
        /\ held' = Lost(held, [k \in Keys |-> None])
        /\ pc' = Gone(pc, "idle")
        /\ key' = Gone(key, None)
        /\ val' = Gone(val, Absent)
        /\ file' = Gone(file, None)
        /\ todo' = Gone(todo, {})
        /\ found' = Gone(found, [k \in Keys |-> None])
        /\ alone' = Gone(alone, FALSE)
        /\ before' = Gone(before, <<{}, {}>>)
        /\ window' = Gone(window, [k \in Keys |-> {}])
        /\ UNCHANGED safe

Kill(i) ==
    /\ \E p \in Stores : pid[p] = i
    /\ Die({p \in Stores : pid[p] = i})
    /\ UNCHANGED <<disks, live>>

\* Tmp files may be gone or torn; each record is one of its revealed contents.
PowerLoss ==
    /\ \E p \in Stores : pid[p] # None
    /\ Die(Stores)
    /\ \E kept \in SUBSET tmps : tmps' = {[f EXCEPT !.synced = FALSE] : f \in kept}
    /\ disk' \in {d \in [Keys -> Contents \cup {Torn}] : \A k \in Keys : d[k] \in revealed[k]}
    /\ revealed' = [k \in Keys |-> {disk'[k]}]
    /\ live' = safe
-----------------------------------------------------------------------------
\* The first use of the directory: _get_collection_dir.

\* _tmp_sweep_done, seen with or without the lock: go on with the call.
DirReady(t) ==
    /\ pc[t] = "dir" /\ swept[StoreOf[t]]
    /\ Goto(t, IF t \in Writers THEN "lock" ELSE IF key[t] = None THEN "list" ELSE "stat")
    /\ UNCHANGED <<disks, procs, held, calls, reads, hist, window>>

\* Mutant of SweepBegin: the tmp files of the own pid are not spared.
SweepBeginAll(t) ==
    LET p == StoreOf[t] IN
    /\ pc[t] = "dir" /\ ~swept[p] /\ sweeper[p] = None
    /\ sweeper' = [sweeper EXCEPT ![p] = t]
    /\ reap' = [reap EXCEPT ![p] = {f.hex : f \in tmps}]
    /\ Goto(t, "sweep")
    /\ UNCHANGED <<disks, pid, swept, held, calls, reads, hist, window>>

\* The sweep starts under _init_lock: every tmp file not named after this pid.
SweepBegin(t) ==
    LET p == StoreOf[t] IN
    /\ pc[t] = "dir" /\ ~swept[p] /\ sweeper[p] = None
    /\ sweeper' = [sweeper EXCEPT ![p] = t]
    /\ reap' = [reap EXCEPT ![p] = {f.hex : f \in {g \in tmps : g.pid # pid[p]}}]
    /\ Goto(t, "sweep")
    /\ UNCHANGED <<disks, pid, swept, held, calls, reads, hist, window>>

\* One unlink of the sweep; a file that is gone meanwhile is skipped.
SweepOne(t) ==
    /\ pc[t] = "sweep"
    /\ \E h \in reap[StoreOf[t]] :
          /\ tmps' = {f \in tmps : f.hex # h}
          /\ reap' = [reap EXCEPT ![StoreOf[t]] = @ \ {h}]
    /\ UNCHANGED <<disk, revealed, pid, swept, sweeper, held, pc, calls, reads, hist, window>>

SweepEnd(t) ==
    LET p == StoreOf[t] IN
    /\ pc[t] = "sweep" /\ reap[p] = {}
    /\ swept' = [swept EXCEPT ![p] = TRUE]
    /\ sweeper' = [sweeper EXCEPT ![p] = None]
    /\ Goto(t, "dir")
    /\ UNCHANGED <<disks, pid, reap, held, calls, reads, hist, window>>
-----------------------------------------------------------------------------
\* Writes.

Writing(k) == {w \in Writers : key[w] = k}

\* save(k, v), or delete(k) when v is Absent, reaches a worker thread.
Begin(w, k, v) ==
    /\ pc[w] = "idle" /\ Up(w)
    /\ Goto(w, "dir")
    /\ key' = [key EXCEPT ![w] = k]
    /\ val' = [val EXCEPT ![w] = v]
    /\ before' = [before EXCEPT ![w] = <<live[k], safe[k]>>]
    /\ live' = [live EXCEPT ![k] = @ \cup {v}]
    /\ safe' = [safe EXCEPT ![k] = @ \cup {v}]
    /\ alone' = [u \in Writers |-> IF u = w THEN Writing(k) = {} ELSE alone[u] /\ key[u] # k]
    /\ UNCHANGED <<disks, procs, held, file, reads, window>>

\* The call of w ends and its path lock is free; the caller of an undisturbed
\* write may rely on nl and, after a power loss, on ns.
End(w, nl, ns) ==
    LET k == key[w] IN
    /\ Goto(w, "idle")
    /\ held' = [held EXCEPT ![StoreOf[w]][k] = None]
    /\ key' = [key EXCEPT ![w] = None]
    /\ file' = [file EXCEPT ![w] = None]
    /\ live' = IF alone[w] THEN [live EXCEPT ![k] = nl] ELSE live
    /\ safe' = IF alone[w] THEN [safe EXCEPT ![k] = ns] ELSE safe
    /\ val' = [val EXCEPT ![w] = Absent]
    /\ alone' = [alone EXCEPT ![w] = FALSE]
    /\ before' = [before EXCEPT ![w] = <<{}, {}>>]
    /\ UNCHANGED <<procs, reads>>

\* The call raises: the caller relies on what it relied on before.
Fail(w) == End(w, before[w][1], before[w][2])

\* Mutant of Lock: the path lock is not taken.
LockFree(w) ==
    /\ pc[w] = "lock"
    /\ held' = [held EXCEPT ![StoreOf[w]][key[w]] = w]
    /\ Goto(w, IF val[w] = Absent THEN "check" ELSE "create")
    /\ UNCHANGED <<disks, procs, calls, reads, hist, window>>

\* The path lock of the store.
Lock(w) ==
    /\ pc[w] = "lock"
    /\ held[StoreOf[w]][key[w]] = None
    /\ held' = [held EXCEPT ![StoreOf[w]][key[w]] = w]
    /\ Goto(w, IF val[w] = Absent THEN "check" ELSE "create")
    /\ UNCHANGED <<disks, procs, calls, reads, hist, window>>

\* os.open(O_CREAT | O_EXCL) of a fresh name.
CreateTmp(w) ==
    /\ pc[w] = "create"
    /\ \E h \in Hexes \ {f.hex : f \in tmps} :
          /\ \A u \in Writers : file[u] # h
          /\ \A p \in Stores : h \notin reap[p]
          /\ tmps' = tmps \cup {[hex |-> h, pid |-> pid[StoreOf[w]], synced |-> FALSE]}
          /\ file' = [file EXCEPT ![w] = h]
    /\ Goto(w, "write")
    /\ UNCHANGED <<disk, revealed, procs, held, key, val, reads, hist, window>>

\* Mutant of WriteTmp: the payload is written but not fsynced.
WriteTmpNoSync(w) ==
    /\ pc[w] = "write"
    /\ Goto(w, "replace")
    /\ UNCHANGED <<disks, procs, held, calls, reads, hist, window>>

\* write, flush and fsync of the tmp file (through its descriptor, so it
\* works on a file that was unlinked meanwhile).
WriteTmp(w) ==
    /\ pc[w] = "write"
    /\ tmps' = (tmps \ Mine(w)) \cup {[f EXCEPT !.synced = TRUE] : f \in Mine(w)}
    /\ Goto(w, "replace")
    /\ UNCHANGED <<disk, revealed, procs, held, calls, reads, hist, window>>

\* The write or its fsync raises: the tmp file is removed.
WriteFails(w) ==
    /\ pc[w] = "write"
    /\ tmps' = tmps \ Mine(w)
    /\ Fail(w)
    /\ UNCHANGED <<disk, revealed, window>>

\* The directory entry of k changes to c, not yet for certain on the medium.
Publish(k, c, synced) ==
    /\ disk' = [disk EXCEPT ![k] = c]
    /\ revealed' = [revealed EXCEPT ![k] = @ \cup {IF synced THEN c ELSE Torn}]
    /\ window' = [r \in Readers |-> [window[r] EXCEPT ![k] = @ \cup {c}]]

\* Mutant of Replace: an existing record is unlinked before the rename.
ReplaceInTwo(w) ==
    /\ pc[w] = "replace"
    /\ IF disk[key[w]] = Absent
       THEN /\ \E f \in Mine(w) : Publish(key[w], val[w], f.synced) /\ tmps' = tmps \ {f}
            /\ Goto(w, "fsync")
       ELSE /\ Publish(key[w], Absent, TRUE)
            /\ UNCHANGED <<tmps, pc>>
    /\ UNCHANGED <<procs, held, calls, reads, hist>>

\* os.replace.
Replace(w) ==
    /\ pc[w] = "replace"
    /\ \E f \in Mine(w) : Publish(key[w], val[w], f.synced) /\ tmps' = tmps \ {f}
    /\ Goto(w, "fsync")
    /\ UNCHANGED <<procs, held, calls, reads, hist>>

\* os.replace finds no tmp file: the save raises.
ReplaceFails(w) ==
    /\ pc[w] = "replace" /\ Mine(w) = {}
    /\ Fail(w)
    /\ UNCHANGED <<disks, window>>

\* fsync of the directory, and the save returns.
FsyncDir(w) ==
    /\ pc[w] = "fsync"
    /\ revealed' = [k \in Keys |-> {disk[k]}]
    /\ End(w, {val[w]}, {val[w]})
    /\ UNCHANGED <<disk, tmps, window>>

\* delete: path.exists().
CheckExists(w) ==
    /\ pc[w] = "check" /\ disk[key[w]] # Absent
    /\ Goto(w, "unlink")
    /\ UNCHANGED <<disks, procs, held, calls, reads, hist, window>>

\* delete of a record that is not there.
CheckAbsent(w) ==
    /\ pc[w] = "check" /\ disk[key[w]] = Absent
    /\ End(w, {Absent}, safe[key[w]])
    /\ UNCHANGED <<disks, window>>

\* path.unlink(): no fsync of the directory, so a power loss may undo it.
Unlink(w) ==
    /\ pc[w] = "unlink" /\ disk[key[w]] # Absent
    /\ Publish(key[w], Absent, TRUE)
    /\ End(w, {Absent}, safe[key[w]])
    /\ UNCHANGED tmps

\* Another store unlinked it first: FileNotFoundError.
UnlinkFails(w) ==
    /\ pc[w] = "unlink" /\ disk[key[w]] = Absent
    /\ Fail(w)
    /\ UNCHANGED <<disks, window>>
-----------------------------------------------------------------------------
\* Reads: get of one record, or find / count / find_many over the directory.

\* get(k), or find() when k is None.
BeginRead(r, k) ==
    /\ pc[r] = "idle" /\ Up(r)
    /\ Goto(r, "dir")
    /\ key' = [key EXCEPT ![r] = k]
    /\ todo' = [todo EXCEPT ![r] = IF k = None THEN {} ELSE {k}]
    /\ found' = [found EXCEPT ![r] = [j \in Keys |-> IF k \in {None, j} THEN Absent ELSE None]]
    /\ window' = [window EXCEPT ![r] = [j \in Keys |-> {disk[j]}]]
    /\ UNCHANGED <<disks, procs, held, val, file, hist>>

\* Mutant of ListFiles: a record with a tmp file in the making is left out.
ListFilesQuiet(r) ==
    /\ pc[r] = "list"
    /\ todo' = [todo EXCEPT ![r] = {k \in Keys : /\ disk[k] # Absent
                                              /\ \A w \in Writing(k) : file[w] = None}]
    /\ Goto(r, "stat")
    /\ UNCHANGED <<disks, procs, held, calls, found, hist, window>>

\* glob("*.json"), which does not see *.jvtmp files.
ListFiles(r) ==
    /\ pc[r] = "list"
    /\ todo' = [todo EXCEPT ![r] = {k \in Keys : disk[k] # Absent}]
    /\ Goto(r, "stat")
    /\ UNCHANGED <<disks, procs, held, calls, found, hist, window>>

\* path.exists() for one of the files, in any order.
Stat(r) ==
    /\ pc[r] = "stat"
    /\ \E k \in todo[r] :
          IF disk[k] = Absent
          THEN /\ todo' = [todo EXCEPT ![r] = @ \ {k}]
               /\ UNCHANGED <<pc, key>>
          ELSE /\ Goto(r, "open")
               /\ key' = [key EXCEPT ![r] = k]
               /\ UNCHANGED todo
    /\ UNCHANGED <<disks, procs, held, val, file, found, hist, window>>

\* open and read; a file that is gone loads as None.
Open(r) ==
    /\ pc[r] = "open"
    /\ found' = [found EXCEPT ![r][key[r]] = disk[key[r]]]
    /\ todo' = [todo EXCEPT ![r] = @ \ {key[r]}]
    /\ Goto(r, "stat")
    /\ UNCHANGED <<disks, procs, held, calls, hist, window>>

ReadDone(r) ==
    /\ pc[r] = "stat" /\ todo[r] = {}
    /\ Goto(r, "done")
    /\ UNCHANGED <<disks, procs, held, calls, reads, hist, window>>

\* The caller has its answer; the thread is free.
ReadReturn(r) ==
    /\ pc[r] = "done"
    /\ Goto(r, "idle")
    /\ key' = [key EXCEPT ![r] = None]
    /\ found' = [found EXCEPT ![r] = [j \in Keys |-> None]]
    /\ window' = [window EXCEPT ![r] = [j \in Keys |-> {}]]
    /\ UNCHANGED <<disks, procs, held, val, file, todo, hist>>
-----------------------------------------------------------------------------
Sweep(t) == DirReady(t) \/ SweepBegin(t) \/ SweepOne(t) \/ SweepEnd(t)

Save(w) == CreateTmp(w) \/ WriteTmp(w) \/ WriteFails(w) \/ Replace(w)
              \/ ReplaceFails(w) \/ FsyncDir(w)
Delete(w) == CheckExists(w) \/ CheckAbsent(w) \/ Unlink(w) \/ UnlinkFails(w)
Read(r) == ListFiles(r) \/ Stat(r) \/ Open(r) \/ ReadDone(r) \/ ReadReturn(r)

Next ==
    \/ \E p \in Stores : Start(p)
    \/ \E i \in Pids : Kill(i)
    \/ PowerLoss
    \/ \E t \in Callers : Sweep(t)
    \/ \E w \in Writers : \/ \E k \in Keys, v \in Contents : Begin(w, k, v)
                          \/ Lock(w) \/ Save(w) \/ Delete(w)
    \/ \E r \in Readers : \/ \E k \in Keys \cup {None} : BeginRead(r, k)
                          \/ Read(r)

Spec == Init /\ [][Next]_vars
-----------------------------------------------------------------------------
\* What a record shows is what its callers rely on: once a save or delete
\* that overlapped no other write has returned, its contents; once one has
\* raised, the previous contents; and at most the contents of the calls that
\* overlapped or were killed (db/jsondb.py:5-11).
AckedVisible == \A k \in Keys : disk[k] \in live[k]

\* The same of what any power loss would leave, except that a delete may be
\* undone: never a torn record, never the loss of an acknowledged save
\* (db/_atomic.py:3-7, 87-95).
CrashSafe == \A k \in Keys : revealed[k] \subseteq safe[k]

\* Reads take no lock, yet every record of an answer, present or missing, is
\* as it was at some moment of the read: a find does not lose a record that
\* is being overwritten (db/jsondb.py:23-24).
ReadRegular ==
    \A r \in Readers : pc[r] = "done" =>
       \A k \in Keys : found[r][k] \in window[r][k] \cup {None}

\* The sweep "must complete before any write begins" (db/jsondb.py:86): no
\* save in progress loses its tmp file.
InFlightKept == \A w \in Writers : pc[w] \in {"write", "replace"} => Mine(w) # {}

\* "Reap leftover *.jvtmp files from a prior crashed process"
\* (db/jsondb.py:95): behind the sweep every tmp file is that of a running save.
OrphansReaped ==
    \A p \in Stores : swept[p] =>
       \A f \in tmps : \E w \in Writers : file[w] = f.hex

\* delete tests and unlinks under the path lock: within one JsonDB it never
\* raises because the record is gone.
DeleteSafe == \A w \in Writers : pc[w] = "unlink" => disk[key[w]] # Absent
-----------------------------------------------------------------------------
\* What a record shows, now and after a power loss.
SavesDurable == AckedVisible /\ CrashSafe

OneProcess == \A i, j \in Pids : i = j
OneStore == \A p, q \in Stores : p = q

\* Where each of the three is promised: by the JsonDBs of one process, by one
\* JsonDB, and by one whose process has a pid of its own.
RemovesOnce == /\ OneProcess => InFlightKept
               /\ OneStore => DeleteSafe
               /\ OneStore /\ ~PidReuse => OrphansReaped
-----------------------------------------------------------------------------
(***************************************************************************)
(* Proofs, for any JsonDBs on a directory, in any processes, with any      *)
(* threads, records and contents, through kills and power losses:          *)
(*   - a record shows what its callers rely on, and a power loss reveals   *)
(*     nothing else and no torn record;                                    *)
(*   - a read gives each record as it was at some moment of it;            *)
(*   - in one process the sweep takes no file of a save in progress, and   *)
(*     one JsonDB alone leaves no orphan and deletes what it found.        *)
(***************************************************************************)
WritePlaces == {"idle", "dir", "sweep", "lock", "check", "unlink", "create", "write",
                "replace", "fsync"}
ReadPlaces == {"idle", "dir", "sweep", "list", "stat", "open", "done"}

\* The types of the history variables, and who can be where.
HistoryOK ==
    /\ live \in [Keys -> SUBSET Contents] /\ safe \in [Keys -> SUBSET Contents]
    /\ alone \in [Writers -> BOOLEAN]
    /\ before \in [Writers -> (SUBSET Contents) \X (SUBSET Contents)]
    /\ window \in [Readers -> [Keys -> SUBSET (Contents \cup {Torn})]]

PlaceInv ==
    /\ \A t \in Callers : pc[t] # "idle" => Up(t)
    /\ \A w \in Writers : /\ pc[w] \in WritePlaces
                          /\ pc[w] = "idle" <=> key[w] = None
                          /\ file[w] # None <=> pc[w] \in {"write", "replace", "fsync"}
                          /\ pc[w] \in {"check", "unlink"} => val[w] = Absent
    /\ \A r \in Readers : /\ pc[r] \in ReadPlaces
                          /\ pc[r] = "open" => key[r] \in Keys

Types == TypeOK /\ HistoryOK /\ PlaceInv

\* A write under way may be seen, now and after a power loss; its file is whole
\* before it is renamed.
WriteInv ==
    \A w \in Writers :
       /\ pc[w] # "idle" => val[w] \in live[key[w]] \cap safe[key[w]]
       /\ pc[w] = "replace" => \A f \in Mine(w) : f.synced

\* A write that has been alone on its record until now is so still, and the
\* record is as it was when the write began, or as the write has left it.
AloneInv ==
    \A w \in Writers : alone[w] =>
       /\ pc[w] # "idle"
       /\ \A u \in Writers \ {w} : key[u] # key[w]
       /\ IF pc[w] = "fsync" THEN disk[key[w]] = val[w]
          ELSE /\ disk[key[w]] \in before[w][1]
               /\ revealed[key[w]] \subseteq before[w][2]

RevealInv == \A k \in Keys : disk[k] \in revealed[k]

DurableInv == Types /\ WriteInv /\ AloneInv /\ RevealInv /\ AckedVisible /\ CrashSafe

\* A read under way: what it has loaded, and what it has still to load.
ReadInv(r) ==
    /\ pc[r] # "idle" => \A k \in Keys : disk[k] \in window[r][k]
    /\ pc[r] = "list" \/ (pc[r] \in {"dir", "sweep"} /\ key[r] = None) =>
          \A k \in Keys : found[r][k] = Absent
    /\ pc[r] \in {"dir", "sweep"} /\ key[r] # None =>
          \A k \in Keys : found[r][k] = IF k \in todo[r] THEN Absent ELSE None
    /\ pc[r] \in {"stat", "open", "done"} =>
          \A k \in Keys : IF k \in todo[r] THEN found[r][k] = Absent
                          ELSE found[r][k] \in window[r][k] \cup {None}
    /\ pc[r] = "done" => todo[r] = {}

ReaderInv == Types /\ \A r \in Readers : ReadInv(r)
-----------------------------------------------------------------------------
\* What dies leaves nothing behind it in memory.
LEMMA DieTypes ==
    ASSUME Assumptions, Types, NEW P \in SUBSET Stores, Die(P),
           disk' \in [Keys -> Contents \cup {Torn}],
           revealed' \in [Keys -> SUBSET (Contents \cup {Torn})],
           tmps' \in SUBSET [hex : Hexes, pid : Pids, synced : BOOLEAN],
           live' \in [Keys -> SUBSET Contents]
    PROVE  Types'
<1> USE DEF Types, Assumptions
<1>1. /\ pid' \in [Stores -> Pids \cup {None}] /\ swept' \in [Stores -> BOOLEAN]
      /\ sweeper' \in [Stores -> Callers \cup {None}] /\ reap' \in [Stores -> SUBSET Hexes]
  BY DEF TypeOK, Die
<1>2. held' \in [Stores -> [Keys -> Writers \cup {None}]]
  BY DEF TypeOK, Die
<1>3. /\ pc' = [t \in Callers |-> IF StoreOf[t] \in P THEN "idle" ELSE pc[t]]
      /\ key' = [t \in Callers |-> IF StoreOf[t] \in P THEN None ELSE key[t]]
      /\ val' = [w \in Writers |-> IF StoreOf[w] \in P THEN Absent ELSE val[w]]
      /\ file' = [w \in Writers |-> IF StoreOf[w] \in P THEN None ELSE file[w]]
  BY DEF TypeOK, Die
<1>4. /\ pc' \in [Callers -> {"idle", "dir", "sweep", "lock", "check", "unlink", "create",
                              "write", "replace", "fsync", "list", "stat", "open", "done"}]
      /\ key' \in [Callers -> Keys \cup {None}] /\ val' \in [Writers -> Contents]
      /\ file' \in [Writers -> Hexes \cup {None}]
  BY <1>3 DEF TypeOK, Contents
<1>5. /\ todo' \in [Readers -> SUBSET Keys]
      /\ found' \in [Readers -> [Keys -> Contents \cup {Torn, None}]]
  BY DEF TypeOK, Die
<1>6. TypeOK'
  BY <1>1, <1>2, <1>4, <1>5 DEF TypeOK
<1>7. HistoryOK'
  BY DEF HistoryOK, Die
<1>8. PlaceInv'
  <2>1. \A t \in Callers : pc'[t] # "idle" => pid'[StoreOf[t]] # None
    BY <1>3 DEF Die, PlaceInv, Up, Callers, TypeOK
  <2>2. \A w \in Writers : /\ pc'[w] \in WritePlaces
                           /\ pc'[w] = "idle" <=> key'[w] = None
                           /\ file'[w] # None <=> pc'[w] \in {"write", "replace", "fsync"}
                           /\ pc'[w] \in {"check", "unlink"} => val'[w] = Absent
    BY <1>3 DEF PlaceInv, WritePlaces, Callers
  <2>3. \A r \in Readers : /\ pc'[r] \in ReadPlaces
                           /\ pc'[r] = "open" => key'[r] \in Keys
    BY <1>3 DEF PlaceInv, ReadPlaces, Callers
  <2> QED BY <2>1, <2>2, <2>3 DEF PlaceInv, Up
<1> QED BY <1>6, <1>7, <1>8

\* A power loss leaves files, torn or not, and of each record what it could.
LEMMA LossTypes ==
    ASSUME Types, PowerLoss
    PROVE  /\ disk' \in [Keys -> Contents \cup {Torn}]
           /\ \A k \in Keys : disk'[k] \in revealed[k]
           /\ revealed' = [k \in Keys |-> {disk'[k]}]
           /\ revealed' \in [Keys -> SUBSET (Contents \cup {Torn})]
           /\ tmps' \in SUBSET [hex : Hexes, pid : Pids, synced : BOOLEAN]
           /\ live' = safe
<1>1. disk' \in [Keys -> Contents \cup {Torn}] /\ \A k \in Keys : disk'[k] \in revealed[k]
  BY DEF PowerLoss
<1>2. revealed' = [k \in Keys |-> {disk'[k]}] /\ live' = safe
  BY DEF PowerLoss
<1>3. PICK kept \in SUBSET tmps : tmps' = {[f EXCEPT !.synced = FALSE] : f \in kept}
  BY DEF PowerLoss
<1>4. tmps' \in SUBSET [hex : Hexes, pid : Pids, synced : BOOLEAN]
  <2> DEFINE T == [hex : Hexes, pid : Pids, synced : BOOLEAN]
  <2>1. ASSUME NEW f \in T PROVE [f EXCEPT !.synced = FALSE] \in T
    OBVIOUS
  <2>2. tmps \subseteq T
    BY DEF Types, TypeOK
  <2> QED BY <1>3, <2>1, <2>2
<1> QED BY <1>1, <1>2, <1>4

\* The end of a write.
LEMMA EndTypes ==
    ASSUME Assumptions, Types, NEW w \in Writers, pc[w] # "idle",
           NEW nl \in SUBSET Contents, NEW ns \in SUBSET Contents, End(w, nl, ns),
           disk' \in [Keys -> Contents \cup {Torn}],
           revealed' \in [Keys -> SUBSET (Contents \cup {Torn})],
           tmps' \in SUBSET [hex : Hexes, pid : Pids, synced : BOOLEAN],
           window' \in [Readers -> [Keys -> SUBSET (Contents \cup {Torn})]]
    PROVE  Types'
<1> USE DEF Types, Assumptions
<1>1. key[w] \in Keys /\ w \in Callers /\ StoreOf[w] \in Stores
  BY DEF PlaceInv, TypeOK, Callers
<1>2. /\ UNCHANGED <<pid, swept, sweeper, reap, todo, found>>
      /\ pc' = [pc EXCEPT ![w] = "idle"] /\ key' = [key EXCEPT ![w] = None]
      /\ file' = [file EXCEPT ![w] = None] /\ val' = [val EXCEPT ![w] = Absent]
      /\ held' = [held EXCEPT ![StoreOf[w]][key[w]] = None]
      /\ alone' = [alone EXCEPT ![w] = FALSE] /\ before' = [before EXCEPT ![w] = <<{}, {}>>]
      /\ live' = IF alone[w] THEN [live EXCEPT ![key[w]] = nl] ELSE live
      /\ safe' = IF alone[w] THEN [safe EXCEPT ![key[w]] = ns] ELSE safe
  BY DEF End, Goto, procs, reads
<1>3. TypeOK'
  BY <1>1, <1>2 DEF TypeOK, Contents
<1>4. HistoryOK'
  BY <1>1, <1>2 DEF HistoryOK
<1>5. PlaceInv'
  BY <1>1, <1>2 DEF PlaceInv, Up, WritePlaces, TypeOK, Callers
<1> QED BY <1>3, <1>4, <1>5

\* At first the program is well typed: nothing is open, nothing runs.
LEMMA InitTypes == ASSUME Assumptions, Init PROVE Types
<1> USE DEF Assumptions, Init
<1>1. TypeOK
  BY DEF TypeOK, Contents
<1>2. HistoryOK
  BY DEF HistoryOK, Contents
<1>3. PlaceInv
  BY DEF PlaceInv, WritePlaces, ReadPlaces, Callers
<1> QED BY <1>1, <1>2, <1>3 DEF Types

\* A step of a save or a delete that does not end it.
LEMMA WriteTypes ==
    ASSUME Assumptions, Types, NEW w \in Writers,
           \/ \E k \in Keys, v \in Contents : Begin(w, k, v)
           \/ Lock(w) \/ CreateTmp(w) \/ WriteTmp(w) \/ Replace(w) \/ CheckExists(w)
    PROVE  Types'
<1> USE DEF Types, Assumptions
<1>1. w \in Callers /\ StoreOf[w] \in Stores
  BY DEF Callers
<1>2. ASSUME NEW k \in Keys, NEW v \in Contents, Begin(w, k, v) PROVE Types'
  <2>4. /\ pc' = [pc EXCEPT ![w] = "dir"] /\ key' = [key EXCEPT ![w] = k]
        /\ val' = [val EXCEPT ![w] = v]
        /\ UNCHANGED <<disk, revealed, tmps, pid, swept, sweeper, reap, held, file, todo, found>>
    BY <1>2 DEF Begin, Goto, disks, procs, reads
  <2>1. TypeOK'
    BY <1>1, <2>4 DEF TypeOK
  <2>2. HistoryOK'
    BY <1>1, <1>2 DEF Begin, HistoryOK
  <2>3. PlaceInv'
    BY <1>1, <1>2 DEF Begin, Goto, PlaceInv, Up, WritePlaces, TypeOK, Callers, procs
  <2> QED BY <2>1, <2>2, <2>3
<1>3. ASSUME Lock(w) PROVE Types'
  <2>1. key[w] \in Keys
    BY <1>1, <1>3 DEF Lock, PlaceInv, TypeOK
  <2>2. TypeOK'
    BY <1>1, <1>3, <2>1 DEF Lock, Goto, TypeOK, disks, procs, calls, reads
  <2>3. HistoryOK'
    BY <1>3 DEF Lock, HistoryOK, hist
  <2>4. PlaceInv'
    BY <1>1, <1>3 DEF Lock, Goto, PlaceInv, Up, WritePlaces, TypeOK, Callers, procs, calls
  <2> QED BY <2>2, <2>3, <2>4
<1>4. ASSUME CreateTmp(w) PROVE Types'
  <2>1. pid[StoreOf[w]] \in Pids
    BY <1>1, <1>4 DEF CreateTmp, PlaceInv, Up, TypeOK
  <2>5. PICK h \in Hexes :
              /\ tmps' = tmps \cup {[hex |-> h, pid |-> pid[StoreOf[w]], synced |-> FALSE]}
              /\ file' = [file EXCEPT ![w] = h]
    BY <1>4 DEF CreateTmp
  <2>6. /\ UNCHANGED <<disk, revealed, pid, swept, sweeper, reap, held, key, val, todo, found>>
        /\ pc' = [pc EXCEPT ![w] = "write"]
    BY <1>4 DEF CreateTmp, Goto, procs, reads
  <2>7. tmps' \in SUBSET [hex : Hexes, pid : Pids, synced : BOOLEAN]
    <3> DEFINE T == [hex : Hexes, pid : Pids, synced : BOOLEAN]
    <3>1. [hex |-> h, pid |-> pid[StoreOf[w]], synced |-> FALSE] \in T
      BY <2>1
    <3>2. tmps \subseteq T
      BY DEF TypeOK
    <3> HIDE DEF T
    <3> QED BY <2>5, <3>1, <3>2 DEF T
  <2>8. file' \in [Writers -> Hexes \cup {None}]
    BY <2>5 DEF TypeOK
  <2>2. TypeOK'
    BY <1>1, <2>6, <2>7, <2>8 DEF TypeOK
  <2>3. HistoryOK'
    BY <1>4 DEF CreateTmp, HistoryOK, hist
  <2>4. PlaceInv'
    BY <1>1, <1>4 DEF CreateTmp, Goto, PlaceInv, Up, WritePlaces, TypeOK, Callers, procs
  <2> QED BY <2>2, <2>3, <2>4
<1>5. ASSUME WriteTmp(w) PROVE Types'
  <2> DEFINE T == [hex : Hexes, pid : Pids, synced : BOOLEAN]
  <2>1. tmps' \in SUBSET T
    <3>1. ASSUME NEW f \in T PROVE [f EXCEPT !.synced = TRUE] \in T
      OBVIOUS
    <3>2. tmps \subseteq T /\ Mine(w) \subseteq T
      BY DEF TypeOK, Mine
    <3> QED BY <1>5, <3>1, <3>2 DEF WriteTmp
  <2>2. TypeOK'
    BY <1>1, <1>5, <2>1 DEF WriteTmp, Goto, TypeOK, procs, calls, reads
  <2>3. HistoryOK'
    BY <1>5 DEF WriteTmp, HistoryOK, hist
  <2>4. PlaceInv'
    BY <1>1, <1>5 DEF WriteTmp, Goto, PlaceInv, Up, WritePlaces, TypeOK, Callers, procs, calls
  <2> QED BY <2>2, <2>3, <2>4
<1>6. ASSUME Replace(w) PROVE Types'
  <2>1. key[w] \in Keys /\ val[w] \in Contents
    BY <1>1, <1>6 DEF Replace, PlaceInv, TypeOK
  <2>2. PICK f \in Mine(w) : Publish(key[w], val[w], f.synced) /\ tmps' = tmps \ {f}
    BY <1>6 DEF Replace
  <2>3. TypeOK'
    BY <1>1, <1>6, <2>1, <2>2 DEF Replace, Publish, Goto, TypeOK, procs, calls, reads
  <2>4. HistoryOK'
    BY <1>6, <2>1, <2>2 DEF Replace, Publish, HistoryOK, hist
  <2>5. PlaceInv'
    BY <1>1, <1>6 DEF Replace, Goto, PlaceInv, Up, WritePlaces, TypeOK, Callers, procs, calls
  <2> QED BY <2>3, <2>4, <2>5
<1>7. ASSUME CheckExists(w) PROVE Types'
  <2>1. TypeOK'
    BY <1>1, <1>7 DEF CheckExists, Goto, TypeOK, disks, procs, calls, reads
  <2>2. HistoryOK'
    BY <1>7 DEF CheckExists, HistoryOK, hist
  <2>3. PlaceInv'
    BY <1>1, <1>7 DEF CheckExists, Goto, PlaceInv, Up, WritePlaces, TypeOK, Callers, procs, calls
  <2> QED BY <2>1, <2>2, <2>3
<1> QED BY <1>2, <1>3, <1>4, <1>5, <1>6, <1>7

\* A step of a store or of a sweep.
LEMMA SweepTypes ==
    ASSUME Assumptions, Types,
           \/ \E p \in Stores : Start(p)
           \/ \E t \in Callers : Sweep(t)
    PROVE  Types'
<1> USE DEF Types, Assumptions
<1>1. ASSUME NEW p \in Stores, Start(p) PROVE Types'
  <2>1. TypeOK'
    BY <1>1 DEF Start, TypeOK, disks, calls, reads
  <2>2. HistoryOK'
    BY <1>1 DEF Start, HistoryOK, hist
  <2>3. PlaceInv'
    BY <1>1 DEF Start, PlaceInv, Up, TypeOK, Callers, calls
  <2> QED BY <2>1, <2>2, <2>3
<1>2. ASSUME NEW t \in Callers, DirReady(t) PROVE Types'
  <2>1. TypeOK'
    BY <1>2 DEF DirReady, Goto, TypeOK, disks, procs, calls, reads
  <2>2. HistoryOK'
    BY <1>2 DEF DirReady, HistoryOK, hist
  <2>3. PlaceInv'
    BY <1>2 DEF DirReady, Goto, PlaceInv, Up, WritePlaces, ReadPlaces, TypeOK, Callers, procs, calls
  <2> QED BY <2>1, <2>2, <2>3
<1>3. ASSUME NEW t \in Callers, SweepBegin(t) PROVE Types'
  <2>1. StoreOf[t] \in Stores
    BY DEF Callers
  <2>2. {f.hex : f \in {g \in tmps : g.pid # pid[StoreOf[t]]}} \subseteq Hexes
    BY DEF TypeOK
  <2>3. TypeOK'
    BY <1>3, <2>1, <2>2 DEF SweepBegin, Goto, TypeOK, disks, calls, reads
  <2>4. HistoryOK'
    BY <1>3 DEF SweepBegin, HistoryOK, hist
  <2>5. PlaceInv'
    BY <1>3 DEF SweepBegin, Goto, PlaceInv, Up, WritePlaces, ReadPlaces, TypeOK, Callers, calls
  <2> QED BY <2>3, <2>4, <2>5
<1>4. ASSUME NEW t \in Callers, SweepOne(t) PROVE Types'
  <2>1. TypeOK'
    BY <1>4 DEF SweepOne, TypeOK, Callers, calls, reads
  <2>2. HistoryOK'
    BY <1>4 DEF SweepOne, HistoryOK, hist
  <2>3. PlaceInv'
    BY <1>4 DEF SweepOne, PlaceInv, Up, Callers, calls
  <2> QED BY <2>1, <2>2, <2>3
<1>5. ASSUME NEW t \in Callers, SweepEnd(t) PROVE Types'
  <2>1. StoreOf[t] \in Stores
    BY DEF Callers
  <2>2. TypeOK'
    BY <1>5, <2>1 DEF SweepEnd, Goto, TypeOK, disks, calls, reads
  <2>3. HistoryOK'
    BY <1>5 DEF SweepEnd, HistoryOK, hist
  <2>4. PlaceInv'
    BY <1>5 DEF SweepEnd, Goto, PlaceInv, Up, WritePlaces, ReadPlaces, TypeOK, Callers, calls
  <2> QED BY <2>2, <2>3, <2>4
<1> QED BY <1>1, <1>2, <1>3, <1>4, <1>5 DEF Sweep

\* A step of a read.
LEMMA ReadTypes ==
    ASSUME Assumptions, Types, NEW r \in Readers,
           \/ \E k \in Keys \cup {None} : BeginRead(r, k)
           \/ Read(r)
    PROVE  Types'
<1> USE DEF Types, Assumptions
<1>1. r \in Callers /\ r \notin Writers
  BY DEF Callers
<1>2. ASSUME NEW k \in Keys \cup {None}, BeginRead(r, k) PROVE Types'
  <2>1. TypeOK'
    BY <1>1, <1>2 DEF BeginRead, Goto, TypeOK, Contents, disks, procs
  <2>2. HistoryOK'
    BY <1>1, <1>2 DEF BeginRead, HistoryOK, TypeOK, hist
  <2>3. PlaceInv'
    BY <1>1, <1>2 DEF BeginRead, Goto, PlaceInv, Up, WritePlaces, ReadPlaces, TypeOK, Callers, procs
  <2> QED BY <2>1, <2>2, <2>3
<1>3. ASSUME ListFiles(r) PROVE Types'
  <2>1. TypeOK'
    BY <1>1, <1>3 DEF ListFiles, Goto, TypeOK, disks, procs, calls
  <2>2. HistoryOK'
    BY <1>3 DEF ListFiles, HistoryOK, hist
  <2>3. PlaceInv'
    BY <1>1, <1>3 DEF ListFiles, Goto, PlaceInv, Up, WritePlaces, ReadPlaces, TypeOK, Callers, procs, calls
  <2> QED BY <2>1, <2>2, <2>3
<1>4. ASSUME Stat(r) PROVE Types'
  <2>1. PICK k \in todo[r] :
             IF disk[k] = Absent
             THEN todo' = [todo EXCEPT ![r] = @ \ {k}] /\ UNCHANGED <<pc, key>>
             ELSE Goto(r, "open") /\ key' = [key EXCEPT ![r] = k] /\ UNCHANGED todo
    BY <1>4 DEF Stat
  <2>2. k \in Keys
    BY <2>1 DEF TypeOK
  <2>3. UNCHANGED <<disk, revealed, tmps, pid, swept, sweeper, reap, held, val, file, found>>
    BY <1>4 DEF Stat, disks, procs
  <2>4. HistoryOK'
    BY <1>4 DEF Stat, HistoryOK, hist
  <2>5. CASE disk[k] = Absent
    <3>1. todo' = [todo EXCEPT ![r] = @ \ {k}] /\ UNCHANGED <<pc, key>>
      BY <2>1, <2>5
    <3>2. TypeOK'
      BY <1>1, <2>2, <2>3, <3>1 DEF TypeOK
    <3>3. PlaceInv'
      BY <2>3, <3>1 DEF PlaceInv, Up
    <3> QED BY <2>4, <3>2, <3>3
  <2>6. CASE disk[k] # Absent
    <3>1. /\ pc' = [pc EXCEPT ![r] = "open"] /\ key' = [key EXCEPT ![r] = k]
          /\ UNCHANGED todo
      BY <2>1, <2>6 DEF Goto
    <3>2. TypeOK'
      BY <1>1, <2>2, <2>3, <3>1 DEF TypeOK
    <3>3. PlaceInv'
      BY <1>1, <1>4, <2>2, <2>3, <3>1
      DEF Stat, PlaceInv, Up, WritePlaces, ReadPlaces, TypeOK, Callers
    <3> QED BY <2>4, <3>2, <3>3
  <2> QED BY <2>5, <2>6
<1>5. ASSUME Open(r) PROVE Types'
  <2>1. key[r] \in Keys
    BY <1>5 DEF Open, PlaceInv
  <2>2. TypeOK'
    BY <1>1, <1>5, <2>1 DEF Open, Goto, TypeOK, disks, procs, calls
  <2>3. HistoryOK'
    BY <1>5 DEF Open, HistoryOK, hist
  <2>4. PlaceInv'
    BY <1>1, <1>5 DEF Open, Goto, PlaceInv, Up, WritePlaces, ReadPlaces, TypeOK, Callers, procs, calls
  <2> QED BY <2>2, <2>3, <2>4
<1>6. ASSUME ReadDone(r) PROVE Types'
  <2>1. TypeOK'
    BY <1>1, <1>6 DEF ReadDone, Goto, TypeOK, disks, procs, calls, reads
  <2>2. HistoryOK'
    BY <1>6 DEF ReadDone, HistoryOK, hist
  <2>3. PlaceInv'
    BY <1>1, <1>6 DEF ReadDone, Goto, PlaceInv, Up, WritePlaces, ReadPlaces, TypeOK, Callers, procs, calls
  <2> QED BY <2>1, <2>2, <2>3
<1>7. ASSUME ReadReturn(r) PROVE Types'
  <2>1. TypeOK'
    BY <1>1, <1>7 DEF ReadReturn, Goto, TypeOK, Contents, disks, procs
  <2>2. HistoryOK'
    BY <1>1, <1>7 DEF ReadReturn, HistoryOK, hist
  <2>3. PlaceInv'
    BY <1>1, <1>7 DEF ReadReturn, Goto, PlaceInv, Up, WritePlaces, ReadPlaces, TypeOK, Callers, procs
  <2> QED BY <2>1, <2>2, <2>3
<1> QED BY <1>2, <1>3, <1>4, <1>5, <1>6, <1>7 DEF Read

\* Every step keeps the types and the places of the calls.
LEMMA TypesStep == ASSUME Assumptions, Types, [Next]_vars PROVE Types'
<1>1. ASSUME NEW i \in Pids, Kill(i) PROVE Types'
  <2>1. Die({p \in Stores : pid[p] = i}) /\ UNCHANGED <<disk, revealed, tmps, live>>
    BY <1>1 DEF Kill, disks
  <2> QED BY <2>1, DieTypes DEF Types, TypeOK, HistoryOK
<1>2. ASSUME PowerLoss PROVE Types'
  <2>1. Die(Stores)
    BY <1>2 DEF PowerLoss
  <2> QED BY <1>2, <2>1, LossTypes, DieTypes DEF Types, HistoryOK
<1>3. ASSUME NEW w \in Writers, NEW k \in Keys, NEW v \in Contents, Begin(w, k, v) PROVE Types'
  BY <1>3, WriteTypes
<1>4. ASSUME NEW w \in Writers, Lock(w) PROVE Types'
  BY <1>4, WriteTypes
<1>5. ASSUME NEW w \in Writers, Save(w) PROVE Types'
  <2>1. CASE CreateTmp(w) \/ WriteTmp(w) \/ Replace(w)
    BY <2>1, WriteTypes
  <2>2. CASE WriteFails(w)
    <3>1. /\ pc[w] # "idle" /\ End(w, before[w][1], before[w][2]) /\ tmps' = tmps \ Mine(w)
          /\ UNCHANGED <<disk, revealed, window>>
      BY <2>2 DEF WriteFails, Fail
    <3>2. before[w][1] \in SUBSET Contents /\ before[w][2] \in SUBSET Contents
      BY DEF Types, HistoryOK
    <3> QED BY <3>1, <3>2, EndTypes DEF Types, TypeOK, HistoryOK
  <2>3. CASE ReplaceFails(w)
    <3>1. /\ pc[w] # "idle" /\ End(w, before[w][1], before[w][2])
          /\ UNCHANGED <<disk, revealed, tmps, window>>
      BY <2>3 DEF ReplaceFails, Fail, disks
    <3>2. before[w][1] \in SUBSET Contents /\ before[w][2] \in SUBSET Contents
      BY DEF Types, HistoryOK
    <3> QED BY <3>1, <3>2, EndTypes DEF Types, TypeOK, HistoryOK
  <2>4. CASE FsyncDir(w)
    <3>1. /\ pc[w] # "idle" /\ End(w, {val[w]}, {val[w]})
          /\ revealed' = [k \in Keys |-> {disk[k]}] /\ UNCHANGED <<disk, tmps, window>>
      BY <2>4 DEF FsyncDir
    <3>2. {val[w]} \in SUBSET Contents
      BY DEF Types, TypeOK
    <3>3. revealed' \in [Keys -> SUBSET (Contents \cup {Torn})]
      BY <3>1 DEF Types, TypeOK
    <3> QED BY <3>1, <3>2, <3>3, EndTypes DEF Types, TypeOK, HistoryOK
  <2> QED BY <1>5, <2>1, <2>2, <2>3, <2>4 DEF Save
<1>6. ASSUME NEW w \in Writers, Delete(w) PROVE Types'
  <2>1. CASE CheckExists(w)
    BY <2>1, WriteTypes
  <2> DEFINE k == key[w]
  <2>2. {Absent} \in SUBSET Contents
    BY DEF Contents
  <2>3. ASSUME pc[w] # "idle" PROVE k \in Keys /\ safe[k] \in SUBSET Contents
    BY <2>3 DEF Types, TypeOK, PlaceInv, HistoryOK, Callers
  <2>4. CASE CheckAbsent(w)
    <3>1. /\ pc[w] # "idle" /\ End(w, {Absent}, safe[k])
          /\ UNCHANGED <<disk, revealed, tmps, window>>
      BY <2>4 DEF CheckAbsent, disks
    <3> QED BY <2>2, <2>3, <3>1, EndTypes DEF Types, TypeOK, HistoryOK
  <2>5. CASE Unlink(w)
    <3>1. /\ pc[w] # "idle" /\ End(w, {Absent}, safe[k])
          /\ Publish(k, Absent, TRUE) /\ UNCHANGED tmps
      BY <2>5 DEF Unlink
    <3>2. /\ disk' \in [Keys -> Contents \cup {Torn}]
          /\ revealed' \in [Keys -> SUBSET (Contents \cup {Torn})]
      BY <2>2, <3>1 DEF Publish, Types, TypeOK
    <3>3. window' \in [Readers -> [Keys -> SUBSET (Contents \cup {Torn})]]
      <4>1. /\ window' = [r \in Readers |-> [window[r] EXCEPT ![k] = @ \cup {Absent}]]
            /\ window \in [Readers -> [Keys -> SUBSET (Contents \cup {Torn})]]
        BY <3>1 DEF Publish, Types, HistoryOK
      <4> QED BY <2>2, <4>1
    <3> QED BY <2>2, <2>3, <3>1, <3>2, <3>3, EndTypes DEF Types, TypeOK
  <2>6. CASE UnlinkFails(w)
    <3>1. /\ pc[w] # "idle" /\ End(w, before[w][1], before[w][2])
          /\ UNCHANGED <<disk, revealed, tmps, window>>
      BY <2>6 DEF UnlinkFails, Fail, disks
    <3>2. before[w][1] \in SUBSET Contents /\ before[w][2] \in SUBSET Contents
      BY DEF Types, HistoryOK
    <3> QED BY <3>1, <3>2, EndTypes DEF Types, TypeOK, HistoryOK
  <2> QED BY <1>6, <2>1, <2>4, <2>5, <2>6 DEF Delete
<1>7. ASSUME UNCHANGED vars PROVE Types'
  <2>1. /\ UNCHANGED <<disk, revealed, tmps, pid, swept, sweeper, reap>>
        /\ UNCHANGED <<held, pc, key, val, file, todo, found, live, safe, alone, before, window>>
    BY <1>7 DEF vars, disks, procs, calls, reads, hist
  <2>2. TypeOK' /\ HistoryOK'
    BY <2>1 DEF Types, TypeOK, HistoryOK
  <2>3. PlaceInv'
    BY <2>1 DEF Types, PlaceInv, Up
  <2> QED BY <2>2, <2>3 DEF Types
<1>8. ASSUME NEW r \in Readers, NEW k \in Keys \cup {None}, BeginRead(r, k) PROVE Types'
  BY <1>8, ReadTypes
<1>9. ASSUME NEW r \in Readers, Read(r) PROVE Types'
  BY <1>9, ReadTypes
<1>10. ASSUME (\E p \in Stores : Start(p)) \/ (\E t \in Callers : Sweep(t)) PROVE Types'
  BY <1>10, SweepTypes
<1> QED BY <1>1, <1>2, <1>3, <1>4, <1>5, <1>6, <1>7, <1>8, <1>9, <1>10 DEF Next
-----------------------------------------------------------------------------
\* A step that writes no record, and begins and ends no write.
LEMMA QuietStep ==
    ASSUME DurableInv, Types', UNCHANGED <<disk, revealed, live, safe, alone, before>>,
           \A w \in Writers : /\ val'[w] = val[w] /\ key'[w] = key[w]
                              /\ pc'[w] = "idle" <=> pc[w] = "idle"
                              /\ pc'[w] = "fsync" <=> pc[w] = "fsync"
                              /\ pc'[w] = "replace" => \A f \in Mine(w)' : f.synced
    PROVE  DurableInv'
<1>1. WriteInv'
  BY DEF DurableInv, WriteInv
<1>2. AloneInv'
  BY DEF DurableInv, AloneInv
<1>3. (RevealInv /\ AckedVisible /\ CrashSafe)'
  BY DEF DurableInv, RevealInv, AckedVisible, CrashSafe
<1> QED BY <1>1, <1>2, <1>3 DEF DurableInv

\* A write ends: the record shows, and a power loss would leave, what its caller
\* may rely on from now on.
LEMMA EndStep ==
    ASSUME Assumptions, DurableInv, Types',
           NEW w \in Writers, pc[w] # "idle", NEW nl, NEW ns, End(w, nl, ns),
           tmps' \subseteq tmps,
           \A j \in Keys \ {key[w]} : disk'[j] = disk[j] /\ revealed'[j] \subseteq revealed[j],
           \A j \in Keys : disk'[j] \in revealed'[j],
           disk'[key[w]] \in live[key[w]], revealed'[key[w]] \subseteq safe[key[w]],
           alone[w] => disk'[key[w]] \in nl /\ revealed'[key[w]] \subseteq ns
    PROVE  DurableInv'
<1> DEFINE k == key[w]
<1>1. k \in Keys /\ w \in Callers /\ None \notin Keys
  BY DEF DurableInv, Types, PlaceInv, TypeOK, Callers, Assumptions
<1>2. /\ pc' = [pc EXCEPT ![w] = "idle"] /\ key' = [key EXCEPT ![w] = None]
      /\ file' = [file EXCEPT ![w] = None] /\ val' = [val EXCEPT ![w] = Absent]
      /\ alone' = [alone EXCEPT ![w] = FALSE] /\ before' = [before EXCEPT ![w] = <<{}, {}>>]
      /\ live' = IF alone[w] THEN [live EXCEPT ![k] = nl] ELSE live
      /\ safe' = IF alone[w] THEN [safe EXCEPT ![k] = ns] ELSE safe
  BY DEF End, Goto
<1>3. /\ pc'[w] = "idle" /\ ~alone'[w] /\ key'[w] = None
      /\ \A u \in Writers \ {w} :
            /\ pc'[u] = pc[u] /\ key'[u] = key[u] /\ file'[u] = file[u]
            /\ val'[u] = val[u] /\ alone'[u] = alone[u] /\ before'[u] = before[u]
      /\ \A j \in Keys \ {k} : live'[j] = live[j] /\ safe'[j] = safe[j]
      /\ ~alone[w] => live' = live /\ safe' = safe
      /\ alone[w] => live'[k] = nl /\ safe'[k] = ns
  BY <1>1, <1>2 DEF DurableInv, Types, TypeOK, HistoryOK, Callers
<1>4. WriteInv'
  <2> SUFFICES ASSUME NEW u \in Writers \ {w}, pc[u] # "idle"
               PROVE  /\ val[u] \in live'[key[u]] \cap safe'[key[u]]
                      /\ pc[u] = "replace" => \A f \in Mine(u)' : f.synced
    BY <1>3 DEF WriteInv
  <2>1. val[u] \in live[key[u]] \cap safe[key[u]] /\ key[u] \in Keys
    BY DEF DurableInv, WriteInv, Types, PlaceInv, TypeOK, Callers
  <2>2. alone[w] => key[u] # k
    BY DEF DurableInv, AloneInv
  <2>3. Mine(u)' \subseteq Mine(u)
    BY <1>3 DEF Mine
  <2>4. pc[u] = "replace" => \A f \in Mine(u)' : f.synced
    BY <2>3 DEF DurableInv, WriteInv
  <2> QED BY <1>3, <2>1, <2>2, <2>4
<1>5. AloneInv'
  <2> SUFFICES ASSUME NEW u \in Writers \ {w}, alone[u]
               PROVE  /\ pc[u] # "idle"
                      /\ \A x \in Writers \ {u} : key'[x] # key[u]
                      /\ IF pc[u] = "fsync" THEN disk'[key[u]] = val[u]
                         ELSE /\ disk'[key[u]] \in before[u][1]
                              /\ revealed'[key[u]] \subseteq before[u][2]
    BY <1>3 DEF AloneInv
  <2>1. /\ pc[u] # "idle"
        /\ \A x \in Writers \ {u} : key[x] # key[u]
        /\ IF pc[u] = "fsync" THEN disk[key[u]] = val[u]
           ELSE /\ disk[key[u]] \in before[u][1]
                /\ revealed[key[u]] \subseteq before[u][2]
    BY DEF DurableInv, AloneInv
  <2>2. key[u] \in Keys \ {k}
    BY <2>1 DEF DurableInv, Types, PlaceInv, TypeOK, Callers
  <2>3. disk'[key[u]] = disk[key[u]] /\ revealed'[key[u]] \subseteq revealed[key[u]]
    BY <2>2
  <2>4. \A x \in Writers \ {u} : key'[x] # key[u]
    BY <1>1, <1>3, <2>1, <2>2
  <2> QED BY <2>1, <2>3, <2>4
<1>6. RevealInv'
  BY DEF RevealInv
<1>7. AckedVisible'
  BY <1>1, <1>3 DEF DurableInv, AckedVisible
<1>8. CrashSafe'
  BY <1>1, <1>3 DEF DurableInv, CrashSafe
<1> QED BY <1>4, <1>5, <1>6, <1>7, <1>8 DEF DurableInv

\* A call begins: nobody relies on its content yet.
LEMMA BeginStep ==
    ASSUME Assumptions, DurableInv, Types', NEW w \in Writers, NEW k \in Keys,
           NEW v \in Contents, Begin(w, k, v)
    PROVE  DurableInv'
<1>1. /\ w \in Callers /\ pc[w] = "idle" /\ None \notin Keys
      /\ pc' = [pc EXCEPT ![w] = "dir"] /\ key' = [key EXCEPT ![w] = k]
      /\ val' = [val EXCEPT ![w] = v] /\ before' = [before EXCEPT ![w] = <<live[k], safe[k]>>]
      /\ live' = [live EXCEPT ![k] = @ \cup {v}] /\ safe' = [safe EXCEPT ![k] = @ \cup {v}]
      /\ alone' = [u \in Writers |-> IF u = w THEN Writing(k) = {} ELSE alone[u] /\ key[u] # k]
      /\ UNCHANGED <<disk, revealed, tmps, file>>
  BY DEF Begin, Goto, disks, Assumptions, Callers
<1>2. /\ pc'[w] = "dir" /\ key'[w] = k /\ val'[w] = v /\ before'[w] = <<live[k], safe[k]>>
      /\ \A u \in Writers \ {w} : /\ pc'[u] = pc[u] /\ key'[u] = key[u]
                                  /\ val'[u] = val[u] /\ before'[u] = before[u]
      /\ \A j \in Keys : live[j] \subseteq live'[j] /\ safe[j] \subseteq safe'[j]
      /\ v \in live'[k] \cap safe'[k]
  BY <1>1 DEF DurableInv, Types, TypeOK, HistoryOK, Callers
<1>3. WriteInv'
  <2> SUFFICES ASSUME NEW u \in Writers \ {w}
               PROVE  /\ pc[u] # "idle" => val[u] \in live'[key[u]] \cap safe'[key[u]]
                      /\ pc[u] = "replace" => \A f \in Mine(u)' : f.synced
    BY <1>2 DEF WriteInv
  <2>1. pc[u] # "idle" => val[u] \in live[key[u]] \cap safe[key[u]] /\ key[u] \in Keys
    BY DEF DurableInv, WriteInv, Types, PlaceInv, TypeOK, Callers
  <2>2. Mine(u)' = Mine(u)
    BY <1>1 DEF Mine
  <2>3. pc[u] = "replace" => \A f \in Mine(u) : f.synced
    BY DEF DurableInv, WriteInv
  <2> QED BY <1>2, <2>1, <2>2, <2>3
<1>4. AloneInv'
  <2>1. ASSUME alone'[w]
        PROVE  /\ \A u \in Writers \ {w} : key'[u] # k
               /\ disk[k] \in before'[w][1] /\ revealed[k] \subseteq before'[w][2]
    <3>1. \A u \in Writers \ {w} : key[u] # k
      BY <1>1, <2>1 DEF Writing
    <3>2. disk[k] \in live[k] /\ revealed[k] \subseteq safe[k]
      BY DEF DurableInv, AckedVisible, CrashSafe
    <3> QED BY <1>2, <3>1, <3>2
  <2>2. ASSUME NEW u \in Writers \ {w}, alone'[u]
        PROVE  /\ pc[u] # "idle"
               /\ \A x \in Writers \ {u} : key'[x] # key[u]
               /\ IF pc[u] = "fsync" THEN disk[key[u]] = val[u]
                  ELSE /\ disk[key[u]] \in before[u][1]
                       /\ revealed[key[u]] \subseteq before[u][2]
    <3>1. alone[u] /\ key[u] # k
      BY <1>1, <2>2
    <3>2. \A x \in Writers \ {u} : key'[x] # key[u]
      BY <1>2, <3>1 DEF DurableInv, AloneInv
    <3> QED BY <3>1, <3>2 DEF DurableInv, AloneInv
  <2> QED BY <1>1, <1>2, <2>1, <2>2 DEF AloneInv
<1>5. (RevealInv /\ AckedVisible /\ CrashSafe)'
  BY <1>1, <1>2 DEF DurableInv, RevealInv, AckedVisible, CrashSafe
<1> QED BY <1>3, <1>4, <1>5 DEF DurableInv

\* The rename publishes a content that was synced before.
LEMMA ReplaceStep ==
    ASSUME Assumptions, DurableInv, Types', NEW w \in Writers, Replace(w)
    PROVE  DurableInv'
<1> DEFINE k == key[w]
<1>1. /\ w \in Callers /\ pc[w] = "replace" /\ k \in Keys
      /\ val[w] \in live[k] /\ val[w] \in safe[k]
  BY DEF Replace, DurableInv, WriteInv, Types, PlaceInv, TypeOK, Callers
<1>2. PICK f \in Mine(w) : Publish(k, val[w], f.synced) /\ tmps' = tmps \ {f}
  BY DEF Replace
<1>3. f.synced
  BY <1>1 DEF DurableInv, WriteInv
<1>4. /\ disk' = [disk EXCEPT ![k] = val[w]]
      /\ revealed' = [revealed EXCEPT ![k] = @ \cup {val[w]}]
  BY <1>2, <1>3 DEF Publish
<1>5. /\ disk'[k] = val[w] /\ revealed'[k] = revealed[k] \cup {val[w]}
      /\ \A j \in Keys \ {k} : disk'[j] = disk[j] /\ revealed'[j] = revealed[j]
  BY <1>1, <1>4 DEF DurableInv, Types, TypeOK
<1>6. /\ pc'[w] = "fsync" /\ \A u \in Writers \ {w} : pc'[u] = pc[u]
      /\ UNCHANGED <<key, val, file, live, safe, alone, before>>
  BY <1>1 DEF Replace, Goto, calls, hist, DurableInv, Types, TypeOK, Callers
<1>7. WriteInv'
  <2>1. \A u \in Writers : Mine(u)' \subseteq Mine(u)
    BY <1>2, <1>6 DEF Mine
  <2> QED BY <1>1, <1>6, <2>1 DEF DurableInv, WriteInv
<1>8. AloneInv'
  <2> SUFFICES ASSUME NEW u \in Writers \ {w}, alone[u]
               PROVE  /\ pc[u] # "idle"
                      /\ \A x \in Writers \ {u} : key[x] # key[u]
                      /\ IF pc[u] = "fsync" THEN disk'[key[u]] = val[u]
                         ELSE /\ disk'[key[u]] \in before[u][1]
                              /\ revealed'[key[u]] \subseteq before[u][2]
    BY <1>5, <1>6 DEF AloneInv, DurableInv
  <2>1. /\ pc[u] # "idle" /\ \A x \in Writers \ {u} : key[x] # key[u]
        /\ key[u] \in Keys
    BY DEF DurableInv, AloneInv, Types, PlaceInv, TypeOK, Callers
  <2> QED BY <1>5, <2>1 DEF DurableInv, AloneInv
<1>9. (RevealInv /\ AckedVisible /\ CrashSafe)'
  BY <1>1, <1>5, <1>6 DEF DurableInv, RevealInv, AckedVisible, CrashSafe
<1> QED BY <1>7, <1>8, <1>9 DEF DurableInv

\* Some processes are killed, or all stop.
LEMMA DieStep ==
    ASSUME Assumptions, DurableInv, Types', NEW P \in SUBSET Stores, Die(P),
           tmps' \subseteq tmps \/ P = Stores,
           IF P = Stores
           THEN \A k \in Keys : /\ revealed'[k] \subseteq revealed[k]
                                /\ disk'[k] \in revealed'[k]
                                /\ disk'[k] \in live'[k]
           ELSE UNCHANGED <<disk, revealed, live>>
    PROVE  DurableInv'
<1>1. /\ UNCHANGED safe /\ \A w \in Writers : w \in Callers /\ StoreOf[w] \in Stores
      /\ pc' = [t \in Callers |-> IF StoreOf[t] \in P THEN "idle" ELSE pc[t]]
      /\ key' = [t \in Callers |-> IF StoreOf[t] \in P THEN None ELSE key[t]]
      /\ val' = [w \in Writers |-> IF StoreOf[w] \in P THEN Absent ELSE val[w]]
      /\ file' = [w \in Writers |-> IF StoreOf[w] \in P THEN None ELSE file[w]]
      /\ alone' = [w \in Writers |-> IF StoreOf[w] \in P THEN FALSE ELSE alone[w]]
      /\ before' = [w \in Writers |-> IF StoreOf[w] \in P THEN <<{}, {}>> ELSE before[w]]
  BY DEF Die, DurableInv, Types, TypeOK, HistoryOK, Assumptions, Callers
<1>2. \A w \in Writers :
         /\ StoreOf[w] \in P => pc'[w] = "idle" /\ ~alone'[w] /\ key'[w] = None
         /\ StoreOf[w] \notin P =>
               /\ pc'[w] = pc[w] /\ key'[w] = key[w] /\ val'[w] = val[w]
               /\ file'[w] = file[w] /\ alone'[w] = alone[w] /\ before'[w] = before[w]
  BY <1>1
<1>3. (RevealInv /\ AckedVisible /\ CrashSafe)'
  BY <1>1 DEF DurableInv, RevealInv, AckedVisible, CrashSafe
<1>4. CASE P = Stores
  BY <1>1, <1>2, <1>3, <1>4 DEF DurableInv, WriteInv, AloneInv
<1>5. CASE P # Stores
  <2>1. UNCHANGED <<disk, revealed, live>> /\ tmps' \subseteq tmps
    BY <1>5
  <2>2. WriteInv'
    <3> SUFFICES ASSUME NEW u \in Writers, StoreOf[u] \notin P
                 PROVE  /\ pc[u] # "idle" => val[u] \in live[key[u]] \cap safe[key[u]]
                        /\ pc[u] = "replace" => \A f \in Mine(u)' : f.synced
      BY <1>1, <1>2, <2>1 DEF WriteInv
    <3>1. Mine(u)' \subseteq Mine(u)
      BY <1>2, <2>1 DEF Mine
    <3> QED BY <3>1 DEF DurableInv, WriteInv
  <2>3. AloneInv'
    <3> SUFFICES ASSUME NEW u \in Writers, alone'[u]
                 PROVE  /\ pc'[u] # "idle"
                        /\ \A x \in Writers \ {u} : key'[x] # key'[u]
                        /\ IF pc'[u] = "fsync" THEN disk[key'[u]] = val'[u]
                           ELSE /\ disk[key'[u]] \in before'[u][1]
                                /\ revealed[key'[u]] \subseteq before'[u][2]
      BY <2>1 DEF AloneInv
    <3>1. StoreOf[u] \notin P /\ alone[u]
      BY <1>2
    <3>2. pc[u] # "idle" /\ key[u] # None /\ \A x \in Writers \ {u} : key[x] # key[u]
      BY <3>1 DEF DurableInv, AloneInv, Types, PlaceInv
    <3>3. \A x \in Writers \ {u} : key'[x] # key'[u]
      BY <1>2, <3>1, <3>2
    <3> QED BY <1>2, <3>1, <3>2, <3>3 DEF DurableInv, AloneInv
  <2> QED BY <1>3, <2>2, <2>3 DEF DurableInv
<1> QED BY <1>4, <1>5
\* The steps that write, begin or end nothing: stores, sweeps, locks, tmp files.
LEMMA SilentStep ==
    ASSUME Assumptions, DurableInv, Types',
           \/ \E p \in Stores : Start(p)
           \/ \E t \in Callers : Sweep(t)
           \/ \E w \in Writers : Lock(w) \/ CreateTmp(w) \/ WriteTmp(w) \/ CheckExists(w)
           \/ \E r \in Readers : Read(r) \/ \E k \in Keys \cup {None} : BeginRead(r, k)
           \/ UNCHANGED vars
    PROVE  DurableInv'
<1>0. /\ \A w \in Writers : w \in Callers /\ w \notin Readers
      /\ pc \in [Callers -> {"idle", "dir", "sweep", "lock", "check", "unlink", "create",
                             "write", "replace", "fsync", "list", "stat", "open", "done"}]
      /\ key \in [Callers -> Keys \cup {None}]
      /\ file \in [Writers -> Hexes \cup {None}]
      /\ \A w \in Writers : pc[w] = "replace" => \A f \in Mine(w) : f.synced
      /\ \A w \in Writers : pc[w] \in WritePlaces
  BY DEF Callers, Assumptions, DurableInv, Types, TypeOK, WriteInv, PlaceInv
<1>1. CASE \E p \in Stores : Start(p)
  <2>1. UNCHANGED <<disk, revealed, live, safe, alone, before, tmps, val, key, pc, file>>
    BY <1>1 DEF Start, disks, calls, hist
  <2>2. \A w \in Writers : Mine(w)' = Mine(w)
    BY <2>1 DEF Mine
  <2> QED BY <1>0, <2>1, <2>2, QuietStep
<1>2. CASE \E t \in Callers : Sweep(t)
  <2>1. PICK t \in Callers : Sweep(t)
    BY <1>2
  <2>2. UNCHANGED <<disk, revealed, live, safe, alone, before, val, key, file>>
    BY <2>1 DEF Sweep, DirReady, SweepBegin, SweepOne, SweepEnd, disks, calls, hist
  <2>3. tmps' \subseteq tmps
    BY <2>1 DEF Sweep, DirReady, SweepBegin, SweepOne, SweepEnd, disks
  <2>4. \A w \in Writers : Mine(w)' \subseteq Mine(w)
    BY <2>2, <2>3 DEF Mine
  <2>5. \/ pc' = pc
        \/ /\ pc[t] \in {"dir", "sweep"}
           /\ \E l \in {"dir", "sweep", "lock", "list", "stat"} : pc' = [pc EXCEPT ![t] = l]
    BY <2>1 DEF Sweep, DirReady, SweepBegin, SweepOne, SweepEnd, Goto
  <2>6. \A w \in Writers : /\ pc'[w] = "idle" <=> pc[w] = "idle"
                           /\ pc'[w] = "fsync" <=> pc[w] = "fsync"
                           /\ pc'[w] = "replace" => pc[w] = "replace"
    BY <1>0, <2>5
  <2> QED BY <1>0, <2>2, <2>4, <2>6, QuietStep
<1>3. ASSUME NEW w \in Writers, Lock(w) \/ CheckExists(w) PROVE DurableInv'
  <2>1. UNCHANGED <<disk, revealed, live, safe, alone, before, tmps, val, key, file>>
    BY <1>3 DEF Lock, CheckExists, disks, calls, hist
  <2>2. \A u \in Writers : Mine(u)' = Mine(u)
    BY <2>1 DEF Mine
  <2>3. /\ pc[w] \in {"lock", "check"}
        /\ \E l \in {"check", "create", "unlink"} : pc' = [pc EXCEPT ![w] = l]
    BY <1>3 DEF Lock, CheckExists, Goto
  <2>4. \A u \in Writers : /\ pc'[u] = "idle" <=> pc[u] = "idle"
                           /\ pc'[u] = "fsync" <=> pc[u] = "fsync"
                           /\ pc'[u] = "replace" => pc[u] = "replace"
    BY <1>0, <2>3
  <2> QED BY <1>0, <2>1, <2>2, <2>4, QuietStep
<1>4. ASSUME NEW w \in Writers, CreateTmp(w) PROVE DurableInv'
  <2>1. PICK h \in Hexes :
              /\ \A u \in Writers : file[u] # h
              /\ tmps' = tmps \cup {[hex |-> h, pid |-> pid[StoreOf[w]], synced |-> FALSE]}
              /\ file' = [file EXCEPT ![w] = h]
    BY <1>4 DEF CreateTmp
  <2>2. /\ UNCHANGED <<disk, revealed, live, safe, alone, before, val, key>>
        /\ pc[w] = "create" /\ pc' = [pc EXCEPT ![w] = "write"]
    BY <1>4 DEF CreateTmp, Goto, hist
  <2>3. \A u \in Writers \ {w} : Mine(u)' = Mine(u)
    BY <1>0, <2>1 DEF Mine
  <2>4. \A u \in Writers : /\ pc'[u] = "idle" <=> pc[u] = "idle"
                           /\ pc'[u] = "fsync" <=> pc[u] = "fsync"
                           /\ pc'[u] = "replace" => pc[u] = "replace" /\ u # w
    BY <1>0, <2>2
  <2> QED BY <1>0, <2>2, <2>3, <2>4, QuietStep
<1>5. ASSUME NEW w \in Writers, WriteTmp(w) PROVE DurableInv'
  <2>1. /\ UNCHANGED <<disk, revealed, live, safe, alone, before, val, key, file>>
        /\ pc[w] = "write" /\ pc' = [pc EXCEPT ![w] = "replace"]
        /\ tmps' = (tmps \ Mine(w)) \cup {[f EXCEPT !.synced = TRUE] : f \in Mine(w)}
    BY <1>5 DEF WriteTmp, Goto, hist, calls
  <2>2. Mine(w) \subseteq [hex : Hexes, pid : Pids, synced : BOOLEAN]
    BY DEF Mine, DurableInv, Types, TypeOK
  <2>3. ASSUME NEW f \in Mine(w) PROVE [f EXCEPT !.synced = TRUE].synced
    BY <2>2
  <2>4. \A g \in tmps' : g \in tmps \ Mine(w) \/ g.synced
    BY <2>1, <2>3
  <2>5. \A g \in Mine(w)' : g.synced
    BY <2>1, <2>4 DEF Mine
  <2>6. \A u \in Writers \ {w} : \A g \in Mine(u)' : g \in Mine(u) \/ g.synced
    BY <2>1, <2>4 DEF Mine
  <2>7. \A u \in Writers : /\ pc'[u] = "idle" <=> pc[u] = "idle"
                           /\ pc'[u] = "fsync" <=> pc[u] = "fsync"
                           /\ pc'[u] = "replace" => pc[u] = "replace" \/ u = w
    BY <1>0, <2>1
  <2> QED BY <1>0, <2>1, <2>5, <2>6, <2>7, QuietStep
<1>6. ASSUME NEW r \in Readers, Read(r) \/ \E k \in Keys \cup {None} : BeginRead(r, k)
      PROVE  DurableInv'
  <2>1. UNCHANGED <<disk, revealed, live, safe, alone, before, tmps, val, file>>
    BY <1>6 DEF Read, BeginRead, ListFiles, Stat, Open, ReadDone, ReadReturn, disks, calls, hist
  <2>2. \A w \in Writers : Mine(w)' = Mine(w)
    BY <2>1 DEF Mine
  <2>3. /\ pc' = pc \/ \E l \in ReadPlaces : pc' = [pc EXCEPT ![r] = l]
        /\ key' = key \/ \E k \in Keys \cup {None} : key' = [key EXCEPT ![r] = k]
    <3>1. CASE \E k \in Keys \cup {None} : BeginRead(r, k)
      BY <3>1 DEF BeginRead, Goto, ReadPlaces
    <3>2. CASE Stat(r)
      <4>1. PICK k \in todo[r] :
                 IF disk[k] = Absent THEN UNCHANGED <<pc, key>>
                 ELSE Goto(r, "open") /\ key' = [key EXCEPT ![r] = k]
        BY <3>2 DEF Stat
      <4>2. k \in Keys
        BY DEF DurableInv, Types, TypeOK
      <4> QED BY <4>1, <4>2 DEF Goto, ReadPlaces
    <3>3. CASE ListFiles(r) \/ Open(r) \/ ReadDone(r) \/ ReadReturn(r)
      BY <3>3 DEF ListFiles, Open, ReadDone, ReadReturn, Goto, ReadPlaces, calls
    <3> QED BY <1>6, <3>1, <3>2, <3>3 DEF Read
  <2>4. \A w \in Writers : pc'[w] = pc[w] /\ key'[w] = key[w]
    BY <1>0, <2>3
  <2> QED BY <1>0, <2>1, <2>2, <2>4, QuietStep
<1>7. CASE UNCHANGED vars
  <2>1. UNCHANGED <<disk, revealed, live, safe, alone, before, tmps, val, key, pc, file>>
    BY <1>7 DEF vars, disks, calls, hist
  <2>2. \A w \in Writers : Mine(w)' = Mine(w)
    BY <2>1 DEF Mine
  <2> QED BY <1>0, <2>1, <2>2, QuietStep
<1> QED BY <1>1, <1>2, <1>3, <1>4, <1>5, <1>6, <1>7

\* No step, kill or power loss loses what was acknowledged.
LEMMA DurableStep == ASSUME Assumptions, DurableInv, [Next]_vars PROVE DurableInv'
<1>0. Types /\ Types'
  BY TypesStep DEF DurableInv
<1>1. ASSUME NEW i \in Pids, Kill(i) PROVE DurableInv'
  <2>1. /\ Die({p \in Stores : pid[p] = i}) /\ UNCHANGED <<disk, revealed, tmps, live>>
    BY <1>1 DEF Kill, disks
  <2>2. \A k \in Keys : disk[k] \in revealed[k] /\ disk[k] \in live[k]
    BY DEF DurableInv, RevealInv, AckedVisible
  <2> QED BY <1>0, <2>1, <2>2, DieStep
<1>2. ASSUME PowerLoss PROVE DurableInv'
  <2>1. Die(Stores)
    BY <1>2 DEF PowerLoss
  <2>2. \A k \in Keys : disk'[k] \in revealed[k] /\ revealed'[k] = {disk'[k]}
    BY <1>0, <1>2, LossTypes
  <2>3. \A k \in Keys : disk'[k] \in live'[k]
    BY <1>0, <1>2, <2>2, LossTypes DEF DurableInv, CrashSafe
  <2> QED BY <1>0, <2>1, <2>2, <2>3, DieStep
<1>3. ASSUME NEW w \in Writers, Fail(w), pc[w] \notin {"idle", "fsync"},
             tmps' \subseteq tmps, UNCHANGED <<disk, revealed>>
      PROVE  DurableInv'
  <2>1. End(w, before[w][1], before[w][2])
    BY <1>3 DEF Fail
  <2>2. /\ disk[key[w]] \in live[key[w]] /\ revealed[key[w]] \subseteq safe[key[w]]
        /\ \A j \in Keys : disk[j] \in revealed[j]
    BY <1>0, <1>3 DEF DurableInv, RevealInv, AckedVisible, CrashSafe, PlaceInv, TypeOK, Types, Callers
  <2>3. alone[w] => disk[key[w]] \in before[w][1] /\ revealed[key[w]] \subseteq before[w][2]
    BY <1>3 DEF DurableInv, AloneInv
  <2> QED BY <1>0, <1>3, <2>1, <2>2, <2>3, EndStep
<1>4. ASSUME NEW w \in Writers, FsyncDir(w) PROVE DurableInv'
  <2>1. /\ pc[w] = "fsync" /\ End(w, {val[w]}, {val[w]})
        /\ revealed' = [k \in Keys |-> {disk[k]}] /\ UNCHANGED <<disk, tmps>>
    BY <1>4 DEF FsyncDir
  <2>2. /\ key[w] \in Keys /\ disk[key[w]] \in live[key[w]]
        /\ \A j \in Keys : disk[j] \in revealed[j] /\ revealed[j] \subseteq safe[j]
    BY <1>0, <2>1 DEF DurableInv, RevealInv, AckedVisible, CrashSafe, PlaceInv, TypeOK, Types, Callers
  <2>3. alone[w] => disk[key[w]] = val[w]
    BY <2>1 DEF DurableInv, AloneInv
  <2> QED BY <1>0, <2>1, <2>2, <2>3, EndStep
<1>5. ASSUME NEW w \in Writers, CheckAbsent(w) \/ Unlink(w) PROVE DurableInv'
  <2> DEFINE k == key[w]
  <2>1. /\ pc[w] \in {"check", "unlink"} /\ val[w] = Absent /\ k \in Keys
        /\ Absent \in live[k] /\ Absent \in safe[k]
        /\ revealed[k] \subseteq safe[k]
        /\ \A j \in Keys : disk[j] \in revealed[j]
    <3>1. pc[w] \in {"check", "unlink"}
      BY <1>5 DEF CheckAbsent, Unlink
    <3>2. val[w] = Absent /\ k \in Keys
      BY <1>0, <3>1 DEF DurableInv, Types, PlaceInv, TypeOK, Callers
    <3>3. val[w] \in live[k] \cap safe[k]
      BY <3>1 DEF DurableInv, WriteInv
    <3>4. \A j \in Keys : disk[j] \in revealed[j] /\ revealed[j] \subseteq safe[j]
      BY DEF DurableInv, RevealInv, CrashSafe
    <3> QED BY <3>1, <3>2, <3>3, <3>4
  <2>2. End(w, {Absent}, safe[k]) /\ UNCHANGED tmps
    BY <1>5 DEF CheckAbsent, Unlink, disks
  <2>3. /\ disk'[k] = Absent /\ revealed'[k] \subseteq revealed[k] \cup {Absent}
        /\ Absent \in revealed'[k]
        /\ \A j \in Keys \ {k} : disk'[j] = disk[j] /\ revealed'[j] = revealed[j]
    <3>1. CASE CheckAbsent(w)
      BY <2>1, <3>1 DEF CheckAbsent, disks
    <3>2. CASE Unlink(w)
      BY <1>0, <2>1, <3>2 DEF Unlink, Publish, Types, TypeOK
    <3> QED BY <1>5, <3>1, <3>2
  <2> QED BY <1>0, <2>1, <2>2, <2>3, EndStep
<1>6. ASSUME NEW w \in Writers, WriteFails(w) \/ ReplaceFails(w) \/ UnlinkFails(w)
      PROVE  DurableInv'
  <2>1. /\ Fail(w) /\ pc[w] \notin {"idle", "fsync"} /\ tmps' \subseteq tmps
        /\ UNCHANGED <<disk, revealed>>
    BY <1>6 DEF WriteFails, ReplaceFails, UnlinkFails, disks
  <2> QED BY <1>3, <2>1
<1> QED
  BY <1>0, <1>1, <1>2, <1>4, <1>5, <1>6, BeginStep, ReplaceStep, SilentStep
  DEF Next, Save, Delete

\* DurableInv holds in every reachable state (the inductive invariant behind
\* AckedVisible and CrashSafe).
THEOREM Durable == ASSUME Assumptions PROVE Spec => []DurableInv
<1>1. Init => DurableInv
  <2> SUFFICES ASSUME Init PROVE DurableInv
    OBVIOUS
  <2>1. Types
    BY InitTypes
  <2> QED BY <2>1 DEF Init, DurableInv, WriteInv, AloneInv, RevealInv, AckedVisible, CrashSafe, Callers
<1>2. DurableInv /\ [Next]_vars => DurableInv'
  BY DurableStep
<1> QED BY <1>1, <1>2, PTL DEF Spec
-----------------------------------------------------------------------------
\* A reader that does nothing in a step, whatever others write meanwhile.
LEMMA ReaderRests ==
    ASSUME NEW r \in Readers, ReadInv(r), pc'[r] = pc[r], key'[r] = key[r],
           todo'[r] = todo[r], found'[r] = found[r],
           \A k \in Keys : window[r][k] \subseteq window'[r][k],
           \A k \in Keys : disk'[k] = disk[k] \/ disk'[k] \in window'[r][k]
    PROVE  ReadInv(r)'
BY DEF ReadInv

\* What a file becomes is in the window of every reader.
LEMMA WritesSeen ==
    ASSUME Types, NEW k \in Keys, NEW c, NEW synced, Publish(k, c, synced)
    PROVE  \A r \in Readers, j \in Keys : /\ window[r][j] \subseteq window'[r][j]
                                          /\ disk'[j] = disk[j] \/ disk'[j] \in window'[r][j]
<1>1. /\ disk' = [disk EXCEPT ![k] = c]
      /\ window' = [r \in Readers |-> [window[r] EXCEPT ![k] = @ \cup {c}]]
  BY DEF Publish
<1>2. SUFFICES ASSUME NEW r \in Readers, NEW j \in Keys
               PROVE  /\ window[r][j] \subseteq window'[r][j]
                      /\ disk'[j] = disk[j] \/ disk'[j] \in window'[r][j]
  OBVIOUS
<1>3. window'[r] = [window[r] EXCEPT ![k] = @ \cup {c}] /\ window[r] \in [Keys -> SUBSET (Contents \cup {Torn})]
  BY <1>1 DEF Types, HistoryOK
<1> QED BY <1>1, <1>3 DEF Types, TypeOK

\* A reader's own steps.
LEMMA ReaderMoves ==
    ASSUME Assumptions, ReaderInv, NEW r \in Readers,
           Read(r) \/ Sweep(r) \/ \E k \in Keys \cup {None} : BeginRead(r, k)
    PROVE  ReadInv(r)'
<1>0. /\ r \in Callers /\ r \notin Writers /\ ReadInv(r) /\ StoreOf[r] \in Stores
      /\ pc[r] \in ReadPlaces /\ None \notin Keys
  BY DEF Callers, Assumptions, ReaderInv, Types, PlaceInv
<1>1. ASSUME NEW k \in Keys \cup {None}, BeginRead(r, k) PROVE ReadInv(r)'
  <2>1. /\ pc'[r] = "dir" /\ key'[r] = k /\ todo'[r] = IF k = None THEN {} ELSE {k}
        /\ found'[r] = [j \in Keys |-> IF k \in {None, j} THEN Absent ELSE None]
        /\ window'[r] = [j \in Keys |-> {disk[j]}] /\ disk' = disk
    BY <1>0, <1>1 DEF BeginRead, Goto, disks, ReaderInv, Types, TypeOK, HistoryOK
  <2> QED BY <1>0, <2>1 DEF ReadInv
<1>2. CASE DirReady(r)
  <2>1. /\ pc[r] = "dir" /\ pc'[r] = IF key[r] = None THEN "list" ELSE "stat"
        /\ UNCHANGED <<disk, key, todo, found, window>>
    BY <1>0, <1>2 DEF DirReady, Goto, disks, calls, reads, ReaderInv, Types, TypeOK
  <2> QED BY <1>0, <2>1 DEF ReadInv
<1>3. CASE SweepBegin(r) \/ SweepEnd(r)
  <2>1. /\ pc[r] \in {"dir", "sweep"} /\ pc'[r] \in {"dir", "sweep"}
        /\ UNCHANGED <<disk, key, todo, found, window>>
    BY <1>0, <1>3 DEF SweepBegin, SweepEnd, Goto, disks, calls, reads, ReaderInv, Types, TypeOK
  <2> QED BY <1>0, <2>1 DEF ReadInv
<1>4. CASE SweepOne(r)
  BY <1>0, <1>4 DEF SweepOne, calls, reads, ReadInv
<1>5. CASE ListFiles(r)
  <2>1. /\ pc[r] = "list" /\ pc'[r] = "stat" /\ todo'[r] = {k \in Keys : disk[k] # Absent}
        /\ UNCHANGED <<disk, key, found, window>>
    BY <1>0, <1>5 DEF ListFiles, Goto, disks, calls, ReaderInv, Types, TypeOK
  <2> QED BY <1>0, <2>1 DEF ReadInv
<1>6. CASE Stat(r)
  <2>1. PICK k \in todo[r] :
             IF disk[k] = Absent
             THEN todo' = [todo EXCEPT ![r] = @ \ {k}] /\ UNCHANGED <<pc, key>>
             ELSE Goto(r, "open") /\ key' = [key EXCEPT ![r] = k] /\ UNCHANGED todo
    BY <1>6 DEF Stat
  <2>2. pc[r] = "stat" /\ k \in Keys /\ UNCHANGED <<disk, found, window>>
    BY <1>6 DEF Stat, disks, ReaderInv, Types, TypeOK
  <2>3. CASE disk[k] = Absent
    <3>1. todo'[r] = todo[r] \ {k} /\ UNCHANGED <<pc, key>>
      BY <2>1, <2>3 DEF ReaderInv, Types, TypeOK
    <3> QED BY <1>0, <2>2, <2>3, <3>1 DEF ReadInv
  <2>4. CASE disk[k] # Absent
    <3>1. pc'[r] = "open" /\ UNCHANGED todo
      BY <1>0, <2>1, <2>4 DEF Goto, ReaderInv, Types, TypeOK
    <3> QED BY <1>0, <2>2, <3>1 DEF ReadInv
  <2> QED BY <2>3, <2>4
<1>7. CASE Open(r)
  <2>1. /\ pc[r] = "open" /\ pc'[r] = "stat" /\ key[r] \in Keys
        /\ found'[r] = [found[r] EXCEPT ![key[r]] = disk[key[r]]]
        /\ found[r] \in [Keys -> Contents \cup {Torn, None}]
        /\ todo'[r] = todo[r] \ {key[r]} /\ UNCHANGED <<disk, window>>
    BY <1>0, <1>7 DEF Open, Goto, disks, ReaderInv, Types, TypeOK, PlaceInv
  <2> QED BY <1>0, <2>1 DEF ReadInv
<1>8. CASE ReadDone(r)
  <2>1. /\ pc[r] = "stat" /\ todo[r] = {} /\ pc'[r] = "done"
        /\ UNCHANGED <<disk, key, todo, found, window>>
    BY <1>0, <1>8 DEF ReadDone, Goto, disks, calls, reads, ReaderInv, Types, TypeOK
  <2> QED BY <1>0, <2>1 DEF ReadInv
<1>9. CASE ReadReturn(r)
  <2>1. pc'[r] = "idle"
    BY <1>0, <1>9 DEF ReadReturn, Goto, ReaderInv, Types, TypeOK
  <2> QED BY <2>1 DEF ReadInv
<1> QED BY <1>1, <1>2, <1>3, <1>4, <1>5, <1>6, <1>7, <1>8, <1>9 DEF Read, Sweep

\* A reader has seen only what its file held while it read.
LEMMA ReaderStep == ASSUME Assumptions, ReaderInv, [Next]_vars PROVE ReaderInv'
<1>0. Types /\ Types'
  BY TypesStep DEF ReaderInv
<1> SUFFICES ASSUME NEW r \in Readers PROVE ReadInv(r)'
  BY <1>0 DEF ReaderInv
<1>1. r \in Callers /\ r \notin Writers /\ ReadInv(r)
  BY DEF Callers, Assumptions, ReaderInv
<1>3. CASE PowerLoss \/ \E i \in Pids : Kill(i)
  <2>1. PICK P \in SUBSET Stores : Die(P) /\ (P = Stores \/ UNCHANGED disk)
    BY <1>3 DEF PowerLoss, Kill, disks
  <2>2. /\ pc'[r] = IF StoreOf[r] \in P THEN "idle" ELSE pc[r]
        /\ key'[r] = IF StoreOf[r] \in P THEN None ELSE key[r]
        /\ todo'[r] = IF StoreOf[r] \in P THEN {} ELSE todo[r]
        /\ StoreOf[r] \notin P => found'[r] = found[r] /\ window'[r] = window[r]
    BY <1>0, <1>1, <2>1 DEF Die, Types, TypeOK, HistoryOK
  <2>3. StoreOf[r] \in Stores
    BY <1>1 DEF Assumptions, Callers
  <2>4. CASE StoreOf[r] \in P
    BY <2>2, <2>4 DEF ReadInv
  <2>5. CASE StoreOf[r] \notin P
    BY <1>1, <2>1, <2>2, <2>3, <2>5, ReaderRests
  <2> QED BY <2>4, <2>5
<1>4. CASE \E p \in Stores : Start(p)
  BY <1>1, <1>4, ReaderRests DEF Start, disks, calls, reads
<1>5. ASSUME NEW t \in Callers, Sweep(t) PROVE ReadInv(r)'
  <2>1. CASE t = r
    BY <1>5, <2>1, ReaderMoves
  <2>2. CASE t # r
    <3>1. UNCHANGED <<disk, key, todo, found, window>>
      BY <1>5 DEF Sweep, DirReady, SweepBegin, SweepOne, SweepEnd, disks, calls, reads
    <3>2. pc'[r] = pc[r]
      BY <1>0, <1>1, <1>5, <2>2
      DEF Sweep, DirReady, SweepBegin, SweepOne, SweepEnd, Goto, Types, TypeOK
    <3> QED BY <1>1, <3>1, <3>2, ReaderRests
  <2> QED BY <2>1, <2>2
<1>6. ASSUME NEW w \in Writers,
             \/ \E k \in Keys, v \in Contents : Begin(w, k, v)
             \/ Lock(w) \/ CreateTmp(w) \/ WriteTmp(w) \/ CheckExists(w)
             \/ WriteFails(w) \/ ReplaceFails(w) \/ FsyncDir(w)
             \/ CheckAbsent(w) \/ UnlinkFails(w)
      PROVE  ReadInv(r)'
  <2>1. UNCHANGED <<disk, todo, found, window>>
    BY <1>6 DEF Begin, Lock, CreateTmp, WriteTmp, CheckExists, WriteFails, ReplaceFails, FsyncDir,
                CheckAbsent, UnlinkFails, Fail, End, disks, reads
  <2>2. pc'[r] = pc[r]
    BY <1>0, <1>1, <1>6
    DEF Begin, Lock, CreateTmp, WriteTmp, CheckExists, WriteFails, ReplaceFails, FsyncDir,
        CheckAbsent, UnlinkFails, Fail, End, Goto, Types, TypeOK
  <2>3. key'[r] = key[r]
    BY <1>0, <1>1, <1>6
    DEF Begin, Lock, CreateTmp, WriteTmp, CheckExists, WriteFails, ReplaceFails, FsyncDir,
        CheckAbsent, UnlinkFails, Fail, End, calls, Types, TypeOK
  <2> QED BY <1>1, <2>1, <2>2, <2>3, ReaderRests
<1>7. ASSUME NEW w \in Writers, Replace(w) \/ Unlink(w) PROVE ReadInv(r)'
  <2>1. key[w] \in Keys
    <3>1. pc[w] # "idle"
      BY <1>7 DEF Replace, Unlink
    <3> QED BY <1>0, <3>1 DEF Types, TypeOK, PlaceInv, Callers
  <2>2. \E c \in Contents, s \in BOOLEAN : Publish(key[w], c, s)
    <3>1. CASE Replace(w)
      <4>1. PICK f \in Mine(w) : Publish(key[w], val[w], f.synced)
        BY <3>1 DEF Replace
      <4>2. f.synced \in BOOLEAN /\ val[w] \in Contents
        BY <1>0 DEF Types, TypeOK, Mine
      <4> QED BY <4>1, <4>2
    <3>2. CASE Unlink(w)
      BY <3>2 DEF Unlink, Contents
    <3> QED BY <1>7, <3>1, <3>2
  <2>3. \A k \in Keys : /\ window[r][k] \subseteq window'[r][k]
                        /\ disk'[k] = disk[k] \/ disk'[k] \in window'[r][k]
    BY <1>0, <2>1, <2>2, WritesSeen
  <2>4. UNCHANGED <<todo, found>> /\ pc'[r] = pc[r] /\ key'[r] = key[r]
    BY <1>0, <1>1, <1>7 DEF Replace, Unlink, End, Goto, calls, reads, Types, TypeOK
  <2> QED BY <1>1, <2>3, <2>4, ReaderRests
<1>8. ASSUME NEW q \in Readers, Read(q) \/ \E k \in Keys \cup {None} : BeginRead(q, k)
      PROVE  ReadInv(r)'
  <2>1. CASE q = r
    BY <1>8, <2>1, ReaderMoves
  <2>2. CASE q # r
    <3>1. disk' = disk
      BY <1>8 DEF Read, BeginRead, ListFiles, Stat, Open, ReadDone, ReadReturn, disks
    <3>2. pc'[r] = pc[r] /\ key'[r] = key[r]
      BY <1>0, <1>1, <1>8, <2>2
      DEF Read, BeginRead, ListFiles, Stat, Open, ReadDone, ReadReturn, Goto, calls, Types, TypeOK
    <3>3. todo'[r] = todo[r] /\ found'[r] = found[r]
      BY <1>0, <1>1, <1>8, <2>2
      DEF Read, BeginRead, ListFiles, Stat, Open, ReadDone, ReadReturn, reads, Types, TypeOK
    <3>4. window'[r] = window[r]
      BY <1>0, <1>1, <1>8, <2>2
      DEF Read, BeginRead, ListFiles, Stat, Open, ReadDone, ReadReturn, Types, HistoryOK
    <3> QED BY <1>1, <3>1, <3>2, <3>3, <3>4, ReaderRests
  <2> QED BY <2>1, <2>2
<1>9. CASE UNCHANGED vars
  BY <1>1, <1>9, ReaderRests DEF vars, disks, calls, reads
<1> QED BY <1>3, <1>4, <1>5, <1>6, <1>7, <1>8, <1>9 DEF Next, Save, Delete

\* ReadRegular holds: each record of an answer, present or missing, is as it was
\* at some moment of the read (_load_all and get take no lock).
THEOREM ReadsAreRegular == ASSUME Assumptions PROVE Spec => []ReadRegular
<1>1. Init => ReaderInv
  <2> SUFFICES ASSUME Init PROVE ReaderInv
    OBVIOUS
  <2>1. Types
    BY InitTypes
  <2> QED BY <2>1 DEF Init, ReaderInv, ReadInv, Callers
<1>2. ReaderInv /\ [Next]_vars => ReaderInv'
  BY ReaderStep
<1>3. ReaderInv => ReadRegular
  BY DEF ReaderInv, ReadInv, ReadRegular
<1> QED BY <1>1, <1>2, <1>3, PTL DEF Spec
-----------------------------------------------------------------------------
\* The names of the tmp files: no two are alike, no two writers have the same,
\* and a renamed file is there no more.
NamesInv ==
    /\ \A f, g \in tmps : f.hex = g.hex => f = g
    /\ \A u, w \in Writers : file[u] = file[w] /\ u # w => file[u] = None
    /\ \A w \in Writers : pc[w] = "fsync" => Mine(w) = {}

\* A writer past the lock has the lock, and a delete has a record to delete.
HeldPlaces == {"check", "unlink", "create", "write", "replace", "fsync"}
HeldInv ==
    \A w \in Writers : /\ pc[w] \in HeldPlaces => held[StoreOf[w]][key[w]] = w
                       /\ pc[w] \in HeldPlaces \ {"check", "unlink"} => val[w] # Absent

\* One process: the sweep finds no file but those of its own pid.
InFlightInv == (\A p \in Stores : reap[p] = {}) /\ InFlightKept

\* One JsonDB: before its sweep it has written no file, every file there is of
\* another pid, and a sweep under way has still to remove all that are there.
SweptInv ==
    /\ OrphansReaped
    /\ \A t \in Callers, p \in Stores :
          /\ pc[t] \notin {"idle", "dir", "sweep"} => swept[p]
          /\ pc[t] = "sweep" => /\ sweeper[p] = t /\ ~swept[p]
                                /\ \A f \in tmps : f.hex \in reap[p]
    /\ \A p \in Stores : /\ pid[p] = None => ~swept[p]
                         /\ pid[p] # None /\ ~swept[p] => \A f \in tmps : f.pid # pid[p]

RemoveInv ==
    /\ Types /\ NamesInv /\ HeldInv
    /\ OneProcess => InFlightInv
    /\ OneStore => DeleteSafe
    /\ OneStore /\ ~PidReuse => SweptInv

\* The steps of a writer.
WriterStep(w) ==
    \/ \E k \in Keys, v \in Contents : Begin(w, k, v)
    \/ Lock(w) \/ Save(w) \/ Delete(w)

\* The steps of the stores, of the sweeps and of the readers.
OtherStep ==
    \/ \E p \in Stores : Start(p)
    \/ \E t \in Callers : Sweep(t)
    \/ \E r \in Readers : Read(r) \/ \E k \in Keys \cup {None} : BeginRead(r, k)
    \/ UNCHANGED vars

\* Every step is one of a writer, of somebody else, or a crash.
LEMMA ByWhom ==
    ASSUME [Next]_vars
    PROVE  \/ PowerLoss \/ \E i \in Pids : Kill(i)
           \/ OtherStep \/ \E w \in Writers : WriterStep(w)
BY DEF Next, OtherStep, WriterStep

\* A step of a writer leaves the others and the stores alone.
LEMMA WriterFrame ==
    ASSUME Assumptions, Types, NEW w \in Writers, WriterStep(w)
    PROVE  /\ UNCHANGED <<pid, swept, sweeper, reap>>
           /\ \A t \in Callers \ {w} : pc'[t] = pc[t]
           /\ \A u \in Writers \ {w} : key'[u] = key[u] /\ val'[u] = val[u] /\ file'[u] = file[u]
           /\ \A p \in Stores, k \in Keys : p # StoreOf[w] \/ k # key[w] => held'[p][k] = held[p][k]
           /\ \A k \in Keys \ {key[w]} : disk'[k] = disk[k]
<1>1. /\ w \in Callers /\ StoreOf[w] \in Stores /\ pc \in [Callers -> WritePlaces \cup ReadPlaces]
      /\ disk \in [Keys -> Contents \cup {Torn}]
      /\ key \in [Callers -> Keys \cup {None}] /\ val \in [Writers -> Contents]
      /\ file \in [Writers -> Hexes \cup {None}]
      /\ held \in [Stores -> [Keys -> Writers \cup {None}]]
  BY DEF Types, TypeOK, Assumptions, Callers, WritePlaces, ReadPlaces
<1>2. CASE \E k \in Keys, v \in Contents : Begin(w, k, v)
  <2>1. /\ UNCHANGED <<pid, swept, sweeper, reap, held, disk, file>>
        /\ pc' = [pc EXCEPT ![w] = "dir"]
        /\ \E k \in Keys, v \in Contents : /\ key' = [key EXCEPT ![w] = k]
                                           /\ val' = [val EXCEPT ![w] = v]
    BY <1>2 DEF Begin, Goto, procs, disks
  <2> QED BY <1>1, <2>1 DEF Callers
<1>3. CASE Lock(w) \/ CheckExists(w) \/ CreateTmp(w) \/ WriteTmp(w)
  <2>1. /\ UNCHANGED <<pid, swept, sweeper, reap, disk, key, val>>
        /\ \E l \in WritePlaces : pc' = [pc EXCEPT ![w] = l]
    BY <1>3 DEF Lock, CheckExists, CreateTmp, WriteTmp, Goto, procs, disks, calls, WritePlaces
  <2>2. \/ UNCHANGED file
        \/ \E h \in Hexes : file' = [file EXCEPT ![w] = h]
    BY <1>3 DEF Lock, CheckExists, CreateTmp, WriteTmp, calls
  <2>3. UNCHANGED held \/ held' = [held EXCEPT ![StoreOf[w]][key[w]] = w]
    BY <1>3 DEF Lock, CheckExists, CreateTmp, WriteTmp
  <2> QED BY <1>1, <2>1, <2>2, <2>3
<1>4. CASE Replace(w)
  <2>1. /\ UNCHANGED <<pid, swept, sweeper, reap, held, key, val, file>>
        /\ pc' = [pc EXCEPT ![w] = "fsync"] /\ disk' = [disk EXCEPT ![key[w]] = val[w]]
    BY <1>4 DEF Replace, Publish, Goto, procs, calls
  <2> QED BY <1>1, <2>1
<1>5. ASSUME NEW nl, NEW ns, End(w, nl, ns),
             UNCHANGED disk \/ disk' = [disk EXCEPT ![key[w]] = Absent]
      PROVE  /\ UNCHANGED <<pid, swept, sweeper, reap>>
             /\ \A t \in Callers \ {w} : pc'[t] = pc[t]
             /\ \A u \in Writers \ {w} : key'[u] = key[u] /\ val'[u] = val[u] /\ file'[u] = file[u]
             /\ \A p \in Stores, k \in Keys : p # StoreOf[w] \/ k # key[w] => held'[p][k] = held[p][k]
             /\ \A k \in Keys \ {key[w]} : disk'[k] = disk[k]
  <2>1. /\ UNCHANGED <<pid, swept, sweeper, reap>>
        /\ pc' = [pc EXCEPT ![w] = "idle"] /\ key' = [key EXCEPT ![w] = None]
        /\ file' = [file EXCEPT ![w] = None] /\ val' = [val EXCEPT ![w] = Absent]
        /\ held' = [held EXCEPT ![StoreOf[w]][key[w]] = None]
    BY <1>5 DEF End, Goto, procs
  <2> QED BY <1>1, <1>5, <2>1 DEF Callers
<1>6. CASE WriteFails(w) \/ ReplaceFails(w) \/ FsyncDir(w)
  BY <1>5, <1>6 DEF WriteFails, ReplaceFails, FsyncDir, Fail, disks
<1>7. CASE CheckAbsent(w) \/ Unlink(w) \/ UnlinkFails(w)
  BY <1>5, <1>7 DEF CheckAbsent, Unlink, UnlinkFails, Fail, Publish, disks
<1> QED BY <1>2, <1>3, <1>4, <1>6, <1>7 DEF WriterStep, Save, Delete

\* Stores, sweeps and readers leave the writers past the lock alone.
LEMMA OtherFrame ==
    ASSUME Assumptions, Types, OtherStep
    PROVE  /\ tmps' \subseteq tmps /\ UNCHANGED <<disk, held, val, file>>
           /\ \A w \in Writers :
                 /\ key'[w] = key[w]
                 /\ pc'[w] = pc[w] \/ /\ pc[w] \in {"dir", "sweep"}
                                      /\ pc'[w] \in {"dir", "sweep", "lock"}
<1>1. /\ \A w \in Writers : w \in Callers /\ w \notin Readers
      /\ pc \in [Callers -> WritePlaces \cup ReadPlaces]
      /\ key \in [Callers -> Keys \cup {None}]
  BY DEF Types, TypeOK, Assumptions, Callers, WritePlaces, ReadPlaces
<1>2. CASE (\E p \in Stores : Start(p)) \/ UNCHANGED vars
  BY <1>2 DEF Start, vars, disks, calls
<1>3. ASSUME NEW t \in Callers, Sweep(t)
      PROVE  /\ tmps' \subseteq tmps /\ UNCHANGED <<disk, held, val, file>>
             /\ \A w \in Writers :
                   /\ key'[w] = key[w]
                   /\ pc'[w] = pc[w] \/ /\ pc[w] \in {"dir", "sweep"}
                                        /\ pc'[w] \in {"dir", "sweep", "lock"}
  <2>1. tmps' \subseteq tmps /\ UNCHANGED <<disk, held, val, file, key>>
    BY <1>3 DEF Sweep, DirReady, SweepBegin, SweepOne, SweepEnd, disks, calls
  <2>2. ASSUME NEW w \in Writers
        PROVE  pc'[w] = pc[w] \/ /\ pc[w] \in {"dir", "sweep"}
                                 /\ pc'[w] \in {"dir", "sweep", "lock"}
    <3>1. CASE DirReady(t)
      <4>1. /\ pc[t] = "dir"
            /\ pc' = [pc EXCEPT ![t] = IF t \in Writers THEN "lock"
                                      ELSE IF key[t] = None THEN "list" ELSE "stat"]
        BY <3>1 DEF DirReady, Goto
      <4>2. CASE t = w
        BY <1>1, <4>1, <4>2
      <4>3. CASE t # w
        BY <1>1, <4>1, <4>3
      <4> QED BY <4>2, <4>3
    <3>2. CASE SweepBegin(t) \/ SweepOne(t) \/ SweepEnd(t)
      <4>1. \/ pc' = pc
            \/ /\ pc[t] \in {"dir", "sweep"}
               /\ \E l \in {"dir", "sweep"} : pc' = [pc EXCEPT ![t] = l]
        BY <3>2 DEF SweepBegin, SweepOne, SweepEnd, Goto
      <4> QED BY <1>1, <4>1
    <3> QED BY <1>3, <3>1, <3>2 DEF Sweep
  <2> QED BY <2>1, <2>2
<1>4. ASSUME NEW r \in Readers, Read(r) \/ \E k \in Keys \cup {None} : BeginRead(r, k)
      PROVE  /\ tmps' \subseteq tmps /\ UNCHANGED <<disk, held, val, file>>
             /\ \A w \in Writers : key'[w] = key[w] /\ pc'[w] = pc[w]
  <2>1. tmps' = tmps /\ UNCHANGED <<disk, held, val, file>>
    BY <1>4 DEF Read, BeginRead, ListFiles, Stat, Open, ReadDone, ReadReturn, disks, calls
  <2>2. ASSUME NEW w \in Writers PROVE key'[w] = key[w] /\ pc'[w] = pc[w]
    BY <1>1, <1>4
    DEF Read, BeginRead, ListFiles, Stat, Open, ReadDone, ReadReturn, Goto, calls
  <2> QED BY <2>1, <2>2
<1> QED BY <1>2, <1>3, <1>4 DEF OtherStep

\* Kills and power losses: what is left of a thread, and of the tmp files.
LEMMA StopFrame ==
    ASSUME Assumptions, Types, PowerLoss \/ \E i \in Pids : Kill(i)
    PROVE  \E P \in SUBSET Stores :
              /\ P = Stores \/ /\ UNCHANGED <<disk, tmps>>
                               /\ \E i \in Pids : P = {p \in Stores : pid[p] = i}
              /\ \A p \in Stores : IF p \in P THEN pid'[p] = None /\ ~swept'[p] /\ reap'[p] = {}
                                   ELSE /\ pid'[p] = pid[p] /\ swept'[p] = swept[p]
                                        /\ reap'[p] = reap[p] /\ held'[p] = held[p]
                                        /\ sweeper'[p] = sweeper[p]
              /\ \A t \in Callers : IF StoreOf[t] \in P THEN pc'[t] = "idle" ELSE pc'[t] = pc[t]
              /\ \A w \in Writers : IF StoreOf[w] \in P THEN file'[w] = None
                                    ELSE /\ file'[w] = file[w] /\ key'[w] = key[w]
                                         /\ val'[w] = val[w]
              /\ \A f \in tmps' : \E g \in tmps : f.hex = g.hex /\ f.pid = g.pid
              /\ (\A f, g \in tmps : f.hex = g.hex => f = g) =>
                    \A f, g \in tmps' : f.hex = g.hex => f = g
<1> DEFINE Left(P) ==
              /\ \A p \in Stores : IF p \in P THEN pid'[p] = None /\ ~swept'[p] /\ reap'[p] = {}
                                   ELSE /\ pid'[p] = pid[p] /\ swept'[p] = swept[p]
                                        /\ reap'[p] = reap[p] /\ held'[p] = held[p]
                                        /\ sweeper'[p] = sweeper[p]
              /\ \A t \in Callers : IF StoreOf[t] \in P THEN pc'[t] = "idle" ELSE pc'[t] = pc[t]
              /\ \A w \in Writers : IF StoreOf[w] \in P THEN file'[w] = None
                                    ELSE /\ file'[w] = file[w] /\ key'[w] = key[w]
                                         /\ val'[w] = val[w]
<1>1. ASSUME NEW P \in SUBSET Stores, Die(P) PROVE Left(P)
  <2>1. \A w \in Writers : w \in Callers
    BY DEF Callers
  <2>2. \A p \in Stores : IF p \in P THEN pid'[p] = None /\ ~swept'[p] /\ reap'[p] = {}
                          ELSE /\ pid'[p] = pid[p] /\ swept'[p] = swept[p]
                               /\ reap'[p] = reap[p] /\ held'[p] = held[p]
                               /\ sweeper'[p] = sweeper[p]
    BY <1>1 DEF Die, Types, TypeOK
  <2>3. \A t \in Callers : IF StoreOf[t] \in P THEN pc'[t] = "idle"
                           ELSE pc'[t] = pc[t] /\ key'[t] = key[t]
    BY <1>1 DEF Die, Types, TypeOK
  <2>4. \A w \in Writers : IF StoreOf[w] \in P THEN file'[w] = None
                           ELSE file'[w] = file[w] /\ val'[w] = val[w]
    BY <1>1 DEF Die, Types, TypeOK
  <2> QED BY <2>1, <2>2, <2>3, <2>4
<1> HIDE DEF Left
<1>2. CASE PowerLoss
  <2>1. Die(Stores)
    BY <1>2 DEF PowerLoss
  <2>2. PICK kept \in SUBSET tmps : tmps' = {[f EXCEPT !.synced = FALSE] : f \in kept}
    BY <1>2 DEF PowerLoss
  <2> DEFINE R == [hex : Hexes, pid : Pids, synced : BOOLEAN]
  <2>3. ASSUME NEW f \in R
        PROVE  [f EXCEPT !.synced = FALSE].hex = f.hex /\ [f EXCEPT !.synced = FALSE].pid = f.pid
    OBVIOUS
  <2>4. tmps \subseteq R
    BY DEF Types, TypeOK
  <2>5. \A f \in tmps' : \E g \in tmps : f = [g EXCEPT !.synced = FALSE]
    BY <2>2
  <2>6. \A f \in tmps' : \E g \in tmps : f.hex = g.hex /\ f.pid = g.pid
    BY <2>3, <2>4, <2>5
  <2>7. ASSUME \A f, g \in tmps : f.hex = g.hex => f = g, NEW f \in tmps', NEW g \in tmps',
               f.hex = g.hex
        PROVE  f = g
    <3>1. PICK a \in tmps : f = [a EXCEPT !.synced = FALSE]
      BY <2>5
    <3>2. PICK b \in tmps : g = [b EXCEPT !.synced = FALSE]
      BY <2>5
    <3>3. a.hex = b.hex
      BY <2>3, <2>4, <2>7, <3>1, <3>2
    <3> QED BY <2>7, <3>1, <3>2, <3>3
  <2>8. Left(Stores)
    BY <1>1, <2>1
  <2> QED BY <2>6, <2>7, <2>8 DEF Left
<1>3. CASE \E i \in Pids : Kill(i)
  <2>1. PICK i \in Pids : Kill(i)
    BY <1>3
  <2> DEFINE P == {p \in Stores : pid[p] = i}
  <2>2. Die(P) /\ UNCHANGED <<disk, tmps>>
    BY <2>1 DEF Kill, disks
  <2>3. Left(P)
    BY <1>1, <2>2
  <2> HIDE DEF P
  <2>4. P \in SUBSET Stores /\ \E j \in Pids : P = {p \in Stores : pid[p] = j}
    BY DEF P
  <2> QED BY <2>2, <2>3, <2>4 DEF Left
<1> QED BY <1>2, <1>3-----------------------------------------------------------------------------
\* What a writer's step does to its tmp file.
LEMMA FileFrame ==
    ASSUME Assumptions, Types, NEW w \in Writers, WriterStep(w)
    PROVE  \/ tmps' = tmps /\ UNCHANGED file /\ pc'[w] \notin {"fsync", "write", "replace"}
           \/ /\ CreateTmp(w) /\ file'[w] # None /\ pc'[w] = "write"
              /\ \A u \in Writers : file[u] # file'[w]
              /\ \A f \in tmps : f.hex # file'[w]
              /\ \E f : tmps' = tmps \cup {f} /\ f.hex = file'[w]
           \/ /\ pc[w] = "write" /\ pc'[w] = "replace" /\ UNCHANGED file
              /\ \A f \in tmps' : \E g \in tmps : f.hex = g.hex /\ (f # g => g \in Mine(w))
              /\ \A g \in tmps : \E f \in tmps' : f.hex = g.hex
              /\ (\A f, g \in tmps : f.hex = g.hex => f = g) =>
                    \A f, g \in tmps' : f.hex = g.hex => f = g
           \/ /\ pc[w] = "replace" /\ pc'[w] = "fsync" /\ UNCHANGED file
              /\ \E f \in Mine(w) : tmps' = tmps \ {f}
           \/ /\ file'[w] = None /\ pc'[w] = "idle"
              /\ \/ tmps' = tmps \ Mine(w)
                 \/ tmps' = tmps /\ (pc[w] = "fsync" \/ Mine(w) = {})
<1>1. /\ w \in Callers /\ pc \in [Callers -> WritePlaces \cup ReadPlaces]
      /\ file \in [Writers -> Hexes \cup {None}] /\ None \notin Hexes
      /\ tmps \in SUBSET [hex : Hexes, pid : Pids, synced : BOOLEAN]
  BY DEF Types, TypeOK, Assumptions, Callers, WritePlaces, ReadPlaces
<1>2. CASE \E k \in Keys, v \in Contents : Begin(w, k, v)
  BY <1>1, <1>2 DEF Begin, Goto, disks
<1>3. CASE Lock(w) \/ CheckExists(w)
  BY <1>1, <1>3 DEF Lock, CheckExists, Goto, disks, calls
<1>4. CASE CreateTmp(w)
  <2>1. PICK h \in Hexes \ {f.hex : f \in tmps} :
              /\ \A u \in Writers : file[u] # h
              /\ tmps' = tmps \cup {[hex |-> h, pid |-> pid[StoreOf[w]], synced |-> FALSE]}
              /\ file' = [file EXCEPT ![w] = h]
    BY <1>4 DEF CreateTmp
  <2>2. file'[w] = h /\ h # None
    BY <1>1, <2>1
  <2>3. pc'[w] = "write"
    BY <1>1, <1>4 DEF CreateTmp, Goto
  <2>4. \A f \in tmps : f.hex # h
    BY <2>1
  <2>5. \E f : tmps' = tmps \cup {f} /\ f.hex = h
    <3>1. [hex |-> h, pid |-> pid[StoreOf[w]], synced |-> FALSE].hex = h
      OBVIOUS
    <3> QED BY <2>1, <3>1
  <2> QED BY <1>4, <2>1, <2>2, <2>3, <2>4, <2>5
<1>5. CASE WriteTmp(w)
  <2>1. /\ pc[w] = "write" /\ pc'[w] = "replace" /\ UNCHANGED file
        /\ tmps' = (tmps \ Mine(w)) \cup {[f EXCEPT !.synced = TRUE] : f \in Mine(w)}
        /\ Mine(w) \subseteq tmps
    BY <1>1, <1>5 DEF WriteTmp, Goto, calls, Mine
  <2>2. ASSUME NEW f \in Mine(w) PROVE [f EXCEPT !.synced = TRUE].hex = f.hex
    BY <1>1, <2>1
  <2>3. \A f \in tmps' : \/ f \in tmps \ Mine(w)
                         \/ \E g \in Mine(w) : f = [g EXCEPT !.synced = TRUE]
    BY <2>1
  <2>4. \A g \in Mine(w) : [g EXCEPT !.synced = TRUE] \in tmps'
    BY <2>1
  <2>5. \A f \in tmps' : \E g \in tmps : f.hex = g.hex /\ (f # g => g \in Mine(w))
    BY <2>1, <2>2, <2>3
  <2>6. ASSUME NEW g \in tmps PROVE \E f \in tmps' : f.hex = g.hex
    <3>1. CASE g \in Mine(w)
      BY <2>2, <2>4, <3>1
    <3>2. CASE g \notin Mine(w)
      BY <2>1, <3>2
    <3> QED BY <3>1, <3>2
  <2>7. ASSUME \A f, g \in tmps : f.hex = g.hex => f = g, NEW f \in tmps', NEW g \in tmps',
               f.hex = g.hex
        PROVE  f = g
    <3>1. ASSUME NEW a \in tmps \ Mine(w), NEW b \in Mine(w) PROVE a.hex # b.hex
      BY <2>1, <3>1 DEF Mine
    <3>2. CASE f \in tmps \ Mine(w)
      <4>1. ASSUME NEW b \in Mine(w), g = [b EXCEPT !.synced = TRUE] PROVE FALSE
        BY <2>2, <2>7, <3>1, <3>2, <4>1
      <4> QED BY <2>3, <2>7, <3>2, <4>1
    <3>3. CASE f \notin tmps \ Mine(w)
      <4>1. PICK a \in Mine(w) : f = [a EXCEPT !.synced = TRUE]
        BY <2>3, <3>3
      <4>2. a.hex = g.hex
        BY <2>2, <2>7, <4>1
      <4>3. g \notin tmps \ Mine(w)
        BY <3>1, <4>2
      <4>4. PICK b \in Mine(w) : g = [b EXCEPT !.synced = TRUE]
        BY <2>3, <4>3
      <4>5. a = b
        BY <2>1, <2>2, <2>7, <4>2, <4>4
      <4> QED BY <4>1, <4>4, <4>5
    <3> QED BY <3>2, <3>3
  <2> QED BY <2>1, <2>5, <2>6, <2>7
<1>6. CASE Replace(w)
  <2>1. pc[w] = "replace" /\ pc'[w] = "fsync" /\ UNCHANGED file
    BY <1>1, <1>6 DEF Replace, Goto, calls
  <2>2. \E f \in Mine(w) : tmps' = tmps \ {f}
    BY <1>6 DEF Replace
  <2> QED BY <2>1, <2>2
<1>7. ASSUME NEW nl, NEW ns, End(w, nl, ns) PROVE file'[w] = None /\ pc'[w] = "idle"
  BY <1>1, <1>7 DEF End, Goto
<1>8. CASE WriteFails(w)
  <2>1. file'[w] = None /\ pc'[w] = "idle"
    BY <1>7, <1>8 DEF WriteFails, Fail
  <2>2. tmps' = tmps \ Mine(w)
    BY <1>8 DEF WriteFails
  <2> QED BY <2>1, <2>2
<1>9. CASE ReplaceFails(w) \/ FsyncDir(w) \/ CheckAbsent(w) \/ Unlink(w) \/ UnlinkFails(w)
  <2>1. file'[w] = None /\ pc'[w] = "idle"
    BY <1>7, <1>9 DEF ReplaceFails, FsyncDir, CheckAbsent, Unlink, UnlinkFails, Fail
  <2>2. /\ tmps' = tmps
        /\ pc[w] = "fsync" \/ pc[w] \in {"check", "unlink"} \/ Mine(w) = {}
    BY <1>9 DEF ReplaceFails, FsyncDir, CheckAbsent, Unlink, UnlinkFails, disks
  <2>3. pc[w] \in {"check", "unlink"} => Mine(w) = {}
    BY <1>1 DEF Types, PlaceInv, Mine
  <2> QED BY <2>1, <2>2, <2>3
<1> QED BY <1>2, <1>3, <1>4, <1>5, <1>6, <1>8, <1>9 DEF WriterStep, Save, Delete

\* Temporary files keep the names of their writers.
LEMMA NamesStep ==
    ASSUME Assumptions, Types, NamesInv, [Next]_vars
    PROVE  NamesInv'
<1>0. \A w \in Writers : w \in Callers /\ StoreOf[w] \in Stores
  BY DEF Assumptions, Callers
<1>1. CASE PowerLoss \/ \E i \in Pids : Kill(i)
  <2>1. PICK P \in SUBSET Stores :
              /\ P = Stores \/ UNCHANGED tmps
              /\ \A t \in Callers : IF StoreOf[t] \in P THEN pc'[t] = "idle" ELSE pc'[t] = pc[t]
              /\ \A w \in Writers : IF StoreOf[w] \in P THEN file'[w] = None ELSE file'[w] = file[w]
              /\ (\A f, g \in tmps : f.hex = g.hex => f = g) =>
                    \A f, g \in tmps' : f.hex = g.hex => f = g
    BY <1>1, StopFrame
  <2>2. \A w \in Writers : pc'[w] = "fsync" => Mine(w)' = {}
    BY <1>0, <2>1 DEF NamesInv, Mine
  <2> QED BY <2>1, <2>2 DEF NamesInv
<1>2. CASE OtherStep
  <2>1. /\ tmps' \subseteq tmps /\ UNCHANGED file
        /\ \A w \in Writers : pc'[w] = "fsync" => pc[w] = "fsync"
    BY <1>2, OtherFrame
  <2>2. \A w \in Writers : Mine(w)' \subseteq Mine(w)
    BY <2>1 DEF Mine
  <2> QED BY <2>1, <2>2 DEF NamesInv
<1>3. ASSUME NEW w \in Writers, WriterStep(w) PROVE NamesInv'
  <2>1. \A u \in Writers \ {w} : pc'[u] = pc[u] /\ file'[u] = file[u]
    BY <1>0, <1>3, WriterFrame
  <2>2. CASE tmps' = tmps /\ UNCHANGED file /\ pc'[w] \notin {"fsync", "write", "replace"}
    BY <2>1, <2>2 DEF NamesInv, Mine
  <2>3. CASE /\ file'[w] # None /\ pc'[w] = "write"
             /\ \A u \in Writers : file[u] # file'[w]
             /\ \A f \in tmps : f.hex # file'[w]
             /\ \E f : tmps' = tmps \cup {f} /\ f.hex = file'[w]
    <3>1. \A u \in Writers \ {w} : Mine(u)' = Mine(u)
      BY <2>1, <2>3 DEF Mine
    <3> QED BY <2>1, <2>3, <3>1 DEF NamesInv
  <2>4. CASE /\ pc'[w] = "replace" /\ UNCHANGED file
             /\ \A f \in tmps' : \E g \in tmps : f.hex = g.hex /\ (f # g => g \in Mine(w))
             /\ (\A f, g \in tmps : f.hex = g.hex => f = g) =>
                   \A f, g \in tmps' : f.hex = g.hex => f = g
    <3>1. \A u \in Writers \ {w} : Mine(u) = {} => Mine(u)' = {}
      BY <2>4 DEF Mine
    <3> QED BY <2>1, <2>4, <3>1 DEF NamesInv
  <2>5. CASE /\ UNCHANGED file /\ \E f \in Mine(w) : tmps' = tmps \ {f}
    <3>1. \A u \in Writers : Mine(u)' \subseteq Mine(u)
      BY <2>5 DEF Mine
    <3>2. Mine(w)' = {}
      BY <2>5 DEF NamesInv, Mine
    <3> QED BY <2>1, <2>5, <3>1, <3>2 DEF NamesInv
  <2>6. CASE file'[w] = None /\ pc'[w] = "idle" /\ tmps' \subseteq tmps
    <3>1. \A u \in Writers \ {w} : Mine(u)' \subseteq Mine(u)
      BY <2>1, <2>6 DEF Mine
    <3> QED BY <2>1, <2>6, <3>1 DEF NamesInv
  <2> QED BY <1>3, <2>2, <2>3, <2>4, <2>5, <2>6, FileFrame
<1> QED BY <1>1, <1>2, <1>3, ByWhom

\* What a writer's step does to its lock and to its record.
LEMMA LockFrame ==
    ASSUME Assumptions, Types, NEW w \in Writers, WriterStep(w)
    PROVE  \/ /\ Lock(w) /\ held'[StoreOf[w]][key[w]] = w /\ UNCHANGED <<key, val, disk>>
              /\ pc'[w] = (IF val[w] = Absent THEN "check" ELSE "create")
           \/ /\ pc'[w] = "dir" /\ UNCHANGED <<held, disk>>
           \/ /\ pc[w] \in HeldPlaces /\ pc'[w] = "idle"
           \/ /\ pc[w] \in HeldPlaces /\ pc'[w] \in HeldPlaces /\ UNCHANGED <<held, key, val>>
              /\ pc'[w] = "unlink" => CheckExists(w)
              /\ pc'[w] \notin {"check", "unlink"} => pc[w] \notin {"check", "unlink"}
<1>1. /\ w \in Callers /\ StoreOf[w] \in Stores /\ pc \in [Callers -> WritePlaces \cup ReadPlaces]
      /\ held \in [Stores -> [Keys -> Writers \cup {None}]]
      /\ pc[w] # "idle" => key[w] \in Keys
  BY DEF Types, TypeOK, PlaceInv, Assumptions, Callers, WritePlaces, ReadPlaces
<1>2. CASE \E k \in Keys, v \in Contents : Begin(w, k, v)
  BY <1>1, <1>2 DEF Begin, Goto, disks
<1>3. CASE Lock(w)
  BY <1>1, <1>3 DEF Lock, Goto, disks, calls
<1>4. CASE CreateTmp(w) \/ WriteTmp(w)
  <2>1. /\ pc[w] \in {"create", "write"} /\ UNCHANGED <<held, key, val>>
        /\ pc' = [pc EXCEPT ![w] = "write"] \/ pc' = [pc EXCEPT ![w] = "replace"]
    BY <1>4 DEF CreateTmp, WriteTmp, Goto, calls
  <2> QED BY <1>1, <2>1 DEF HeldPlaces
<1>5. CASE Replace(w) \/ CheckExists(w)
  <2>1. UNCHANGED <<held, key, val>>
    BY <1>5 DEF Replace, CheckExists, calls
  <2>2. \/ pc[w] = "replace" /\ pc'[w] = "fsync"
        \/ pc[w] = "check" /\ pc'[w] = "unlink" /\ CheckExists(w)
    BY <1>1, <1>5 DEF Replace, CheckExists, Goto
  <2> QED BY <2>1, <2>2 DEF HeldPlaces
<1>6. ASSUME NEW nl, NEW ns, End(w, nl, ns) PROVE pc'[w] = "idle"
  BY <1>1, <1>6 DEF End, Goto
<1>7. CASE WriteFails(w) \/ ReplaceFails(w) \/ FsyncDir(w)
  <2>1. pc[w] \in {"write", "replace", "fsync"} /\ pc'[w] = "idle"
    BY <1>6, <1>7 DEF WriteFails, ReplaceFails, FsyncDir, Fail
  <2> QED BY <2>1 DEF HeldPlaces
<1>8. CASE CheckAbsent(w) \/ Unlink(w) \/ UnlinkFails(w)
  <2>1. pc[w] \in {"check", "unlink"} /\ pc'[w] = "idle"
    BY <1>6, <1>8 DEF CheckAbsent, Unlink, UnlinkFails, Fail
  <2> QED BY <2>1 DEF HeldPlaces
<1> QED BY <1>2, <1>3, <1>4, <1>5, <1>7, <1>8 DEF WriterStep, Save, Delete

\* A delete that holds the lock of its file keeps it, and removes what it may.
LEMMA HeldStep ==
    ASSUME Assumptions, Types, HeldInv, [Next]_vars
    PROVE  HeldInv' /\ (OneStore /\ DeleteSafe => DeleteSafe')
<1>0. /\ \A w \in Writers : w \in Callers /\ StoreOf[w] \in Stores /\ w # None
      /\ \A w \in Writers : pc[w] # "idle" => key[w] \in Keys
      /\ \A w \in Writers : pc[w] \in HeldPlaces => key[w] \in Keys
  BY DEF Assumptions, Callers, Types, TypeOK, PlaceInv, HeldPlaces
<1>1. CASE PowerLoss \/ \E i \in Pids : Kill(i)
  <2>0. PICK P \in SUBSET Stores :
              /\ P = Stores \/ /\ UNCHANGED <<disk, tmps>>
                               /\ \E i \in Pids : P = {p \in Stores : pid[p] = i}
              /\ \A p \in Stores : IF p \in P THEN pid'[p] = None /\ ~swept'[p] /\ reap'[p] = {}
                                   ELSE /\ pid'[p] = pid[p] /\ swept'[p] = swept[p]
                                        /\ reap'[p] = reap[p] /\ held'[p] = held[p]
                                        /\ sweeper'[p] = sweeper[p]
              /\ \A t \in Callers : IF StoreOf[t] \in P THEN pc'[t] = "idle" ELSE pc'[t] = pc[t]
              /\ \A w \in Writers : IF StoreOf[w] \in P THEN file'[w] = None
                                    ELSE /\ file'[w] = file[w] /\ key'[w] = key[w]
                                         /\ val'[w] = val[w]
              /\ \A f \in tmps' : \E g \in tmps : f.hex = g.hex /\ f.pid = g.pid
              /\ (\A f, g \in tmps : f.hex = g.hex => f = g) =>
                    \A f, g \in tmps' : f.hex = g.hex => f = g
    BY <1>1, StopFrame
  <2>1. /\ P = Stores \/ UNCHANGED disk
        /\ \A p \in Stores : p \notin P => held'[p] = held[p]
        /\ \A t \in Callers : IF StoreOf[t] \in P THEN pc'[t] = "idle" ELSE pc'[t] = pc[t]
        /\ \A w \in Writers : StoreOf[w] \notin P => key'[w] = key[w] /\ val'[w] = val[w]
    BY <2>0
  <2>2. HeldInv'
    BY <1>0, <2>1 DEF HeldInv, HeldPlaces
  <2>3. DeleteSafe => DeleteSafe'
    BY <1>0, <2>1 DEF DeleteSafe
  <2> QED BY <2>2, <2>3
<1>2. CASE OtherStep
  <2>1. /\ UNCHANGED <<disk, held, val>>
        /\ \A w \in Writers : /\ key'[w] = key[w]
                              /\ pc'[w] = pc[w] \/ pc'[w] \in {"dir", "sweep", "lock"}
    BY <1>2, OtherFrame
  <2> QED BY <2>1 DEF HeldInv, HeldPlaces, DeleteSafe
<1>3. ASSUME NEW w \in Writers, WriterStep(w)
      PROVE  HeldInv' /\ (OneStore /\ DeleteSafe => DeleteSafe')
  <2>1. /\ \A u \in Writers \ {w} : pc'[u] = pc[u] /\ key'[u] = key[u] /\ val'[u] = val[u]
        /\ \A p \in Stores, k \in Keys : p # StoreOf[w] \/ k # key[w] => held'[p][k] = held[p][k]
        /\ \A k \in Keys \ {key[w]} : disk'[k] = disk[k]
    BY <1>0, <1>3, WriterFrame
  <2>2. \A u \in Writers : /\ pc[u] \in HeldPlaces => held[StoreOf[u]][key[u]] = u
                           /\ pc[u] \in HeldPlaces \ {"check", "unlink"} => val[u] # Absent
    BY DEF HeldInv
  <2>3. ASSUME NEW u \in Writers \ {w}, pc[u] \in HeldPlaces
        PROVE  /\ held'[StoreOf[u]][key[u]] = u
               /\ OneStore => disk'[key[u]] = disk[key[u]]
    <3>1. CASE Lock(w) /\ UNCHANGED disk
      BY <1>0, <2>1, <2>2, <2>3, <3>1 DEF Lock
    <3>2. CASE UNCHANGED <<held, disk>>
      BY <2>2, <2>3, <3>2
    <3>3. CASE pc[w] \in HeldPlaces
      <4>1. StoreOf[u] # StoreOf[w] \/ key[u] # key[w]
        BY <2>2, <2>3, <3>3
      <4> QED BY <1>0, <2>1, <2>2, <2>3, <4>1 DEF OneStore
    <3> QED BY <1>3, <3>1, <3>2, <3>3, LockFrame
  <2>4. /\ pc'[w] \in HeldPlaces => held'[StoreOf[w]][key'[w]] = w
        /\ pc'[w] \in HeldPlaces \ {"check", "unlink"} => val'[w] # Absent
        /\ pc'[w] = "unlink" => disk'[key'[w]] # Absent
    <3>1. CASE /\ held'[StoreOf[w]][key[w]] = w /\ UNCHANGED <<key, val>>
               /\ pc'[w] = (IF val[w] = Absent THEN "check" ELSE "create")
      BY <3>1
    <3>2. CASE pc'[w] \in {"dir", "idle"}
      BY <3>2 DEF HeldPlaces
    <3>3. CASE /\ pc[w] \in HeldPlaces /\ UNCHANGED <<held, key, val>>
               /\ pc'[w] = "unlink" => CheckExists(w)
               /\ pc'[w] \notin {"check", "unlink"} => pc[w] \notin {"check", "unlink"}
      BY <2>2, <3>3 DEF CheckExists, disks
    <3> QED BY <1>3, <3>1, <3>2, <3>3, LockFrame
  <2>5. HeldInv'
    BY <2>1, <2>2, <2>3, <2>4 DEF HeldInv
  <2>6. ASSUME OneStore, DeleteSafe PROVE DeleteSafe'
    BY <2>1, <2>3, <2>4, <2>6 DEF DeleteSafe, HeldPlaces
  <2> QED BY <2>5, <2>6
<1> QED BY <1>1, <1>2, <1>3, ByWhom

\* In one process no sweep takes a file that a writer works on.
LEMMA FlightStep ==
    ASSUME Assumptions, Types, NamesInv, OneProcess, InFlightInv, [Next]_vars
    PROVE  InFlightInv'
<1>0. /\ \A t \in Callers : StoreOf[t] \in Stores /\ (pc[t] # "idle" => pid[StoreOf[t]] \in Pids)
      /\ Writers \subseteq Callers /\ \A f \in tmps : f.pid \in Pids
      /\ \A w \in Writers : pc[w] \in {"write", "replace"} => file[w] # None /\ Mine(w) # {}
  BY DEF Assumptions, Callers, Types, TypeOK, PlaceInv, Up, InFlightInv, InFlightKept
<1>1. CASE PowerLoss \/ \E i \in Pids : Kill(i)
  <2>1. PICK P \in SUBSET Stores :
              /\ P = Stores \/ \E i \in Pids : P = {p \in Stores : pid[p] = i}
              /\ \A p \in Stores : reap'[p] = {} \/ reap'[p] = reap[p]
              /\ \A t \in Callers : IF StoreOf[t] \in P THEN pc'[t] = "idle" ELSE pc'[t] = pc[t]
    BY <1>1, StopFrame
  <2>2. \A t \in Callers : pc'[t] = "idle"
    BY <1>0, <2>1 DEF OneProcess
  <2> QED BY <1>0, <2>1, <2>2 DEF InFlightInv, InFlightKept
<1>2. CASE OtherStep
  <2>1. /\ UNCHANGED file
        /\ \A w \in Writers : pc'[w] = pc[w] \/ pc'[w] \in {"dir", "sweep", "lock"}
    BY <1>2, OtherFrame
  <2>2. tmps' = tmps /\ \A p \in Stores : reap'[p] = {}
    <3>1. CASE (\E p \in Stores : Start(p)) \/ UNCHANGED vars
      BY <3>1 DEF Start, vars, disks, procs, InFlightInv
    <3>2. ASSUME NEW r \in Readers, Read(r) \/ \E k \in Keys \cup {None} : BeginRead(r, k)
          PROVE  UNCHANGED <<tmps, reap>>
      BY <3>2 DEF Read, BeginRead, ListFiles, Stat, Open, ReadDone, ReadReturn, disks, procs
    <3>3. ASSUME NEW t \in Callers, Sweep(t) PROVE tmps' = tmps /\ \A p \in Stores : reap'[p] = {}
      <4>1. CASE DirReady(t) \/ SweepEnd(t)
        BY <4>1 DEF DirReady, SweepEnd, disks, procs, InFlightInv
      <4>2. CASE SweepBegin(t)
        <5>1. pid[StoreOf[t]] \in Pids
          BY <1>0, <4>2 DEF SweepBegin
        <5>2. {f.hex : f \in {g \in tmps : g.pid # pid[StoreOf[t]]}} = {}
          BY <1>0, <5>1 DEF OneProcess
        <5>3. reap' = [reap EXCEPT ![StoreOf[t]] = {}] /\ tmps' = tmps
          BY <4>2, <5>2 DEF SweepBegin, disks
        <5> QED BY <5>3 DEF InFlightInv, Types, TypeOK
      <4>3. CASE SweepOne(t)
        BY <1>0, <4>3 DEF SweepOne, InFlightInv
      <4> QED BY <3>3, <4>1, <4>2, <4>3 DEF Sweep
    <3> QED BY <1>2, <3>1, <3>2, <3>3 DEF OtherStep, InFlightInv
  <2>3. \A w \in Writers : Mine(w)' = Mine(w)
    BY <2>1, <2>2 DEF Mine
  <2> QED BY <2>1, <2>2, <2>3 DEF InFlightInv, InFlightKept
<1>3. ASSUME NEW w \in Writers, WriterStep(w) PROVE InFlightInv'
  <2>1. /\ reap' = reap /\ \A u \in Writers \ {w} : pc'[u] = pc[u] /\ file'[u] = file[u]
    BY <1>0, <1>3, WriterFrame
  <2>2. ASSUME NEW u \in Writers \ {w}, pc[u] \in {"write", "replace"} PROVE Mine(u)' # {}
    <3>1. PICK f \in tmps : f.hex = file[u]
      BY <1>0, <2>2 DEF Mine
    <3>2. f \notin Mine(w)
      BY <1>0, <2>2, <3>1 DEF Mine, NamesInv
    <3>3. \E g \in tmps' : g.hex = f.hex
      BY <1>3, <3>2, FileFrame
    <3> QED BY <2>1, <3>1, <3>3 DEF Mine
  <2>3. ASSUME pc'[w] \in {"write", "replace"} PROVE Mine(w)' # {}
    <3>1. CASE \E f : tmps' = tmps \cup {f} /\ f.hex = file'[w]
      BY <3>1 DEF Mine
    <3>2. CASE /\ pc[w] = "write" /\ UNCHANGED file
               /\ \A g \in tmps : \E f \in tmps' : f.hex = g.hex
      BY <1>0, <3>2 DEF Mine
    <3> QED BY <1>3, <2>3, <3>1, <3>2, FileFrame
  <2> QED BY <2>1, <2>2, <2>3 DEF InFlightInv, InFlightKept
<1> QED BY <1>1, <1>2, <1>3, ByWhom

\* With one store, and no process id used twice, a sweep that ended left no orphan.
LEMMA SweptStep ==
    ASSUME Assumptions, Types, NamesInv, OneStore, ~PidReuse, SweptInv, [Next]_vars
    PROVE  SweptInv'
<1> DEFINE Early == {"idle", "dir", "sweep"}
<1>0. /\ \A t \in Callers : StoreOf[t] \in Stores /\ (pc[t] # "idle" => pid[StoreOf[t]] # None)
      /\ \A w \in Writers : w \in Callers /\ w # None
      /\ \A f \in tmps : f.hex # None
      /\ \A w \in Writers : file[w] # None <=> pc[w] \in {"write", "replace", "fsync"}
      /\ \A p, q \in Stores : p = q
      /\ pc \in [Callers -> WritePlaces \cup ReadPlaces] /\ None \notin Callers
      /\ swept \in [Stores -> BOOLEAN] /\ sweeper \in [Stores -> Callers \cup {None}]
      /\ reap \in [Stores -> SUBSET Hexes] /\ pid \in [Stores -> Pids \cup {None}]
      /\ None \notin Pids
  BY DEF Assumptions, Callers, Types, TypeOK, PlaceInv, Up, OneStore, WritePlaces, ReadPlaces
<1>1. CASE PowerLoss \/ \E i \in Pids : Kill(i)
  <2>1. PICK P \in SUBSET Stores :
              /\ P = Stores \/ UNCHANGED tmps
              /\ \A p \in Stores : IF p \in P THEN pid'[p] = None /\ ~swept'[p] /\ reap'[p] = {}
                                   ELSE /\ pid'[p] = pid[p] /\ swept'[p] = swept[p]
                                        /\ reap'[p] = reap[p] /\ held'[p] = held[p]
                                        /\ sweeper'[p] = sweeper[p]
              /\ \A t \in Callers : IF StoreOf[t] \in P THEN pc'[t] = "idle" ELSE pc'[t] = pc[t]
              /\ \A w \in Writers : IF StoreOf[w] \in P THEN file'[w] = None ELSE file'[w] = file[w]
    BY <1>1, StopFrame
  <2>2. CASE P = Stores
    BY <1>0, <2>1, <2>2 DEF SweptInv, OrphansReaped
  <2>3. CASE P # Stores
    <3>1. P = {}
      <4>1. PICK p \in Stores : p \notin P
        BY <2>3
      <4> QED BY <1>0, <4>1
    <3>2. /\ tmps' = tmps
          /\ \A p \in Stores : pid'[p] = pid[p] /\ swept'[p] = swept[p] /\ reap'[p] = reap[p]
                             /\ sweeper'[p] = sweeper[p]
          /\ \A t \in Callers : pc'[t] = pc[t]
          /\ \A w \in Writers : file'[w] = file[w]
      BY <1>0, <2>1, <2>3, <3>1
    <3> QED BY <3>2 DEF SweptInv, OrphansReaped
  <2> QED BY <2>2, <2>3
<1>2. ASSUME NEW p \in Stores, Start(p) PROVE SweptInv'
  <2>1. PICK i \in Pids : /\ (\E q \in Stores : pid[q] = i) \/ \A f \in tmps : f.pid # i
                          /\ pid' = [pid EXCEPT ![p] = i]
    BY <1>2 DEF Start
  <2>2. pid[p] = None /\ UNCHANGED <<tmps, swept, sweeper, reap, pc, file>>
    BY <1>2 DEF Start, disks, calls
  <2>3. \A f \in tmps : f.pid # i
    BY <1>0, <2>1, <2>2
  <2> QED BY <1>0, <2>1, <2>2, <2>3 DEF SweptInv, OrphansReaped
<1>3. ASSUME NEW t \in Callers, DirReady(t) PROVE SweptInv'
  <2>1. /\ pc[t] = "dir" /\ swept[StoreOf[t]] /\ UNCHANGED <<tmps, pid, swept, sweeper, reap, file>>
        /\ pc' = [pc EXCEPT ![t] = IF t \in Writers THEN "lock"
                                   ELSE IF key[t] = None THEN "list" ELSE "stat"]
    BY <1>3 DEF DirReady, Goto, disks, procs, calls
  <2>2. /\ \A s \in Callers \ {t} : pc'[s] = pc[s]
        /\ pc'[t] # "sweep"
    BY <1>0, <2>1
  <2>3. \A p \in Stores : swept[p]
    BY <1>0, <2>1
  <2> QED BY <1>0, <2>1, <2>2, <2>3 DEF SweptInv, OrphansReaped
<1>4. ASSUME NEW t \in Callers, SweepBegin(t) PROVE SweptInv'
  <2>1. /\ ~swept[StoreOf[t]] /\ sweeper[StoreOf[t]] = None
        /\ sweeper' = [sweeper EXCEPT ![StoreOf[t]] = t] /\ pc' = [pc EXCEPT ![t] = "sweep"]
        /\ reap' = [reap EXCEPT ![StoreOf[t]]
                       = {f.hex : f \in {g \in tmps : g.pid # pid[StoreOf[t]]}}]
        /\ UNCHANGED <<tmps, pid, swept, file>> /\ pid[StoreOf[t]] # None
    BY <1>0, <1>4 DEF SweepBegin, Goto, disks, calls
  <2>2. \A f \in tmps : f.pid # pid[StoreOf[t]]
    BY <1>0, <2>1 DEF SweptInv
  <2>3. \A f \in tmps : f.hex \in reap'[StoreOf[t]]
    BY <1>0, <2>1, <2>2
  <2>4. \A s \in Callers \ {t} : pc[s] # "sweep"
    BY <1>0, <2>1 DEF SweptInv
  <2>5. \A p \in Stores : p = StoreOf[t]
    BY <1>0
  <2>6. /\ sweeper'[StoreOf[t]] = t /\ pc'[t] = "sweep"
        /\ \A s \in Callers \ {t} : pc'[s] = pc[s]
    BY <1>0, <2>1
  <2> QED BY <1>0, <2>1, <2>2, <2>3, <2>4, <2>5, <2>6 DEF SweptInv, OrphansReaped
<1>5. ASSUME NEW t \in Callers, SweepOne(t) PROVE SweptInv'
  <2>1. PICK h \in reap[StoreOf[t]] : /\ tmps' = {f \in tmps : f.hex # h}
                                      /\ reap' = [reap EXCEPT ![StoreOf[t]] = @ \ {h}]
    BY <1>5 DEF SweepOne
  <2>2. UNCHANGED <<pid, swept, sweeper, pc, file>>
    BY <1>5 DEF SweepOne, calls
  <2>3. \A p \in Stores : reap'[p] = reap[p] \ {h}
    BY <1>0, <2>1
  <2> QED BY <1>0, <2>1, <2>2, <2>3 DEF SweptInv, OrphansReaped
<1>6. ASSUME NEW t \in Callers, SweepEnd(t) PROVE SweptInv'
  <2>1. /\ pc[t] = "sweep" /\ reap[StoreOf[t]] = {} /\ pc' = [pc EXCEPT ![t] = "dir"]
        /\ swept' = [swept EXCEPT ![StoreOf[t]] = TRUE]
        /\ UNCHANGED <<tmps, pid, reap, file>>
    BY <1>6 DEF SweepEnd, Goto, disks, calls
  <2>2. tmps = {}
    BY <1>0, <2>1 DEF SweptInv
  <2>3. \A s \in Callers : pc'[s] # "sweep"
    BY <1>0, <2>1 DEF SweptInv
  <2>4. \A p \in Stores : swept'[p] /\ pid[p] # None
    BY <1>0, <2>1
  <2> QED BY <2>1, <2>2, <2>3, <2>4 DEF SweptInv, OrphansReaped
<1>7. ASSUME NEW r \in Readers, Read(r) \/ \E k \in Keys \cup {None} : BeginRead(r, k)
      PROVE  SweptInv'
  <2>1. UNCHANGED <<tmps, pid, swept, sweeper, reap, file>>
    BY <1>7 DEF Read, BeginRead, ListFiles, Stat, Open, ReadDone, ReadReturn, disks, procs, calls
  <2>2. \/ pc' = [pc EXCEPT ![r] = "dir"] \/ pc' = [pc EXCEPT ![r] = "idle"] \/ UNCHANGED pc
        \/ pc[r] \in {"list", "stat", "open"}
           /\ \E l \in {"stat", "open", "done"} : pc' = [pc EXCEPT ![r] = l]
    <3>1. CASE \/ ListFiles(r) \/ Open(r) \/ ReadDone(r) \/ ReadReturn(r)
               \/ \E k \in Keys \cup {None} : BeginRead(r, k)
      <4>1. CASE ListFiles(r) \/ Open(r) \/ ReadDone(r)
        BY <4>1 DEF ListFiles, Open, ReadDone, Goto
      <4>2. CASE ReadReturn(r) \/ \E k \in Keys \cup {None} : BeginRead(r, k)
        BY <4>2 DEF BeginRead, ReadReturn, Goto
      <4> QED BY <3>1, <4>1, <4>2
    <3>2. CASE Stat(r)
      BY <3>2 DEF Stat, Goto
    <3> QED BY <1>7, <3>1, <3>2 DEF Read
  <2>3. r \in Callers
    BY DEF Callers
  <2>4. \A t \in Callers : /\ pc'[t] \notin Early => pc[t] \notin Early
                           /\ pc'[t] = "sweep" => pc[t] = "sweep"
    BY <1>0, <2>2, <2>3
  <2> HIDE DEF Early
  <2> QED BY <2>1, <2>4 DEF SweptInv, OrphansReaped, Early
<1>8. ASSUME NEW w \in Writers, WriterStep(w) PROVE SweptInv'
  <2>1. /\ UNCHANGED <<pid, swept, sweeper, reap>>
        /\ \A t \in Callers \ {w} : pc'[t] = pc[t]
        /\ \A u \in Writers \ {w} : file'[u] = file[u]
    BY <1>8, WriterFrame
  <2>2. pc'[w] \in {"idle", "dir"} \/ pc[w] \in HeldPlaces \cup {"lock"}
    BY <1>8, LockFrame DEF Lock
  <2>3. pc'[w] # "sweep"
    BY <1>8, <2>2, LockFrame DEF HeldPlaces
  <2>4. CASE \E p \in Stores : ~swept[p]
    <3>1. pc[w] \in Early
      BY <1>0, <2>4 DEF SweptInv
    <3>2. tmps' \subseteq tmps
      BY <1>8, <3>1, FileFrame DEF CreateTmp
    <3>3. \A p \in Stores : ~swept[p]
      BY <1>0, <2>4
    <3>4. pc'[w] \in {"idle", "dir"}
      BY <2>2, <3>1 DEF HeldPlaces
    <3> QED BY <1>0, <2>1, <3>2, <3>3, <3>4 DEF SweptInv, OrphansReaped
  <2>5. CASE \A p \in Stores : swept[p]
    <3>1. ASSUME NEW p \in Stores, NEW f \in tmps' PROVE \E u \in Writers : file'[u] = f.hex
      <4>1. \A g \in tmps : \E u \in Writers : file[u] = g.hex
        BY <2>5 DEF SweptInv, OrphansReaped
      <4>2. CASE \A g \in tmps' : \E e \in tmps : g.hex = e.hex
        <5>1. CASE UNCHANGED file
          BY <4>1, <4>2, <5>1
        <5>2. CASE file'[w] = None /\ tmps' = tmps \ Mine(w)
          <6>1. f \in tmps /\ f.hex # file[w]
            BY <5>2 DEF Mine
          <6> QED BY <2>1, <4>1, <6>1
        <5>3. CASE file'[w] = None /\ tmps' = tmps /\ (pc[w] = "fsync" \/ Mine(w) = {})
          <6>1. f \in tmps /\ f.hex # file[w]
            BY <5>3 DEF Mine, NamesInv
          <6> QED BY <2>1, <4>1, <6>1
        <5>4. CASE CreateTmp(w)
          <6>1. file[w] = None
            BY <1>0, <5>4 DEF CreateTmp
          <6>2. PICK e \in tmps : f.hex = e.hex
            BY <4>2
          <6>3. PICK u \in Writers : file[u] = e.hex
            BY <4>1
          <6> QED BY <1>0, <2>1, <6>1, <6>2, <6>3
        <5> QED BY <1>8, <5>1, <5>2, <5>3, <5>4, FileFrame
      <4>3. CASE CreateTmp(w) /\ \E e : tmps' = tmps \cup {e} /\ e.hex = file'[w]
        <5>1. file[w] = None
          BY <1>0, <4>3 DEF CreateTmp
        <5>2. CASE f \in tmps
          <6>1. PICK u \in Writers : file[u] = f.hex
            BY <4>1, <5>2
          <6> QED BY <1>0, <2>1, <5>1, <5>2, <6>1
        <5>3. CASE f \notin tmps
          BY <4>3, <5>3
        <5> QED BY <5>2, <5>3
      <4>4. \/ CreateTmp(w) /\ \E e : tmps' = tmps \cup {e} /\ e.hex = file'[w]
            \/ \A g \in tmps' : \E e \in tmps : g.hex = e.hex
        BY <1>8, FileFrame
      <4> QED BY <4>2, <4>3, <4>4
    <3>2. \A t \in Callers : pc'[t] # "sweep"
      BY <1>0, <2>1, <2>3, <2>5 DEF SweptInv
    <3> QED BY <1>0, <2>1, <2>5, <3>1, <3>2 DEF SweptInv, OrphansReaped
  <2> QED BY <2>4, <2>5
<1>9. CASE UNCHANGED vars
  BY <1>9 DEF vars, disks, procs, calls, SweptInv, OrphansReaped
<1> QED
  BY <1>1, <1>2, <1>3, <1>4, <1>5, <1>6, <1>7, <1>8, <1>9, ByWhom DEF OtherStep, Sweep

\* RemovesOnce holds: the JsonDBs of one process never lose the tmp file of a save
\* under way to a sweep, and one JsonDB alone deletes under its lock what it found,
\* and leaves behind its sweep no tmp file but those of its own saves.
THEOREM RemovesSafely == ASSUME Assumptions PROVE Spec => []RemovesOnce
<1>1. Init => RemoveInv
  <2> SUFFICES ASSUME Init PROVE RemoveInv
    OBVIOUS
  <2>1. Types
    BY InitTypes
  <2> QED BY <2>1 DEF Init, RemoveInv, NamesInv, HeldInv, HeldPlaces, InFlightInv, InFlightKept,
                      DeleteSafe, SweptInv, OrphansReaped, Callers, Mine
<1>2. RemoveInv /\ [Next]_vars => RemoveInv'
  BY TypesStep, NamesStep, HeldStep, FlightStep, SweptStep DEF RemoveInv, OneStore, OneProcess
<1>3. RemoveInv => RemovesOnce
  BY DEF RemoveInv, RemovesOnce, InFlightInv, SweptInv
<1> QED BY <1>1, <1>2, <1>3, PTL DEF Spec

\* SavesDurable holds: an acknowledged save stays, in sight and through a power
\* loss, and no record is ever torn.
THEOREM SavesAreDurable == ASSUME Assumptions PROVE Spec => []SavesDurable
<1>1. DurableInv => SavesDurable
  BY DEF DurableInv, SavesDurable
<1> QED BY <1>1, Durable, PTL
=============================================================================
