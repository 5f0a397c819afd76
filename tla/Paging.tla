-------------------------------- MODULE Paging ---------------------------------
(***************************************************************************)
(* Reading a collection page by page while it changes: Database.find_iter  *)
(* (db/database.py, db/postgres.py), GraphContext.find_page                *)
(* (core/context.py) and ObjectPager (core/pager.py).  Each page is one    *)
(* find, a step; a page of ObjectPager by number takes up to three.        *)
(***************************************************************************)
EXTENDS Integers, Sequences, SequencesExt, FiniteSets

CONSTANTS Readers,
          MaxId,            \* ids are 1..MaxId, in their order
          MaxValue,         \* values of the sort field are 1..MaxValue; 0 if it has none
          Sizes,            \* page sizes
          Modes,            \* "iter", "page", "after", "number"
          MaxWrites         \* bound: saves and deletes

Assumptions == /\ {MaxId, MaxValue, MaxWrites} \subseteq Nat /\ Sizes \subseteq Nat \ {0}
               /\ Modes \subseteq {"iter", "page", "after", "number"}

Ids == 1..MaxId
Absent == -1                \* no record; a record that the query does not match is one

VARIABLES value,            \* the sort field of each record
          mode, dir, size,  \* of each reader: what it calls, 1 or -1, its page size
          cursor,           \* the last record seen: its id, 0 if none, and its value
          at,               \* what the reader does next
          out,              \* the ids it was given
          pager,            \* ObjectPager: current_page, total_pages
          still,            \* history: records unchanged since it began
          writes

vars == <<value, mode, dir, size, cursor, at, out, pager, still, writes>>

Places == {"begin", "find", "count", "skip", "slice", "done"}
Start == [id |-> 0, sort |-> 0]

TypeOK ==
    /\ value \in [Ids -> Absent..MaxValue]
    /\ mode \in [Readers -> Modes] /\ dir \in [Readers -> {1, -1}] /\ size \in [Readers -> Sizes]
    /\ cursor \in [Readers -> [id : 0..MaxId, sort : 0..MaxValue]] /\ at \in [Readers -> Places]
    /\ \A r \in Readers : out[r] \in Seq(Ids) /\ still[r] \subseteq Ids
    /\ \A r \in Readers : {pager[r].current, pager[r].total} \subseteq 0..MaxId
    /\ writes \in 0..MaxWrites

Init ==
    /\ value \in [Ids -> {Absent, 0, MaxValue}]
    /\ mode \in [Readers -> Modes] /\ size \in [Readers -> Sizes]
    /\ dir \in {d \in [Readers -> {1, -1}] : \A r \in Readers : d[r] = 1 \/ mode[r] = "page"}
    /\ cursor = [r \in Readers |-> Start] /\ at = [r \in Readers |-> "begin"]
    /\ out = [r \in Readers |-> << >>] /\ still = [r \in Readers |-> Ids]
    /\ pager = [r \in Readers |-> [current |-> 0, total |-> 0]]
    /\ writes = 0
-----------------------------------------------------------------------------
(* The order of find: records with no value last in both directions, and   *)
(* the id to break ties.                                                   *)
Precedes(d, i, j) ==
    IF value[i] = value[j] THEN d * i < d * j
    ELSE value[j] = 0 \/ (value[i] # 0 /\ d * value[i] < d * value[j])

ById(ids) == SetToSortSeq(ids, <)
ByValue(d, ids) == SetToSortSeq(ids, LAMBDA i, j : Precedes(d, i, j))
Take(s, n) == SubSeq(s, 1, IF Len(s) < n THEN Len(s) ELSE n)
Matching == {i \in Ids : value[i] # Absent}

Gives(r, ids, place) ==
    /\ out' = [out EXCEPT ![r] = @ \o ids]
    /\ at' = [at EXCEPT ![r] = place]

Begin(r) ==
    /\ at[r] = "begin"
    /\ at' = [at EXCEPT ![r] = IF mode[r] = "number" THEN "count" ELSE "find"]
    /\ pager' = [pager EXCEPT ![r].current = IF mode[r] = "number" THEN 1 ELSE 0]
    /\ still' = [still EXCEPT ![r] = Ids]
    /\ UNCHANGED <<value, mode, dir, size, cursor, out, writes>>

(* find_iter: records with an id above the last one, until a page is short. *)
AfterPage(r, ids) == {i \in Matching : i > cursor[r].id}

find_iter(r) ==
    /\ mode[r] = "iter" /\ at[r] = "find"
    /\ LET rows == Take(ById(AfterPage(r, Matching)), size[r])
       IN /\ cursor' = [cursor EXCEPT ![r].id = IF rows = << >> THEN @ ELSE Last(rows)]
          /\ Gives(r, rows, IF Len(rows) < size[r] THEN "done" ELSE "find")
    /\ UNCHANGED <<value, mode, dir, size, pager, still, writes>>

(* get_page(after_id = ...): one more than the page is read, to know       *)
(* whether there is a next one.                                            *)
get_page_after(r) ==
    /\ mode[r] = "after" /\ at[r] = "find"
    /\ LET rows == ById(AfterPage(r, Matching))
           page == Take(rows, size[r])
       IN /\ cursor' = [cursor EXCEPT ![r].id = IF page = << >> THEN @ ELSE Last(page)]
          /\ Gives(r, page, IF Len(rows) > size[r] THEN "find" ELSE "done")
    /\ UNCHANGED <<value, mode, dir, size, pager, still, writes>>

(* find_page: what follows the cursor in the order of find.                *)
KeysetNoTail(r, i) ==                   \* mutant of Keyset: no branch for a missing value
    LET c == cursor[r] IN
    IF c.sort = 0 THEN value[i] = 0 /\ dir[r] * i > dir[r] * c.id
    ELSE value[i] > 0 /\ (dir[r] * value[i] > dir[r] * c.sort
                          \/ (value[i] = c.sort /\ dir[r] * i > dir[r] * c.id))
Keyset(r, i) ==
    LET c == cursor[r] IN
    IF c.sort = 0 THEN value[i] = 0 /\ dir[r] * i > dir[r] * c.id
    ELSE \/ value[i] = 0
         \/ dir[r] * value[i] > dir[r] * c.sort
         \/ value[i] = c.sort /\ dir[r] * i > dir[r] * c.id

find_page(r) ==
    /\ mode[r] = "page" /\ at[r] = "find"
    /\ LET rows == ByValue(dir[r], {i \in Matching : cursor[r].id = 0 \/ Keyset(r, i)})
           page == Take(rows, size[r])
           more == Len(rows) > size[r]
       IN /\ cursor' = IF more THEN [cursor EXCEPT ![r] = [id |-> Last(page), sort |-> value[Last(page)]]]
                       ELSE cursor
          /\ Gives(r, page, IF more THEN "find" ELSE "done")
    /\ UNCHANGED <<value, mode, dir, size, pager, still, writes>>

(* get_page by number, sorted by id, as next_page goes on: the records are *)
(* counted; those before the page are read to find the last of them; then  *)
(* the page is what follows that one.                                      *)
PagesOf(n, s) == IF n = 0 THEN 1 ELSE (n + s - 1) \div s

count(r) ==
    /\ mode[r] = "number" /\ at[r] = "count"
    /\ LET total == PagesOf(Cardinality(Matching), size[r])
           page == IF pager[r].current > total THEN total ELSE pager[r].current
       IN /\ pager' = [pager EXCEPT ![r] = [current |-> page, total |-> total]]
          /\ at' = [at EXCEPT ![r] = IF page > 1 THEN "skip" ELSE "slice"]
    /\ cursor' = [cursor EXCEPT ![r] = Start]
    /\ UNCHANGED <<value, mode, dir, size, out, still, writes>>

Skip(r) ==
    /\ at[r] = "skip"
    /\ LET rows == Take(ById(Matching), (pager[r].current - 1) * size[r])
       IN IF rows = << >> THEN Gives(r, << >>, "done") /\ UNCHANGED cursor
          ELSE /\ cursor' = [cursor EXCEPT ![r].id = Last(rows)]
               /\ at' = [at EXCEPT ![r] = "slice"] /\ UNCHANGED out
    /\ UNCHANGED <<value, mode, dir, size, pager, still, writes>>

Slice(r) ==
    /\ at[r] = "slice"
    /\ LET more == pager[r].current < pager[r].total
       IN /\ Gives(r, Take(ById(AfterPage(r, Matching)), size[r]), IF more THEN "count" ELSE "done")
          /\ pager' = [pager EXCEPT ![r].current = IF more THEN @ + 1 ELSE @]
    /\ UNCHANGED <<value, mode, dir, size, cursor, still, writes>>

Write(i, v) ==
    /\ value[i] # v /\ writes < MaxWrites /\ writes' = writes + 1
    /\ value' = [value EXCEPT ![i] = v]
    /\ still' = [r \in Readers |-> still[r] \ {i}]
    /\ UNCHANGED <<mode, dir, size, cursor, at, out, pager>>

Next ==
    \/ \E r \in Readers :
        \/ Begin(r) \/ find_iter(r) \/ find_page(r) \/ get_page_after(r)
        \/ count(r) \/ Skip(r) \/ Slice(r)
    \/ \E i \in Ids, v \in Absent..MaxValue : Write(i, v)

Spec == Init /\ [][Next]_vars
-----------------------------------------------------------------------------
Times(r, i) == Cardinality({k \in DOMAIN out[r] : out[r][k] = i})

\* Whatever is saved and deleted between the pages, a reader that goes on from
\* the last record is given each record that did not change exactly once if it
\* matches, and never otherwise; and records in their order, each once, if it
\* goes by ids alone.  A reader that goes by page numbers is given that only
\* when nothing changes (database.py:361, context.py:1440, pager.py:121, 176).
PagesComplete ==
    \A r \in Readers : at[r] = "done" =>
        /\ (mode[r] # "number" \/ still[r] = Ids) =>
            \A i \in still[r] : Times(r, i) = (IF value[i] = Absent THEN 0 ELSE 1)
        /\ mode[r] \in {"iter", "after"} =>
            \A j \in DOMAIN out[r], k \in DOMAIN out[r] : j < k => out[r][j] < out[r][k]
        /\ mode[r] = "page" /\ still[r] = Ids => out[r] = ByValue(dir[r], Matching)
=============================================================================
