------------------------------ MODULE KeyMutex ------------------------------
(***************************************************************************)
(* What PathLockManager promises its callers (db/_path_locks.py): one      *)
(* mutual-exclusion lock per path.  Threads in the `with' block of a path  *)
(* are in inside[path]; a thread enters only an empty block.               *)
(***************************************************************************)
CONSTANTS Threads, Keys
VARIABLE inside

Init == inside = [k \in Keys |-> {}]

Enter(t, k) == /\ inside[k] = {}
               /\ inside' = [inside EXCEPT ![k] = {t}]

Leave(t, k) == /\ inside[k] = {t}
               /\ inside' = [inside EXCEPT ![k] = {}]

Next == \E t \in Threads, k \in Keys : Enter(t, k) \/ Leave(t, k)

Spec == Init /\ [][Next]_inside
=============================================================================
