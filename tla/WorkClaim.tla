------------------------------ MODULE WorkClaim ------------------------------
(***************************************************************************)
(* Work-claim leases (db/work_claim.py).  Workers on several hosts lease a *)
(* record, process it, and delete or release it; the token written into    *)
(* the record says whose it is.  A lease can be taken over once its        *)
(* deadline has passed on the clock of whoever asks.                       *)
(*                                                                         *)
(* Time is relative: a lease's left is what remains until its deadline on  *)
(* a reference clock, and Offset[w] is how far w's clock is ahead of it.   *)
(***************************************************************************)
EXTENDS Integers

CONSTANTS Workers, Records, NoToken,
          TTL,       \* the lease, in ticks (JVSPATIAL_WORK_CLAIM_STALE_SECONDS)
          Offset,    \* worker -> what its clock is ahead of the slowest
          Skew,      \* the largest difference between two workers' clocks
          Latency,   \* bound: ticks that pass during one database call
          Native,    \* are find_one_and_update and _delete atomic (MongoDB,
                     \* PostgreSQL), or a read and a write?
          MaxClaims, \* bound: claims each worker asks for
          MaxLosses  \* bound: answers lost and workers crashed

ASSUME TimeAssumption == TTL \in Nat /\ Latency \in Nat /\ Skew \in Nat
ASSUME OffsetAssumption == Offset \in [Workers -> 0..Skew]
ASSUME NativeAssumption == Native \in BOOLEAN
ASSUME BoundAssumption == MaxClaims \in Nat /\ MaxLosses \in Nat
ASSUME NoTokenAssumption == NoToken \notin Workers \X Nat

Tokens == Workers \X Nat              \* secrets.token_hex: new for every claim

VARIABLES doc,      \* record -> [there, tok, left]
          worker,   \* worker -> what it does
          claims,   \* worker -> claims asked for: numbers its tokens
          losses,
          done      \* record -> delete_claimed_record returned True

vars == <<doc, worker, claims, losses, done>>

Docs == [there : BOOLEAN, tok : Tokens \cup {NoToken}, left : Int]
Steps == {"idle", "call", "write", "work"}
WorkerStates == [pc : Steps, op : {"claim", "release", "delete"}, rec : Records,
                 tok : Tokens \cup {NoToken}, left : Int, age : 0..Latency, again : BOOLEAN]

Types ==
    /\ doc \in [Records -> Docs]
    /\ worker \in [Workers -> WorkerStates]
    /\ claims \in [Workers -> Nat]
    /\ losses \in Nat
    /\ done \in [Records -> BOOLEAN]

(* A worker has a token while it does something, and the two claim fields  *)
(* of a record are set and unset together.                                 *)
Paired ==
    /\ \A w \in Workers : worker[w].pc # "idle" => worker[w].tok # NoToken
    /\ \A r \in Records : doc[r].tok = NoToken => doc[r].left = 0

TypeOK == Types /\ Paired

Fresh == [there |-> TRUE, tok |-> NoToken, left |-> 0]
Removed == [there |-> FALSE, tok |-> NoToken, left |-> 0]
Idle(r) == [pc |-> "idle", op |-> "claim", rec |-> r, tok |-> NoToken,
            left |-> 0, age |-> 0, again |-> FALSE]

Init ==
    /\ doc = [r \in Records |-> Fresh]
    /\ \E r \in Records : worker = [w \in Workers |-> Idle(r)]
    /\ claims = [w \in Workers |-> 0]
    /\ losses = 0
    /\ done = [r \in Records |-> FALSE]

(* claim_record: the clock is read and the token drawn before the call. *)
AskClaim(w, r) ==
    /\ worker[w].pc = "idle" /\ claims[w] < MaxClaims
    /\ claims' = [claims EXCEPT ![w] = @ + 1]
    /\ worker' = [worker EXCEPT ![w] =
          [pc |-> "call", op |-> "claim", rec |-> r, tok |-> <<w, claims[w]>>,
           left |-> TTL + Offset[w], age |-> 0, again |-> FALSE]]
    /\ UNCHANGED <<doc, losses, done>>

(* release_claim, delete_claimed_record, with the token of the claim. *)
AskEnd(w, op) ==
    /\ worker[w].pc = "work"
    /\ worker' = [worker EXCEPT ![w] = [worker[w] EXCEPT !.pc = "call", !.op = op]]
    /\ UNCHANGED <<doc, claims, losses, done>>

(* The query of the call matches the record. *)
MatchesGone(w) ==                             \* mutant of Matches: upserts
    LET d == doc[worker[w].rec] IN
    IF worker[w].op = "claim" THEN d.tok = NoToken \/ d.left < Offset[w] - worker[w].age
                              ELSE d.tok = worker[w].tok
MatchesLate(w) ==                             \* mutant of Matches: takes a lease over too soon
    LET d == doc[worker[w].rec] IN
    /\ d.there
    /\ IF worker[w].op = "claim" THEN d.tok = NoToken \/ d.left <= Skew
                                 ELSE d.tok = worker[w].tok
Matches(w) ==
    LET d == doc[worker[w].rec] IN
    /\ d.there
    /\ IF worker[w].op = "claim"
       THEN d.tok = NoToken \/ d.left < Offset[w] - worker[w].age
       ELSE d.tok = worker[w].tok

(* What the call leaves in the record. *)
After(w) == CASE worker[w].op = "claim" ->
                    [there |-> TRUE, tok |-> worker[w].tok, left |-> worker[w].left]
              [] worker[w].op = "release" -> Fresh
              [] OTHER -> Removed

(* The call returned that it found a record, or that it found none. *)
Succeeds(w) ==
    /\ worker' = [worker EXCEPT ![w] = IF worker[w].op # "claim" THEN Idle(worker[w].rec)
                      ELSE [worker[w] EXCEPT !.pc = "work", !.age = 0, !.again = FALSE]]
    /\ done' = IF worker[w].op = "delete" THEN [done EXCEPT ![worker[w].rec] = TRUE] ELSE done
Fails(w) == worker' = [worker EXCEPT ![w] = Idle(worker[w].rec)] /\ UNCHANGED done

Miss(w) ==
    /\ worker[w].pc = "call" /\ ~Matches(w)
    /\ Fails(w)
    /\ UNCHANGED <<doc, claims, losses>>

(* A native call finds and changes the record in one step. *)
Apply(w) ==
    /\ Native /\ worker[w].pc = "call" /\ Matches(w)
    /\ doc' = [doc EXCEPT ![worker[w].rec] = After(w)]
    /\ Succeeds(w)
    /\ UNCHANGED <<claims, losses>>

(* The same, but the connection breaks before the answer comes.  MongoDB   *)
(* sends the call once more; the second time the helper swallows the error.*)
ApplyLost(w) ==
    /\ Native /\ worker[w].pc = "call" /\ Matches(w) /\ losses < MaxLosses
    /\ losses' = losses + 1
    /\ doc' = [doc EXCEPT ![worker[w].rec] = After(w)]
    /\ IF worker[w].again THEN Fails(w)
       ELSE worker' = [worker EXCEPT ![w] = [worker[w] EXCEPT !.again = TRUE]] /\ UNCHANGED done
    /\ UNCHANGED claims

(* The defaults of db/database.py read, and write what they made of it:    *)
(* a save stores the whole record, even one that is gone by then.          *)
Read(w) ==
    /\ ~Native /\ worker[w].pc = "call" /\ Matches(w)
    /\ worker' = [worker EXCEPT ![w] = [worker[w] EXCEPT !.pc = "write"]]
    /\ UNCHANGED <<doc, claims, losses, done>>

Write(w) ==
    /\ worker[w].pc = "write"
    /\ doc' = [doc EXCEPT ![worker[w].rec] = After(w)]
    /\ Succeeds(w)
    /\ UNCHANGED <<claims, losses>>

(* A worker dies; its successor knows nothing of the claim. *)
Crash(w) ==
    /\ worker[w].pc # "idle" /\ losses < MaxLosses
    /\ losses' = losses + 1
    /\ Fails(w)
    /\ UNCHANGED <<doc, claims>>

(* One tick passes.  What no call still under way can tell from expired    *)
(* counts no further.                                                      *)
Less(n) == IF n > -1 - Latency THEN n - 1 ELSE n
Older(d) == IF d.tok = NoToken THEN d ELSE [d EXCEPT !.left = Less(d.left)]
InCall(s) == s.pc \in {"call", "write"}
Aged(s) == [s EXCEPT !.left = IF s.pc = "idle" THEN s.left ELSE Less(s.left),
                     !.age = IF InCall(s) THEN s.age + 1 ELSE s.age]
Tick ==
    /\ \A w \in Workers : InCall(worker[w]) => worker[w].age < Latency
    /\ doc' = [r \in Records |-> Older(doc[r])]
    /\ worker' = [w \in Workers |-> Aged(worker[w])]
    /\ UNCHANGED <<claims, losses, done>>

Next ==
    \/ \E w \in Workers : \/ \E r \in Records : AskClaim(w, r)
                          \/ \E op \in {"release", "delete"} : AskEnd(w, op)
                          \/ Miss(w) \/ Apply(w) \/ ApplyLost(w)
                          \/ Read(w) \/ Write(w) \/ Crash(w)
    \/ Tick

Spec == Init /\ [][Next]_vars

(***************************************************************************)
(* Properties.                                                             *)
(***************************************************************************)
(* A worker may rely on its claim while more than the largest difference   *)
(* of clocks remains of its lease, by its own clock.                       *)
Trusts(w) == worker[w].pc = "work" /\ worker[w].left >= Offset[w] + Skew

(* "Only one worker processes it": no two workers rely on a claim of one   *)
(* record at the same time, through expiry, takeover, crashes, lost        *)
(* answers and clocks that differ.  (claim_record.)                        *)
Exclusive ==
    \A w, u \in Workers : Trusts(w) /\ Trusts(u) /\ worker[w].rec = worker[u].rec => w = u

(* A record that delete_claimed_record reported deleted never comes back,  *)
(* whatever late calls with older tokens still do.                         *)
DeletedForGood == \A r \in Records : done[r] => ~doc[r].there
=============================================================================
