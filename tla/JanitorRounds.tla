---------------------------- MODULE JanitorRounds ----------------------------
(***************************************************************************)
(* The rounds of the media janitor (lambda/media_janitor) over all rows of *)
(* the job table.  MediaJob follows one row; here are several, in the      *)
(* order of the scan, all terminal and past the guard of their readers.  A *)
(* call that raises ends before the rows behind; the function service then *)
(* calls the janitor again, and the schedule does every five minutes.      *)
(***************************************************************************)
EXTENDS Naturals

CONSTANTS Rows,   \* number of rows of the table
          Calls,  \* calls of one round: the scheduled one and its two retries
          Grace   \* rounds from hard_cleanup_at to the row's ttl, 24 hours

Row == 1..Rows

VARIABLES
    row,      \* every row: "kept", "due" (hard_cleanup_at is past), "deleted", "expired"
    objects,  \* rows whose attempts have objects
    leased,   \* rows with a sweep lease that has not run out
    at,       \* the row the scan has come to; 0 when no call is at work
    calls,    \* calls that began in this round
    over,     \* no call of this round is to come
    waited    \* rounds that ended since a row was due

vars == <<row, objects, leased, at, calls, over, waited>>

Init ==
    /\ row = [j \in Row |-> "kept"]
    /\ objects \in SUBSET Row
    /\ leased = {} /\ at = 0 /\ calls = 0 /\ over = FALSE
    /\ waited = [j \in Row |-> 0]

(* A call takes the time when it begins.                                    *)
FallsDue(j) ==
    /\ at = 0 /\ row[j] = "kept"
    /\ row' = [row EXCEPT ![j] = "due"]
    /\ UNCHANGED <<objects, leased, at, calls, over, waited>>

Begin ==
    /\ at = 0 /\ ~over
    /\ at' = 1 /\ calls' = calls + 1
    /\ UNCHANGED <<row, objects, leased, over, waited>>

-----------------------------------------------------------------------------
(* One row of the scan.                                                     *)

MovesOn(j) == at = j /\ at' = at + 1

(* A row that is gone, or whose sweep is another call's, is passed over.    *)
PassOver(j) ==
    /\ MovesOn(j)
    /\ row[j] \in {"deleted", "expired"} \/ (row[j] = "kept" /\ j \in leased)
    /\ UNCHANGED <<row, objects, leased, calls, over, waited>>

(* Objects and row of one that is due are deleted.                          *)
Clean(j) ==
    /\ MovesOn(j) /\ row[j] = "due"
    /\ row' = [row EXCEPT ![j] = "deleted"]
    /\ objects' = objects \ {j}
    /\ UNCHANGED <<leased, calls, over, waited>>

(* The others are claimed for the sweep of unfinished attempts: with        *)
(* nothing to delete the claim is given back.                               *)
SweepEmpty(j) ==
    /\ MovesOn(j) /\ row[j] = "kept" /\ j \notin leased /\ j \notin objects
    /\ UNCHANGED <<row, objects, leased, calls, over, waited>>

(* An object of tool_worker has neither metadata nor tags of an attempt:    *)
(* the sweep raises, the call with it, and the lease stays.                 *)
SweepRefuses(j) ==
    /\ at = j /\ row[j] = "kept" /\ j \in objects \ leased
    /\ leased' = leased \cup {j}
    /\ at' = 0 /\ over' = (calls = Calls)
    /\ UNCHANGED <<row, objects, calls, waited>>

ScanEnds ==
    /\ at = Rows + 1
    /\ at' = 0 /\ over' = TRUE
    /\ UNCHANGED <<row, objects, leased, calls, waited>>

-----------------------------------------------------------------------------
(* The schedule comes round; leases of 240 seconds may have run out.        *)
RoundEnds ==
    /\ over /\ over' = FALSE /\ calls' = 0
    /\ leased' \in SUBSET leased
    /\ waited' = [j \in Row |-> IF row[j] = "due" /\ waited[j] < Grace THEN waited[j] + 1 ELSE waited[j]]
    /\ UNCHANGED <<row, objects, at>>

(* The ttl attribute: the table deletes the row by itself, and nothing else.*)
RowExpires(j) ==
    /\ at = 0 /\ row[j] = "due" /\ waited[j] = Grace
    /\ row' = [row EXCEPT ![j] = "expired"]
    /\ UNCHANGED <<objects, leased, at, calls, over, waited>>

Next ==
    \/ Begin \/ ScanEnds \/ RoundEnds
    \/ \E j \in Row :
          \/ FallsDue(j) \/ RowExpires(j)
          \/ PassOver(j) \/ Clean(j) \/ SweepEmpty(j) \/ SweepRefuses(j)

Spec == Init /\ [][Next]_vars

-----------------------------------------------------------------------------
(* tiktok_acquire.tf says that the ttl of the table is no deletion          *)
(* mechanism and that the scheduled janitor is authoritative: no row is     *)
(* left to its ttl, with its objects, in spite of all the rounds between.   *)
JanitorIsAuthoritative == \A j \in Row : row[j] = "expired" => j \notin objects
=============================================================================
