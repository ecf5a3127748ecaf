----------------------------- MODULE RequestGate -----------------------------
(***************************************************************************)
(* RequestGate (runtime/request_gate.py): the calls that a gateway process *)
(* works on at the same time, and those that wait for their turn.          *)
(*                                                                         *)
(* Everything runs on one event loop: an action is the code between two    *)
(* awaits.  The semaphore is asyncio's, as of Python 3.12: a waiter is     *)
(* woken by handing it its unit, and it may be cancelled, or its wait may  *)
(* time out, before it runs again.                                         *)
(***************************************************************************)
EXTENDS Naturals, FiniteSets, SequencesExt

CONSTANTS Call,
          Concurrency,  \* RequestGate.concurrency
          QueueMax      \* RequestGate.queue_max

ASSUME GateAssumption ==
    /\ IsFiniteSet(Call)
    /\ Concurrency \in Nat \ {0} /\ QueueMax \in Nat

VARIABLES
    value,    \* units of the semaphore
    queue,    \* its waiters, those included that were woken or cancelled
    place,    \* where every call is
    waiting   \* the metric that decides whether the queue is full

gateVars == <<value, queue, place, waiting>>

In(at) == {c \in Call : place[c] = at}

\* A woken waiter owns a unit although it does not run yet.
Owners == In("woken") \cup In("wokenGone")
Holders == Owners \cup In("runs")
Waiters == Owners \cup In("waits") \cup In("gone")

GateInit ==
    /\ value = Concurrency
    /\ queue = <<>>
    /\ place = [c \in Call |-> "idle"]
    /\ waiting = 0

Move(c, to) == place' = [place EXCEPT ![c] = to]

-----------------------------------------------------------------------------
(* The semaphore.                                                           *)

Cancelled == In("gone")
Locked == value = 0 \/ \E i \in DOMAIN queue : queue[i] \notin Cancelled

(* c was put into the queue before d.                                       *)
Ahead(q, c, d) == \E i, j \in DOMAIN q : i < j /\ q[i] = c /\ q[j] = d

(* The units are given to waiters, at most so many and the first ones first;*)
(* at is where the calls are without that.                                  *)
Wake(q, at, units, most) ==
    LET asleep == {c \in ToSet(q) : at[c] = "waits"} IN
    \E woken \in SUBSET asleep :
        /\ Cardinality(woken) = Min({units, most, Cardinality(asleep)})
        /\ \A c \in woken, d \in asleep \ woken : Ahead(q, c, d)
        /\ value' = units - Cardinality(woken)
        /\ place' = [c \in Call |-> IF c \in woken THEN "woken" ELSE at[c]]

-----------------------------------------------------------------------------
(* submit                                                                   *)

Refuse(c) ==
    /\ place[c] = "idle" /\ waiting >= QueueMax
    /\ Move(c, "ended")
    /\ UNCHANGED <<value, queue, waiting>>

(* A unit is free and nobody waits: the call goes on without an await.      *)
EnterAtOnce(c) ==
    /\ place[c] = "idle" /\ waiting < QueueMax /\ ~Locked
    /\ value' = value - 1
    /\ Move(c, "runs")
    /\ UNCHANGED <<queue, waiting>>

Enqueue(c) ==
    /\ place[c] = "idle" /\ waiting < QueueMax /\ Locked
    /\ queue' = Append(queue, c)
    /\ waiting' = waiting + 1
    /\ Move(c, "waits")
    /\ UNCHANGED value

(* A woken waiter runs again; acquire wakes others while units are left.    *)
Enter(c) ==
    /\ place[c] = "woken"
    /\ queue' = RemoveFirst(queue, c)
    /\ Wake(queue', [place EXCEPT ![c] = "runs"], value, value)
    /\ waiting' = waiting - 1

(* The wait times out or the client cancels its call.                       *)
GiveUp(c) ==
    /\ \/ place[c] = "waits" /\ Move(c, "gone")
       \/ place[c] = "woken" /\ Move(c, "wokenGone")
    /\ UNCHANGED <<value, queue, waiting>>

(* acquire is left by an exception: an owned unit goes back, and others are *)
(* woken while units are left.                                              *)
\* Mutant: the metric is lowered only where a unit was acquired.
GoneUncounted(c) ==
    /\ place[c] \in {"gone", "wokenGone"}
    /\ queue' = RemoveFirst(queue, c)
    /\ LET units == value + (IF place[c] = "wokenGone" THEN 1 ELSE 0)
       IN  Wake(queue', [place EXCEPT ![c] = "ended"], units, units)
    /\ UNCHANGED waiting

\* Mutant: the unit is released although none was acquired.
GoneReleases(c) ==
    /\ place[c] \in {"gone", "wokenGone"}
    /\ queue' = RemoveFirst(queue, c)
    /\ Wake(queue', [place EXCEPT ![c] = "ended"], value + 1, value + 1)
    /\ waiting' = waiting - 1

Gone(c) ==
    /\ place[c] \in {"gone", "wokenGone"}
    /\ queue' = RemoveFirst(queue, c)
    /\ LET units == value + (IF place[c] = "wokenGone" THEN 1 ELSE 0)
       IN  Wake(queue', [place EXCEPT ![c] = "ended"], units, units)
    /\ waiting' = waiting - 1

(* fn returned, raised or was cancelled: release wakes one waiter.          *)
\* Mutant: only a call that returned gives its unit back.
LeaveKeepsUnit(c) ==
    /\ place[c] = "runs"
    /\ Move(c, "ended")
    /\ UNCHANGED <<value, queue, waiting>>

Leave(c) ==
    /\ place[c] = "runs"
    /\ Wake(queue, [place EXCEPT ![c] = "ended"], value + 1, 1)
    /\ UNCHANGED <<queue, waiting>>

-----------------------------------------------------------------------------
Arrive(c) == Refuse(c) \/ EnterAtOnce(c) \/ Enqueue(c)
-----------------------------------------------------------------------------
GateTypeOK ==
    /\ value \in 0..Concurrency
    /\ queue \in Seq(Call)
    /\ place \in [Call -> {"idle", "waits", "woken", "gone", "wokenGone", "runs", "ended"}]
    /\ waiting \in Nat

(* No unit is lost or made, whether a wait times out, a call is cancelled   *)
(* while it waits, after it was woken or while it works.                    *)
UnitsBalanced == value + Cardinality(Holders) = Concurrency

(* What decides that the queue is full is the number of those in it: a call *)
(* that gave up does not keep its place, or the gate would refuse everyone. *)
WaitingIsTrue == waiting = Len(queue) /\ ToSet(queue) = Waiters /\ waiting <= QueueMax
=============================================================================
