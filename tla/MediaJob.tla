------------------------------- MODULE MediaJob -------------------------------
(***************************************************************************)
(* One media job: the client that sends it (adapters/media_job.py), the    *)
(* dispatcher function that the queue calls and that the end of a task     *)
(* calls too (lambda/tiktok_dispatch), the task that does the work         *)
(* (media/tool_worker.py) and the janitor that deletes what is expired     *)
(* (lambda/media_janitor).  They share a row of a table and the objects    *)
(* under the job's prefix of a bucket.                                     *)
(*                                                                         *)
(* Every attempt has a fresh id, here the delivery that made it; its task  *)
(* is known to ECS by the client token of the attempt, and its objects are *)
(* under attempts/.  Time is a phase: what the code compares with the      *)
(* clock falls into six of them.                                           *)
(***************************************************************************)
EXTENDS Naturals, FiniteSets

CONSTANTS Deliveries,   \* deliveries of the job's message to the dispatcher
          Reconcilers,  \* calls of the dispatcher for a stopped task
          Janitors,     \* calls of the janitor
          None,
          MaxVersion,   \* bound: the janitor starts no sweep of a row past it
          MaxFaults     \* bound: calls that fail and processes that end early

ASSUME MediaAssumption ==
    /\ None \notin Deliveries \cup Janitors
    /\ MaxVersion \in Nat /\ MaxFaults \in Nat

VARIABLES
    clock,       \* the phase of time
    sent,        \* the message is in the queue
    row,         \* the row of the job
    control,     \* attempts whose control object exists
    files,       \* attempts whose artifacts exist
    completion,  \* of every attempt: what its _COMPLETION object says
    task,        \* of every attempt: its ECS task
    dispatch,    \* of every delivery: place, attempt and version it works with
    event,       \* of every call for a stopped task
    janitor,     \* of every janitor: place, time and copy of the row
    faults

objects == <<control, files, completion>>
vars == <<clock, sent, row, objects, task, dispatch, event, janitor, faults>>

(* Fresh: more than 90 seconds are left.  Expired: the deadline is past.   *)
(* Free: deadline + 60, where the guard of readers and the lease of the    *)
(* row end.  Due: hard_cleanup_at.  Past: the row's ttl, a day later.       *)
Fresh == 0
Late == 1
Expired == 2
Free == 3
Due == 4
Past == 5

Active == {"queued", "running"}
Terminal == {"done", "failed"}
Codes == {"none", "deadline", "unlaunched", "stopped", "stale"}

NoRow == [status |-> "none", version |-> 0, attempt |-> None, task |-> None,
          code |-> "none", cleaner |-> None, sweeper |-> None]

(* A function that is over holds nothing.                                   *)
At(place) == [pc |-> place, attempt |-> None, version |-> 0]
NoEvent == [pc |-> "idle", attempt |-> None, version |-> 0, result |-> "failed"]
NoJanitor == [pc |-> "idle", time |-> Fresh, status |-> "none", version |-> 0]

Init ==
    /\ clock = Fresh /\ sent = FALSE /\ row = NoRow
    /\ control = {} /\ files = {}
    /\ completion = [a \in Deliveries |-> "none"]
    /\ task = [a \in Deliveries |-> "none"]
    /\ dispatch = [d \in Deliveries |-> At("idle")]
    /\ event = [r \in Reconcilers |-> NoEvent]
    /\ janitor = [j \in Janitors |-> NoJanitor]
    /\ faults = 0

Fault == faults < MaxFaults /\ faults' = faults + 1
Go(d, to) == dispatch' = [dispatch EXCEPT ![d].pc = to]
Ends(d, how) == dispatch' = [dispatch EXCEPT ![d] = At(how)]

Tick ==
    /\ clock < Past
    /\ clock' = clock + 1
    /\ UNCHANGED <<sent, row, objects, task, dispatch, event, janitor, faults>>

-----------------------------------------------------------------------------
(* The client sends its message; one that fails may have been taken all the *)
(* same.  Then it polls the row, which changes nothing.                     *)
Submit ==
    /\ ~sent /\ clock < Expired
    /\ sent' = TRUE
    /\ UNCHANGED <<clock, row, objects, task, dispatch, event, janitor, faults>>

-----------------------------------------------------------------------------
(* The dispatcher, called for a message.                                    *)

(* A delivery begins with _ensure_queued_row and the check of the time that *)
(* is left.  One that comes after the deadline changes nothing.             *)
Ensure(d) ==
    /\ sent /\ dispatch[d].pc = "idle" /\ clock < Expired
    /\ row' = IF row.status = "none" THEN [NoRow EXCEPT !.status = "queued"] ELSE row
    /\ Go(d, IF clock = Fresh THEN "read" ELSE "late")
    /\ UNCHANGED <<clock, sent, objects, task, event, janitor, faults>>

(* _mark_failed: only a queued row is changed.                              *)
MarkFailed(d) ==
    /\ dispatch[d].pc = "late" /\ clock < Expired
    /\ row' = IF row.status = "queued"
              THEN [row EXCEPT !.status = "failed", !.code = "deadline", !.version = @ + 1]
              ELSE row
    /\ Ends(d, "raised")
    /\ UNCHANGED <<clock, sent, objects, task, event, janitor, faults>>

(* _prepare_attempt reads the row: nothing to do, an attempt to resume, or  *)
(* a new one.  An attempt that is resumed keeps its token.                  *)
Read(d) ==
    /\ dispatch[d].pc = "read" /\ clock < Expired
    /\ dispatch' = [dispatch EXCEPT ![d] =
         CASE row.status \in Terminal \/ row.task # None -> At("acked")
           [] row.status = "running" /\ row.task = None ->
                [pc |-> "run", attempt |-> row.attempt, version |-> row.version]
           [] row.status = "queued" -> [pc |-> "control", attempt |-> d, version |-> row.version]
           [] OTHER -> At("raised")]
    /\ UNCHANGED <<clock, sent, row, objects, task, event, janitor, faults>>

PutControl(d) ==
    /\ dispatch[d].pc = "control" /\ clock < Expired
    /\ control' = control \cup {d}
    /\ Go(d, "claim")
    /\ UNCHANGED <<clock, sent, row, files, completion, task, event, janitor, faults>>

Claimed(d) ==
    [row EXCEPT !.status = "running", !.version = dispatch[d].version + 1, !.attempt = d, !.task = None]

\* Mutant: the update asks only that the row is not terminal.
ClaimBlindly(d) ==
    /\ dispatch[d].pc = "claim" /\ clock < Expired
    /\ \/ /\ row.status \in Active
          /\ row' = Claimed(d)
          /\ dispatch' = [dispatch EXCEPT ![d].pc = "run", ![d].version = @ + 1]
          /\ UNCHANGED control
       \/ /\ row.status \notin Active
          /\ control' = control \ {d}
          /\ Ends(d, "raised")
          /\ UNCHANGED row
    /\ UNCHANGED <<clock, sent, files, completion, task, event, janitor, faults>>

(* The conditional update that makes this delivery's attempt the job's.     *)
Claim(d) ==
    /\ dispatch[d].pc = "claim" /\ clock < Expired
    /\ \/ /\ row.status = "queued" /\ row.version = dispatch[d].version
          /\ row' = Claimed(d)
          /\ dispatch' = [dispatch EXCEPT ![d].pc = "run", ![d].version = @ + 1]
          /\ UNCHANGED control
       \/ /\ ~(row.status = "queued" /\ row.version = dispatch[d].version)
          /\ control' = control \ {d}
          /\ Ends(d, "raised")
          /\ UNCHANGED row
    /\ UNCHANGED <<clock, sent, files, completion, task, event, janitor, faults>>

(* Its answer is lost: the control object is deleted, or that fails too,    *)
(* although the row may name the attempt.                                   *)
ClaimLost(d) ==
    /\ dispatch[d].pc = "claim" /\ clock < Expired /\ Fault
    /\ row' \in {row} \cup (IF row.status = "queued" /\ row.version = dispatch[d].version
                            THEN {Claimed(d)} ELSE {})
    /\ control' \in {control, control \ {d}}
    /\ Ends(d, "raised")
    /\ UNCHANGED <<clock, sent, files, completion, task, event, janitor>>

(* _call refuses a call for which too little time is left.                  *)
PrepareTimesOut(d) ==
    /\ dispatch[d].pc \in {"control", "claim"} /\ clock = Late
    /\ control' \in {control, control \ {d}}
    /\ Go(d, "late")
    /\ UNCHANGED <<clock, sent, row, files, completion, task, event, janitor, faults>>

(* Too little time is left for a task.                                      *)
TooLate(d) ==
    /\ dispatch[d].pc = "run" /\ clock = Late
    /\ Go(d, "unlaunched")
    /\ UNCHANGED <<clock, sent, row, objects, task, event, janitor, faults>>

(* run_task: ECS answers a token it knows with the task it has.  A task     *)
(* that cannot read its control object stops before it begins.              *)
RunTask(d) ==
    LET a == dispatch[d].attempt IN
    /\ dispatch[d].pc = "run" /\ clock = Fresh
    /\ task' = [task EXCEPT ![a] = IF @ # "none" THEN @ ELSE
                                   IF a \in control THEN "running" ELSE "killed"]
    /\ Go(d, "confirm")
    /\ UNCHANGED <<clock, sent, row, objects, event, janitor, faults>>

(* A definitive rejection: ECS has no task of this token.                   *)
RunRejected(d) ==
    /\ dispatch[d].pc = "run" /\ clock = Fresh /\ Fault
    /\ task[dispatch[d].attempt] = "none"
    /\ Go(d, "unlaunched")
    /\ UNCHANGED <<clock, sent, row, objects, task, event, janitor>>

(* _commit_terminal: one conditional update, of a running row at the        *)
(* version of the attempt; t is the task that the caller knows.             *)
Fenced(a, v, t) ==
    /\ row.status = "running" /\ row.version = v /\ row.attempt = a
    /\ row.task = None \/ row.task = t
Ended(status, code, t) ==
    [row EXCEPT !.status = status, !.code = code, !.version = @ + 1, !.task = IF t = None THEN @ ELSE t]

(* _commit_unlaunched_failure: a row that is not at this attempt stays.     *)
Unlaunched(d) ==
    /\ dispatch[d].pc = "unlaunched" /\ clock < Expired
    /\ row' = IF Fenced(dispatch[d].attempt, dispatch[d].version, None)
              THEN Ended("failed", "unlaunched", None) ELSE row
    /\ Ends(d, "raised")
    /\ UNCHANGED <<clock, sent, objects, task, event, janitor, faults>>

(* _confirm_task: the row is at its attempt, is over, or knows the task.    *)
Confirm(d) ==
    LET a == dispatch[d].attempt
        fenced == Fenced(a, dispatch[d].version, a)
    IN
    /\ dispatch[d].pc = "confirm" /\ clock < Expired
    /\ row' = IF fenced THEN [row EXCEPT !.task = a] ELSE row
    /\ Ends(d, IF fenced \/ row.status \in Terminal \/ (row.attempt = a /\ row.task = a)
               THEN "acked" ELSE "raised")
    /\ UNCHANGED <<clock, sent, objects, task, event, janitor, faults>>

(* A call fails, the function is stopped, or the deadline passes.           *)
DispatchFails(d) ==
    /\ dispatch[d].pc \notin {"idle", "acked", "raised"}
    /\ IF clock < Expired THEN Fault ELSE UNCHANGED faults
    /\ Ends(d, "raised")
    /\ UNCHANGED <<clock, sent, row, objects, task, event, janitor>>

-----------------------------------------------------------------------------
(* The task.  Its capabilities end before the deadline of the job.          *)

\* Mutant: a capability without an end.
UploadAnyTime(a) ==
    /\ task[a] = "running" /\ completion[a] = "none"
    /\ files' = files \cup {a}
    /\ UNCHANGED <<clock, sent, row, control, completion, task, dispatch, event, janitor, faults>>

Upload(a) ==
    /\ task[a] = "running" /\ completion[a] = "none" /\ clock < Expired
    /\ files' = files \cup {a}
    /\ UNCHANGED <<clock, sent, row, control, completion, task, dispatch, event, janitor, faults>>

Complete(a) ==
    /\ task[a] = "running" /\ completion[a] = "none" /\ clock < Expired
    /\ \E result \in IF a \in files THEN Terminal ELSE {"failed"} :
         completion' = [completion EXCEPT ![a] = result]
    /\ UNCHANGED <<clock, sent, row, control, files, task, dispatch, event, janitor, faults>>

(* Exit code 0 follows the completion of a result; a task may stop before.  *)
TaskStops(a) ==
    /\ task[a] = "running"
    /\ \E end \in IF completion[a] = "done" THEN {"exited", "killed"} ELSE {"killed"} :
         task' = [task EXCEPT ![a] = end]
    /\ UNCHANGED <<clock, sent, row, objects, dispatch, event, janitor, faults>>

-----------------------------------------------------------------------------
(* The dispatcher, called for a stopped task: _reconcile_stopped.           *)

(* A row that is terminal needs nothing; one that is not the task's raises. *)
ReadStopped(r, a) ==
    /\ event[r].pc = "idle" /\ task[a] \in {"exited", "killed"}
    /\ row.status = "running" /\ row.attempt = a /\ row.task \in {None, a}
    /\ event' = [event EXCEPT ![r] = [@ EXCEPT !.pc = "load", !.attempt = a, !.version = row.version]]
    /\ UNCHANGED <<clock, sent, row, objects, task, dispatch, janitor, faults>>

(* A result counts when the task exited with 0 and its artifacts are there. *)
ResultOf(a) ==
    IF completion[a] = "done" /\ task[a] = "exited" /\ a \in files THEN "done" ELSE "failed"

LoadCompletion(r) ==
    /\ event[r].pc = "load"
    /\ event' = [event EXCEPT ![r].pc = "commit", ![r].result = ResultOf(event[r].attempt)]
    /\ UNCHANGED <<clock, sent, row, objects, task, dispatch, janitor, faults>>

\* Mutant: the update asks only that the row is the attempt's.
CommitOverEnd(r) ==
    LET a == event[r].attempt IN
    /\ event[r].pc = "commit"
    /\ IF row.attempt = a
       THEN row' = Ended(event[r].result, "stopped", a) /\ event' = [event EXCEPT ![r].pc = "clean"]
       ELSE UNCHANGED row /\ event' = [event EXCEPT ![r] = NoEvent]
    /\ UNCHANGED <<clock, sent, objects, task, dispatch, janitor, faults>>

CommitStopped(r) ==
    LET a == event[r].attempt IN
    /\ event[r].pc = "commit"
    /\ IF Fenced(a, event[r].version, a)
       THEN row' = Ended(event[r].result, "stopped", a) /\ event' = [event EXCEPT ![r].pc = "clean"]
       ELSE UNCHANGED row /\ event' = [event EXCEPT ![r] = NoEvent]
    /\ UNCHANGED <<clock, sent, objects, task, dispatch, janitor, faults>>

(* The completion and the control object are deleted.                       *)
CleanAttempt(r) ==
    LET a == event[r].attempt IN
    /\ event[r].pc = "clean"
    /\ completion' = [completion EXCEPT ![a] = "none"]
    /\ control' = control \ {a}
    /\ event' = [event EXCEPT ![r] = NoEvent]
    /\ UNCHANGED <<clock, sent, row, files, task, dispatch, janitor, faults>>

(* A failed call or the end of the function; the event is delivered again.  *)
ReconcileFails(r) ==
    /\ event[r].pc # "idle" /\ Fault
    /\ event' = [event EXCEPT ![r] = NoEvent]
    /\ UNCHANGED <<clock, sent, row, objects, task, dispatch, janitor>>

-----------------------------------------------------------------------------
(* The janitor.  It takes the time once, when it begins.                    *)

JanitorTo(j, to) == janitor' = [janitor EXCEPT ![j].pc = to]
JanitorEnds(j) == janitor' = [janitor EXCEPT ![j] = NoJanitor]
Stale == row.status \in Active /\ clock >= Expired
Eligible(t) == t >= Due
Sweepable == row.status = "queued" \/ (row.status \in Terminal /\ clock >= Free)

(* A row that has nothing to be done is passed over.                        *)
Scan(j) ==
    /\ janitor[j].pc = "idle" /\ row.status # "none"
    /\ Stale \/ Eligible(clock) \/ Sweepable
    /\ janitor' = [janitor EXCEPT ![j] =
         [pc |-> IF Stale THEN "stale" ELSE IF Eligible(clock) THEN "claim" ELSE "sweep",
          time |-> clock, status |-> row.status, version |-> row.version]]
    /\ UNCHANGED <<clock, sent, row, objects, task, dispatch, event, faults>>

(* _terminalize_stale: the attempt is removed from the row.  What was made  *)
(* terminal here is swept although the guard of readers may still hold.     *)
TerminalizeStale(j) ==
    /\ janitor[j].pc = "stale"
    /\ IF row.status = janitor[j].status /\ row.version = janitor[j].version
       THEN /\ row' = [row EXCEPT !.status = "failed", !.code = "stale", !.version = @ + 1, !.attempt = None]
            /\ janitor' = [janitor EXCEPT ![j].pc = IF Eligible(janitor[j].time) THEN "claim" ELSE "sweep",
                                          ![j].status = "failed", ![j].version = @ + 1]
       ELSE UNCHANGED row /\ JanitorEnds(j)
    /\ UNCHANGED <<clock, sent, objects, task, dispatch, event, faults>>

(* _claim: one janitor owns the deletion of a row for as long as its lease. *)
ClaimCleanup(j) ==
    /\ janitor[j].pc = "claim"
    /\ IF row.version = janitor[j].version /\ row.status # "none" /\ row.cleaner = None
       THEN /\ row' = [row EXCEPT !.cleaner = j, !.version = @ + 1]
            /\ janitor' = [janitor EXCEPT ![j].pc = "delete", ![j].version = @ + 1]
       ELSE UNCHANGED row /\ JanitorEnds(j)
    /\ UNCHANGED <<clock, sent, objects, task, dispatch, event, faults>>

DeletePrefix(j) ==
    /\ janitor[j].pc = "delete"
    /\ control' = {} /\ files' = {} /\ completion' = [a \in Deliveries |-> "none"]
    /\ JanitorTo(j, "row")
    /\ UNCHANGED <<clock, sent, row, task, dispatch, event, faults>>

DeleteRow(j) ==
    /\ janitor[j].pc = "row"
    /\ row' = IF row.cleaner = j /\ row.version = janitor[j].version THEN NoRow ELSE row
    /\ JanitorEnds(j)
    /\ UNCHANGED <<clock, sent, objects, task, dispatch, event, faults>>

(* _claim_orphan_sweep.  MaxVersion bounds the sweeps that are modelled.    *)
ClaimSweep(j) ==
    /\ janitor[j].pc = "sweep"
    /\ IF /\ row.version = janitor[j].version /\ row.version < MaxVersion
          /\ row.sweeper = None
          /\ row.status \in {"queued"} \cup Terminal \/ (row.status = "running" /\ janitor[j].time >= Free)
       THEN /\ row' = [row EXCEPT !.sweeper = j, !.version = @ + 1]
            /\ janitor' = [janitor EXCEPT ![j].pc = "sweeping", ![j].version = @ + 1]
       ELSE UNCHANGED row /\ JanitorEnds(j)
    /\ UNCHANGED <<clock, sent, objects, task, dispatch, event, faults>>

\* Mutant: the objects of the task bear the tags the sweep asks for.
SweepDeletes(j) ==
    /\ janitor[j].pc = "sweeping"
    /\ files' = {} /\ completion' = [a \in Deliveries |-> "none"]
    /\ JanitorTo(j, "release")
    /\ UNCHANGED <<clock, sent, row, control, task, dispatch, event, faults>>

(* _delete_unfinalized_attempts: no attempt is marked as final, so every    *)
(* one is to be deleted.  The objects of tool_worker lack the metadata and  *)
(* the tags that are asked for: one is enough for the sweep to raise.       *)
Sweep(j) ==
    /\ janitor[j].pc = "sweeping"
    /\ IF files = {} /\ \A a \in Deliveries : completion[a] = "none" THEN JanitorTo(j, "release") ELSE JanitorEnds(j)
    /\ UNCHANGED <<clock, sent, row, objects, task, dispatch, event, faults>>

ReleaseSweep(j) ==
    /\ janitor[j].pc = "release"
    /\ row' = IF row.sweeper = j /\ row.version = janitor[j].version THEN [row EXCEPT !.sweeper = None] ELSE row
    /\ JanitorEnds(j)
    /\ UNCHANGED <<clock, sent, objects, task, dispatch, event, faults>>

JanitorFails(j) ==
    /\ janitor[j].pc # "idle" /\ Fault
    /\ JanitorEnds(j)
    /\ UNCHANGED <<clock, sent, row, objects, task, dispatch, event>>

(* The leases in the row last as long as a call of the janitor may.         *)
CleanupLeaseEnds ==
    /\ row.cleaner # None /\ janitor[row.cleaner].pc \notin {"delete", "row"}
    /\ row' = [row EXCEPT !.cleaner = None]
    /\ UNCHANGED <<clock, sent, objects, task, dispatch, event, janitor, faults>>

SweepLeaseEnds ==
    /\ row.sweeper # None /\ janitor[row.sweeper].pc \notin {"sweeping", "release"}
    /\ row' = [row EXCEPT !.sweeper = None]
    /\ UNCHANGED <<clock, sent, objects, task, dispatch, event, janitor, faults>>

(* The table deletes a row whose ttl is past, whatever became of its        *)
(* objects.                                                                 *)
RowExpires ==
    /\ clock = Past /\ row.status # "none"
    /\ row' = NoRow
    /\ UNCHANGED <<clock, sent, objects, task, dispatch, event, janitor, faults>>

-----------------------------------------------------------------------------
DispatchNext(d) ==
    \/ Ensure(d) \/ MarkFailed(d) \/ Read(d) \/ PutControl(d) \/ Claim(d) \/ ClaimLost(d)
    \/ PrepareTimesOut(d) \/ TooLate(d) \/ RunTask(d) \/ RunRejected(d) \/ Unlaunched(d) \/ Confirm(d)
    \/ DispatchFails(d)
TaskNext(a) == Upload(a) \/ Complete(a) \/ TaskStops(a)
EventNext(r) ==
    \/ \E a \in Deliveries : ReadStopped(r, a)
    \/ LoadCompletion(r) \/ CommitStopped(r) \/ CleanAttempt(r) \/ ReconcileFails(r)
JanitorWork(j) ==
    \/ Scan(j) \/ TerminalizeStale(j) \/ ClaimCleanup(j) \/ DeletePrefix(j) \/ DeleteRow(j)
    \/ ClaimSweep(j) \/ Sweep(j) \/ ReleaseSweep(j)

Next ==
    \/ Tick \/ Submit
    \/ \E d \in Deliveries : DispatchNext(d) \/ TaskNext(d)
    \/ \E r \in Reconcilers : EventNext(r)
    \/ \E j \in Janitors : JanitorWork(j) \/ JanitorFails(j)
    \/ CleanupLeaseEnds \/ SweepLeaseEnds \/ RowExpires

Spec == Init /\ [][Next]_vars

-----------------------------------------------------------------------------
Places == {"idle", "late", "read", "control", "claim", "run", "unlaunched",
           "confirm", "acked", "raised"}
(* Types of the state of row, bucket, tasks and functions.                  *)
TypeOK ==
    /\ clock \in Fresh..Past /\ sent \in BOOLEAN /\ faults \in 0..MaxFaults
    /\ row \in [status : {"none"} \cup Active \cup Terminal, version : Nat,
                attempt : Deliveries \cup {None}, task : Deliveries \cup {None},
                code : Codes,
                cleaner : Janitors \cup {None}, sweeper : Janitors \cup {None}]
    /\ control \subseteq Deliveries /\ files \subseteq Deliveries
    /\ completion \in [Deliveries -> {"none"} \cup Terminal]
    /\ task \in [Deliveries -> {"none", "running", "exited", "killed"}]
    /\ dispatch \in [Deliveries -> [pc : Places, attempt : Deliveries \cup {None}, version : Nat]]
    /\ event \in [Reconcilers -> [pc : {"idle", "load", "commit", "clean"}, attempt : Deliveries \cup {None},
                                  version : Nat, result : Terminal]]
    /\ janitor \in [Janitors -> [pc : {"idle", "stale", "claim", "delete", "row", "sweep", "sweeping", "release"},
                                 time : Fresh..Past, status : {"none"} \cup Active \cup Terminal, version : Nat]]

(* However often the message is delivered, and whatever answers are lost,   *)
(* one task at most is started for the job.                                 *)
OneTask == \A a, b \in Deliveries : task[a] # "none" /\ task[b] # "none" => a = b

(* A result that was published can be read until a janitor has claimed the  *)
(* row: every client that saw it finds its artifacts.                       *)
ResultReadable ==
    /\ row.status = "done" /\ row.cleaner = None /\ clock < Due => row.attempt \in files

(* Until the table deletes rows by itself, a row is gone only with every    *)
(* object of the job's attempts, and none will come: a task that still runs *)
(* can no longer write.  Input objects, which the client may stage before   *)
(* there is a row, are not part of this.                                    *)
NothingLeft ==
    (Free <= clock /\ clock < Past /\ row.status = "none") =>
        /\ control = {} /\ files = {}
        /\ \A a \in Deliveries : completion[a] = "none"

(* The job keeps the promise of MediaPromise: its end is final, for a later *)
(* delivery, a second event and the janitor alike; a result comes from a    *)
(* task, and a job whose row was deleted is not made again.                 *)
Outcome ==
    CASE row.status \in Active -> [kind |-> "open", cause |-> <<"none", None>>]
      [] row.status \in Terminal -> [kind |-> row.status, cause |-> <<row.code, row.attempt>>]
      [] OTHER -> [kind |-> IF clock >= Free THEN "gone" ELSE "none", cause |-> <<"none", None>>]
Promise == INSTANCE MediaPromise WITH
    outcome <- Outcome,
    launched <- \E a \in Deliveries : task[a] # "none",
    Causes <- Codes \X (Deliveries \cup {None}),
    Unknown <- <<"none", None>>
PromiseKept == Promise!Spec
=============================================================================
