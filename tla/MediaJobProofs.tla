---------------------------- MODULE MediaJobProofs ----------------------------
(***************************************************************************)
(* What one media job keeps, for any number of deliveries, events and      *)
(* janitors and of faults: one task, a result that can be read, no object  *)
(* of an attempt after a row that a janitor deleted, and the promise of    *)
(* MediaPromise.                                                           *)
(***************************************************************************)
EXTENDS MediaJob, TLAPS

-----------------------------------------------------------------------------
(* The row, and the janitors that may delete it.                            *)

Deleting == {"claim", "delete", "row"}

(* A row names an attempt from its claim on; a janitor goes for a row only  *)
(* when its time has come, and for one that has ended.                      *)
RowInv ==
    /\ row.status = "none" => row = NoRow
    /\ row.status = "queued" => row.attempt = None
    /\ row.status \in {"running", "done"} => row.attempt \in Deliveries
    /\ \A j \in Janitors :
          /\ janitor[j].pc = "stale" => /\ clock >= Expired /\ janitor[j].time <= clock
                                        /\ janitor[j].status \in Active
          /\ janitor[j].pc \in Deleting => clock >= Due /\ row.status \notin Active

-----------------------------------------------------------------------------
(* The task.                                                                *)

Launching == {"run", "confirm"}

(* As long as tasks may begin, the row names the attempt of every task and  *)
(* of every delivery that is about to start one; a call for a stopped task  *)
(* is about a task there was.                                               *)
TaskInv ==
    /\ clock = Fresh =>
          /\ \A a \in Deliveries : task[a] # "none" => row.attempt = a
          /\ \A d \in Deliveries : dispatch[d].pc \in Launching =>
                dispatch[d].attempt = row.attempt /\ row.attempt \in Deliveries
    /\ \A d \in Deliveries : dispatch[d].pc \in {"control", "claim"} => dispatch[d].attempt = d
    /\ \A r \in Reconcilers : event[r].pc # "idle" =>
          event[r].attempt \in Deliveries /\ task[event[r].attempt] # "none"
    /\ OneTask

-----------------------------------------------------------------------------
(* The objects.                                                             *)

NoObjects == control = {} /\ files = {} /\ \A a \in Deliveries : completion[a] = "none"
Quiet ==
    /\ \A a \in Deliveries : task[a] = "none"
    /\ \A d \in Deliveries : dispatch[d].pc \in {"idle", "acked", "raised"}

(* A result is there before it is announced, and stays until the deletion   *)
(* is due; until the table forgets rows by itself a job without one has no  *)
(* objects, and before the deletion is due nobody works for it.             *)
ObjectInv ==
    /\ \A r \in Reconcilers : event[r].pc = "commit" /\ event[r].result = "done" /\ clock < Due =>
          event[r].attempt \in files
    /\ row.status = "done" /\ clock < Due => row.attempt \in files
    /\ \A j \in Janitors : janitor[j].pc = "row" => NoObjects
    /\ row.status = "none" => (clock < Past => NoObjects) /\ (clock < Due => Quiet)

Inv == TypeOK /\ RowInv /\ TaskInv /\ ObjectInv

-----------------------------------------------------------------------------
(* Types.                                                                   *)

Statuses == {"none"} \cup Active \cup Terminal
Rows == [status : Statuses, version : Nat, attempt : Deliveries \cup {None}, task : Deliveries \cup {None},
         code : Codes, cleaner : Janitors \cup {None}, sweeper : Janitors \cup {None}]
RowOK == row \in Rows
ObjectsOK ==
    /\ control \subseteq Deliveries /\ files \subseteq Deliveries
    /\ completion \in [Deliveries -> {"none"} \cup Terminal]
WorkOK ==
    /\ task \in [Deliveries -> {"none", "running", "exited", "killed"}]
    /\ dispatch \in [Deliveries -> [pc : Places, attempt : Deliveries \cup {None}, version : Nat]]
EventOK ==
    event \in [Reconcilers -> [pc : {"idle", "load", "commit", "clean"}, attempt : Deliveries \cup {None},
                               version : Nat, result : Terminal]]
JanitorOK ==
    janitor \in [Janitors -> [pc : {"idle", "stale", "claim", "delete", "row", "sweep", "sweeping", "release"},
                              time : Fresh..Past, status : Statuses, version : Nat]]
ClockOK == clock \in Fresh..Past /\ faults \in 0..MaxFaults

(* The parts of the type invariant.                                         *)
LEMMA Types ==
    TypeOK <=> RowOK /\ ObjectsOK /\ WorkOK /\ EventOK /\ JanitorOK /\ ClockOK /\ sent \in BOOLEAN
BY DEF TypeOK, RowOK, Rows, ObjectsOK, WorkOK, EventOK, JanitorOK, ClockOK, Statuses

(* ... and after a step.                                                    *)
LEMMA TypesNext ==
    TypeOK' <=> RowOK' /\ ObjectsOK' /\ WorkOK' /\ EventOK' /\ JanitorOK' /\ ClockOK' /\ sent' \in BOOLEAN
BY DEF TypeOK, RowOK, Rows, ObjectsOK, WorkOK, EventOK, JanitorOK, ClockOK, Statuses

(* The phases of time, in order.                                            *)
LEMMA Phases == Fresh = 0 /\ Late = 1 /\ Expired = 2 /\ Free = 3 /\ Due = 4 /\ Past = 5
BY DEF Fresh, Late, Expired, Free, Due, Past

(* What a delivery reads, by what the row says.                             *)
LEMMA ReadCases ==
    ASSUME NEW d \in Deliveries, Read(d)
    PROVE  \/ dispatch' = [dispatch EXCEPT ![d] = At("acked")]
           \/ /\ row.status = "running"
              /\ dispatch' = [dispatch EXCEPT ![d] =
                    [pc |-> "run", attempt |-> row.attempt, version |-> row.version]]
           \/ /\ row.status = "queued"
              /\ dispatch' = [dispatch EXCEPT ![d] = [pc |-> "control", attempt |-> d, version |-> row.version]]
           \/ dispatch' = [dispatch EXCEPT ![d] = At("raised")]
<1> DEFINE Reads(v) == dispatch' = [dispatch EXCEPT ![d] = v]
           taken == CASE row.status \in Terminal \/ row.task # None -> At("acked")
                      [] row.status = "running" /\ row.task = None ->
                           [pc |-> "run", attempt |-> row.attempt, version |-> row.version]
                      [] row.status = "queued" -> [pc |-> "control", attempt |-> d, version |-> row.version]
                      [] OTHER -> At("raised")
<1>1. Reads(taken)
    BY Zenon DEF Read
<1>2. \/ taken = At("acked")
      \/ row.status = "running" /\ taken = [pc |-> "run", attempt |-> row.attempt, version |-> row.version]
      \/ row.status = "queued" /\ taken = [pc |-> "control", attempt |-> d, version |-> row.version]
      \/ taken = At("raised")
    <2> DEFINE over == row.status \in Terminal \/ row.task # None
               resumed == row.status = "running" /\ row.task = None
               queued == row.status = "queued"
    <2>1. CASE over /\ ~resumed /\ ~queued
        BY <2>1, Zenon
    <2>2. CASE resumed /\ ~over /\ ~queued
        BY <2>2, Zenon
    <2>3. CASE queued /\ ~over /\ ~resumed
        BY <2>3, Zenon
    <2>4. CASE ~over /\ ~resumed /\ ~queued
        BY <2>4, Zenon
    <2>5. QED
        BY <2>1, <2>2, <2>3, <2>4
<1> HIDE DEF taken
<1>3. QED
    BY <1>1, <1>2

(* What the outcome is, by the status.                                      *)
LEMMA Outcomes ==
    /\ row.status \in Active => Outcome = [kind |-> "open", cause |-> <<"none", None>>]
    /\ row.status \in Terminal => Outcome = [kind |-> row.status, cause |-> <<row.code, row.attempt>>]
    /\ row.status = "none" =>
          Outcome = [kind |-> IF clock >= Free THEN "gone" ELSE "none", cause |-> <<"none", None>>]
BY Zenon DEF Outcome, Active, Terminal

-----------------------------------------------------------------------------
(* What the steps may change.                                               *)

(* The row.                                                                 *)
LEMMA RowFrame ==
    ASSUME [Next]_vars
    PROVE  \/ row' = row
           \/ \E d \in Deliveries :
                 Ensure(d) \/ MarkFailed(d) \/ Claim(d) \/ ClaimLost(d) \/ Unlaunched(d) \/ Confirm(d)
           \/ \E r \in Reconcilers : CommitStopped(r)
           \/ \E j \in Janitors :
                 TerminalizeStale(j) \/ ClaimCleanup(j) \/ DeleteRow(j) \/ ClaimSweep(j) \/ ReleaseSweep(j)
           \/ CleanupLeaseEnds \/ SweepLeaseEnds \/ RowExpires
BY DEF Next, Tick, Submit, DispatchNext, TaskNext, EventNext, JanitorWork, Read, PutControl, PrepareTimesOut,
    TooLate, RunTask, RunRejected, DispatchFails, Upload, Complete, TaskStops,
    ReadStopped, LoadCompletion, CleanAttempt, ReconcileFails,
    Scan, DeletePrefix, Sweep, JanitorFails, vars

(* The objects.                                                             *)
LEMMA ObjectFrame ==
    ASSUME [Next]_vars
    PROVE  \/ UNCHANGED objects
           \/ \E d \in Deliveries :
                 PutControl(d) \/ Claim(d) \/ ClaimLost(d) \/ PrepareTimesOut(d) \/ Upload(d) \/ Complete(d)
           \/ \E r \in Reconcilers : CleanAttempt(r)
           \/ \E j \in Janitors : DeletePrefix(j)
BY DEF Next, Tick, Submit, DispatchNext, TaskNext, EventNext, JanitorWork, Ensure, MarkFailed, Read, TooLate,
    RunTask, RunRejected, Unlaunched, Confirm, DispatchFails, TaskStops,
    ReadStopped, LoadCompletion, CommitStopped, ReconcileFails,
    Scan, TerminalizeStale, ClaimCleanup, DeleteRow, ClaimSweep, Sweep, ReleaseSweep, JanitorFails,
    CleanupLeaseEnds, SweepLeaseEnds, RowExpires, vars

(* The tasks.                                                               *)
LEMMA TaskFrame ==
    ASSUME [Next]_vars
    PROVE  task' = task \/ \E d \in Deliveries : RunTask(d) \/ TaskStops(d)
BY DEF Next, Tick, Submit, DispatchNext, TaskNext, EventNext, JanitorWork, Ensure, MarkFailed, Read, PutControl,
    Claim, ClaimLost, PrepareTimesOut, TooLate, RunRejected, Unlaunched, Confirm, DispatchFails,
    Upload, Complete, ReadStopped, LoadCompletion, CommitStopped, CleanAttempt, ReconcileFails,
    Scan, TerminalizeStale, ClaimCleanup, DeletePrefix, DeleteRow, ClaimSweep, Sweep,
    ReleaseSweep, JanitorFails, CleanupLeaseEnds, SweepLeaseEnds, RowExpires, vars

(* The deliveries.                                                          *)
LEMMA DispatchFrame ==
    ASSUME [Next]_vars
    PROVE  dispatch' = dispatch \/ \E d \in Deliveries : DispatchNext(d)
BY DEF Next, Tick, Submit, TaskNext, EventNext, JanitorWork, Upload, Complete, TaskStops,
    ReadStopped, LoadCompletion, CommitStopped, CleanAttempt, ReconcileFails,
    Scan, TerminalizeStale, ClaimCleanup, DeletePrefix, DeleteRow, ClaimSweep, Sweep,
    ReleaseSweep, JanitorFails, CleanupLeaseEnds, SweepLeaseEnds, RowExpires, vars

(* The calls for a stopped task.                                            *)
LEMMA EventFrame ==
    ASSUME [Next]_vars
    PROVE  event' = event \/ \E r \in Reconcilers : EventNext(r)
BY DEF Next, Tick, Submit, DispatchNext, TaskNext, JanitorWork, Ensure, MarkFailed, Read, PutControl, Claim,
   ClaimLost, PrepareTimesOut, TooLate, RunTask, RunRejected, Unlaunched, Confirm, DispatchFails, Upload,
   Complete, TaskStops, Scan, TerminalizeStale, ClaimCleanup, DeletePrefix, DeleteRow, ClaimSweep, Sweep,
   ReleaseSweep, JanitorFails, CleanupLeaseEnds, SweepLeaseEnds, RowExpires, vars

(* The janitors.                                                            *)
LEMMA JanitorFrame ==
    ASSUME [Next]_vars
    PROVE  janitor' = janitor \/ \E j \in Janitors : JanitorWork(j) \/ JanitorFails(j)
BY DEF Next, Tick, Submit, DispatchNext, TaskNext, EventNext, Ensure, MarkFailed, Read, PutControl, Claim,
   ClaimLost, PrepareTimesOut, TooLate, RunTask, RunRejected, Unlaunched, Confirm, DispatchFails, Upload,
   Complete, TaskStops, ReadStopped, LoadCompletion, CommitStopped, CleanAttempt, ReconcileFails,
   CleanupLeaseEnds, SweepLeaseEnds, RowExpires, vars

(* The clock, the queue and the count of the faults.                        *)
LEMMA ClockFrame ==
    ASSUME [Next]_vars
    PROVE  (clock' = clock \/ Tick) /\ (sent' = sent \/ Submit) /\ (faults' = faults \/ Fault)
<1> DEFINE Same == clock' = clock /\ sent' = sent /\ (faults' = faults \/ Fault)
<1>1. ASSUME NEW d \in Deliveries, DispatchNext(d) PROVE Same
    BY <1>1 DEF DispatchNext, Ensure, MarkFailed, Read, PutControl, Claim, ClaimLost, PrepareTimesOut, TooLate,
       RunTask, RunRejected, Unlaunched, Confirm, DispatchFails
<1>2. ASSUME NEW a \in Deliveries, TaskNext(a) PROVE Same
    BY <1>2 DEF TaskNext, Upload, Complete, TaskStops
<1>3. ASSUME NEW r \in Reconcilers, EventNext(r) PROVE Same
    BY <1>3 DEF EventNext, ReadStopped, LoadCompletion, CommitStopped, CleanAttempt, ReconcileFails
<1>4. ASSUME NEW j \in Janitors, JanitorWork(j) \/ JanitorFails(j) PROVE Same
    BY <1>4 DEF JanitorWork, Scan, TerminalizeStale, ClaimCleanup, DeletePrefix, DeleteRow, ClaimSweep, Sweep,
       ReleaseSweep, JanitorFails
<1>5. ASSUME CleanupLeaseEnds \/ SweepLeaseEnds \/ RowExpires \/ UNCHANGED vars PROVE Same
    BY <1>5 DEF CleanupLeaseEnds, SweepLeaseEnds, RowExpires, vars
<1>6. ASSUME Submit PROVE clock' = clock /\ faults' = faults
    BY <1>6 DEF Submit
<1>7. ASSUME Tick PROVE sent' = sent /\ faults' = faults
    BY <1>7 DEF Tick
<1>8. QED
    BY <1>1, <1>2, <1>3, <1>4, <1>5, <1>6, <1>7 DEF Next

(* Time goes on by a phase.                                                 *)
LEMMA ClockSteps ==
    ASSUME ClockOK, [Next]_vars
    PROVE  ClockOK' /\ clock <= clock' /\ (clock' = clock \/ (clock < Past /\ clock' = clock + 1))
<1>1. clock \in 0..5 /\ clock \in Nat
    BY Phases DEF ClockOK
<1>2. clock' = clock \/ (clock < 5 /\ clock' = clock + 1)
    BY ClockFrame, Phases DEF Tick
<1>3. clock' \in Fresh..Past /\ clock <= clock'
    BY <1>1, <1>2, Phases
<1>4. faults' \in 0..MaxFaults
    <2>1. faults \in 0..MaxFaults /\ MaxFaults \in Nat
        BY MediaAssumption DEF ClockOK, MediaAssumption
    <2>2. QED
        BY <2>1, ClockFrame DEF Fault
<1>5. QED
    BY <1>2, <1>3, <1>4, Phases DEF ClockOK

-----------------------------------------------------------------------------
(* The types are kept.                                                      *)

(* What the names of the states are.                                        *)
LEMMA Names ==
    /\ Active = {"queued", "running"} /\ Terminal = {"done", "failed"}
    /\ Statuses = {"none", "queued", "running", "done", "failed"}
    /\ None \notin Deliveries /\ None \notin Janitors
BY MediaAssumption DEF MediaAssumption, Active, Terminal, Statuses

(* A row with one field changed.                                            *)
LEMMA RowWith ==
    ASSUME NEW r \in Rows
    PROVE  /\ \A v \in Statuses : [r EXCEPT !.status = v] \in Rows
           /\ \A v \in Nat : [r EXCEPT !.version = v] \in Rows
           /\ \A v \in Deliveries \cup {None} : [r EXCEPT !.attempt = v] \in Rows
           /\ \A v \in Deliveries \cup {None} : [r EXCEPT !.task = v] \in Rows
           /\ \A v \in Codes : [r EXCEPT !.code = v] \in Rows
           /\ \A v \in Janitors \cup {None} : [r EXCEPT !.cleaner = v] \in Rows
           /\ \A v \in Janitors \cup {None} : [r EXCEPT !.sweeper = v] \in Rows
BY DEF Rows

(* The row, ...                                                             *)
LEMMA RowTypes ==
    ASSUME RowOK, WorkOK, EventOK, [Next]_vars
    PROVE  RowOK'
<1>0. /\ row \in Rows /\ row.version \in Nat /\ row.version + 1 \in Nat
      /\ {"queued", "running", "failed", "done"} \subseteq Statuses
      /\ {"none", "deadline", "unlaunched", "stopped", "stale"} \subseteq Codes
    BY Names DEF RowOK, Rows, Codes
<1>n. NoRow \in Rows
    BY Names DEF NoRow, Rows, Codes
<1>f. ASSUME NEW status \in {"failed", "done"}, NEW code \in Codes, NEW t \in Deliveries \cup {None}
      PROVE  Ended(status, code, t) \in Rows
    <2>1. row.task \in Deliveries \cup {None}
        BY <1>0 DEF Rows
    <2>2. QED
        BY <1>0, <1>f, <2>1, RowWith DEF Ended
<1>1. ASSUME NEW d \in Deliveries, Ensure(d) \/ MarkFailed(d) PROVE RowOK'
    <2>1. [NoRow EXCEPT !.status = "queued"] \in Rows
        BY <1>0, <1>n, RowWith
    <2>2. [row EXCEPT !.status = "failed", !.code = "deadline", !.version = @ + 1] \in Rows
        BY <1>0, RowWith
    <2>3. row' \in {row, [NoRow EXCEPT !.status = "queued"],
                   [row EXCEPT !.status = "failed", !.code = "deadline", !.version = @ + 1]}
        BY <1>1 DEF Ensure, MarkFailed
    <2>4. QED
        BY <1>0, <2>1, <2>2, <2>3 DEF RowOK
<1>a. ASSUME NEW d \in Deliveries, Unlaunched(d) \/ Confirm(d) PROVE RowOK'
    <2>1. Ended("failed", "unlaunched", None) \in Rows
        BY <1>0, <1>f
    <2>2. dispatch[d].attempt \in Deliveries \cup {None}
        BY DEF WorkOK
    <2>3. QED
        BY <1>0, <1>a, <2>1, <2>2, RowWith DEF RowOK, Unlaunched, Confirm
<1>2. ASSUME NEW d \in Deliveries, Claim(d) \/ ClaimLost(d) PROVE RowOK'
    <2>1. dispatch[d].version + 1 \in Nat
        BY DEF WorkOK
    <2>2. Claimed(d) \in Rows
        BY <1>0, <2>1, RowWith DEF Claimed
    <2>3. row' = row \/ row' = Claimed(d)
        BY <1>2 DEF Claim, ClaimLost
    <2>4. QED
        BY <1>0, <2>2, <2>3 DEF RowOK
<1>3. ASSUME NEW r \in Reconcilers, CommitStopped(r) PROVE RowOK'
    <2>1. event[r].result \in {"failed", "done"} /\ event[r].attempt \in Deliveries \cup {None}
        BY Names DEF EventOK
    <2>2. Ended(event[r].result, "stopped", event[r].attempt) \in Rows
        BY <1>0, <1>f, <2>1
    <2>3. QED
        BY <1>0, <1>3, <2>2 DEF RowOK, CommitStopped
<1>4. ASSUME NEW j \in Janitors, TerminalizeStale(j) \/ ClaimCleanup(j) \/ DeleteRow(j) PROVE RowOK'
    <2>1. [row EXCEPT !.status = "failed", !.code = "stale", !.version = @ + 1, !.attempt = None] \in Rows
        BY <1>0, RowWith
    <2>2. [row EXCEPT !.cleaner = j, !.version = @ + 1] \in Rows
        BY <1>0, RowWith
    <2>3. row' \in {row, NoRow, [row EXCEPT !.cleaner = j, !.version = @ + 1],
                   [row EXCEPT !.status = "failed", !.code = "stale", !.version = @ + 1, !.attempt = None]}
        BY <1>4 DEF TerminalizeStale, ClaimCleanup, DeleteRow
    <2>4. QED
        BY <1>0, <1>n, <2>1, <2>2, <2>3 DEF RowOK
<1>5. ASSUME NEW j \in Janitors, ClaimSweep(j) \/ ReleaseSweep(j) PROVE RowOK'
    <2>1. [row EXCEPT !.sweeper = j, !.version = @ + 1] \in Rows /\ [row EXCEPT !.sweeper = None] \in Rows
        BY <1>0, RowWith
    <2>2. row' \in {row, [row EXCEPT !.sweeper = j, !.version = @ + 1], [row EXCEPT !.sweeper = None]}
        BY <1>5 DEF ClaimSweep, ReleaseSweep
    <2>3. QED
        BY <1>0, <2>1, <2>2 DEF RowOK
<1>6. ASSUME CleanupLeaseEnds \/ SweepLeaseEnds PROVE RowOK'
    BY <1>0, <1>6, RowWith DEF RowOK, CleanupLeaseEnds, SweepLeaseEnds
<1>7. ASSUME row' = row PROVE RowOK'
    BY <1>0, <1>7 DEF RowOK
<1>8. ASSUME RowExpires PROVE RowOK'
    BY <1>n, <1>8 DEF RowOK, RowExpires
<1>9. QED
    BY <1>1, <1>a, <1>2, <1>3, <1>4, <1>5, <1>6, <1>7, <1>8, RowFrame

(* ... the objects, ...                                                     *)
LEMMA ObjectTypes ==
    ASSUME ObjectsOK, [Next]_vars
    PROVE  ObjectsOK'
<1>1. ASSUME NEW d \in Deliveries, PutControl(d) \/ Claim(d) \/ ClaimLost(d) \/ PrepareTimesOut(d) \/ Upload(d)
      PROVE  ObjectsOK'
    BY <1>1 DEF ObjectsOK, PutControl, Claim, ClaimLost, PrepareTimesOut, Upload
<1>2. ASSUME NEW a \in Deliveries, Complete(a) PROVE ObjectsOK'
    <2>1. PICK result \in Terminal : completion' = [completion EXCEPT ![a] = result]
        BY <1>2, Names DEF Complete
    <2>2. QED
        BY <1>2, <2>1 DEF ObjectsOK, Complete
<1>3. ASSUME NEW r \in Reconcilers, CleanAttempt(r) PROVE ObjectsOK'
    BY <1>3 DEF ObjectsOK, CleanAttempt
<1>4. ASSUME NEW j \in Janitors, DeletePrefix(j) PROVE ObjectsOK'
    BY <1>4 DEF ObjectsOK, DeletePrefix
<1>5. ASSUME UNCHANGED objects PROVE ObjectsOK'
    BY <1>5 DEF ObjectsOK, objects
<1>6. QED
    BY <1>1, <1>2, <1>3, <1>4, <1>5, ObjectFrame

(* ... the tasks and the deliveries, ...                                    *)
LEMMA WorkTypes ==
    ASSUME RowOK, WorkOK, [Next]_vars
    PROVE  WorkOK'
<1> DEFINE Delivery == [pc : Places, attempt : Deliveries \cup {None}, version : Nat]
<1>0. dispatch \in [Deliveries -> Delivery]
    BY DEF WorkOK
<1>1. task' \in [Deliveries -> {"none", "running", "exited", "killed"}]
    BY TaskFrame DEF WorkOK, RunTask, TaskStops
<1>2. ASSUME NEW d \in Deliveries, NEW to \in Places, Go(d, to) PROVE dispatch' \in [Deliveries -> Delivery]
    BY <1>0, <1>2 DEF Go
<1>3. ASSUME NEW d \in Deliveries, NEW how \in {"acked", "raised"}, Ends(d, how)
      PROVE  dispatch' \in [Deliveries -> Delivery]
    BY <1>0, <1>3 DEF Ends, At, Places
<1>4. ASSUME NEW d \in Deliveries, Read(d) PROVE dispatch' \in [Deliveries -> Delivery]
    <2>1. row.attempt \in Deliveries \cup {None} /\ row.version \in Nat
        BY DEF RowOK, Rows
    <2>2. {At("acked"), At("raised"), [pc |-> "run", attempt |-> row.attempt, version |-> row.version],
           [pc |-> "control", attempt |-> d, version |-> row.version]} \subseteq Delivery
        BY <2>1 DEF At, Places
    <2>3. QED
        BY <1>0, <1>4, <2>2, ReadCases
<1>5. ASSUME NEW d \in Deliveries, Claim(d) PROVE dispatch' \in [Deliveries -> Delivery]
    <2>1. CASE Ends(d, "raised")
        BY <1>3, <2>1
    <2>2. CASE dispatch' = [dispatch EXCEPT ![d].pc = "run", ![d].version = @ + 1]
        BY <1>0, <2>2 DEF Places
    <2>3. QED
        BY <1>5, <2>1, <2>2 DEF Claim
<1>6. ASSUME NEW d \in Deliveries, DispatchNext(d) PROVE dispatch' \in [Deliveries -> Delivery]
    <2>1. \/ Read(d) \/ Claim(d)
          \/ Ends(d, "raised") \/ Ends(d, "acked")
          \/ Go(d, "read") \/ Go(d, "late") \/ Go(d, "claim") \/ Go(d, "unlaunched") \/ Go(d, "confirm")
        BY <1>6 DEF DispatchNext, Ensure, MarkFailed, PutControl, ClaimLost, PrepareTimesOut, TooLate, RunTask,
           RunRejected, Unlaunched, Confirm, DispatchFails
    <2>2. QED
        BY <2>1, <1>2, <1>3, <1>4, <1>5 DEF Places
<1>7. QED
    BY <1>0, <1>1, <1>6, DispatchFrame DEF WorkOK

(* ... the calls for stopped tasks ...                                      *)
LEMMA EventTypes ==
    ASSUME RowOK, EventOK, [Next]_vars
    PROVE  EventOK'
<1>1. ASSUME NEW r \in Reconcilers, NEW a \in Deliveries, ReadStopped(r, a) PROVE EventOK'
    <2>1. row.version \in Nat
        BY DEF RowOK, Rows
    <2> DEFINE read == [event[r] EXCEPT !.pc = "load", !.attempt = a, !.version = row.version]
    <2>2. event' = [event EXCEPT ![r] = read]
        BY <1>1 DEF ReadStopped
    <2>3. read \in [pc : {"idle", "load", "commit", "clean"}, attempt : Deliveries \cup {None},
                   version : Nat, result : Terminal]
        BY <2>1 DEF EventOK
    <2> HIDE DEF read
    <2>4. QED
        BY <2>2, <2>3 DEF EventOK
<1>2. ASSUME NEW r \in Reconcilers, LoadCompletion(r) PROVE EventOK'
    <2>1. ResultOf(event[r].attempt) \in Terminal
        BY Names DEF ResultOf
    <2>2. event' = [event EXCEPT ![r].pc = "commit", ![r].result = ResultOf(event[r].attempt)]
        BY <1>2 DEF LoadCompletion
    <2>3. QED
        BY <2>1, <2>2 DEF EventOK
<1>3. ASSUME NEW r \in Reconcilers, CommitStopped(r) \/ CleanAttempt(r) \/ ReconcileFails(r) PROVE EventOK'
    <2>1. event' = [event EXCEPT ![r].pc = "clean"] \/ event' = [event EXCEPT ![r] = NoEvent]
        BY <1>3 DEF CommitStopped, CleanAttempt, ReconcileFails
    <2>2. NoEvent \in [pc : {"idle", "load", "commit", "clean"}, attempt : Deliveries \cup {None},
                      version : Nat, result : Terminal]
        BY Names DEF NoEvent
    <2>3. QED
        BY <2>1, <2>2 DEF EventOK
<1>4. ASSUME event' = event PROVE EventOK'
    BY <1>4 DEF EventOK
<1>5. QED
    BY <1>1, <1>2, <1>3, <1>4, EventFrame DEF EventNext

(* ... and the janitors.                                                    *)
LEMMA JanitorTypes ==
    ASSUME RowOK, JanitorOK, ClockOK, [Next]_vars
    PROVE  JanitorOK'
<1>1. ASSUME NEW j \in Janitors, Scan(j) PROVE JanitorOK'
    BY <1>1 DEF RowOK, Rows, ClockOK, JanitorOK, Scan
<1>2. ASSUME NEW j \in Janitors, JanitorEnds(j) PROVE JanitorOK'
    BY <1>2, Phases, Names DEF JanitorOK, JanitorEnds, NoJanitor
<1>3. ASSUME NEW j \in Janitors, NEW to \in {"row", "release"}, JanitorTo(j, to) PROVE JanitorOK'
    BY <1>3 DEF JanitorOK, JanitorTo
<1>4. ASSUME NEW j \in Janitors, TerminalizeStale(j) \/ ClaimCleanup(j) \/ ClaimSweep(j) PROVE JanitorOK'
    <2>1. CASE JanitorEnds(j)
        BY <1>2, <2>1
    <2>2. CASE ~JanitorEnds(j)
        BY <1>4, <2>2, Names DEF JanitorOK, TerminalizeStale, ClaimCleanup, ClaimSweep
    <2>3. QED
        BY <2>1, <2>2
<1>5. ASSUME janitor' = janitor PROVE JanitorOK'
    BY <1>5 DEF JanitorOK
<1>6. ASSUME NEW j \in Janitors, JanitorWork(j) \/ JanitorFails(j) PROVE JanitorOK'
    <2>1. \/ Scan(j) \/ TerminalizeStale(j) \/ ClaimCleanup(j) \/ ClaimSweep(j)
          \/ JanitorEnds(j) \/ JanitorTo(j, "row") \/ JanitorTo(j, "release")
        BY <1>6 DEF JanitorWork, DeletePrefix, DeleteRow, Sweep, ReleaseSweep, JanitorFails
    <2>2. QED
        BY <2>1, <1>1, <1>2, <1>3, <1>4
<1>7. QED
    BY <1>5, <1>6, JanitorFrame

(* Every step keeps the types.                                              *)
LEMMA TypesKept == TypeOK /\ [Next]_vars => TypeOK'
<1> SUFFICES ASSUME TypeOK, [Next]_vars PROVE TypeOK'
    OBVIOUS
<1>1. RowOK /\ ObjectsOK /\ WorkOK /\ EventOK /\ JanitorOK /\ ClockOK /\ sent \in BOOLEAN
    BY Types
<1>2. RowOK' /\ ObjectsOK' /\ WorkOK' /\ EventOK' /\ JanitorOK'
    BY <1>1, RowTypes, ObjectTypes, WorkTypes, EventTypes, JanitorTypes
<1>3. ClockOK'
    BY <1>1, ClockSteps
<1>4. sent' \in BOOLEAN
    BY <1>1, ClockFrame DEF Submit
<1>5. QED
    BY <1>2, <1>3, <1>4, TypesNext

-----------------------------------------------------------------------------
(* The ways of the row.                                                     *)

Kept ==
    /\ row'.status = row.status /\ row'.attempt = row.attempt /\ row'.code = row.code
    /\ row.status = "none" => row' = row
Accepted ==
    /\ clock < Expired /\ row = NoRow /\ UNCHANGED <<clock, task, janitor>>
    /\ row' = [NoRow EXCEPT !.status = "queued"]
Taken(d) ==
    /\ clock < Expired /\ dispatch[d].pc = "claim" /\ UNCHANGED <<clock, task, janitor>>
    /\ row.status = "queued" /\ row'.status = "running" /\ row'.attempt = d /\ row'.code = row.code
Failed ==
    /\ row.status \in Active /\ row'.status = "failed" /\ row'.code \in Codes
    /\ row'.attempt = row.attempt \/ (clock >= Expired /\ row'.attempt = None)
    /\ UNCHANGED <<clock, task>>
Committed(r) ==
    /\ event[r].pc = "commit" /\ row.status = "running" /\ row.attempt = event[r].attempt
    /\ row'.status = event[r].result /\ row'.attempt = row.attempt /\ row'.code \in Codes
    /\ UNCHANGED <<clock, task, objects, janitor>>
Deleted(j) ==
    /\ janitor[j].pc = "row" /\ row.status \in Terminal /\ row' = NoRow
    /\ UNCHANGED <<clock, task, objects>>
Lapsed == clock = Past /\ row.status # "none" /\ row' = NoRow /\ UNCHANGED <<clock, task, objects>>

(* Every step is one of them.                                               *)
LEMMA RowSteps ==
    ASSUME TypeOK, RowInv, [Next]_vars
    PROVE  \/ Kept \/ Accepted \/ Failed \/ Lapsed
           \/ \E d \in Deliveries : Taken(d)
           \/ \E r \in Reconcilers : Committed(r)
           \/ \E j \in Janitors : Deleted(j)
<1>0. row \in Rows /\ {"none", "deadline", "unlaunched", "stopped", "stale"} \subseteq Codes
    BY Types DEF RowOK, Codes
<1>1. ASSUME NEW d \in Deliveries, Ensure(d) PROVE Kept \/ Accepted
    <2>1. CASE row.status = "none"
        BY <1>1, <2>1 DEF Ensure, RowInv, Accepted
    <2>2. CASE row.status # "none"
        BY <1>1, <2>2 DEF Ensure, Kept
    <2>3. QED
        BY <2>1, <2>2
<1>2. ASSUME NEW d \in Deliveries, MarkFailed(d) PROVE Kept \/ Failed
    <2>1. CASE row.status = "queued"
        <3>1. /\ row' = [row EXCEPT !.status = "failed", !.code = "deadline", !.version = @ + 1]
              /\ UNCHANGED <<clock, task>>
            BY <1>2, <2>1 DEF MarkFailed
        <3>2. row'.status = "failed" /\ row'.code = "deadline" /\ row'.attempt = row.attempt
            BY <1>0, <3>1 DEF Rows
        <3>3. QED
            BY <1>0, <2>1, <3>1, <3>2, Names DEF Failed
    <2>2. CASE row.status # "queued"
        BY <1>2, <2>2 DEF MarkFailed, Kept
    <2>3. QED
        BY <2>1, <2>2
<1>3. ASSUME NEW d \in Deliveries, Claim(d) \/ ClaimLost(d) PROVE Kept \/ Taken(d)
    <2>1. CASE row' = row
        BY <2>1 DEF Kept
    <2>2. CASE row' # row
        <3>1. /\ row' = Claimed(d) /\ row.status = "queued" /\ dispatch[d].pc = "claim" /\ clock < Expired
              /\ UNCHANGED <<clock, task, janitor>>
            BY <1>3, <2>2 DEF Claim, ClaimLost
        <3>2. row'.status = "running" /\ row'.attempt = d /\ row'.code = row.code
            BY <1>0, <3>1 DEF Rows, Claimed
        <3>3. QED
            BY <3>1, <3>2 DEF Taken
    <2>3. QED
        BY <2>1, <2>2
<1>4. ASSUME NEW d \in Deliveries, Unlaunched(d) PROVE Kept \/ Failed
    <2>1. CASE row' = row
        BY <2>1 DEF Kept
    <2>2. CASE row' # row
        <3>1. row' = Ended("failed", "unlaunched", None) /\ row.status = "running" /\ UNCHANGED <<clock, task>>
            BY <1>4, <2>2 DEF Unlaunched, Fenced
        <3>2. row'.status = "failed" /\ row'.code = "unlaunched" /\ row'.attempt = row.attempt
            BY <1>0, <3>1 DEF Rows, Ended
        <3>3. QED
            BY <1>0, <3>1, <3>2, Names DEF Failed
    <2>3. QED
        BY <2>1, <2>2
<1>5. ASSUME NEW d \in Deliveries, Confirm(d) PROVE Kept
    <2>1. CASE row' = row
        BY <2>1 DEF Kept
    <2>2. CASE row' # row
        <3>1. row' = [row EXCEPT !.task = dispatch[d].attempt] /\ row.status = "running"
            BY <1>5, <2>2 DEF Confirm, Fenced
        <3>2. QED
            BY <1>0, <3>1 DEF Rows, Kept
    <2>3. QED
        BY <2>1, <2>2
<1>6. ASSUME NEW r \in Reconcilers, CommitStopped(r) PROVE Kept \/ Committed(r)
    <2>1. CASE row' = row
        BY <2>1 DEF Kept
    <2>2. CASE row' # row
        <3>1. /\ row' = Ended(event[r].result, "stopped", event[r].attempt) /\ event[r].pc = "commit"
              /\ row.status = "running" /\ row.attempt = event[r].attempt
              /\ UNCHANGED <<clock, task, objects, janitor>>
            BY <1>6, <2>2 DEF CommitStopped, Fenced
        <3>2. row'.status = event[r].result /\ row'.code = "stopped" /\ row'.attempt = row.attempt
            BY <1>0, <3>1 DEF Rows, Ended
        <3>3. QED
            BY <1>0, <3>1, <3>2 DEF Committed
    <2>3. QED
        BY <2>1, <2>2
<1>7. ASSUME NEW j \in Janitors, TerminalizeStale(j) PROVE Kept \/ Failed
    <2>1. CASE row' = row
        BY <2>1 DEF Kept
    <2>2. CASE row' # row
        <3>1. /\ row' = [row EXCEPT !.status = "failed", !.code = "stale", !.version = @ + 1, !.attempt = None]
              /\ janitor[j].pc = "stale" /\ row.status = janitor[j].status /\ UNCHANGED <<clock, task>>
            BY <1>7, <2>2 DEF TerminalizeStale
        <3>2. row'.status = "failed" /\ row'.code = "stale" /\ row'.attempt = None
            BY <1>0, <3>1 DEF Rows
        <3>3. row.status \in Active /\ clock >= Expired
            BY <3>1 DEF RowInv
        <3>4. QED
            BY <1>0, <3>1, <3>2, <3>3 DEF Failed
    <2>3. QED
        BY <2>1, <2>2
<1>8. ASSUME NEW j \in Janitors, DeleteRow(j) PROVE Kept \/ Deleted(j)
    <2>1. CASE row' = row
        BY <2>1 DEF Kept
    <2>2. CASE row' # row
        <3>1. janitor[j].pc = "row" /\ row.cleaner = j /\ row' = NoRow /\ UNCHANGED <<clock, task, objects>>
            BY <1>8, <2>2 DEF DeleteRow
        <3>2. row.status # "none"
            BY <3>1, Names DEF RowInv, NoRow
        <3>3. row.status \notin Active
            BY <3>1 DEF RowInv, Deleting
        <3>4. row.status \in Terminal
            BY <1>0, <3>2, <3>3, Names DEF Rows
        <3>5. QED
            BY <3>1, <3>4 DEF Deleted
    <2>3. QED
        BY <2>1, <2>2
<1>9. ASSUME NEW j \in Janitors, ClaimCleanup(j) \/ ClaimSweep(j) \/ ReleaseSweep(j) PROVE Kept
    <2>1. CASE row' = row
        BY <2>1 DEF Kept
    <2>2. CASE row' # row
        <3>1. /\ \/ row' = [row EXCEPT !.cleaner = j, !.version = @ + 1]
                 \/ row' = [row EXCEPT !.sweeper = j, !.version = @ + 1]
                 \/ row' = [row EXCEPT !.sweeper = None]
              /\ row.status # "none" \/ row.sweeper = j
            BY <1>9, <2>2, Names DEF ClaimCleanup, ClaimSweep, ReleaseSweep
        <3>2. row.status # "none"
            BY <3>1, Names DEF RowInv, NoRow
        <3>3. QED
            BY <1>0, <3>1, <3>2 DEF Rows, Kept
    <2>3. QED
        BY <2>1, <2>2
<1>10. ASSUME CleanupLeaseEnds \/ SweepLeaseEnds PROVE Kept
    <2>1. /\ row' = [row EXCEPT !.cleaner = None] \/ row' = [row EXCEPT !.sweeper = None]
          /\ row.cleaner # None \/ row.sweeper # None
        BY <1>10 DEF CleanupLeaseEnds, SweepLeaseEnds
    <2>2. row.status # "none"
        BY <2>1 DEF RowInv, NoRow
    <2>3. QED
        BY <1>0, <2>1, <2>2 DEF Rows, Kept
<1>11. ASSUME row' = row PROVE Kept
    BY <1>11 DEF Kept
<1>12. ASSUME RowExpires PROVE Lapsed
    BY <1>12 DEF RowExpires, Lapsed
<1>13. QED
    BY <1>1, <1>2, <1>3, <1>4, <1>5, <1>6, <1>7, <1>8, <1>9, <1>10, <1>11, <1>12, RowFrame

(* The ways of a janitor.                                                   *)
LEMMA JanitorSteps ==
    ASSUME TypeOK, [Next]_vars, NEW j \in Janitors
    PROVE  \/ janitor'[j] = janitor[j]
           \/ janitor'[j].pc \in {"idle", "sweep", "sweeping", "release"}
           \/ Scan(j)
           \/ TerminalizeStale(j) /\ Eligible(janitor[j].time) /\ row'.status = "failed"
           \/ ClaimCleanup(j) /\ UNCHANGED <<clock, row.status>>
           \/ DeletePrefix(j)
<1>0. JanitorOK /\ row \in Rows
    BY Types DEF RowOK
<1>1. ASSUME NEW i \in Janitors, i # j, JanitorWork(i) \/ JanitorFails(i) PROVE janitor'[j] = janitor[j]
    BY <1>0, <1>1 DEF JanitorOK, JanitorWork, JanitorFails, Scan, TerminalizeStale, ClaimCleanup, DeletePrefix,
       DeleteRow, ClaimSweep, Sweep, ReleaseSweep, JanitorTo, JanitorEnds
<1>2. ASSUME JanitorEnds(j) PROVE janitor'[j].pc = "idle"
    BY <1>0, <1>2 DEF JanitorOK, JanitorEnds, NoJanitor
<1>3. ASSUME TerminalizeStale(j), ~JanitorEnds(j)
      PROVE  janitor'[j].pc = "sweep" \/ (Eligible(janitor[j].time) /\ row'.status = "failed")
    BY <1>0, <1>3 DEF JanitorOK, TerminalizeStale, Rows
<1>4. ASSUME ClaimCleanup(j), ~JanitorEnds(j) PROVE UNCHANGED <<clock, row.status>>
    BY <1>0, <1>4 DEF ClaimCleanup, Rows
<1>5. ASSUME ClaimSweep(j), ~JanitorEnds(j) PROVE janitor'[j].pc = "sweeping"
    BY <1>0, <1>5 DEF ClaimSweep, JanitorOK
<1>6. ASSUME Sweep(j), ~JanitorEnds(j) PROVE janitor'[j].pc = "release"
    BY <1>0, <1>6 DEF Sweep, JanitorTo, JanitorOK
<1>7. ASSUME DeleteRow(j) \/ ReleaseSweep(j) \/ JanitorFails(j) PROVE JanitorEnds(j)
    BY <1>7 DEF DeleteRow, ReleaseSweep, JanitorFails
<1>8. QED
    BY <1>1, <1>2, <1>3, <1>4, <1>5, <1>6, <1>7, JanitorFrame DEF JanitorWork

(* The invariant of the row is kept.                                        *)
LEMMA RowKept == TypeOK /\ RowInv /\ [Next]_vars => RowInv'
<1> SUFFICES ASSUME TypeOK, RowInv, [Next]_vars PROVE RowInv'
    OBVIOUS
<1>0. row \in Rows /\ JanitorOK /\ ClockOK
    BY Types DEF RowOK
<1>1. /\ row'.status = "none" => row' = NoRow
      /\ row'.status = "queued" => row'.attempt = None
      /\ row'.status \in {"running", "done"} => row'.attempt \in Deliveries
    <2>1. CASE Kept
        BY <2>1 DEF Kept, RowInv
    <2>2. CASE Accepted
        BY <2>2 DEF Accepted, NoRow
    <2>3. CASE Failed
        BY <2>3 DEF Failed
    <2>4. ASSUME NEW d \in Deliveries, Taken(d)
          PROVE  row'.status = "running" /\ row'.attempt \in Deliveries
        BY <2>4 DEF Taken
    <2>5. ASSUME NEW r \in Reconcilers, Committed(r)
          PROVE  row'.status \in {"done", "failed"} /\ row'.attempt \in Deliveries
        BY <2>5, Types, Names DEF Committed, RowInv, EventOK
    <2>6. ASSUME NEW j \in Janitors, Deleted(j) PROVE row' = NoRow
        BY <2>6 DEF Deleted
    <2>7. NoRow.status = "none" /\ (Lapsed => row' = NoRow)
        BY DEF NoRow, Lapsed
    <2>8. QED
        BY <2>1, <2>2, <2>3, <2>4, <2>5, <2>6, <2>7, RowSteps
<1>2. clock \in 0..5 /\ clock' \in 0..5 /\ clock <= clock'
    BY <1>0, ClockSteps, Phases DEF ClockOK
<1>3. clock >= Due /\ row.status \notin Active => row'.status \notin Active
    <2>1. ASSUME NEW r \in Reconcilers, Committed(r) PROVE row'.status \in Terminal
        BY <2>1, Types DEF Committed, EventOK
    <2>2. QED
        BY <1>2, <2>1, RowSteps, Names, Phases DEF Kept, Accepted, Taken, Failed, Deleted, Lapsed, NoRow
<1>4. ASSUME NEW j \in Janitors
      PROVE  /\ janitor'[j].pc = "stale" => /\ clock' >= Expired /\ janitor'[j].time <= clock'
                                            /\ janitor'[j].status \in Active
             /\ janitor'[j].pc \in Deleting => clock' >= Due /\ row'.status \notin Active
    <2>0. /\ janitor[j].pc = "stale" => /\ clock >= Expired /\ janitor[j].time <= clock
                                        /\ janitor[j].status \in Active
          /\ janitor[j].pc \in Deleting => clock >= Due /\ row.status \notin Active
          /\ janitor[j].time \in 0..5
        BY <1>0, Phases DEF RowInv, JanitorOK
    <2>1. CASE janitor'[j] = janitor[j]
        BY <1>2, <1>3, <2>0, <2>1, Phases
    <2>2. CASE janitor'[j].pc \in {"idle", "sweep", "sweeping", "release"}
        BY <2>2 DEF Deleting
    <2>3. CASE Scan(j)
        <3>1. UNCHANGED <<clock, row>>
            BY <2>3 DEF Scan
        <3>2. /\ janitor'[j].pc = IF Stale THEN "stale" ELSE IF Eligible(clock) THEN "claim" ELSE "sweep"
              /\ janitor'[j].time = clock /\ janitor'[j].status = row.status
            BY <1>0, <2>3 DEF Scan, JanitorOK
        <3>3. CASE Stale
            BY <1>2, <3>1, <3>2, <3>3 DEF Stale, Deleting
        <3>4. CASE ~Stale
            BY <1>2, <3>1, <3>2, <3>4, Phases DEF Stale, Deleting, Eligible
        <3>5. QED
            BY <3>3, <3>4
    <2>4. CASE TerminalizeStale(j) /\ Eligible(janitor[j].time) /\ row'.status = "failed"
        <3>1. janitor[j].pc = "stale" /\ clock' = clock /\ clock >= Due
            BY <1>2, <2>0, <2>4, Phases DEF TerminalizeStale, Eligible
        <3>2. janitor'[j].pc # "stale"
            BY <1>0, <2>4 DEF TerminalizeStale, JanitorOK, JanitorEnds, NoJanitor
        <3>3. QED
            BY <2>4, <3>1, <3>2, Names
    <2>5. CASE ClaimCleanup(j) /\ UNCHANGED <<clock, row.status>>
        <3>1. janitor[j].pc = "claim" /\ janitor'[j].pc # "stale"
            BY <1>0, <2>5 DEF ClaimCleanup, JanitorOK, JanitorEnds, NoJanitor
        <3>2. QED
            BY <2>0, <2>5, <3>1 DEF Deleting
    <2>6. CASE DeletePrefix(j)
        <3>1. janitor[j].pc = "delete" /\ janitor'[j].pc = "row" /\ UNCHANGED <<clock, row>>
            BY <1>0, <2>6 DEF DeletePrefix, JanitorTo, JanitorOK
        <3>2. QED
            BY <2>0, <3>1 DEF Deleting
    <2>7. QED
        BY <2>1, <2>2, <2>3, <2>4, <2>5, <2>6, JanitorSteps
<1>5. QED
    BY <1>1, <1>4 DEF RowInv

-----------------------------------------------------------------------------
(* The ways of a delivery, ...                                              *)
LEMMA DispatchSteps ==
    ASSUME TypeOK, TaskInv, [Next]_vars, NEW d \in Deliveries
    PROVE  \/ dispatch'[d] = dispatch[d]
           \/ dispatch'[d].pc \in {"late", "unlaunched", "acked", "raised"}
           \/ dispatch'[d].pc = "read" /\ row'.status # "none"
           \/ /\ dispatch'[d].pc = "run" /\ row.status = "running" /\ dispatch'[d].attempt = row.attempt
              /\ row' = row
           \/ dispatch'[d].pc \in {"control", "claim"} /\ dispatch'[d].attempt = d /\ dispatch[d].pc # "idle"
           \/ dispatch'[d].pc = "run" /\ dispatch'[d].attempt = d /\ row'.attempt = d /\ dispatch[d].pc = "claim"
           \/ /\ dispatch'[d].pc = "confirm" /\ dispatch'[d].attempt = dispatch[d].attempt
              /\ dispatch[d].pc = "run" /\ row' = row
<1>0. dispatch \in [Deliveries -> [pc : Places, attempt : Deliveries \cup {None}, version : Nat]] /\ row \in Rows
    BY Types DEF RowOK, WorkOK
<1>1. ASSUME NEW e \in Deliveries, e # d, DispatchNext(e) PROVE dispatch'[d] = dispatch[d]
    <2>1. ASSUME Read(e) PROVE dispatch'[d] = dispatch[d]
        BY <1>0, <1>1, <2>1, ReadCases
    <2>2. QED
        BY <1>0, <1>1, <2>1 DEF DispatchNext, Ensure, MarkFailed, PutControl, Claim, ClaimLost, PrepareTimesOut,
           TooLate, RunTask, RunRejected, Unlaunched, Confirm, DispatchFails, Go, Ends
<1>2. ASSUME NEW how \in {"acked", "raised"}, Ends(d, how) PROVE dispatch'[d].pc = how
    BY <1>0, <1>2 DEF Ends, At
<1>3. ASSUME NEW to \in Places, Go(d, to)
      PROVE  dispatch'[d].pc = to /\ dispatch'[d].attempt = dispatch[d].attempt
    BY <1>0, <1>3 DEF Go
<1>4. ASSUME MarkFailed(d) \/ ClaimLost(d) \/ Unlaunched(d) \/ Confirm(d) \/ DispatchFails(d)
      PROVE  dispatch'[d].pc \in {"acked", "raised"}
    <2>1. Ends(d, "acked") \/ Ends(d, "raised")
        BY <1>4 DEF MarkFailed, ClaimLost, Unlaunched, Confirm, DispatchFails
    <2>2. QED
        BY <1>2, <2>1
<1>5. ASSUME PrepareTimesOut(d) \/ TooLate(d) \/ RunRejected(d) PROVE dispatch'[d].pc \in {"late", "unlaunched"}
    <2>1. Go(d, "late") \/ Go(d, "unlaunched")
        BY <1>5 DEF PrepareTimesOut, TooLate, RunRejected
    <2>2. QED
        BY <1>3, <2>1 DEF Places
<1>6. ASSUME Ensure(d) PROVE dispatch'[d].pc \in {"read", "late"} /\ row'.status # "none"
    <2>1. Go(d, "read") \/ Go(d, "late")
        BY <1>6 DEF Ensure
    <2>2. row'.status # "none"
        BY <1>6 DEF Ensure, NoRow
    <2>3. QED
        BY <1>3, <2>1, <2>2 DEF Places
<1>7. ASSUME Read(d)
      PROVE  \/ dispatch'[d].pc \in {"acked", "raised"}
             \/ /\ dispatch'[d].pc = "run" /\ row.status = "running" /\ dispatch'[d].attempt = row.attempt
                /\ row' = row
             \/ dispatch'[d].pc = "control" /\ dispatch'[d].attempt = d /\ dispatch[d].pc = "read"
    <2>1. row' = row /\ dispatch[d].pc = "read"
        BY <1>7 DEF Read
    <2>2. QED
        BY <1>0, <1>7, <2>1, ReadCases DEF At
<1>8. ASSUME PutControl(d)
      PROVE  dispatch'[d].pc = "claim" /\ dispatch'[d].attempt = d /\ dispatch[d].pc = "control"
    BY <1>3, <1>8 DEF PutControl, TaskInv, Places
<1>9. ASSUME Claim(d)
      PROVE  \/ dispatch'[d].pc = "raised"
             \/ dispatch'[d].pc = "run" /\ dispatch'[d].attempt = d /\ row'.attempt = d /\ dispatch[d].pc = "claim"
    <2>1. CASE Ends(d, "raised")
        BY <1>2, <2>1
    <2>2. CASE ~Ends(d, "raised")
        <3>1. /\ dispatch' = [dispatch EXCEPT ![d].pc = "run", ![d].version = @ + 1]
              /\ row' = Claimed(d) /\ dispatch[d].pc = "claim"
            BY <1>9, <2>2 DEF Claim
        <3>2. dispatch'[d].pc = "run" /\ dispatch'[d].attempt = dispatch[d].attempt
            BY <1>0, <3>1
        <3>3. row'.attempt = d
            BY <1>0, <3>1 DEF Claimed, Rows
        <3>4. dispatch[d].attempt = d
            BY <3>1 DEF TaskInv
        <3>5. QED
            BY <3>1, <3>2, <3>3, <3>4
    <2>3. QED
        BY <2>1, <2>2
<1>10. ASSUME RunTask(d)
       PROVE  /\ dispatch'[d].pc = "confirm" /\ dispatch'[d].attempt = dispatch[d].attempt
              /\ dispatch[d].pc = "run" /\ row' = row
    BY <1>3, <1>10 DEF RunTask, Places
<1>11. QED
    BY <1>1, <1>4, <1>5, <1>6, <1>7, <1>8, <1>9, <1>10, DispatchFrame DEF DispatchNext

(* ... of a task ...                                                        *)
LEMMA TaskSteps ==
    ASSUME TypeOK, [Next]_vars
    PROVE  /\ \A a \in Deliveries : task[a] # "none" => task'[a] # "none"
           /\ \/ \A a \in Deliveries : task'[a] # "none" => task[a] # "none"
              \/ \E d \in Deliveries :
                    /\ dispatch[d].pc = "run" /\ clock = Fresh /\ UNCHANGED <<clock, row>>
                    /\ \A a \in Deliveries : task'[a] # "none" => task[a] # "none" \/ a = dispatch[d].attempt
<1>0. task \in [Deliveries -> {"none", "running", "exited", "killed"}]
    BY Types DEF WorkOK
<1>1. ASSUME NEW d \in Deliveries, RunTask(d)
      PROVE  /\ \A a \in Deliveries : task[a] # "none" => task'[a] # "none"
             /\ dispatch[d].pc = "run" /\ clock = Fresh /\ UNCHANGED <<clock, row>>
             /\ \A a \in Deliveries : task'[a] # "none" => task[a] # "none" \/ a = dispatch[d].attempt
    BY <1>0, <1>1 DEF RunTask
<1>2. ASSUME NEW d \in Deliveries, TaskStops(d)
      PROVE  \A a \in Deliveries : task[a] # "none" <=> task'[a] # "none"
    <2>1. PICK end \in {"exited", "killed"} : task' = [task EXCEPT ![d] = end]
        BY <1>2 DEF TaskStops
    <2>2. task[d] = "running"
        BY <1>2 DEF TaskStops
    <2>3. QED
        BY <1>0, <2>1, <2>2
<1>3. QED
    BY <1>1, <1>2, TaskFrame

(* ... and of a call for a stopped task.                                    *)
LEMMA EventSteps ==
    ASSUME TypeOK, [Next]_vars, NEW r \in Reconcilers
    PROVE  \/ event'[r] = event[r]
           \/ event'[r].pc = "idle"
           \/ /\ event'[r].pc = "load" /\ event'[r].attempt \in Deliveries
              /\ task[event'[r].attempt] \in {"exited", "killed"}
           \/ /\ event'[r].pc = "commit" /\ event'[r].attempt = event[r].attempt /\ event[r].pc = "load"
              /\ event'[r].result = ResultOf(event[r].attempt) /\ UNCHANGED objects
           \/ event'[r].pc = "clean" /\ event'[r].attempt = event[r].attempt /\ event[r].pc = "commit"
<1>0. event \in [Reconcilers -> [pc : {"idle", "load", "commit", "clean"}, attempt : Deliveries \cup {None},
                                 version : Nat, result : Terminal]]
    BY Types DEF EventOK
<1>1. ASSUME NEW q \in Reconcilers, q # r, EventNext(q) PROVE event'[r] = event[r]
    BY <1>0, <1>1 DEF EventNext, ReadStopped, LoadCompletion, CommitStopped, CleanAttempt, ReconcileFails
<1>2. ASSUME NEW a \in Deliveries, ReadStopped(r, a)
      PROVE  event'[r].pc = "load" /\ event'[r].attempt = a /\ task[a] \in {"exited", "killed"}
    BY <1>0, <1>2 DEF ReadStopped
<1>3. ASSUME LoadCompletion(r)
      PROVE  /\ event'[r].pc = "commit" /\ event'[r].attempt = event[r].attempt /\ event[r].pc = "load"
             /\ event'[r].result = ResultOf(event[r].attempt) /\ UNCHANGED objects
    <2>1. /\ event' = [event EXCEPT ![r].pc = "commit", ![r].result = ResultOf(event[r].attempt)]
          /\ event[r].pc = "load" /\ UNCHANGED objects
        BY <1>3 DEF LoadCompletion
    <2>2. QED
        BY <1>0, <2>1
<1>4. ASSUME CommitStopped(r) \/ CleanAttempt(r) \/ ReconcileFails(r)
      PROVE  \/ event'[r].pc = "idle"
             \/ event'[r].pc = "clean" /\ event'[r].attempt = event[r].attempt /\ event[r].pc = "commit"
    BY <1>0, <1>4 DEF CommitStopped, CleanAttempt, ReconcileFails, NoEvent
<1>5. QED
    BY <1>1, <1>2, <1>3, <1>4, EventFrame DEF EventNext

-----------------------------------------------------------------------------
(* While tasks may begin, the row names them.                               *)
LEMMA NamedKept ==
    ASSUME TypeOK, RowInv, TaskInv, [Next]_vars, clock' = Fresh
    PROVE  /\ \A a \in Deliveries : task'[a] # "none" => row'.attempt = a
           /\ \A d \in Deliveries : dispatch'[d].pc \in Launching =>
                 dispatch'[d].attempt = row'.attempt /\ row'.attempt \in Deliveries
<1>0. clock = Fresh /\ Fresh < Expired /\ Fresh < Due /\ Fresh < Past
    BY Types, ClockSteps, Phases DEF ClockOK
<1>1. /\ \A a \in Deliveries : task[a] # "none" => row.attempt = a
      /\ \A d \in Deliveries : dispatch[d].pc \in Launching =>
            dispatch[d].attempt = row.attempt /\ row.attempt \in Deliveries
    BY <1>0 DEF TaskInv
<1>2. row'.attempt = row.attempt \/ row.attempt = None
    <2>1. ASSUME NEW d \in Deliveries, Taken(d) PROVE row.attempt = None
        BY <2>1 DEF Taken, RowInv
    <2>2. ASSUME NEW r \in Reconcilers, Committed(r) PROVE row'.attempt = row.attempt
        BY <2>2 DEF Committed
    <2>3. ASSUME NEW j \in Janitors, Deleted(j) PROVE FALSE
        BY <1>0, <2>3, Phases DEF Deleted, RowInv, Deleting
    <2>4. Accepted => row.attempt = None
        BY DEF Accepted, NoRow
    <2>5. (Failed => row'.attempt = row.attempt) /\ ~Lapsed
        BY <1>0, Phases DEF Failed, Lapsed
    <2>6. QED
        BY <2>1, <2>2, <2>3, <2>4, <2>5, RowSteps DEF Kept
<1>3. CASE row.attempt = None /\ row'.attempt # row.attempt
    <2>1. (\A a \in Deliveries : task[a] = "none") /\ \A d \in Deliveries : dispatch[d].pc \notin Launching
        BY <1>1, <1>3, Names
    <2>2. \A a \in Deliveries : task'[a] = "none"
        BY <2>1, TaskSteps DEF Launching
    <2>3. ASSUME NEW d \in Deliveries, dispatch'[d].pc \in Launching
          PROVE  dispatch'[d].attempt = row'.attempt /\ row'.attempt \in Deliveries
        BY <1>3, <2>1, <2>3, DispatchSteps DEF Launching
    <2>4. QED
        BY <2>2, <2>3
<1>4. CASE row'.attempt = row.attempt
    <2>1. ASSUME NEW a \in Deliveries, task'[a] # "none" PROVE row'.attempt = a
        BY <1>1, <1>4, <2>1, TaskSteps DEF Launching
    <2>2. ASSUME NEW d \in Deliveries, dispatch'[d].pc \in Launching
          PROVE  dispatch'[d].attempt = row'.attempt /\ row'.attempt \in Deliveries
        BY <1>1, <1>4, <2>2, DispatchSteps DEF Launching, RowInv
    <2>3. QED
        BY <2>1, <2>2
<1>5. QED
    BY <1>2, <1>3, <1>4

(* The invariant of the tasks is kept.                                      *)
LEMMA TaskKept == TypeOK /\ RowInv /\ TaskInv /\ [Next]_vars => TaskInv'
<1> SUFFICES ASSUME TypeOK, RowInv, TaskInv, [Next]_vars PROVE TaskInv'
    OBVIOUS
<1>1. clock' = Fresh =>
          /\ \A a \in Deliveries : task'[a] # "none" => row'.attempt = a
          /\ \A d \in Deliveries : dispatch'[d].pc \in Launching =>
                dispatch'[d].attempt = row'.attempt /\ row'.attempt \in Deliveries
    BY NamedKept
<1>2. ASSUME NEW d \in Deliveries, dispatch'[d].pc \in {"control", "claim"} PROVE dispatch'[d].attempt = d
    BY <1>2, DispatchSteps DEF TaskInv
<1>3. ASSUME NEW r \in Reconcilers, event'[r].pc # "idle"
      PROVE  event'[r].attempt \in Deliveries /\ task'[event'[r].attempt] # "none"
    <2>1. event'[r].attempt \in Deliveries /\ task[event'[r].attempt] # "none"
        BY <1>3, EventSteps DEF TaskInv
    <2>2. QED
        BY <2>1, TaskSteps
<1>4. \A a, b \in Deliveries : task'[a] # "none" /\ task'[b] # "none" => a = b
    <2>1. CASE \A a \in Deliveries : task'[a] # "none" => task[a] # "none"
        BY <2>1 DEF TaskInv, OneTask
    <2>2. CASE clock = Fresh /\ clock' = clock
        BY <1>1, <2>2
    <2>3. QED
        BY <2>1, <2>2, TaskSteps
<1>5. QED
    BY <1>1, <1>2, <1>3, <1>4 DEF TaskInv, OneTask

-----------------------------------------------------------------------------
(* Nothing is written for a job that nobody works for, or after the         *)
(* deadline.                                                                *)
LEMMA NoGrowth ==
    ASSUME TypeOK, [Next]_vars, NoObjects, Quiet \/ clock >= Expired
    PROVE  NoObjects'
<1>0. completion \in [Deliveries -> {"none"} \cup Terminal] /\ clock \in 0..5
    BY Types, Phases DEF ObjectsOK, ClockOK
<1>1. ASSUME NEW d \in Deliveries, PutControl(d) \/ Upload(d) \/ Complete(d) PROVE FALSE
    BY <1>0, <1>1, Phases DEF PutControl, Upload, Complete, Quiet
<1>2. ASSUME NEW d \in Deliveries, Claim(d) \/ ClaimLost(d) \/ PrepareTimesOut(d) PROVE NoObjects'
    BY <1>2 DEF Claim, ClaimLost, PrepareTimesOut, NoObjects
<1>3. ASSUME NEW r \in Reconcilers, CleanAttempt(r) PROVE NoObjects'
    BY <1>0, <1>3 DEF CleanAttempt, NoObjects
<1>4. ASSUME NEW j \in Janitors, DeletePrefix(j) PROVE NoObjects'
    BY <1>4 DEF DeletePrefix, NoObjects
<1>5. ASSUME UNCHANGED objects PROVE NoObjects'
    BY <1>5 DEF objects, NoObjects
<1>6. QED
    BY <1>1, <1>2, <1>3, <1>4, <1>5, ObjectFrame

(* Artifacts are deleted only when it is due.                               *)
LEMMA FilesStay ==
    ASSUME TypeOK, RowInv, [Next]_vars, clock < Due
    PROVE  files \subseteq files'
<1>1. ASSUME NEW j \in Janitors, DeletePrefix(j) PROVE FALSE
    BY <1>1, Types, Phases DEF DeletePrefix, RowInv, Deleting, ClockOK
<1>2. QED
    BY <1>1, ObjectFrame DEF PutControl, Claim, ClaimLost, PrepareTimesOut, Upload, Complete, CleanAttempt,
       objects

(* A delivery that begins makes a row.                                      *)
LEMMA QuietSteps ==
    ASSUME TypeOK, TaskInv, [Next]_vars, Quiet, row'.status = "none", NEW d \in Deliveries
    PROVE  dispatch'[d].pc \in {"idle", "acked", "raised"}
<1>0. dispatch \in [Deliveries -> [pc : Places, attempt : Deliveries \cup {None}, version : Nat]]
      /\ dispatch[d].pc \in {"idle", "acked", "raised"}
    BY Types DEF WorkOK, Quiet
<1>1. ASSUME NEW e \in Deliveries, DispatchNext(e) PROVE dispatch'[d].pc \in {"idle", "acked", "raised"}
    <2>1. dispatch[e].pc \in {"idle", "acked", "raised"}
        BY DEF Quiet
    <2>2. Ensure(e)
        BY <1>1, <2>1 DEF DispatchNext, MarkFailed, Read, PutControl, Claim, ClaimLost, PrepareTimesOut,
           TooLate, RunTask, RunRejected, Unlaunched, Confirm, DispatchFails
    <2>3. row'.status # "none"
        BY <2>2 DEF Ensure, NoRow
    <2>4. QED
        BY <2>3
<1>2. QED
    BY <1>0, <1>1, DispatchFrame

(* The invariant of the objects is kept.                                    *)
LEMMA ObjectKept == TypeOK /\ RowInv /\ TaskInv /\ ObjectInv /\ [Next]_vars => ObjectInv'
<1> SUFFICES ASSUME TypeOK, RowInv, TaskInv, ObjectInv, [Next]_vars PROVE ObjectInv'
    OBVIOUS
<1>0. /\ clock \in 0..5 /\ clock' \in 0..5 /\ clock <= clock'
      /\ clock' < Due => clock < Due /\ files \subseteq files'
      /\ \A j \in Janitors : janitor[j].pc \in Deleting => clock >= Due
    <2>1. clock \in 0..5 /\ clock' \in 0..5 /\ clock <= clock'
        BY Types, ClockSteps, Phases DEF ClockOK
    <2>2. clock' < Due => clock < Due
        BY <2>1, Phases
    <2>3. QED
        BY <2>1, <2>2, FilesStay DEF RowInv
<1>1. ASSUME NEW r \in Reconcilers, event'[r].pc = "commit", event'[r].result = "done", clock' < Due
      PROVE  event'[r].attempt \in files'
    <2>1. CASE event'[r] = event[r]
        BY <1>0, <1>1, <2>1 DEF ObjectInv
    <2>2. CASE event'[r].attempt = event[r].attempt /\ event'[r].result = ResultOf(event[r].attempt)
        BY <1>0, <1>1, <2>2 DEF ResultOf
    <2>3. QED
        BY <1>1, <2>1, <2>2, EventSteps
<1>2. ASSUME row'.status = "done", clock' < Due PROVE row'.attempt \in files'
    <2>1. CASE Kept
        BY <1>0, <1>2, <2>1 DEF Kept, ObjectInv
    <2>2. ASSUME NEW r \in Reconcilers, Committed(r) PROVE row'.attempt \in files'
        BY <1>0, <1>2, <2>2 DEF Committed, ObjectInv
    <2>3. QED
        BY <1>2, <2>1, <2>2, RowSteps DEF Accepted, Failed, Taken, Deleted, Lapsed, NoRow
<1>3. ASSUME NEW j \in Janitors, janitor'[j].pc = "row" PROVE NoObjects'
    <2>1. CASE janitor[j].pc = "row"
        <3>1. NoObjects /\ clock >= Expired
            BY <1>0, <2>1, Phases DEF ObjectInv, Deleting
        <3>2. QED
            BY <3>1, NoGrowth
    <2>2. CASE DeletePrefix(j)
        BY <2>2 DEF DeletePrefix, NoObjects
    <2>3. CASE Scan(j)
        <3>1. janitor'[j].pc \in {"stale", "claim", "sweep"}
            BY <2>3, Types DEF Scan, JanitorOK
        <3>2. QED
            BY <1>3, <3>1
    <2>4. CASE TerminalizeStale(j) \/ ClaimCleanup(j)
        <3>1. janitor'[j].pc \in {"idle", "claim", "sweep", "delete"}
            BY <2>4, Types DEF TerminalizeStale, ClaimCleanup, JanitorEnds, NoJanitor, JanitorOK
        <3>2. QED
            BY <1>3, <3>1
    <2>5. QED
        BY <1>3, <2>1, <2>2, <2>3, <2>4, JanitorSteps
<1>4. ASSUME row'.status = "none" PROVE (clock' < Past => NoObjects') /\ (clock' < Due => Quiet')
    <2>1. CASE row.status = "none"
        <3>1. ASSUME clock' < Past PROVE NoObjects'
            <4>1. NoObjects /\ (Quiet \/ clock >= Expired)
                BY <1>0, <2>1, <3>1, Phases DEF ObjectInv
            <4>2. QED
                BY <4>1, NoGrowth
        <3>2. ASSUME clock' < Due PROVE Quiet'
            <4>1. Quiet
                BY <1>0, <2>1, <3>2 DEF ObjectInv
            <4>2. \A a \in Deliveries : task'[a] = "none"
                BY <4>1, TaskSteps DEF Quiet
            <4>3. ASSUME NEW d \in Deliveries PROVE dispatch'[d].pc \in {"idle", "acked", "raised"}
                BY <1>4, <2>1, <4>1, QuietSteps
            <4>4. QED
                BY <4>2, <4>3 DEF Quiet
        <3>3. QED
            BY <3>1, <3>2
    <2>2. CASE \E j \in Janitors : Deleted(j)
        <3>1. NoObjects /\ UNCHANGED objects /\ clock' >= Due
            BY <1>0, <2>2 DEF Deleted, ObjectInv, Deleting
        <3>2. QED
            BY <1>0, <3>1, Phases DEF NoObjects, objects
    <2>l. CASE Lapsed
        BY <1>0, <2>l, Phases DEF Lapsed
    <2>3. ASSUME NEW r \in Reconcilers, Committed(r) PROVE FALSE
        BY <1>4, <2>3, Types, Names DEF Committed, EventOK
    <2>4. QED
        BY <1>4, <2>1, <2>2, <2>3, <2>l, RowSteps DEF Kept, Accepted, Failed, Taken, NoRow
<1>5. QED
    BY <1>1, <1>2, <1>3, <1>4 DEF ObjectInv

-----------------------------------------------------------------------------
(* What holds of every behaviour.                                           *)

(* The invariant holds at first, ...                                        *)
LEMMA InvInit == Init => Inv
<1> SUFFICES ASSUME Init PROVE Inv
    OBVIOUS
<1>1. RowOK /\ ObjectsOK /\ WorkOK /\ EventOK /\ JanitorOK /\ ClockOK /\ sent \in BOOLEAN
    <2>1. RowOK
        BY Names DEF Init, RowOK, Rows, NoRow, Codes
    <2>2. ObjectsOK
        BY DEF Init, ObjectsOK
    <2>3. WorkOK
        BY DEF Init, WorkOK, At, Places
    <2>4. EventOK
        BY Names DEF Init, EventOK, NoEvent
    <2>5. JanitorOK
        BY Names, Phases DEF Init, JanitorOK, NoJanitor
    <2>6. ClockOK
        BY MediaAssumption, Phases DEF Init, ClockOK, MediaAssumption
    <2>7. QED
        BY <2>1, <2>2, <2>3, <2>4, <2>5, <2>6 DEF Init
<1>2. RowInv
    BY DEF Init, RowInv, NoRow, NoJanitor, Deleting
<1>3. TaskInv
    BY DEF Init, TaskInv, OneTask, At, NoEvent, Launching
<1>4. ObjectInv
    BY DEF Init, ObjectInv, NoRow, NoObjects, Quiet, At, NoEvent, NoJanitor
<1>5. QED
    BY <1>1, <1>2, <1>3, <1>4, Types DEF Inv

(* ... and every step keeps it.                                             *)
LEMMA InvNext == Inv /\ [Next]_vars => Inv'
BY TypesKept, RowKept, TaskKept, ObjectKept DEF Inv

(* Row, tasks and objects agree, whatever is delivered twice, lost or ends  *)
(* early (lambda/tiktok_dispatch, media/tool_worker, lambda/media_janitor). *)
THEOREM MediaInvariant == Spec => []Inv
<1>1. Init => Inv
    BY InvInit
<1>2. Inv /\ [Next]_vars => Inv'
    BY InvNext
<1>3. QED
    BY <1>1, <1>2, PTL DEF Spec

(* Every variable has its type in every reachable state.                    *)
THEOREM MediaTyping == Spec => []TypeOK
<1>1. Inv => TypeOK
    BY DEF Inv
<1>2. QED
    BY <1>1, MediaInvariant, PTL

(* However often the message is delivered, one task at most is started      *)
(* (_prepare_attempt with its conditional claim, and the client token).     *)
THEOREM TaskOnce == Spec => []OneTask
<1>1. Inv => OneTask
    BY DEF Inv, TaskInv
<1>2. QED
    BY <1>1, MediaInvariant, PTL

(* A published result has its artifacts until a janitor may claim the row   *)
(* (_reconcile_stopped, and the time the janitor waits for).                *)
THEOREM ResultStays == Spec => []ResultReadable
<1>1. Inv => ResultReadable
    BY DEF Inv, ObjectInv, ResultReadable
<1>2. QED
    BY <1>1, MediaInvariant, PTL

(* Until the table forgets rows by itself, a row is gone only with every    *)
(* object of its attempts, and none comes after it (the order of the        *)
(* janitor, and the deadline that every writer keeps).                      *)
THEOREM NothingStays == Spec => []NothingLeft
<1>1. Inv => NothingLeft
    BY DEF Inv, ObjectInv, NoObjects, NothingLeft
<1>2. QED
    BY <1>1, MediaInvariant, PTL

-----------------------------------------------------------------------------
(* The promise.                                                             *)

(* The outcome after a step.                                                *)
LEMMA OutcomesNext ==
    /\ row'.status \in Active => Outcome' = [kind |-> "open", cause |-> <<"none", None>>]
    /\ row'.status \in Terminal => Outcome' = [kind |-> row'.status, cause |-> <<row'.code, row'.attempt>>]
    /\ row'.status = "none" =>
          Outcome' = [kind |-> IF clock' >= Free THEN "gone" ELSE "none", cause |-> <<"none", None>>]
BY Zenon DEF Outcome, Active, Terminal

Launched == \E a \in Deliveries : task[a] # "none"
Cause == Codes \X (Deliveries \cup {None})
Unknown == <<"none", None>>

(* The outcome changes in the ways that are promised.                       *)
LEMMA OutcomeSteps ==
    ASSUME Inv, [Next]_vars
    PROVE  \/ Outcome' = Outcome
           \/ Outcome = [kind |-> "none", cause |-> Unknown] /\ Outcome' = [kind |-> "open", cause |-> Unknown]
           \/ /\ Outcome = [kind |-> "open", cause |-> Unknown]
              /\ \/ Outcome' \in [kind : {"failed"}, cause : Cause]
                 \/ Launched /\ Outcome' \in [kind : {"done"}, cause : Cause]
                 \/ Outcome' = [kind |-> "gone", cause |-> Unknown]
           \/ /\ Outcome.kind \in {"done", "failed"} \/ Outcome = [kind |-> "none", cause |-> Unknown]
              /\ Outcome' = [kind |-> "gone", cause |-> Unknown]
<1>0. /\ TypeOK /\ RowInv /\ TaskInv /\ row \in Rows /\ clock \in 0..5 /\ clock' \in 0..5 /\ clock <= clock'
      /\ row.status \in Statuses /\ row' \in Rows
    <2>1. TypeOK /\ RowInv /\ TaskInv /\ TypeOK'
        BY InvNext DEF Inv
    <2>2. clock \in 0..5 /\ clock' \in 0..5 /\ clock <= clock'
        BY <2>1, Types, ClockSteps, Phases DEF ClockOK
    <2>3. row \in Rows /\ row' \in Rows
        BY <2>1, Types, TypesNext DEF RowOK
    <2>4. QED
        BY <2>1, <2>2, <2>3 DEF Rows
<1>a. ASSUME row.status \in Active PROVE Outcome = [kind |-> "open", cause |-> Unknown]
    BY <1>a, Outcomes DEF Unknown
<1>b. ASSUME row'.status = "failed" PROVE Outcome' \in [kind : {"failed"}, cause : Cause]
    <2>1. Outcome' = [kind |-> "failed", cause |-> <<row'.code, row'.attempt>>]
        BY <1>b, OutcomesNext, Names
    <2>2. <<row'.code, row'.attempt>> \in Cause
        BY <1>0 DEF Cause, Rows
    <2>3. QED
        BY <2>1, <2>2
<1>c. ASSUME row'.status = "done" PROVE Outcome' \in [kind : {"done"}, cause : Cause]
    <2>1. Outcome' = [kind |-> "done", cause |-> <<row'.code, row'.attempt>>]
        BY <1>c, OutcomesNext, Names
    <2>2. <<row'.code, row'.attempt>> \in Cause
        BY <1>0 DEF Cause, Rows
    <2>3. QED
        BY <2>1, <2>2
<1>1. CASE Kept
    <2>0. row'.status = row.status /\ row'.code = row.code /\ row'.attempt = row.attempt
        BY <1>1 DEF Kept
    <2>1. CASE row.status \in Active
        BY <2>0, <2>1, Outcomes, OutcomesNext
    <2>2. CASE row.status \in Terminal
        BY <2>0, <2>2, Outcomes, OutcomesNext
    <2>3. CASE row.status = "none"
        <3>1. Outcome = [kind |-> IF clock >= Free THEN "gone" ELSE "none", cause |-> Unknown]
            BY <2>3, Outcomes DEF Unknown
        <3>2. Outcome' = [kind |-> IF clock' >= Free THEN "gone" ELSE "none", cause |-> Unknown]
            BY <2>0, <2>3, OutcomesNext DEF Unknown
        <3>3. clock >= Free => clock' >= Free
            BY <1>0, Phases
        <3>4. QED
            BY <3>1, <3>2, <3>3
    <2>4. QED
        BY <1>0, <2>1, <2>2, <2>3, Names
<1>2. CASE Accepted
    <2>1. row.status = "none" /\ row'.status = "queued" /\ ~(clock >= Free)
        BY <1>0, <1>2, Phases DEF Accepted, NoRow
    <2>2. Outcome = [kind |-> "none", cause |-> Unknown]
        BY <2>1, Outcomes DEF Unknown
    <2>3. Outcome' = [kind |-> "open", cause |-> Unknown]
        BY <2>1, OutcomesNext, Names DEF Unknown
    <2>4. QED
        BY <2>2, <2>3
<1>3. CASE Failed
    BY <1>3, <1>a, <1>b DEF Failed
<1>4. ASSUME NEW d \in Deliveries, Taken(d) PROVE Outcome' = Outcome
    <2>1. row.status \in Active /\ row'.status \in Active
        BY <1>4, Names DEF Taken
    <2>2. QED
        BY <2>1, Outcomes, OutcomesNext
<1>5. ASSUME NEW r \in Reconcilers, Committed(r)
      PROVE  /\ Outcome = [kind |-> "open", cause |-> Unknown] /\ Launched
             /\ Outcome' \in [kind : {"failed"}, cause : Cause] \/ Outcome' \in [kind : {"done"}, cause : Cause]
    <2>1. row.status \in Active /\ row'.status \in {"failed", "done"}
        BY <1>0, <1>5, Types, Names DEF Committed, EventOK
    <2>2. Launched
        BY <1>0, <1>5 DEF Committed, TaskInv, Launched
    <2>3. QED
        BY <2>1, <2>2, <1>a, <1>b, <1>c
<1>6. ASSUME NEW j \in Janitors, Deleted(j)
      PROVE  Outcome.kind \in {"done", "failed"} /\ Outcome' = [kind |-> "gone", cause |-> Unknown]
    <2>1. row.status \in {"done", "failed"} /\ row'.status = "none"
        BY <1>6, Names DEF Deleted, NoRow
    <2>2. clock' >= Free
        BY <1>0, <1>6, Phases DEF Deleted, RowInv, Deleting
    <2>3. Outcome.kind = row.status
        BY <2>1, Outcomes, Names
    <2>4. QED
        BY <2>1, <2>2, <2>3, OutcomesNext DEF Unknown
<1>7. ASSUME Lapsed
      PROVE  /\ Outcome = [kind |-> "open", cause |-> Unknown] \/ Outcome.kind \in {"done", "failed"}
             /\ Outcome' = [kind |-> "gone", cause |-> Unknown]
    <2>1. row.status \in {"queued", "running", "done", "failed"} /\ row'.status = "none"
        BY <1>0, <1>7, Names DEF Lapsed, NoRow
    <2>2. clock' >= Free
        BY <1>0, <1>7, Phases DEF Lapsed
    <2>3. row.status \in Terminal => Outcome.kind = row.status
        BY Outcomes
    <2>4. Outcome' = [kind |-> "gone", cause |-> Unknown]
        BY <2>1, <2>2, OutcomesNext DEF Unknown
    <2>5. QED
        BY <2>1, <2>3, <2>4, <1>a, Names
<1>8. QED
    BY <1>0, <1>1, <1>2, <1>3, <1>4, <1>5, <1>6, <1>7, RowSteps

(* A first task is started for a job that is open or over, and changes      *)
(* nothing else that was promised.                                          *)
LEMMA LaunchSteps ==
    ASSUME Inv, [Next]_vars
    PROVE  \/ Launched' <=> Launched
           \/ ~Launched /\ Launched' /\ Outcome' = Outcome /\ Outcome # [kind |-> "none", cause |-> Unknown]
<1>0. TypeOK /\ RowInv /\ TaskInv /\ row \in Rows
    BY Types DEF Inv, RowOK
<1>1. Launched => Launched'
    BY <1>0, TaskSteps DEF Launched
<1>2. ASSUME NEW d \in Deliveries, dispatch[d].pc = "run", clock = Fresh, UNCHANGED <<clock, row>>
      PROVE  Outcome' = Outcome /\ Outcome # [kind |-> "none", cause |-> Unknown]
    <2>1. Outcome' = Outcome
        BY <1>2, Zenon DEF Outcome
    <2>2. row.attempt \in Deliveries
        BY <1>0, <1>2 DEF TaskInv, Launching
    <2>3. row.status \in Active \cup Terminal
        BY <1>0, <2>2, Names DEF RowInv, Rows, NoRow
    <2>4. Outcome.kind \in {"open", "done", "failed"}
        BY <2>3, Outcomes, Names
    <2>5. QED
        BY <2>1, <2>4
<1>3. ASSUME \A a \in Deliveries : task'[a] # "none" => task[a] # "none" PROVE Launched' => Launched
    BY <1>3 DEF Launched
<1>4. QED
    BY <1>0, <1>1, <1>2, <1>3, TaskSteps

(* The job keeps its promise: it is worked on once at most, its end is      *)
(* final, a success comes from a task, and what was forgotten does not come *)
(* back; every step of the functions is a step of the promise, or none.     *)
THEOREM KeepsPromise == Spec => PromiseKept
<1>1. Init => Promise!Init
    <2> SUFFICES ASSUME Init PROVE Promise!Init
        OBVIOUS
    <2>1. row.status = "none" /\ ~(clock >= Free) /\ ~Launched
        BY Phases DEF Init, NoRow, Launched
    <2>2. Outcome = [kind |-> "none", cause |-> <<"none", None>>]
        BY <2>1, Outcomes
    <2>3. QED
        BY <2>1, <2>2 DEF Promise!Init, Promise!Stage, Launched
<1>2. Inv /\ [Next]_vars => [Promise!Next]_(Promise!vars)
    <2> SUFFICES ASSUME Inv, [Next]_vars PROVE [Promise!Next]_(Promise!vars)
        OBVIOUS
    <2>1. CASE Launched' <=> Launched
        <3>1. Launched' = Launched
            BY <2>1 DEF Launched
        <3>2. QED
            BY <3>1, OutcomeSteps
            DEF Promise!Next, Promise!vars, Promise!Accept, Promise!Succeed, Promise!Fail, Promise!Lapse,
                Promise!Forget, Promise!Over, Promise!Stage, Launched, Cause, Unknown
    <2>2. CASE ~(Launched' <=> Launched)
        BY <2>2, LaunchSteps DEF Promise!Next, Promise!Launch, Promise!Stage, Launched, Unknown
    <2>3. QED
        BY <2>1, <2>2
<1>3. QED
    BY <1>1, <1>2, MediaInvariant, PTL DEF Spec, PromiseKept, Promise!Spec

===============================================================================
