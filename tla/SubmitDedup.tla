---------------------------- MODULE SubmitDedup ----------------------------
(***************************************************************************)
(* The acceptance of the document requests (omiyage_report_submit): the    *)
(* dedup lock in the job table (skills/omiyage_report/dedup.py,            *)
(* adapters/proposal_job_store.py), the admission slots of the process     *)
(* (JobAdmission), and the life of the job row under its worker thread,    *)
(* its heartbeat and the status query that fails what stopped beating.     *)
(*                                                                         *)
(* All requests have one dedup key: they name the same user and the same   *)
(* normalised input.  A request is also the id of the job it would create. *)
(***************************************************************************)
EXTENDS Integers, FiniteSets

CONSTANTS Request,     \* submits of one key; each is the id of its job
          Absent,      \* no lock row has been written yet
          Free,        \* the lock was given back: target_job_id = ""
          Limit,       \* JobAdmission.limit
          MaxFaults    \* bound: failed calls, and stalls longer than a time limit

ASSUME DedupAssumption ==
    /\ IsFiniteSet(Request) /\ Absent \notin Request /\ Free \notin Request /\ Absent # Free
    /\ Limit \in Nat \ {0} /\ MaxFaults \in Nat

VARIABLES
    lock,       \* the job the lock row names
    lockAge,    \* its age: 0 in the grace period, 1 in the window, 2 beyond
    row,        \* status of every job row
    stale,      \* jobs whose updated_at is older than the limit
    free,       \* free admission slots of this process
    others,     \* slots that requests of other keys hold
    pc,         \* where every submit is
    read,       \* what a submit read of the lock
    tries,      \* lost attempts of a submit
    claimed,    \* submits that know they took the lock
    answer,     \* what a submit was told
    worker,     \* the job's background thread
    faults

jobVars == <<row, stale, worker>>
lockVars == <<lock, lockAge>>
slotVars == <<free, others>>
submitVars == <<pc, read, tries, claimed, answer>>
vars == <<lockVars, jobVars, slotVars, submitVars, faults>>

MaxTries == 4
Never == [target |-> Absent, age |-> 0]

Go(r, to) == pc' = [pc EXCEPT ![r] = to]
Tell(r, what) == answer' = [answer EXCEPT ![r] = what]
Fault == faults < MaxFaults /\ faults' = faults + 1

Active(r) == row[r] \in {"queued", "running"}

Init ==
    /\ lock = Absent /\ lockAge = 0
    /\ row = [r \in Request |-> "none"] /\ stale = {}
    /\ free = Limit /\ others = 0
    /\ pc = [r \in Request |-> "claim"]
    /\ read = [r \in Request |-> Never]
    /\ tries = [r \in Request |-> 0]
    /\ claimed = {}
    /\ answer = [r \in Request |-> "none"]
    /\ worker = [r \in Request |-> "none"]
    /\ faults = 0

-----------------------------------------------------------------------------
(* OmiyageSubmitDedup.claim                                                 *)

ReadLock(r) ==
    /\ pc[r] = "claim"
    /\ read' = [read EXCEPT ![r] = [target |-> lock, age |-> lockAge]]
    /\ Go(r, IF lock \in Request THEN "judge" ELSE "put")
    /\ UNCHANGED <<lockVars, jobVars, slotVars, tries, claimed, answer, faults>>

(* A job at work, one that ended a short time ago, and one whose row is not *)
(* written yet, is the answer to the same request.                          *)
Reusable(t, age) ==
    \/ row[t] = "none" /\ age = 0
    \/ Active(t) /\ t \notin stale
    \/ row[t] = "done" /\ age <= 1

Judge(r) ==
    /\ pc[r] = "judge"
    /\ IF Reusable(read[r].target, read[r].age)
       THEN Go(r, "ended") /\ Tell(r, "duplicate")
       ELSE Go(r, "put") /\ UNCHANGED answer
    /\ UNCHANGED <<lockVars, jobVars, slotVars, read, tries, claimed, faults>>

TakeLock(r) == lock' = r /\ lockAge' = 0

\* Mutant: the lock is written whatever it says now.
PutBlindly(r) ==
    /\ pc[r] = "put"
    /\ TakeLock(r) /\ claimed' = claimed \cup {r} /\ Go(r, "admit")
    /\ UNCHANGED <<jobVars, slotVars, read, tries, answer, faults>>

Put(r) ==
    /\ pc[r] = "put"
    /\ IF lock = read[r].target
       THEN TakeLock(r) /\ claimed' = claimed \cup {r} /\ Go(r, "admit") /\ UNCHANGED tries
       ELSE /\ tries' = [tries EXCEPT ![r] = @ + 1]
            /\ Go(r, IF tries'[r] < MaxTries THEN "claim" ELSE "admit")
            /\ UNCHANGED <<lockVars, claimed>>
    /\ UNCHANGED <<jobVars, slotVars, read, answer, faults>>

(* Any error abandons the dedup, never the request.                         *)
DedupRaises(r) ==
    /\ pc[r] \in {"claim", "judge", "put"}
    /\ Fault
    /\ Go(r, "admit")
    /\ \/ UNCHANGED lockVars
       \/ pc[r] = "put" /\ lock = read[r].target /\ TakeLock(r)
    /\ UNCHANGED <<jobVars, slotVars, read, tries, claimed, answer>>

-----------------------------------------------------------------------------
(* The rest of OmiyageReportSubmitSkill.run                                 *)

Admit(r) ==
    /\ pc[r] = "admit"
    /\ IF free > 0
       THEN free' = free - 1 /\ Go(r, "create") /\ UNCHANGED answer
       ELSE Go(r, "release") /\ Tell(r, "busy") /\ UNCHANGED free
    /\ UNCHANGED <<lockVars, jobVars, others, read, tries, claimed, faults>>

Create(r) ==
    /\ pc[r] = "create"
    /\ row' = [row EXCEPT ![r] = "queued"]
    /\ Go(r, "launch")
    /\ UNCHANGED <<lockVars, stale, worker, slotVars, read, tries, claimed, answer, faults>>

\* Mutant: the slot of a request that could not be written is kept.
CreateLeaks(r) ==
    /\ pc[r] = "create"
    /\ Fault
    /\ row' \in {row, [row EXCEPT ![r] = "queued"]}
    /\ Go(r, "release") /\ Tell(r, "error")
    /\ UNCHANGED <<lockVars, stale, worker, slotVars, read, tries, claimed>>

CreateRaises(r) ==
    /\ pc[r] = "create"
    /\ Fault
    /\ row' \in {row, [row EXCEPT ![r] = "queued"]}
    /\ free' = free + 1
    /\ Go(r, "release") /\ Tell(r, "error")
    /\ UNCHANGED <<lockVars, stale, worker, others, read, tries, claimed>>

Launch(r) ==
    /\ pc[r] = "launch"
    /\ worker' = [worker EXCEPT ![r] = "start"]
    /\ Go(r, "ended") /\ Tell(r, "accepted")
    /\ UNCHANGED <<lockVars, row, stale, slotVars, read, tries, claimed, faults>>

(* The thread does not start; the write of "failed" may fail as well.       *)
LaunchFails(r) ==
    /\ pc[r] = "launch"
    /\ Fault
    /\ row' \in {row, [row EXCEPT ![r] = IF @ = "queued" THEN "failed" ELSE @]}
    /\ free' = free + 1
    /\ Go(r, "release") /\ Tell(r, "error")
    /\ UNCHANGED <<lockVars, stale, worker, others, read, tries, claimed>>

(* OmiyageSubmitDedup.release: only the lock that names this job.           *)
Release(r) ==
    /\ pc[r] = "release"
    /\ IF r \in claimed /\ lock = r
       THEN lock' = Free /\ lockAge' = 0
       ELSE UNCHANGED lockVars
    /\ Go(r, "ended")
    /\ UNCHANGED <<jobVars, slotVars, read, tries, claimed, answer, faults>>

ReleaseRaises(r) ==
    /\ pc[r] = "release"
    /\ Fault
    /\ Go(r, "ended")
    /\ UNCHANGED <<lockVars, jobVars, slotVars, read, tries, claimed, answer>>

(* Requests of other keys are admitted and end.                             *)
OthersMove ==
    /\ \/ free > 0 /\ free' = free - 1 /\ others' = others + 1
       \/ others > 0 /\ free' = free + 1 /\ others' = others - 1
    /\ UNCHANGED <<lockVars, jobVars, submitVars, faults>>

-----------------------------------------------------------------------------
(* The job: _run_with_admission, _run_background, the heartbeat thread.     *)

SetWorker(r, to) == worker' = [worker EXCEPT ![r] = to]

MarkRunning(r) ==
    /\ worker[r] = "start"
    /\ IF row[r] = "queued"
       THEN row' = [row EXCEPT ![r] = "running"] /\ stale' = stale \ {r} /\ SetWorker(r, "work")
       ELSE SetWorker(r, "leaving") /\ UNCHANGED <<row, stale>>
    /\ UNCHANGED <<lockVars, slotVars, submitVars, faults>>

(* Applied or not; then "failed" is written, or that fails as well.         *)
MarkRunningRaises(r) ==
    /\ worker[r] = "start"
    /\ Fault
    /\ \/ UNCHANGED row
       \/ row[r] = "queued" /\ row' = [row EXCEPT ![r] = "running"]
       \/ Active(r) /\ row' = [row EXCEPT ![r] = "failed"]
    /\ SetWorker(r, "leaving")
    /\ UNCHANGED <<lockVars, stale, slotVars, submitVars>>

WorkEnds(r) ==
    /\ worker[r] = "work"
    /\ IF row[r] = "running"
       THEN \E to \in {"done", "failed"} : row' = [row EXCEPT ![r] = to]
       ELSE UNCHANGED row
    /\ SetWorker(r, "leaving")
    /\ UNCHANGED <<lockVars, stale, slotVars, submitVars, faults>>

(* The last write raises, applied or not; a second one may fail too.        *)
WorkEndLost(r) ==
    /\ worker[r] = "work"
    /\ Fault
    /\ SetWorker(r, "leaving")
    /\ UNCHANGED <<lockVars, row, stale, slotVars, submitVars>>

Leave(r) ==
    /\ worker[r] = "leaving"
    /\ SetWorker(r, "ended") /\ free' = free + 1
    /\ UNCHANGED <<lockVars, row, stale, others, submitVars, faults>>

Heartbeat(r) ==
    /\ worker[r] = "work" /\ row[r] = "running" /\ r \in stale
    /\ stale' = stale \ {r}
    /\ UNCHANGED <<lockVars, row, worker, slotVars, submitVars, faults>>

(* OmiyageReportStatusSkill.run: a stale row fails, unless it was updated.  *)
\* Mutant: only running rows are failed.
StatusFailsRunning(r) ==
    /\ row[r] = "running" /\ r \in stale
    /\ row' = [row EXCEPT ![r] = "failed"]
    /\ UNCHANGED <<lockVars, stale, worker, slotVars, submitVars, faults>>

StatusFailsStale(r) ==
    /\ Active(r) /\ r \in stale
    /\ row' = [row EXCEPT ![r] = "failed"]
    /\ UNCHANGED <<lockVars, stale, worker, slotVars, submitVars, faults>>

-----------------------------------------------------------------------------
(* Time.  A row goes stale, and the lock leaves its grace period, under a   *)
(* live job only when calls fail or the process stands still: a fault.      *)
Alive(r) == worker[r] \in {"start", "work"} \/ pc[r] = "launch"

GoesStale(r) ==
    /\ Active(r) /\ r \notin stale
    /\ stale' = stale \cup {r}
    /\ IF Alive(r) THEN Fault ELSE UNCHANGED faults
    /\ UNCHANGED <<lockVars, row, worker, slotVars, submitVars>>

LockAges ==
    /\ lock \in Request /\ lockAge < 2
    /\ lockAge' = lockAge + 1
    /\ IF lockAge = 0 /\ pc[lock] \in {"admit", "create"} THEN Fault ELSE UNCHANGED faults
    /\ UNCHANGED <<lock, jobVars, slotVars, submitVars>>

(* The process is replaced: what was under way in it is gone.               *)
Restart ==
    /\ \E r \in Request : worker[r] \in {"start", "work", "leaving"} \/ pc[r] # "ended"
    /\ pc' = [r \in Request |-> IF pc[r] = "claim" THEN "claim" ELSE "ended"]
    /\ worker' = [r \in Request |-> IF worker[r] = "none" THEN "none" ELSE "ended"]
    /\ free' = Limit /\ others' = 0
    /\ UNCHANGED <<lockVars, row, stale, read, tries, claimed, answer, faults>>

Step(r) ==
    \/ ReadLock(r) \/ Judge(r) \/ Put(r) \/ Admit(r) \/ Create(r) \/ Launch(r) \/ Release(r)
    \/ MarkRunning(r) \/ WorkEnds(r) \/ Leave(r) \/ Heartbeat(r)

Raises(r) ==
    \/ DedupRaises(r) \/ CreateRaises(r) \/ LaunchFails(r) \/ ReleaseRaises(r)
    \/ MarkRunningRaises(r) \/ WorkEndLost(r)

Next ==
    \/ \E r \in Request : Step(r) \/ Raises(r) \/ GoesStale(r) \/ StatusFailsStale(r)
    \/ OthersMove \/ LockAges \/ Restart

Spec == Init /\ [][Next]_vars

(* Threads run, rows age, and the watchers of async_job_notify keep asking  *)
(* for the status of a job until it ended.                                  *)
Fairness ==
    \A r \in Request :
        /\ WF_vars(Step(r))
        /\ WF_vars(GoesStale(r) /\ ~Alive(r))
        /\ WF_vars(StatusFailsStale(r))

FairSpec == Spec /\ Fairness

-----------------------------------------------------------------------------
Holding == {r \in Request : pc[r] \in {"create", "launch"} \/ worker[r] \in {"start", "work", "leaving"}}

TypeOK ==
    /\ lock \in Request \cup {Absent, Free} /\ lockAge \in 0..2
    /\ row \in [Request -> {"none", "queued", "running", "done", "failed"}]
    /\ stale \subseteq Request
    /\ free \in 0..Limit /\ others \in 0..Limit
    /\ pc \in [Request -> {"claim", "judge", "put", "admit", "create", "launch", "release", "ended"}]
    /\ read \in [Request -> [target : Request \cup {Absent, Free}, age : 0..2]]
    /\ tries \in [Request -> 0..MaxTries]
    /\ claimed \subseteq Request
    /\ answer \in [Request -> {"none", "duplicate", "busy", "accepted", "error"}]
    /\ worker \in [Request -> {"none", "start", "work", "leaving", "ended"}]
    /\ faults \in 0..MaxFaults

(* The same request never makes two documents at the same time: neither     *)
(* submits that race for the lock nor a restart between two steps start a   *)
(* second worker, as long as no call fails and nothing stalls.  A submit    *)
(* that lost the lock four times goes on without it, as the code intends.   *)
OneWorker ==
    \A r, s \in Request :
        /\ faults = 0 /\ tries[r] < MaxTries /\ tries[s] < MaxTries
        /\ worker[r] = "work" /\ worker[s] = "work"
        => r = s

(* Every slot is held by a submit on its way or by a live thread, and comes *)
(* back from every refusal, error and restart: otherwise the process turns  *)
(* everyone away for ever, or lets more jobs run than allowed.              *)
SlotsBalanced == free + others + Cardinality(Holding) = Limit

(* Whoever was told that the work was accepted gets an end, also when the   *)
(* process that worked on it was replaced.                                  *)
AcceptedEnds ==
    \A r \in Request : answer[r] = "accepted" ~> row[r] \in {"done", "failed"}

(* What the message of a duplicate says (preflight.py,                      *)
(* build_deduplicated_message): the same request was accepted already.  So  *)
(* it is not one that was refused and never had a job.                      *)
DuplicateWasAccepted ==
    \A r \in Request :
        answer[r] = "duplicate" =>
            ~(answer[read[r].target] = "busy" /\ row[read[r].target] = "none")
=============================================================================
