------------------------------ MODULE ParentJob ------------------------------
(***************************************************************************)
(* One long document job that is resumed after an interruption: the parent *)
(* of skills/omiyage_report/sales25.py (Parent.execute), the status query  *)
(* that resumes it (OmiyageReportStatusSkill.run), its admission slot, and *)
(* the row of adapters/proposal_job_store.py, whose checkpoint carries the *)
(* lease of the executor that may write it.                                *)
(*                                                                         *)
(* An executor is a thread in Parent.execute with its heartbeat thread.    *)
(* Every execution has a fresh lease, so a name used again cannot be taken *)
(* for its earlier self.  updated_at is written with microseconds: two     *)
(* writes never leave the same one.                                        *)
(***************************************************************************)
EXTENDS Integers, FiniteSets

CONSTANTS Exec,        \* names of executor threads
          First,       \* the one the submit started
          None,        \* no executor has claimed the row
          Searches,    \* the first steps of the plan: the searches
          LastStep,    \* steps of the plan
          Limit,       \* JobAdmission.limit
          MaxFaults,   \* bound: failed calls and stalls of the process
          MaxRestarts  \* bound: replacements of the process

ASSUME ParentAssumption ==
    /\ IsFiniteSet(Exec) /\ First \in Exec /\ None \notin Exec
    /\ LastStep \in Nat \ {0} /\ Searches \in 1..LastStep /\ Limit \in Nat \ {0} /\ MaxFaults \in Nat /\ MaxRestarts \in Nat

VARIABLES
    status,    \* of the row
    point,     \* the checkpoint of the row: steps finished, and whether all can be built on
    lease,     \* the executor named in the checkpoint
    synced,    \* executors whose local checkpoint is the row's
    seen,      \* executors whose copy of updated_at is still the row's
    stale,     \* updated_at is older than the limit
    free,      \* free admission slots of the process
    pc,        \* where every executor is
    local,     \* its own state: what it will save
    beat,      \* executors whose heartbeat thread runs
    faults, restarts

rowVars == <<status, point, lease, synced, seen, stale>>
execVars == <<pc, local, beat>>
bounds == <<faults, restarts>>
vars == <<rowVars, free, execVars, bounds>>

Points == [steps : 0..LastStep, ok : BOOLEAN]
Nothing == [steps |-> 0, ok |-> TRUE]

Go(e, to) == pc' = [pc EXCEPT ![e] = to]
Fault == faults < MaxFaults /\ faults' = faults + 1 /\ UNCHANGED restarts
Active == status \in {"queued", "running"}
Live(e) == pc[e] \notin {"off", "start", "claim"}

(* Every write of the row renews updated_at.                                *)
Touched == seen' = {} /\ stale' = FALSE

(* The thread ends: its slot is free and its heartbeat stops.               *)
\* Mutant: the slot is kept.
LeavesWithSlot(e) ==
    /\ Go(e, "off")
    /\ beat' = beat \ {e}
    /\ UNCHANGED free

Leaves(e) ==
    /\ Go(e, "off")
    /\ free' = free + 1
    /\ beat' = beat \ {e}

Init ==
    /\ status = "queued" /\ point = Nothing /\ lease = None
    /\ synced = {} /\ seen = {} /\ stale = FALSE
    /\ free = Limit - 1
    /\ pc = [e \in Exec |-> IF e = First THEN "start" ELSE "off"]
    /\ local = [e \in Exec |-> Nothing]
    /\ beat = {}
    /\ faults = 0 /\ restarts = 0

-----------------------------------------------------------------------------
(* The claim.  The first thread reads the row as it is; a status query that *)
(* finds the row stale takes a slot for another one.                        *)

Start(e) ==
    /\ pc[e] = "start"
    /\ Go(e, "claim")
    /\ seen' = seen \cup {e}
    /\ local' = [local EXCEPT ![e] = point]
    /\ UNCHANGED <<status, point, lease, synced, stale, free, beat, bounds>>

\* Mutant: a row that no thread has claimed yet is not resumed.
ResumeRunning(e) ==
    /\ pc[e] = "off"
    /\ status = "running" /\ stale
    /\ free > 0 /\ free' = free - 1
    /\ Go(e, "claim")
    /\ seen' = seen \cup {e}
    /\ local' = [local EXCEPT ![e] = point]
    /\ UNCHANGED <<status, point, lease, synced, stale, beat, bounds>>

Resume(e) ==
    /\ pc[e] = "off"
    /\ Active /\ stale
    /\ free > 0 /\ free' = free - 1
    /\ Go(e, "claim")
    /\ seen' = seen \cup {e}
    /\ local' = [local EXCEPT ![e] = point]
    /\ UNCHANGED <<status, point, lease, synced, stale, beat, bounds>>

(* The thread cannot be started: the row fails, unless it was written since *)
(* it was read or this write fails too.                                     *)
ResumeFails(e) ==
    /\ pc[e] = "claim" /\ e # First
    /\ Fault
    /\ Leaves(e)
    /\ \/ e \in seen /\ Active /\ status' = "failed" /\ Touched
       \/ UNCHANGED <<status, seen, stale>>
    /\ UNCHANGED <<point, lease, synced, local>>

TakeRow(e) ==
    /\ status' = "running" /\ lease' = e
    /\ Touched

\* Mutant: the claim is not conditional on updated_at and the checkpoint.
ClaimBlindly(e) ==
    /\ pc[e] = "claim"
    /\ IF Active
       THEN TakeRow(e) /\ synced' = {e} /\ beat' = beat \cup {e} /\ Go(e, "mark")
            /\ point' = local[e] /\ UNCHANGED free
       ELSE Leaves(e) /\ UNCHANGED <<status, point, lease, synced, seen, stale>>
    /\ UNCHANGED <<local, bounds>>

(* save_checkpoint under the checkpoint and the updated_at read before.     *)
Claim(e) ==
    /\ pc[e] = "claim"
    /\ IF Active /\ e \in seen
       THEN TakeRow(e) /\ synced' = {e} /\ beat' = beat \cup {e} /\ Go(e, "mark") /\ UNCHANGED free
       ELSE Leaves(e) /\ UNCHANGED <<status, lease, synced, seen, stale>>
    /\ UNCHANGED <<point, local, bounds>>

(* Reading the row or claiming it raises, the claim applied or not.         *)
ClaimRaises(e) ==
    /\ pc[e] \in {"start", "claim"}
    /\ Fault
    /\ Leaves(e)
    /\ \/ pc[e] = "claim" /\ Active /\ e \in seen /\ TakeRow(e) /\ synced' = {}
       \/ UNCHANGED <<status, lease, synced, seen, stale>>
    /\ UNCHANGED <<point, local>>

-----------------------------------------------------------------------------
(* Parent.execute: before every step the stage is saved, and after it the   *)
(* result; a step that cannot be built on ends the plan.                    *)

\* Mutant: the last step is skipped.
HasNextOffByOne(e) == local[e].steps + 1 < LastStep /\ local[e].ok

(* Every search is kept whatever it found; any other step needs all before. *)
HasNext(e) == local[e].steps < LastStep /\ (local[e].steps < Searches \/ local[e].ok)

Searching(e) == local[e].steps < Searches

\* Mutant: the checkpoint is not a condition of the write.
MaySaveUnfenced(e) == status = "running"

MaySave(e) == status = "running" /\ e \in synced

(* A refused save ends the execution, through the finally block.            *)
Save(e, to) ==
    IF MaySave(e)
    THEN point' = local[e] /\ Touched /\ Go(e, to)
    ELSE Go(e, "close") /\ UNCHANGED <<point, seen, stale>>

MarkStage(e) ==
    /\ pc[e] = "mark" /\ HasNext(e)
    /\ Save(e, "work")
    /\ UNCHANGED <<status, lease, synced, free, local, beat, bounds>>

(* A search may have begun together with the first one, in the pool; its    *)
(* result is only taken here.  An exception of the step makes it incomplete.*)
StepEnds(e) ==
    /\ pc[e] = "work"
    /\ \E ok \in BOOLEAN :
          local' = [local EXCEPT ![e] = [steps |-> @.steps + 1, ok |-> @.ok /\ ok]]
    /\ Go(e, "save")
    /\ UNCHANGED <<rowVars, free, beat, bounds>>

(* A save inside a later step reports progress.  When it raises, the step   *)
(* ends as incomplete, and what was written may already differ from what this    *)
(* executor believes to be stored.                                          *)
Progress(e) ==
    /\ pc[e] = "work" /\ ~Searching(e) /\ MaySave(e) /\ stale
    /\ Touched
    /\ UNCHANGED <<status, point, lease, synced, free, execVars, bounds>>

ProgressRaises(e) ==
    /\ pc[e] = "work" /\ ~Searching(e)
    /\ Fault
    /\ local' = [local EXCEPT ![e] = [steps |-> @.steps + 1, ok |-> FALSE]]
    /\ Go(e, "save")
    /\ \/ UNCHANGED <<synced, seen, stale>>
       \/ MaySave(e) /\ synced' = synced \ {e} /\ Touched
    /\ UNCHANGED <<status, point, lease, free, beat>>

SaveStep(e) ==
    /\ pc[e] = "save"
    /\ Save(e, "mark")
    /\ UNCHANGED <<status, lease, synced, free, local, beat, bounds>>

SaveLast(e) ==
    /\ pc[e] = "mark" /\ ~HasNext(e)
    /\ Save(e, "finish")
    /\ UNCHANGED <<status, lease, synced, free, local, beat, bounds>>

(* Outside a step, an exception ends the execution, the write applied or    *)
(* not.                                                                     *)
SaveRaises(e) ==
    /\ pc[e] \in {"mark", "save"}
    /\ Fault
    /\ Go(e, "close")
    /\ \/ MaySave(e) /\ point' = local[e] /\ synced' = synced \ {e} /\ Touched
       \/ UNCHANGED <<point, synced, seen, stale>>
    /\ UNCHANGED <<status, lease, free, local, beat>>

MarkDone(e) ==
    /\ pc[e] = "finish"
    /\ Go(e, "close")
    /\ IF MaySave(e)
       THEN status' = "done" /\ Touched
       ELSE UNCHANGED <<status, seen, stale>>
    /\ UNCHANGED <<point, lease, synced, free, local, beat, bounds>>

MarkDoneRaises(e) ==
    /\ pc[e] = "finish"
    /\ Fault
    /\ Go(e, "close")
    /\ \/ MaySave(e) /\ status' = "done" /\ Touched
       \/ UNCHANGED <<status, seen, stale>>
    /\ UNCHANGED <<point, lease, synced, free, local, beat>>

(* The finally block waits for the searches under way before it stops the   *)
(* heartbeat.                                                               *)
Close(e) ==
    /\ pc[e] = "close"
    /\ Leaves(e)
    /\ synced' = synced \ {e}
    /\ UNCHANGED <<status, point, lease, seen, stale, local, bounds>>

(* The heartbeat thread stops for good when its lease is gone or one call   *)
(* fails.                                                                   *)
Heartbeat(e) ==
    /\ e \in beat
    /\ IF MaySave(e)
       THEN (stale \/ seen # {}) /\ Touched /\ UNCHANGED beat
       ELSE beat' = beat \ {e} /\ UNCHANGED <<seen, stale>>
    /\ UNCHANGED <<status, point, lease, synced, free, pc, local, bounds>>

HeartbeatRaises(e) ==
    /\ e \in beat
    /\ Fault
    /\ beat' = beat \ {e}
    /\ \/ MaySave(e) /\ Touched
       \/ UNCHANGED <<seen, stale>>
    /\ UNCHANGED <<status, point, lease, synced, free, pc, local>>

-----------------------------------------------------------------------------
(* Time: a row goes stale under a beating executor, or before the first     *)
(* thread has claimed it, only when the process stands still.               *)
Renewed == (\E e \in beat : MaySave(e)) \/ pc[First] \in {"start", "claim"}

GoesStale ==
    /\ Active /\ ~stale /\ ~Renewed
    /\ stale' = TRUE
    /\ UNCHANGED <<status, point, lease, synced, seen, free, execVars, bounds>>

Stall ==
    /\ Active /\ ~stale /\ Renewed
    /\ Fault
    /\ stale' = TRUE
    /\ UNCHANGED <<status, point, lease, synced, seen, free, execVars>>

Restart ==
    /\ restarts < MaxRestarts /\ restarts' = restarts + 1
    /\ pc' = [e \in Exec |-> "off"]
    /\ free' = Limit
    /\ beat' = {} /\ synced' = {} /\ seen' = {}
    /\ UNCHANGED <<status, point, lease, stale, local, faults>>

Step(e) ==
    \/ Start(e) \/ Claim(e) \/ MarkStage(e) \/ StepEnds(e) \/ SaveStep(e) \/ SaveLast(e) \/ MarkDone(e)
    \/ Close(e)

Raises(e) ==
    \/ ResumeFails(e) \/ ClaimRaises(e) \/ ProgressRaises(e) \/ SaveRaises(e)
    \/ MarkDoneRaises(e) \/ HeartbeatRaises(e)

Next ==
    \/ \E e \in Exec : Step(e) \/ Raises(e) \/ Resume(e) \/ Progress(e) \/ Heartbeat(e)
    \/ GoesStale \/ Stall \/ Restart

Spec == Init /\ [][Next]_vars

(* Threads and steps end (every stage has a deadline), a row nobody renews  *)
(* goes stale, and the watchers keep asking for the status.                 *)
Fairness ==
    /\ \A e \in Exec : WF_vars(Step(e)) /\ WF_vars(Heartbeat(e))
    /\ WF_vars(GoesStale)
    /\ WF_vars(\E e \in Exec : Resume(e))

FairSpec == Spec /\ Fairness

-----------------------------------------------------------------------------
TypeOK ==
    /\ status \in {"queued", "running", "done", "failed"}
    /\ point \in Points /\ lease \in Exec \cup {None}
    /\ synced \subseteq Exec /\ seen \subseteq Exec /\ stale \in BOOLEAN
    /\ free \in 0..Limit
    /\ pc \in [Exec -> {"off", "start", "claim", "mark", "work", "save", "finish", "close"}]
    /\ local \in [Exec -> Points]
    /\ beat \subseteq Exec
    /\ faults \in 0..MaxFaults /\ restarts \in 0..MaxRestarts

(* Every slot is free or held by one thread.                                *)
SlotsBalanced == free + Cardinality({e \in Exec : pc[e] # "off"}) = Limit

(* Two executors work on steps of the same job only after a failed call or  *)
(* a stall: two status queries that find the row stale after a restart do   *)
(* not both resume it, and a live executor is not joined by another.        *)
OneWorker == \A e, f \in Exec : faults = 0 /\ Live(e) /\ Live(f) => e = f

(* An executor that was superseded begins no further step; the searches,    *)
(* which the pool may have begun before, are only waited for.               *)
NoStepAfterTakeover ==
    [][\A e \in Exec : pc[e] = "mark" /\ pc'[e] = "work" => lease = e]_vars

(* The checkpoint never goes back, whoever writes it in whatever order:     *)
(* finished steps are not lost, and a job that ended stays as it ended.     *)
NothingLost ==
    [][/\ point'.steps >= point.steps
       /\ point.ok \/ ~point'.ok
       /\ ~Active => status' = status]_vars

(* What is delivered is the whole plan, or an honest early end of it.       *)
DoneIsWhole == status = "done" => point.steps = LastStep \/ ~point.ok

(* The job ends, through every interruption.                                *)
JobEnds == <>(~Active)
=============================================================================
