---------------------------- MODULE ParentJobProofs ----------------------------
(***************************************************************************)
(* What the lease in the checkpoint and the time of the last write         *)
(* guarantee for a job that is resumed, for any number of threads, steps,  *)
(* slots, faults and restarts.                                             *)
(***************************************************************************)
EXTENDS ParentJob, FiniteSetTheorems, TLAPS

-----------------------------------------------------------------------------
(* The checkpoint.                                                          *)

(* p is at least as far as q, and claims no more than q does.               *)
Extends(p, q) == p.steps >= q.steps /\ (p.ok => q.ok)

(* The one whose checkpoint is the row's is the one the row names, and has  *)
(* gone on from what is stored; one about to claim knows what is stored.    *)
PointOf(e) ==
    /\ e \in synced => lease = e /\ Extends(local[e], point)
    /\ pc[e] = "claim" /\ e \in seen => local[e] = point
    /\ pc[e] = "work" => local[e].steps < LastStep
    /\ pc[e] = "finish" /\ e \in synced => point = local[e] /\ ~HasNext(e)
PointInv == (\A e \in Exec : PointOf(e)) /\ DoneIsWhole

-----------------------------------------------------------------------------
(* The executors.                                                           *)

Atwork == {"mark", "work", "save", "finish"}

(* Nothing failed: then an executor at work is beating and owns the row, so *)
(* the row is not stale; and before the first thread has claimed it there   *)
(* is no other.                                                             *)
Calm ==
    /\ \A e \in Exec : pc[e] \in Atwork => e \in synced /\ e \in beat /\ status = "running" /\ ~stale
    /\ \A e \in Exec : pc[e] = "close" => status = "done"
    /\ \A e, f \in Exec : Live(e) /\ pc[f] = "claim" /\ f \in seen => ~Active
    /\ \A e, f \in Exec : pc[e] = "start" /\ pc[f] # "off" => e = f /\ ~stale
    /\ \A e \in Exec : pc[e] = "start" => e = First
    /\ \A e, f \in Exec : Live(e) /\ Live(f) => e = f
WorkInv == faults = 0 => Calm

Inv == TypeOK /\ SlotsBalanced /\ PointInv /\ WorkInv

-----------------------------------------------------------------------------
(* Types and slots.                                                         *)

Places == {"off", "start", "claim", "mark", "work", "save", "finish", "close"}
RowOK ==
    /\ status \in {"queued", "running", "done", "failed"} /\ lease \in Exec \cup {None}
    /\ synced \subseteq Exec /\ seen \subseteq Exec
ExecOK == pc \in [Exec -> Places] /\ beat \subseteq Exec
PointOK == point \in Points /\ local \in [Exec -> Points]
BoundsOK == faults \in 0..MaxFaults /\ restarts \in 0..MaxRestarts

(* The parts of the type invariant.                                         *)
LEMMA Types ==
    TypeOK <=> RowOK /\ ExecOK /\ PointOK /\ BoundsOK /\ stale \in BOOLEAN /\ free \in 0..Limit
BY DEF TypeOK, RowOK, ExecOK, PointOK, BoundsOK, Places

(* ... and after a step.                                                    *)
LEMMA TypesNext ==
    TypeOK' <=> RowOK' /\ ExecOK' /\ PointOK' /\ BoundsOK' /\ stale' \in BOOLEAN /\ free' \in 0..Limit
BY DEF TypeOK, RowOK, ExecOK, PointOK, BoundsOK, Places

(* What the constants are.                                                  *)
LEMMA Sizes ==
    /\ First \in Exec /\ LastStep \in Nat /\ 1 <= LastStep /\ Searches \in 1..LastStep
    /\ Limit \in Nat /\ 1 <= Limit /\ MaxFaults \in Nat /\ MaxRestarts \in Nat
BY ParentAssumption DEF ParentAssumption

Busy == {e \in Exec : pc[e] # "off"}

(* Sets of threads are finite.                                              *)
LEMMA BusyFinite ==
    ASSUME NEW T \in SUBSET Exec
    PROVE  IsFiniteSet(T) /\ Cardinality(T) \in Nat
BY ParentAssumption, FS_Subset, FS_CardinalityType DEF ParentAssumption

(* A slot that is taken with a thread, ...                                  *)
LEMMA SlotTaken ==
    ASSUME SlotsBalanced, free \in Nat, NEW e \in Exec, e \notin Busy, free' = free - 1, Busy' = Busy \cup {e}
    PROVE  SlotsBalanced'
<1>1. IsFiniteSet(Busy) /\ Cardinality(Busy) \in Nat
    BY BusyFinite DEF Busy
<1>2. Cardinality(Busy') = Cardinality(Busy) + 1
    BY <1>1, FS_AddElement
<1>3. free + Cardinality(Busy) = Limit
    BY DEF SlotsBalanced, Busy
<1>4. free' + Cardinality(Busy') = Limit
    BY <1>1, <1>2, <1>3
<1>5. QED
    BY <1>4 DEF SlotsBalanced, Busy

(* ... one that is returned with its end, ...                               *)
LEMMA SlotReturned ==
    ASSUME SlotsBalanced, free \in Nat, NEW e \in Busy, free' = free + 1, Busy' = Busy \ {e}
    PROVE  SlotsBalanced'
<1>1. IsFiniteSet(Busy) /\ Cardinality(Busy) \in Nat
    BY BusyFinite DEF Busy
<1>2. Cardinality(Busy') = Cardinality(Busy) - 1
    BY <1>1, FS_RemoveElement
<1>3. free + Cardinality(Busy) = Limit
    BY DEF SlotsBalanced, Busy
<1>4. free' + Cardinality(Busy') = Limit
    BY <1>1, <1>2, <1>3
<1>5. QED
    BY <1>4 DEF SlotsBalanced, Busy

(* ... and the slots of those who go on.                                    *)
LEMMA SlotsKept ==
    ASSUME SlotsBalanced, free' = free, Busy' = Busy
    PROVE  SlotsBalanced'
BY DEF SlotsBalanced, Busy

(* A balance bounds the free slots.                                         *)
LEMMA SlotsBound ==
    ASSUME SlotsBalanced', free' \in Int, free' >= 0
    PROVE  free' \in 0..Limit
<1>1. Cardinality(Busy') \in Nat
    BY BusyFinite DEF Busy
<1>2. free' + Cardinality(Busy') = Limit
    BY DEF SlotsBalanced, Busy
<1>3. QED
    BY <1>1, <1>2, Sizes

(* What a step does with its thread and its slot.                           *)
LEMMA Moves ==
    ASSUME NEW e \in Exec,
           Step(e) \/ Raises(e) \/ Progress(e) \/ Heartbeat(e)
    PROVE  \/ pc[e] # "off" /\ Leaves(e)
           \/ pc[e] # "off" /\ (\E to \in Places \ {"off"} : Go(e, to)) /\ free' = free
           \/ pc' = pc /\ free' = free
BY DEF Step, Raises, Start, Claim, MarkStage, StepEnds, SaveStep, SaveLast, MarkDone, Close, ResumeFails,
       ClaimRaises, ProgressRaises, SaveRaises, MarkDoneRaises, HeartbeatRaises, Progress, Heartbeat, Save,
       execVars, Places

(* No step loses a slot, or returns one twice.                              *)
LEMMA BalanceKept == TypeOK /\ SlotsBalanced /\ [Next]_vars => SlotsBalanced' /\ free' \in 0..Limit
<1> SUFFICES ASSUME TypeOK, SlotsBalanced, [Next]_vars PROVE SlotsBalanced' /\ free' \in 0..Limit
    OBVIOUS
<1>0. pc \in [Exec -> Places] /\ free \in 0..Limit /\ Limit \in Nat
    BY Types, Sizes DEF ExecOK
<1>1. SlotsBalanced' /\ free' \in Int /\ free' >= 0
    <2>1. ASSUME NEW e \in Exec, pc[e] # "off", Leaves(e) PROVE SlotsBalanced' /\ free' \in Int /\ free' >= 0
        <3>1. e \in Busy /\ free' = free + 1
            BY <2>1 DEF Busy, Leaves
        <3>2. Busy' = Busy \ {e}
            BY <2>1, <1>0 DEF Busy, Leaves, Go
        <3>3. SlotsBalanced'
            BY <3>1, <3>2, <1>0, SlotReturned
        <3>4. QED
            BY <3>1, <3>3, <1>0
    <2>2. ASSUME NEW e \in Exec, pc[e] # "off", NEW to \in Places \ {"off"}, Go(e, to), free' = free
          PROVE  SlotsBalanced' /\ free' \in Int /\ free' >= 0
        <3>1. Busy' = Busy
            BY <2>2, <1>0 DEF Busy, Go
        <3>2. QED
            BY <2>2, <3>1, <1>0, SlotsKept
    <2>3. ASSUME pc' = pc, free' = free PROVE SlotsBalanced' /\ free' \in Int /\ free' >= 0
        <3>1. Busy' = Busy
            BY <2>3 DEF Busy
        <3>2. QED
            BY <2>3, <3>1, <1>0, SlotsKept
    <2>4. ASSUME NEW e \in Exec, Resume(e) PROVE SlotsBalanced' /\ free' \in Int /\ free' >= 0
        <3>1. e \notin Busy /\ free' = free - 1 /\ free > 0
            BY <2>4 DEF Resume, Busy
        <3>2. Busy' = Busy \cup {e}
            BY <2>4, <1>0 DEF Resume, Busy, Go
        <3>3. SlotsBalanced'
            BY <3>1, <3>2, <1>0, SlotTaken
        <3>4. QED
            BY <3>1, <3>3, <1>0
    <2>5. ASSUME Restart PROVE SlotsBalanced' /\ free' \in Int /\ free' >= 0
        <3>1. Busy' = {} /\ free' = Limit
            BY <2>5 DEF Restart, Busy
        <3>2. Cardinality(Busy') = 0
            BY <3>1, FS_EmptySet
        <3>3. SlotsBalanced'
            BY <3>1, <3>2, <1>0 DEF SlotsBalanced, Busy
        <3>4. QED
            BY <3>1, <3>3, <1>0
    <2>6. QED
        BY <2>1, <2>2, <2>3, <2>4, <2>5, Moves DEF Next, GoesStale, Stall, vars, execVars
<1>2. QED
    BY <1>1, SlotsBound

(* The variables have their types at first, and the slots balance.          *)
LEMMA TypesInit == Init => TypeOK /\ SlotsBalanced
<1> SUFFICES ASSUME Init PROVE TypeOK /\ SlotsBalanced
    OBVIOUS
<1>1. Busy = {First}
    BY Sizes DEF Init, Busy
<1>2. Cardinality(Busy) = 1
    BY <1>1, FS_Singleton
<1>3. free = Limit - 1 /\ free \in 0..Limit
    BY Sizes DEF Init
<1>4. SlotsBalanced
    BY <1>2, <1>3, Sizes DEF SlotsBalanced, Busy
<1>5. RowOK
    BY DEF Init, RowOK
<1>6. ExecOK
    BY DEF Init, ExecOK, Places
<1>7. PointOK
    BY Sizes DEF Init, PointOK, Points, Nothing
<1>8. BoundsOK
    BY Sizes DEF Init, BoundsOK
<1>9. stale \in BOOLEAN
    BY DEF Init
<1>10. QED
    BY <1>3, <1>4, <1>5, <1>6, <1>7, <1>8, <1>9, Types

-----------------------------------------------------------------------------
(* What a step of one thread may change.                                    *)

Acts(e) == Step(e) \/ Raises(e) \/ Resume(e) \/ Progress(e) \/ Heartbeat(e)

(* It is its own checkpoint that it makes the row's, and it renames the     *)
(* lease for itself only.                                                   *)
LEMMA RowFrame ==
    ASSUME NEW e \in Exec, Acts(e)
    PROVE  /\ synced' \subseteq synced \cup {e} /\ seen' \subseteq seen \cup {e}
           /\ lease' \in {lease, e}
           /\ status' \in {status, "running", "done", "failed"}
BY DEF Acts, Step, Raises, Start, Claim, MarkStage, StepEnds, SaveStep, SaveLast, MarkDone, Close, ResumeFails,
       ClaimRaises, ProgressRaises, SaveRaises, MarkDoneRaises, HeartbeatRaises, Progress, Heartbeat, Save,
       Resume, TakeRow, Touched, rowVars

(* It renews the row, or leaves it as old as it was.                        *)
LEMMA StaleFrame ==
    ASSUME NEW e \in Exec, Acts(e)
    PROVE  stale' = stale \/ stale' = FALSE
BY DEF Acts, Step, Raises, Start, Claim, MarkStage, StepEnds, SaveStep, SaveLast, MarkDone, Close, ResumeFails,
       ClaimRaises, ProgressRaises, SaveRaises, MarkDoneRaises, HeartbeatRaises, Progress, Heartbeat, Save,
       Resume, TakeRow, Touched, rowVars

(* It is itself, or fails.                                                  *)
LEMMA FaultFrame ==
    ASSUME NEW e \in Exec, Acts(e)
    PROVE  UNCHANGED bounds \/ Fault
BY DEF Acts, Step, Raises, Start, Claim, MarkStage, StepEnds, SaveStep, SaveLast, MarkDone, Close, ResumeFails,
       ClaimRaises, ProgressRaises, SaveRaises, MarkDoneRaises, HeartbeatRaises, Progress, Heartbeat, Resume

(* Its place and its heartbeat are its own.                                 *)
LEMMA PlaceFrame ==
    ASSUME NEW e \in Exec, Acts(e)
    PROVE  /\ pc' = pc \/ \E to \in Places : Go(e, to)
           /\ beat' \subseteq beat \cup {e}
BY DEF Acts, Step, Raises, Start, Claim, MarkStage, StepEnds, SaveStep, SaveLast, MarkDone, Close, ResumeFails,
       ClaimRaises, ProgressRaises, SaveRaises, MarkDoneRaises, HeartbeatRaises, Progress, Heartbeat, Save,
       Resume, Leaves, rowVars, execVars, bounds, Places

(* What it knows changes when it reads the row or ends a step; what is      *)
(* stored, when it saves what it knows.                                     *)
LEMMA PointFrame ==
    ASSUME NEW e \in Exec, Acts(e)
    PROVE  /\ \/ local' = local
              \/ local' = [local EXCEPT ![e] = point]
              \/ pc[e] = "work" /\ \E ok \in BOOLEAN :
                    local' = [local EXCEPT ![e] = [steps |-> local[e].steps + 1, ok |-> ok]]
           /\ \/ point' = point
              \/ (point' = local[e] /\ MaySave(e) /\ Touched)
<1>1. ASSUME ProgressRaises(e)
      PROVE pc[e] = "work" /\ \E ok \in BOOLEAN :
                    local' = [local EXCEPT ![e] = [steps |-> local[e].steps + 1, ok |-> ok]]
    BY <1>1 DEF ProgressRaises
<1>2. ASSUME StepEnds(e)
      PROVE pc[e] = "work" /\ \E ok \in BOOLEAN :
                    local' = [local EXCEPT ![e] = [steps |-> local[e].steps + 1, ok |-> ok]]
    <2>1. PICK ok \in BOOLEAN : local' = [local EXCEPT ![e] = [steps |-> @.steps + 1, ok |-> @.ok /\ ok]]
        BY <1>2 DEF StepEnds
    <2>2. (local[e].ok /\ ok) \in BOOLEAN
        OBVIOUS
    <2>3. local' = [local EXCEPT ![e] = [steps |-> local[e].steps + 1, ok |-> local[e].ok /\ ok]]
        BY <2>1
    <2>4. QED
        BY <1>2, <2>2, <2>3 DEF StepEnds
<1>3. ProgressRaises(e) \/ StepEnds(e) => point' = point
    BY DEF ProgressRaises, StepEnds, rowVars
<1>4. ASSUME ~ProgressRaises(e), ~StepEnds(e)
      PROVE  local' = local \/ local' = [local EXCEPT ![e] = point]
    BY <1>4
    DEF Acts, Step, Raises, Start, Claim, MarkStage, SaveStep, SaveLast, MarkDone, Close, ResumeFails,
       ClaimRaises, SaveRaises, MarkDoneRaises, HeartbeatRaises, Progress, Heartbeat, Resume, execVars
<1>5. ASSUME ~ProgressRaises(e), ~StepEnds(e)
      PROVE  point' = point \/ (point' = local[e] /\ MaySave(e) /\ Touched)
    BY <1>5
    DEF Acts, Step, Raises, Start, Claim, MarkStage, SaveStep, SaveLast, MarkDone, Close, ResumeFails,
       ClaimRaises, SaveRaises, MarkDoneRaises, HeartbeatRaises, Progress, Heartbeat, Save, Resume
<1>6. QED
    BY <1>1, <1>2, <1>3, <1>4, <1>5

-----------------------------------------------------------------------------
(* Types.                                                                   *)

(* A fault counts up within its bound.                                      *)
LEMMA FaultsBound == BoundsOK /\ Fault => BoundsOK'
BY Sizes DEF Fault, BoundsOK

(* The step that ends is one of the plan.                                   *)
LEMMA PointTypes ==
    ASSUME PointOK, ExecOK, PointInv, NEW e \in Exec, Acts(e)
    PROVE  PointOK'
<1>1. point \in Points /\ local \in [Exec -> Points] /\ local[e] \in Points
    BY DEF PointOK
<1>2. point' \in Points
    BY <1>1, PointFrame
<1>3. ASSUME pc[e] = "work", NEW ok \in BOOLEAN,
             local' = [local EXCEPT ![e] = [steps |-> local[e].steps + 1, ok |-> ok]]
      PROVE  local' \in [Exec -> Points]
    <2>1. local[e].steps \in 0..LastStep /\ local[e].steps < LastStep
        BY <1>1, <1>3 DEF PointInv, PointOf, Points
    <2>2. local[e].steps + 1 \in 0..LastStep
        BY <2>1, Sizes
    <2>3. [steps |-> local[e].steps + 1, ok |-> ok] \in Points
        BY <2>2, <1>3 DEF Points
    <2>4. QED
        BY <1>1, <1>3, <2>3
<1>4. local' \in [Exec -> Points]
    BY <1>1, <1>3, PointFrame
<1>5. QED
    BY <1>2, <1>4 DEF PointOK

(* The types are kept.                                                      *)
LEMMA TypesKept == TypeOK /\ SlotsBalanced /\ PointInv /\ [Next]_vars => TypeOK'
<1> SUFFICES ASSUME TypeOK, SlotsBalanced, PointInv, [Next]_vars PROVE TypeOK'
    OBVIOUS
<1>0. RowOK /\ ExecOK /\ PointOK /\ BoundsOK /\ stale \in BOOLEAN
    BY Types
<1>1. free' \in 0..Limit
    BY BalanceKept
<1>2. ASSUME NEW e \in Exec, Acts(e)
      PROVE  RowOK' /\ ExecOK' /\ PointOK' /\ BoundsOK' /\ stale' \in BOOLEAN
    <2>1. RowOK'
        BY <1>0, <1>2, RowFrame DEF RowOK
    <2>2. ExecOK'
        BY <1>0, <1>2, PlaceFrame DEF ExecOK, Go
    <2>3. PointOK'
        BY <1>0, <1>2, PointTypes
    <2>4. BoundsOK'
        <3>1. CASE Fault
            BY <1>0, <3>1, FaultsBound
        <3>2. CASE ~Fault
            BY <1>0, <1>2, <3>2, FaultFrame DEF BoundsOK, bounds
        <3>3. QED
            BY <3>1, <3>2
    <2>5. stale' \in BOOLEAN
        BY <1>0, <1>2, StaleFrame
    <2>6. QED
        BY <2>1, <2>2, <2>3, <2>4, <2>5
<1>3. ASSUME GoesStale \/ Stall PROVE RowOK' /\ ExecOK' /\ PointOK' /\ BoundsOK' /\ stale' \in BOOLEAN
    <2>1. RowOK' /\ ExecOK' /\ PointOK' /\ stale' = TRUE
        BY <1>0, <1>3 DEF GoesStale, Stall, RowOK, ExecOK, PointOK, execVars
    <2>2. BoundsOK'
        <3>1. CASE GoesStale
            BY <1>0, <3>1 DEF GoesStale, BoundsOK, bounds
        <3>2. CASE Stall
            BY <1>0, <3>2, FaultsBound DEF Stall
        <3>3. QED
            BY <1>3, <3>1, <3>2
    <2>3. QED
        BY <2>1, <2>2
<1>4. ASSUME Restart PROVE RowOK' /\ ExecOK' /\ PointOK' /\ BoundsOK' /\ stale' \in BOOLEAN
    <2>1. RowOK' /\ PointOK' /\ stale' = stale
        BY <1>0, <1>4 DEF Restart, RowOK, PointOK
    <2>2. ExecOK'
        BY <1>4 DEF Restart, ExecOK, Places
    <2>3. BoundsOK'
        BY <1>0, <1>4, Sizes DEF Restart, BoundsOK
    <2>4. QED
        BY <1>0, <2>1, <2>2, <2>3
<1>5. ASSUME UNCHANGED vars PROVE RowOK' /\ ExecOK' /\ PointOK' /\ BoundsOK' /\ stale' \in BOOLEAN
    BY <1>0, <1>5 DEF RowOK, ExecOK, PointOK, BoundsOK, vars, rowVars, execVars, bounds
<1>6. QED
    BY <1>1, <1>2, <1>3, <1>4, <1>5, TypesNext DEF Next, Acts

-----------------------------------------------------------------------------
(* The checkpoint.                                                          *)

(* A step of one thread leaves what holds of another.                       *)
LEMMA PointOfOthers ==
    ASSUME TypeOK, PointInv, NEW e \in Exec, Acts(e), NEW s \in Exec, s # e
    PROVE  PointOf(s)'
<1>0. /\ pc \in [Exec -> Places] /\ local \in [Exec -> Points]
      /\ PointOf(e) /\ PointOf(s)
    BY Types DEF ExecOK, PointOK, PointInv
<1>1. pc'[s] = pc[s]
    BY <1>0, PlaceFrame DEF Go
<1>2. local'[s] = local[s]
    BY <1>0, PointFrame
<1>3. s \in synced' => s \in synced /\ lease' = lease
    BY DEF Acts, Step, Raises, Start, Claim, MarkStage, StepEnds, SaveStep, SaveLast, MarkDone, Close,
           ResumeFails, ClaimRaises, ProgressRaises, SaveRaises, MarkDoneRaises, HeartbeatRaises, Progress,
           Heartbeat, Resume, rowVars
<1>4. s \in synced => point' = point
    BY <1>0, PointFrame DEF PointOf, MaySave
<1>5. s \in seen' => s \in seen /\ point' = point
    <2>1. s \in seen' => s \in seen
        BY <1>0, Types, RowFrame DEF RowOK
    <2>2. QED
        BY <2>1, PointFrame DEF Touched
<1>6. QED
    BY <1>0, <1>1, <1>2, <1>3, <1>4, <1>5 DEF PointOf, HasNext

(* Going on from the checkpoint, and no further than it allows.             *)
LEMMA ExtendsPoint ==
    \A p \in Points : Extends(p, p) /\ \A q \in Points, ok \in BOOLEAN :
        Extends(p, q) => Extends([steps |-> p.steps + 1, ok |-> p.ok /\ ok], q)
                         /\ Extends([steps |-> p.steps + 1, ok |-> FALSE], q)
BY Sizes DEF Extends, Points

(* A save stores what the executor knows.                                   *)
LEMMA SaveKeeps ==
    ASSUME TypeOK, NEW e \in Exec, PointOf(e), pc[e] \in {"mark", "save"}, NEW to \in {"work", "mark", "finish"},
           Save(e, to), UNCHANGED <<lease, synced, local>>,
           to = "work" => HasNext(e), to = "finish" => ~HasNext(e)
    PROVE  PointOf(e)'
<1>0. /\ pc \in [Exec -> Places] /\ local \in [Exec -> Points] /\ local[e] \in Points /\ point \in Points
    BY Types DEF ExecOK, PointOK
<1>1. CASE MaySave(e)
    <2>1. point' = local[e] /\ pc'[e] = to /\ seen' = {}
        BY <1>0, <1>1 DEF Save, Touched, Go
    <2>2. QED
        BY <1>0, <2>1, ExtendsPoint DEF PointOf, HasNext
<1>2. CASE ~MaySave(e)
    <2>1. point' = point /\ pc'[e] = "close"
        BY <1>0, <1>2 DEF Save, Go
    <2>2. QED
        BY <1>0, <2>1 DEF PointOf
<1>3. QED
    BY <1>1, <1>2

(* ... and it keeps what holds of the thread itself.                        *)
LEMMA PointOfSelf ==
    ASSUME TypeOK, PointInv, NEW e \in Exec, Acts(e)
    PROVE  PointOf(e)'
<1>0. /\ pc \in [Exec -> Places] /\ local \in [Exec -> Points] /\ local[e] \in Points /\ point \in Points
      /\ PointOf(e)
    BY Types DEF ExecOK, PointOK, PointInv
<1>o. ASSUME pc'[e] \in {"off", "close"}, e \in synced' => e \in synced /\ UNCHANGED <<point, lease, local>>
      PROVE  PointOf(e)'
    BY <1>0, <1>o DEF PointOf
<1>1. CASE Start(e) \/ Resume(e)
    <2>1. pc'[e] = "claim" /\ local'[e] = point /\ UNCHANGED <<point, lease, synced>>
        BY <1>0, <1>1 DEF Start, Resume, Go
    <2>2. QED
        BY <1>0, <2>1, ExtendsPoint DEF PointOf
<1>2. CASE ResumeFails(e) \/ ClaimRaises(e) \/ Close(e)
    BY <1>0, <1>2, <1>o DEF ResumeFails, ClaimRaises, Close, Leaves, Go
<1>3. CASE Claim(e)
    <2>1. CASE Active /\ e \in seen
        <3>1. /\ synced' = {e} /\ lease' = e /\ pc'[e] = "mark" /\ UNCHANGED <<point, local>>
              /\ local[e] = point
            BY <1>0, <1>3, <2>1 DEF Claim, TakeRow, Go, PointOf
        <3>2. QED
            BY <1>0, <3>1, ExtendsPoint DEF PointOf
    <2>2. CASE ~(Active /\ e \in seen)
        BY <1>0, <1>3, <2>2, <1>o DEF Claim, Leaves, Go
    <2>3. QED
        BY <2>1, <2>2
<1>4. CASE MarkStage(e)
    BY <1>0, <1>4, SaveKeeps DEF MarkStage
<1>5. CASE SaveLast(e)
    BY <1>0, <1>5, SaveKeeps DEF SaveLast
<1>6. CASE SaveStep(e)
    BY <1>0, <1>6, SaveKeeps DEF SaveStep
<1>7. CASE StepEnds(e)
    <2>1. PICK ok \in BOOLEAN : local' = [local EXCEPT ![e] = [steps |-> @.steps + 1, ok |-> @.ok /\ ok]]
        BY <1>7 DEF StepEnds
    <2>2. local'[e] = [steps |-> local[e].steps + 1, ok |-> local[e].ok /\ ok]
        BY <1>0, <2>1
    <2>3. pc'[e] = "save" /\ UNCHANGED <<point, lease, synced>>
        BY <1>0, <1>7 DEF StepEnds, Go, rowVars
    <2>4. Extends(local[e], point) => Extends(local'[e], point)
        BY <1>0, <2>2, ExtendsPoint
    <2>5. QED
        BY <1>0, <2>3, <2>4 DEF PointOf
<1>8. CASE ProgressRaises(e)
    <2>1. local'[e] = [steps |-> local[e].steps + 1, ok |-> FALSE]
        BY <1>0, <1>8 DEF ProgressRaises
    <2>2. pc'[e] = "save" /\ UNCHANGED <<point, lease>> /\ (e \in synced' => e \in synced)
        BY <1>0, <1>8 DEF ProgressRaises, Go
    <2>3. Extends(local[e], point) => Extends(local'[e], point)
        BY <1>0, <2>1, ExtendsPoint
    <2>4. QED
        BY <1>0, <2>2, <2>3 DEF PointOf
<1>9. CASE SaveRaises(e)
    <2>1. /\ pc'[e] = "close" /\ UNCHANGED <<lease, local>>
          /\ e \in synced' => e \in synced /\ point' = point
        BY <1>0, <1>9 DEF SaveRaises, Go
    <2>2. QED
        BY <2>1, <1>o
<1>10. CASE MarkDone(e) \/ MarkDoneRaises(e)
    BY <1>0, <1>10, <1>o DEF MarkDone, MarkDoneRaises, Go
<1>11. CASE Progress(e) \/ Heartbeat(e) \/ HeartbeatRaises(e)
    <2>1. /\ UNCHANGED <<point, lease, synced, pc, local>>
          /\ e \in seen' => e \in seen
        BY <1>11 DEF Progress, Heartbeat, HeartbeatRaises, execVars, Touched
    <2>2. QED
        BY <1>0, <2>1 DEF PointOf, HasNext
<1>12. QED
    BY <1>1, <1>2, <1>3, <1>4, <1>5, <1>6, <1>7, <1>8, <1>9, <1>10, <1>11 DEF Acts, Step, Raises

(* A job is marked done after its last save, and its checkpoint stays.      *)
LEMMA DoneKept ==
    ASSUME TypeOK, PointInv, NEW e \in Exec, Acts(e)
    PROVE  DoneIsWhole'
<1>0. local[e] \in Points /\ point \in Points /\ PointOf(e) /\ DoneIsWhole
    BY Types DEF PointOK, PointInv
<1>1. CASE status' # "done"
    BY <1>1 DEF DoneIsWhole
<1>2. CASE status' = "done" /\ status = "done"
    <2>1. point' = point
        BY <1>2, PointFrame DEF MaySave
    <2>2. QED
        BY <1>0, <1>2, <2>1 DEF DoneIsWhole
<1>3. CASE status' = "done" /\ status # "done"
    <2>1. pc[e] = "finish" /\ e \in synced /\ point' = point
        BY <1>3 DEF Acts, Step, Raises, Start, Claim, MarkStage, StepEnds, SaveStep, SaveLast, MarkDone, Close,
           ResumeFails, ClaimRaises, ProgressRaises, SaveRaises, MarkDoneRaises, HeartbeatRaises, Progress,
           Heartbeat, Resume, TakeRow, rowVars, MaySave
    <2>2. point = local[e] /\ ~(point.steps < LastStep /\ point.ok)
        BY <1>0, <2>1 DEF PointOf, HasNext
    <2>3. point.steps = LastStep \/ ~point.ok
        BY <1>0, <2>2, Sizes DEF Points
    <2>4. QED
        BY <2>1, <2>3 DEF DoneIsWhole
<1>4. QED
    BY <1>1, <1>2, <1>3

(* The invariant of the checkpoint is kept.                                 *)
LEMMA PointKept == TypeOK /\ PointInv /\ [Next]_vars => PointInv'
<1> SUFFICES ASSUME TypeOK, PointInv, [Next]_vars PROVE PointInv'
    OBVIOUS
<1>1. ASSUME NEW e \in Exec, Acts(e) PROVE PointInv'
    <2>1. \A s \in Exec : PointOf(s)'
        BY <1>1, PointOfOthers, PointOfSelf
    <2>2. DoneIsWhole'
        BY <1>1, DoneKept
    <2>3. QED
        BY <2>1, <2>2 DEF PointInv
<1>2. ASSUME GoesStale \/ Stall \/ UNCHANGED vars PROVE PointInv'
    BY <1>2 DEF GoesStale, Stall, PointInv, PointOf, DoneIsWhole, HasNext, vars, rowVars, execVars
<1>3. ASSUME Restart PROVE PointInv'
    BY <1>3 DEF Restart, PointInv, PointOf, DoneIsWhole
<1>4. QED
    BY <1>1, <1>2, <1>3 DEF Next, Acts

-----------------------------------------------------------------------------
(* The executors, when nothing failed.                                      *)

(* A step that is no fault keeps them apart.                                *)
LEMMA CalmKept ==
    ASSUME TypeOK, Calm, NEW e \in Exec, Step(e) \/ Resume(e) \/ Progress(e) \/ Heartbeat(e)
    PROVE  Calm'
<1>0. pc \in [Exec -> Places]
    BY Types DEF ExecOK
<1>a. ASSUME pc[e] \in Atwork PROVE MaySave(e) /\ e \in beat /\ ~stale
    BY <1>a DEF Calm, MaySave
<1>1. CASE Start(e)
    <2>1. \A s \in Exec : pc[s] # "off" => s = e
        BY <1>1 DEF Start, Calm
    <2>2. pc' = [pc EXCEPT ![e] = "claim"]
        BY <1>1 DEF Start, Go
    <2>3. \A s \in Exec : pc'[s] \in {"off", "claim"}
        BY <1>0, <2>1, <2>2 DEF Places
    <2>4. QED
        BY <2>3 DEF Calm, Atwork, Live
<1>2. CASE Resume(e)
    <2>1. \A s \in Exec : pc[s] \in {"off", "claim"}
        BY <1>0, <1>2 DEF Resume, Calm, Atwork, Active, Places
    <2>2. pc' = [pc EXCEPT ![e] = "claim"]
        BY <1>2 DEF Resume, Go
    <2>3. \A s \in Exec : pc'[s] \in {"off", "claim"}
        BY <1>0, <2>1, <2>2
    <2>4. QED
        BY <2>3 DEF Calm, Atwork, Live
<1>3. CASE Claim(e)
    <2>1. CASE Active /\ e \in seen
        <3>1. \A s \in Exec : pc[s] \in {"off", "claim"}
            BY <1>0, <1>3, <2>1 DEF Claim, Calm, Live, Places
        <3>2. pc' = [pc EXCEPT ![e] = "mark"]
            BY <1>3, <2>1 DEF Claim, Go
        <3>3. e \in synced' /\ e \in beat' /\ status' = "running" /\ stale' = FALSE /\ seen' = {}
            BY <1>3, <2>1 DEF Claim, TakeRow, Touched
        <3>4. \A s \in Exec : s # e => pc'[s] \in {"off", "claim"}
            BY <1>0, <3>1, <3>2
        <3>5. pc'[e] = "mark"
            BY <1>0, <3>2
        <3>6. QED
            BY <3>3, <3>4, <3>5 DEF Calm, Atwork, Live
    <2>2. CASE ~(Active /\ e \in seen)
        <3>1. /\ pc' = [pc EXCEPT ![e] = "off"] /\ beat' = beat \ {e}
              /\ UNCHANGED <<status, synced, seen, stale>>
            BY <1>3, <2>2 DEF Claim, Leaves, Go
        <3>2. pc[e] = "claim"
            BY <1>3 DEF Claim
        <3>3. \A s \in Exec : s # e => pc'[s] = pc[s] /\ (s \in beat => s \in beat')
            BY <1>0, <3>1
        <3>4. pc'[e] = "off"
            BY <1>0, <3>1
        <3>5. QED
            BY <3>1, <3>3, <3>4 DEF Calm, Atwork, Live, Active
    <2>3. QED
        BY <2>1, <2>2
    (* One at work, who goes on. *)
<1>b. ASSUME NEW to \in Atwork, Go(e, to), pc[e] \in Atwork, UNCHANGED <<status, synced, beat>>, ~stale',
             seen' \subseteq seen
      PROVE  Calm'
    <2>1. pc'[e] = to /\ \A s \in Exec : s # e => pc'[s] = pc[s]
        BY <1>0, <1>b DEF Go
    <2>2. \A s \in Exec : s # e => ~Live(s)
        BY <1>b DEF Calm, Live, Atwork
    <2>3. \A s \in Exec : pc[s] # "start"
        BY <1>b DEF Calm, Atwork
    <2>4. Live(e)
        BY <1>b DEF Live, Atwork
    <2>5. QED
        BY <1>0, <1>b, <2>1, <2>2, <2>3, <2>4 DEF Calm, Atwork, Live, Active, Places
<1>4. CASE MarkStage(e)
    <2>1. Save(e, "work") /\ pc[e] = "mark" /\ UNCHANGED <<status, synced, beat>>
        BY <1>4 DEF MarkStage
    <2>2. Go(e, "work") /\ stale' = FALSE /\ seen' = {}
        BY <1>a, <2>1 DEF Save, Touched, Atwork
    <2>3. QED
        BY <1>b, <2>1, <2>2 DEF Atwork
<1>5. CASE SaveStep(e)
    <2>1. Save(e, "mark") /\ pc[e] = "save" /\ UNCHANGED <<status, synced, beat>>
        BY <1>5 DEF SaveStep
    <2>2. Go(e, "mark") /\ stale' = FALSE /\ seen' = {}
        BY <1>a, <2>1 DEF Save, Touched, Atwork
    <2>3. QED
        BY <1>b, <2>1, <2>2 DEF Atwork
<1>6. CASE SaveLast(e)
    <2>1. Save(e, "finish") /\ pc[e] = "mark" /\ UNCHANGED <<status, synced, beat>>
        BY <1>6 DEF SaveLast
    <2>2. Go(e, "finish") /\ stale' = FALSE /\ seen' = {}
        BY <1>a, <2>1 DEF Save, Touched, Atwork
    <2>3. QED
        BY <1>b, <2>1, <2>2 DEF Atwork
<1>7. CASE StepEnds(e)
    <2>1. Go(e, "save") /\ pc[e] = "work" /\ UNCHANGED <<status, synced, beat, seen, stale>>
        BY <1>7 DEF StepEnds, rowVars
    <2>2. ~stale
        BY <1>a, <2>1 DEF Atwork
    <2>3. QED
        BY <1>b, <2>1, <2>2 DEF Atwork
<1>8. CASE MarkDone(e)
    <2>1. pc[e] = "finish" /\ MaySave(e)
        BY <1>8, <1>a DEF MarkDone, Atwork
    <2>2. Go(e, "close") /\ status' = "done" /\ stale' = FALSE /\ seen' = {}
        BY <1>8, <2>1 DEF MarkDone, Touched
    <2>3. \A s \in Exec : s # e => ~Live(s) /\ pc[s] # "start"
        BY <2>1 DEF Calm, Live
    <2>4. pc'[e] = "close" /\ \A s \in Exec : s # e => pc'[s] = pc[s]
        BY <1>0, <2>2 DEF Go
    <2>5. \A s \in Exec : s # e => pc'[s] \in {"off", "claim"}
        BY <1>0, <2>3, <2>4 DEF Live, Places
    <2>6. QED
        BY <2>2, <2>4, <2>5 DEF Calm, Atwork, Live
<1>9. CASE Close(e)
    <2>1. pc[e] = "close" /\ pc' = [pc EXCEPT ![e] = "off"] /\ UNCHANGED <<status, seen, stale>>
        BY <1>9 DEF Close, Leaves, Go
    <2>2. \A s \in Exec : s # e => ~Live(s) /\ pc[s] # "start"
        BY <2>1 DEF Calm, Live
    <2>3. \A s \in Exec : pc'[s] \in {"off", "claim"}
        BY <1>0, <2>1, <2>2 DEF Live, Places
    <2>4. QED
        BY <2>3 DEF Calm, Atwork, Live
<1>10. CASE Progress(e)
    BY <1>10, <1>a DEF Progress, Atwork
<1>11. CASE Heartbeat(e)
    <2>1. CASE MaySave(e)
        <3>1. UNCHANGED <<status, synced, pc, beat>> /\ stale' = FALSE /\ seen' = {}
            BY <1>11, <2>1 DEF Heartbeat, Touched
        <3>2. QED
            BY <3>1 DEF Calm, Live, Active
    <2>2. CASE ~MaySave(e)
        <3>1. UNCHANGED <<status, synced, pc, seen, stale>> /\ beat' = beat \ {e} /\ pc[e] \notin Atwork
            BY <1>11, <2>2, <1>a DEF Heartbeat
        <3>2. QED
            BY <3>1 DEF Calm, Live, Active
    <2>3. QED
        BY <2>1, <2>2
<1>12. QED
    BY <1>1, <1>2, <1>3, <1>4, <1>5, <1>6, <1>7, <1>8, <1>9, <1>10, <1>11 DEF Step

(* A fault is counted.                                                      *)
LEMMA FaultCounts == BoundsOK /\ Fault => faults' # 0
BY Sizes DEF Fault, BoundsOK

(* ... and the other steps keep the count, or start over without executors. *)
LEMMA FaultsOnly ==
    ASSUME BoundsOK, [Next]_vars, faults' = 0
    PROVE  /\ faults = 0
           /\ \/ \E e \in Exec : Step(e) \/ Resume(e) \/ Progress(e) \/ Heartbeat(e)
              \/ GoesStale \/ Restart \/ UNCHANGED vars
<1>1. ~Fault
    BY FaultCounts
<1>2. \/ \E e \in Exec : Step(e) \/ Resume(e) \/ Progress(e) \/ Heartbeat(e)
      \/ GoesStale \/ Restart \/ UNCHANGED vars
    BY <1>1 DEF Next, Stall, Raises, ResumeFails, ClaimRaises, ProgressRaises, SaveRaises, MarkDoneRaises,
       HeartbeatRaises
<1>3. faults' = faults
    <2>1. ASSUME NEW e \in Exec, Acts(e) PROVE faults' = faults
        BY <1>1, <2>1, FaultFrame DEF bounds
    <2>2. QED
        BY <1>2, <2>1 DEF Acts, GoesStale, Restart, vars, bounds
<1>4. QED
    BY <1>2, <1>3

(* The invariant of the executors is kept.                                  *)
LEMMA WorkKept == TypeOK /\ WorkInv /\ [Next]_vars => WorkInv'
<1> SUFFICES ASSUME TypeOK, WorkInv, [Next]_vars, faults' = 0 PROVE Calm'
    BY DEF WorkInv
<1>0. BoundsOK /\ pc \in [Exec -> Places]
    BY Types DEF ExecOK
<1>1. Calm
    BY <1>0, FaultsOnly DEF WorkInv
<1>2. ASSUME NEW e \in Exec, Step(e) \/ Resume(e) \/ Progress(e) \/ Heartbeat(e) PROVE Calm'
    BY <1>1, <1>2, CalmKept
<1>3. CASE GoesStale
    <2>1. /\ Active /\ ~Renewed
          /\ UNCHANGED <<status, synced, seen, pc, beat>>
        BY <1>3 DEF GoesStale, execVars
    <2>2. \A s \in Exec : pc[s] \notin Atwork
        BY <1>1, <2>1 DEF Calm, Renewed, MaySave
    <2>3. \A s \in Exec : pc[s] # "start"
        BY <1>1, <2>1, Sizes DEF Calm, Renewed
    <2>4. QED
        BY <1>1, <2>1, <2>2, <2>3 DEF Calm, Live, Active
<1>4. CASE Restart
    <2>1. \A s \in Exec : pc'[s] = "off"
        BY <1>4 DEF Restart
    <2>2. QED
        BY <2>1 DEF Calm, Atwork, Live
<1>5. CASE UNCHANGED vars
    BY <1>1, <1>5 DEF vars, rowVars, execVars, Calm, Live, Active
<1>6. QED
    BY <1>0, <1>2, <1>3, <1>4, <1>5, FaultsOnly

-----------------------------------------------------------------------------
(* What holds of every behaviour.                                           *)

(* The invariant holds at first, ...                                        *)
LEMMA InvInit == Init => Inv
<1> SUFFICES ASSUME Init PROVE Inv
    OBVIOUS
<1>1. TypeOK /\ SlotsBalanced
    BY TypesInit
<1>2. PointInv
    BY DEF Init, PointInv, PointOf, DoneIsWhole
<1>3. WorkInv
    BY DEF Init, WorkInv, Calm, Atwork, Live
<1>4. QED
    BY <1>1, <1>2, <1>3 DEF Inv

(* ... and every step keeps it.                                             *)
LEMMA InvNext == Inv /\ [Next]_vars => Inv'
BY TypesKept, BalanceKept, PointKept, WorkKept DEF Inv

(* The slots balance, whoever writes is the one the row names and builds on *)
(* what is stored, and executors keep apart while nothing fails             *)
(* (Parent.execute, save_checkpoint, OmiyageReportStatusSkill.run).         *)
THEOREM ParentInvariant == Spec => []Inv
<1>1. Init => Inv
    BY InvInit
<1>2. Inv /\ [Next]_vars => Inv'
    BY InvNext
<1>3. QED
    BY <1>1, <1>2, PTL DEF Spec

(* Every variable has its type in every reachable state.                    *)
THEOREM ParentTyping == Spec => []TypeOK
<1>1. Inv => TypeOK
    BY DEF Inv
<1>2. QED
    BY <1>1, ParentInvariant, PTL

(* No interruption loses a slot of the admission, or returns one twice      *)
(* (JobAdmission, and the callers that give a slot back).                   *)
THEOREM SlotsBalance == Spec => []SlotsBalanced
<1>1. Inv => SlotsBalanced
    BY DEF Inv
<1>2. QED
    BY <1>1, ParentInvariant, PTL

(* While nothing failed, one executor works on the job, through any number  *)
(* of restarts and status queries (the claim under updated_at, and the      *)
(* heartbeat that keeps the row from looking stale).                        *)
THEOREM OneExecutor == Spec => []OneWorker
<1>1. Inv => OneWorker
    BY DEF Inv, WorkInv, Calm, OneWorker
<1>2. QED
    BY <1>1, ParentInvariant, PTL

(* What is marked done is the whole plan, or one that says where it ended.  *)
THEOREM DoneWhole == Spec => []DoneIsWhole
<1>1. Inv => DoneIsWhole
    BY DEF Inv, PointInv
<1>2. QED
    BY <1>1, ParentInvariant, PTL

(* An executor begins a step only under its own lease, however late it is   *)
(* (the save of the stage is conditional on the checkpoint).                *)
THEOREM StepsUnderLease == Spec => NoStepAfterTakeover
<1>1. ASSUME Inv, [Next]_vars, NEW e \in Exec, pc[e] = "mark", pc'[e] = "work"
      PROVE  lease = e
    <2>0. pc \in [Exec -> Places] /\ PointOf(e)
        BY <1>1, Types DEF Inv, ExecOK, PointInv
    <2>1. e \in synced
        <3>1. ASSUME NEW s \in Exec, Acts(s), s # e PROVE FALSE
            <4>1. pc'[e] = pc[e]
                BY <2>0, <3>1, PlaceFrame DEF Go
            <4>2. QED
                BY <1>1, <4>1
        <3>2. ASSUME Acts(e) PROVE e \in synced
            BY <1>1, <2>0, <3>2 DEF Acts, Step, Raises, Start, Claim, MarkStage, StepEnds, SaveStep, SaveLast,
               MarkDone, Close, ResumeFails, ClaimRaises, ProgressRaises, SaveRaises, MarkDoneRaises,
               HeartbeatRaises, Progress, Heartbeat, Resume, Save, MaySave, Go, Leaves, execVars
        <3>3. ~(GoesStale \/ Stall \/ Restart \/ UNCHANGED vars)
            BY <1>1 DEF GoesStale, Stall, Restart, vars, execVars
        <3>4. QED
            BY <1>1, <3>1, <3>2, <3>3 DEF Next, Acts
    <2>2. QED
        BY <2>0, <2>1 DEF PointOf
<1>2. Inv /\ [Next]_vars => [\A e \in Exec : pc[e] = "mark" /\ pc'[e] = "work" => lease = e]_vars
    BY <1>1
<1>3. QED
    BY <1>2, ParentInvariant, PTL DEF Spec, NoStepAfterTakeover

(* The checkpoint never goes back, and a job that ended stays as it ended,  *)
(* whoever writes the row and however late.                                 *)
THEOREM CheckpointAdvances == Spec => NothingLost
<1> DEFINE Advance == /\ point'.steps >= point.steps
                      /\ point.ok \/ ~point'.ok
                      /\ ~Active => status' = status
<1>1. ASSUME Inv, [Next]_vars PROVE Advance
    <2>0. point \in Points /\ local \in [Exec -> Points] /\ PointInv
        BY <1>1, Types DEF Inv, PointOK
    <2>1. Extends(point, point)
        BY <2>0, ExtendsPoint
    <2>2. Extends(point', point)
        <3>1. ASSUME NEW e \in Exec, Acts(e) PROVE Extends(point', point)
            BY <2>0, <2>1, <3>1, PointFrame DEF PointInv, PointOf, MaySave
        <3>2. QED
            BY <1>1, <2>1, <3>1 DEF Next, Acts, GoesStale, Stall, Restart, vars, rowVars
    <2>3. ASSUME ~Active PROVE status' = status
        BY <1>1, <2>3 DEF Next, Step, Raises, Start, Claim, MarkStage, StepEnds, SaveStep, SaveLast, MarkDone,
           Close, ResumeFails, ClaimRaises, ProgressRaises, SaveRaises, MarkDoneRaises, HeartbeatRaises,
           Progress, Heartbeat, Resume, GoesStale, Stall, Restart, MaySave, Active, vars, rowVars
    <2>4. QED
        BY <2>2, <2>3 DEF Extends
<1>2. Inv /\ [Next]_vars => [Advance]_vars
    BY <1>1
<1>3. QED
    BY <1>2, ParentInvariant, PTL DEF Spec, NothingLost

===============================================================================
