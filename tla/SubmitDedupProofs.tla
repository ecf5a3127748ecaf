------------------------- MODULE SubmitDedupProofs -------------------------
(* Proofs about SubmitDedup, for any number of requests and slots.         *)
EXTENDS SubmitDedup, FiniteSetTheorems, TLAPS

(* Types without the bounds that follow from the balance of the slots.      *)
Types ==
    /\ lock \in Request \cup {Absent, Free} /\ lockAge \in 0..2
    /\ row \in [Request -> {"none", "queued", "running", "done", "failed"}]
    /\ stale \subseteq Request
    /\ free \in Nat /\ others \in Nat
    /\ pc \in [Request -> {"claim", "judge", "put", "admit", "create", "launch", "release", "ended"}]
    /\ read \in [Request -> [target : Request \cup {Absent, Free}, age : 0..2]]
    /\ tries \in [Request -> 0..MaxTries]
    /\ claimed \subseteq Request
    /\ answer \in [Request -> {"none", "duplicate", "busy", "accepted", "error"}]
    /\ worker \in [Request -> {"none", "start", "work", "leaving", "ended"}]
    /\ faults \in 0..MaxFaults

(* A submit that still races for the lock has an attempt left, and a thread *)
(* belongs to a submit that is over: so a slot has one holder.              *)
Course ==
    \A r \in Request :
        /\ pc[r] \in {"claim", "judge", "put"} => tries[r] < MaxTries
        /\ worker[r] # "none" => pc[r] = "ended"

Inv == Types /\ Course /\ SlotsBalanced

Atwork == {"start", "work", "leaving"}
Ontheway == {"create", "launch"}

-----------------------------------------------------------------------------
(* Sets of requests are finite.                                             *)
LEMMA HoldingFinite ==
    ASSUME NEW T \in SUBSET Request
    PROVE  IsFiniteSet(T) /\ Cardinality(T) \in Nat
BY DedupAssumption, FS_Subset, FS_CardinalityType DEF DedupAssumption

(* The slots stay balanced when nobody takes or returns one, ...            *)
LEMMA SlotsKept ==
    ASSUME SlotsBalanced, UNCHANGED <<free, others>>,
           \A r \in Request : r \in Holding' <=> r \in Holding
    PROVE  SlotsBalanced'
<1>1. Holding' = Holding
    BY DEF Holding
<1>2. QED
    BY <1>1 DEF SlotsBalanced

(* ... when one request takes one, ...                                      *)
LEMMA SlotTaken ==
    ASSUME SlotsBalanced, free \in Nat, others \in Nat, NEW r \in Request, r \notin Holding,
           free' = free - 1, others' = others, Holding' = Holding \cup {r}
    PROVE  SlotsBalanced'
<1>1. IsFiniteSet(Holding) /\ Cardinality(Holding) \in Nat
    BY HoldingFinite DEF Holding
<1>2. Cardinality(Holding') = Cardinality(Holding) + 1
    BY <1>1, FS_AddElement
<1>3. free + others + Cardinality(Holding) = Limit
    BY DEF SlotsBalanced
<1>4. free' + others' + Cardinality(Holding') = Limit
    BY <1>1, <1>2, <1>3
<1>5. QED
    BY <1>4 DEF SlotsBalanced

(* ... and when one gives it back.                                          *)
LEMMA SlotReturned ==
    ASSUME SlotsBalanced, free \in Nat, others \in Nat, NEW r \in Holding,
           free' = free + 1, others' = others, Holding' = Holding \ {r}
    PROVE  SlotsBalanced'
<1>1. IsFiniteSet(Holding) /\ Cardinality(Holding) \in Nat
    BY HoldingFinite DEF Holding
<1>2. Cardinality(Holding') = Cardinality(Holding) - 1
    BY <1>1, FS_RemoveElement
<1>3. free + others + Cardinality(Holding) = Limit
    BY DEF SlotsBalanced
<1>4. free' + others' + Cardinality(Holding') = Limit
    BY <1>1, <1>2, <1>3
<1>5. QED
    BY <1>4 DEF SlotsBalanced

-----------------------------------------------------------------------------
(* At first all slots are free.                                             *)
LEMMA InitInv == Init => Inv
<1> SUFFICES ASSUME Init PROVE Inv
    OBVIOUS
<1>1. Types /\ Course
    BY DedupAssumption DEF Init, Types, Course, DedupAssumption, Never, MaxTries
<1>2. Holding = {}
    BY DEF Init, Holding
<1>3. Cardinality(Holding) = 0
    BY <1>2, FS_EmptySet
<1>4. SlotsBalanced
    BY <1>3, DedupAssumption DEF Init, SlotsBalanced, DedupAssumption
<1>5. QED
    BY <1>1, <1>4 DEF Inv

(* Every step without a fault keeps the types.                              *)
LEMMA StepTypes ==
    ASSUME Types, Course, NEW r \in Request, Step(r)
    PROVE  Types' /\ Course'
<1> USE DEF Types, Course, Go, Tell, SetWorker, lockVars, jobVars, slotVars, submitVars, MaxTries
<1>1. CASE ReadLock(r)
    BY <1>1 DEF ReadLock
<1>2. CASE Judge(r)
    BY <1>2 DEF Judge
<1>3. CASE Put(r)
    <2>1. CASE lock = read[r].target
        BY <1>3, <2>1 DEF Put, TakeLock
    <2>2. CASE lock # read[r].target
        BY <1>3, <2>2 DEF Put
    <2>3. QED
        BY <2>1, <2>2
<1>4. CASE Admit(r)
    BY <1>4 DEF Admit
<1>5. CASE Create(r)
    BY <1>5 DEF Create
<1>6. CASE Launch(r)
    BY <1>6 DEF Launch
<1>7. CASE Release(r)
    BY <1>7 DEF Release
<1>8. CASE MarkRunning(r)
    BY <1>8 DEF MarkRunning
<1>9. CASE WorkEnds(r)
    <2>1. row' \in [Request -> {"none", "queued", "running", "done", "failed"}]
        BY <1>9 DEF WorkEnds
    <2>2. QED
        BY <1>9, <2>1 DEF WorkEnds
<1>10. CASE Leave(r)
    BY <1>10 DEF Leave
<1>11. CASE Heartbeat(r)
    BY <1>11 DEF Heartbeat
<1>12. QED
    BY <1>1, <1>2, <1>3, <1>4, <1>5, <1>6, <1>7, <1>8, <1>9, <1>10, <1>11 DEF Step

(* Every step without a fault keeps the slots balanced.                     *)
LEMMA StepSlots ==
    ASSUME Inv, NEW r \in Request, Step(r)
    PROVE  SlotsBalanced'
<1>1. Types /\ Course /\ SlotsBalanced
    BY DEF Inv
<1> USE DEF Types, Course, Go, Tell, SetWorker, lockVars, jobVars, slotVars, submitVars
<1>2. CASE Admit(r)
    <2>1. CASE free > 0
        <3>1. free' = free - 1 /\ others' = others
            BY <1>2, <2>1 DEF Admit
        <3>2. r \notin Holding /\ Holding' = Holding \cup {r}
            BY <1>1, <1>2, <2>1 DEF Admit, Holding
        <3>3. QED
            BY <1>1, <3>1, <3>2, SlotTaken
    <2>2. CASE ~(free > 0)
        BY <1>1, <1>2, <2>2, SlotsKept DEF Admit, Holding
    <2>3. QED
        BY <2>1, <2>2
<1>3. CASE Leave(r)
    <2>1. free' = free + 1 /\ others' = others
        BY <1>3 DEF Leave
    <2>2. r \in Holding /\ Holding' = Holding \ {r}
        BY <1>1, <1>3 DEF Leave, Holding
    <2>3. QED
        BY <1>1, <2>1, <2>2, SlotReturned
<1>4. CASE ReadLock(r) \/ Judge(r) \/ Put(r) \/ Release(r)
    <2>1. /\ UNCHANGED <<free, others, worker>> /\ pc[r] \notin Ontheway /\ pc'[r] \notin Ontheway
          /\ \A s \in Request \ {r} : pc'[s] = pc[s]
        BY <1>1, <1>4 DEF ReadLock, Judge, Put, Release, Ontheway
    <2>2. QED
        BY <1>1, <2>1, SlotsKept DEF Holding, Ontheway
<1>5. CASE Create(r)
    BY <1>1, <1>5, SlotsKept DEF Create, Holding
<1>6. CASE Launch(r)
    BY <1>1, <1>6, SlotsKept DEF Launch, Holding
<1>7. CASE MarkRunning(r) \/ WorkEnds(r) \/ Heartbeat(r)
    <2>1. /\ UNCHANGED <<free, others, pc>> /\ worker[r] \in Atwork /\ worker'[r] \in Atwork
          /\ \A s \in Request \ {r} : worker'[s] = worker[s]
        BY <1>1, <1>7 DEF MarkRunning, WorkEnds, Heartbeat, Atwork
    <2>2. QED
        BY <1>1, <2>1, SlotsKept DEF Holding, Atwork
<1>8. QED
    BY <1>2, <1>3, <1>4, <1>5, <1>6, <1>7 DEF Step

(* A failed call keeps the invariant.                                       *)
LEMMA RaisesInv ==
    ASSUME Inv, NEW r \in Request, Raises(r)
    PROVE  Inv'
<1>1. Types /\ Course /\ SlotsBalanced
    BY DEF Inv
<1> USE DedupAssumption DEF Types, Course, Go, Tell, SetWorker, lockVars, jobVars, slotVars, submitVars,
    Fault, DedupAssumption
<1>2. CASE CreateRaises(r) \/ LaunchFails(r)
    <2>1. /\ free' = free + 1 /\ others' = others /\ worker' = worker
          /\ pc[r] \in Ontheway /\ pc' = [pc EXCEPT ![r] = "release"]
        BY <1>2 DEF CreateRaises, LaunchFails, Ontheway
    <2>2. r \in Holding /\ Holding' = Holding \ {r}
        BY <1>1, <2>1 DEF Holding, Ontheway
    <2>3. SlotsBalanced'
        BY <1>1, <2>1, <2>2, SlotReturned
    <2>4. row' \in [Request -> {"none", "queued", "running", "done", "failed"}]
        BY <1>1, <1>2 DEF CreateRaises, LaunchFails
    <2>5. /\ UNCHANGED <<lock, lockAge, stale, worker, read, tries, claimed>>
          /\ answer' = [answer EXCEPT ![r] = "error"] /\ faults < MaxFaults /\ faults' = faults + 1
        BY <1>2 DEF CreateRaises, LaunchFails
    <2>6. Types' /\ Course'
        BY <1>1, <2>1, <2>4, <2>5 DEF Ontheway
    <2>7. QED
        BY <2>3, <2>6 DEF Inv
<1>3. CASE DedupRaises(r)
    <2>1. Types' /\ Course'
        BY <1>1, <1>3 DEF DedupRaises, TakeLock
    <2>2. SlotsBalanced'
        BY <1>1, <1>3, SlotsKept DEF DedupRaises, Holding
    <2>3. QED
        BY <2>1, <2>2 DEF Inv
<1>4. CASE ReleaseRaises(r)
    <2>1. Types' /\ Course'
        BY <1>1, <1>4 DEF ReleaseRaises
    <2>2. SlotsBalanced'
        BY <1>1, <1>4, SlotsKept DEF ReleaseRaises, Holding
    <2>3. QED
        BY <2>1, <2>2 DEF Inv
<1>5. CASE MarkRunningRaises(r) \/ WorkEndLost(r)
    <2>1. row' \in [Request -> {"none", "queued", "running", "done", "failed"}]
        BY <1>1, <1>5 DEF MarkRunningRaises, WorkEndLost
    <2>2. /\ worker[r] \in Atwork /\ worker' = [worker EXCEPT ![r] = "leaving"]
          /\ faults < MaxFaults /\ faults' = faults + 1
          /\ UNCHANGED <<lock, lockAge, stale, free, others, pc, read, tries, claimed, answer>>
        BY <1>5 DEF MarkRunningRaises, WorkEndLost, Atwork
    <2>3. Types' /\ Course'
        BY <1>1, <2>1, <2>2 DEF Atwork
    <2>4. SlotsBalanced'
        BY <1>1, <2>2, SlotsKept DEF Holding, Atwork
    <2>5. QED
        BY <2>3, <2>4 DEF Inv
<1>6. QED
    BY <1>2, <1>3, <1>4, <1>5 DEF Raises

(* So does the replacement of the process.                                  *)
LEMMA RestartInv == ASSUME Inv, Restart PROVE Inv'
<1>1. Types /\ Course
    BY DEF Inv
<1>2. Types' /\ Course'
    BY <1>1, DedupAssumption DEF Restart, Types, Course, lockVars, DedupAssumption
<1>3. Holding' = {}
    BY <1>1 DEF Restart, Holding, Types
<1>4. Cardinality(Holding') = 0
    BY <1>3, FS_EmptySet
<1>5. free' + others' + Cardinality(Holding') = Limit
    BY <1>4, DedupAssumption DEF Restart, DedupAssumption
<1>6. QED
    BY <1>2, <1>5 DEF Inv, SlotsBalanced

(* Every step keeps the invariant.                                          *)
LEMMA NextInv == Inv /\ [Next]_vars => Inv'
<1> SUFFICES ASSUME Inv, [Next]_vars PROVE Inv'
    OBVIOUS
<1>1. Types /\ Course /\ SlotsBalanced
    BY DEF Inv
<1>2. ASSUME NEW r \in Request, Step(r) PROVE Inv'
    BY <1>1, <1>2, StepTypes, StepSlots DEF Inv
<1>3. ASSUME NEW r \in Request, Raises(r) PROVE Inv'
    BY <1>3, RaisesInv
<1>4. ASSUME NEW r \in Request, GoesStale(r) \/ StatusFailsStale(r) PROVE Inv'
    <2>1. UNCHANGED <<lock, lockAge, worker, free, others, pc, read, tries, claimed, answer>>
        BY <1>4 DEF GoesStale, StatusFailsStale, lockVars, slotVars, submitVars
    <2>2. Types' /\ Course'
        BY <1>1, <1>4, <2>1, DedupAssumption DEF Types, Course, GoesStale, StatusFailsStale, Fault,
            DedupAssumption
    <2>3. SlotsBalanced'
        BY <1>1, <2>1, SlotsKept DEF Holding
    <2>4. QED
        BY <2>2, <2>3 DEF Inv
<1>5. CASE OthersMove
    <2>1. UNCHANGED <<lock, lockAge, row, stale, worker, pc, read, tries, claimed, answer, faults>>
        BY <1>5 DEF OthersMove, lockVars, jobVars, submitVars
    <2>2. /\ free' \in Nat /\ others' \in Nat /\ free' + others' = free + others
          /\ free \in Nat /\ others \in Nat
        BY <1>1, <1>5 DEF OthersMove, Types
    <2>3. Types' /\ Course'
        BY <1>1, <2>1, <2>2 DEF Types, Course
    <2>4. Holding' = Holding
        BY <2>1 DEF Holding
    <2>5. SlotsBalanced'
        BY <1>1, <2>2, <2>4 DEF SlotsBalanced
    <2>6. QED
        BY <2>3, <2>5 DEF Inv
<1>6. CASE LockAges
    <2>1. UNCHANGED <<lock, row, stale, worker, free, others, pc, read, tries, claimed, answer>>
        BY <1>6 DEF LockAges, jobVars, slotVars, submitVars
    <2>2. lockAge' \in 0..2 /\ faults' \in 0..MaxFaults
        BY <1>1, <1>6, DedupAssumption DEF LockAges, Types, Fault, DedupAssumption
    <2>3. Types' /\ Course'
        BY <1>1, <2>1, <2>2 DEF Types, Course
    <2>4. SlotsBalanced'
        BY <1>1, <2>1, SlotsKept DEF Holding
    <2>5. QED
        BY <2>3, <2>4 DEF Inv
<1>7. CASE Restart
    BY <1>7, RestartInv
<1>8. CASE UNCHANGED vars
    BY <1>1, <1>8, SlotsKept DEF vars, lockVars, jobVars, slotVars, submitVars, Inv, Types, Course, Holding
<1>9. QED
    BY <1>2, <1>3, <1>4, <1>5, <1>6, <1>7, <1>8 DEF Next

(* The invariant implies the types that the module states.                  *)
LEMMA InvType == Inv => TypeOK
<1> SUFFICES ASSUME Inv PROVE TypeOK
    OBVIOUS
<1>1. Cardinality(Holding) \in Nat
    BY HoldingFinite DEF Holding
<1>2. free \in Nat /\ others \in Nat /\ free + others + Cardinality(Holding) = Limit /\ Limit \in Nat
    BY DedupAssumption DEF Inv, Types, SlotsBalanced, DedupAssumption
<1>3. free \in 0..Limit /\ others \in 0..Limit
    BY <1>1, <1>2
<1>4. QED
    BY <1>3 DEF Inv, Types, TypeOK

-----------------------------------------------------------------------------
(* Types, the attempts of a submit, and the balance of the slots.           *)
THEOREM DedupInvariant == Spec => []Inv
<1>1. QED
    BY InitInv, NextInv, PTL DEF Spec

(* Every variable keeps its type; the slots are never above the limit nor   *)
(* below zero (JobAdmission).                                               *)
THEOREM DedupTypes == Spec => []TypeOK
<1>1. QED
    BY InvType, DedupInvariant, PTL

(* Every slot of JobAdmission is free, or held by a request of another key, *)
(* by one submit on its way, or by one live thread: it comes back from every*)
(* refusal, error and restart, and never twice.                             *)
THEOREM SlotsNeverLost == Spec => []SlotsBalanced
<1>1. Inv => SlotsBalanced
    BY DEF Inv
<1>2. QED
    BY <1>1, DedupInvariant, PTL

-----------------------------------------------------------------------------
(* Why one worker is all there is while no call fails: who goes on with the *)
(* lock is named by it, and a rival that has read that name and still means *)
(* to write judged the job to be over.                                      *)

Racing(r) == pc[r] \in {"claim", "judge", "put"}

Unwritten(r) == pc[r] \in {"admit", "create"}

Engaged(r) == Unwritten(r) \/ Alive(r)

(* A row is written by Create, and beats as long as its job is alive.       *)
RowOf(r) ==
    /\ Racing(r) \/ Unwritten(r) => row[r] = "none"
    /\ row[r] = "none" => r \notin stale
    /\ pc[r] = "launch" \/ worker[r] = "start" => row[r] = "queued" /\ r \notin stale
    /\ worker[r] = "work" => row[r] = "running" /\ r \notin stale

(* The lock names whoever took it and is on its way or at work.             *)
LockOf(r) ==
    /\ lock = r => r \in claimed
    /\ r \in claimed => ~Racing(r)
    /\ pc[r] \in {"admit", "create", "launch"} \/ worker[r] # "none"
       => r \in claimed \/ tries[r] = MaxTries
    /\ Engaged(r) /\ r \in claimed => lock = r
    /\ lock = r /\ Unwritten(r) => lockAge = 0

(* What a rival has read of the lock, and what it made of it.               *)
ReadOf(s) ==
    \A t \in Request : read[s].target = t =>
        /\ pc[s] \in {"judge", "put"} => t \in claimed
        /\ pc[s] = "judge" /\ Unwritten(t) => read[s].age = 0
        /\ pc[s] = "put" => ~Engaged(t)

JudgeReadsRequest(s) == pc[s] = "judge" => read[s].target \in Request

Rivals == \A r \in Request : RowOf(r) /\ LockOf(r) /\ ReadOf(r) /\ JudgeReadsRequest(r)

RivalInv == faults = 0 => Rivals

-----------------------------------------------------------------------------
(* The steps of a submit keep what is known of rivals.                      *)
LEMMA SubmitRivals ==
    ASSUME Types, Course, Rivals, faults = 0, NEW a \in Request,
           ReadLock(a) \/ Judge(a) \/ Put(a) \/ Admit(a) \/ Create(a) \/ Launch(a) \/ Release(a)
    PROVE  Rivals'
<1> USE DedupAssumption DEF DedupAssumption, Types, Course, Rivals, RowOf, LockOf, ReadOf,
    JudgeReadsRequest, Racing,
        Unwritten, Engaged, Alive, Go, Tell, lockVars, jobVars, slotVars, submitVars, MaxTries
<1>1. CASE ReadLock(a)
    BY <1>1 DEF ReadLock
<1>2. CASE Judge(a)
    BY <1>2 DEF Judge, Reusable, Active
<1>3. CASE Put(a)
    <2>1. CASE lock = read[a].target
        BY <1>3, <2>1 DEF Put, TakeLock
    <2>2. CASE lock # read[a].target
        BY <1>3, <2>2 DEF Put
    <2>3. QED
        BY <2>1, <2>2
<1>4. CASE Admit(a)
    BY <1>4 DEF Admit
<1>5. CASE Create(a)
    BY <1>5 DEF Create
<1>6. CASE Launch(a)
    BY <1>6 DEF Launch
<1>7. CASE Release(a)
    BY <1>7 DEF Release
<1>8. QED
    BY <1>1, <1>2, <1>3, <1>4, <1>5, <1>6, <1>7

(* So do those of a job, ...                                                *)
LEMMA JobRivals ==
    ASSUME Types, Course, Rivals, faults = 0, NEW a \in Request,
           MarkRunning(a) \/ WorkEnds(a) \/ Leave(a) \/ Heartbeat(a)
    PROVE  Rivals'
<1> USE DedupAssumption DEF DedupAssumption, Types, Course, Rivals, RowOf, LockOf, ReadOf,
    JudgeReadsRequest, Racing,
        Unwritten, Engaged, Alive, SetWorker, lockVars, jobVars, slotVars, submitVars
<1>1. CASE MarkRunning(a)
    BY <1>1 DEF MarkRunning
<1>2. CASE WorkEnds(a)
    BY <1>2 DEF WorkEnds
<1>3. CASE Leave(a)
    BY <1>3 DEF Leave
<1>4. CASE Heartbeat(a)
    BY <1>4 DEF Heartbeat
<1>5. QED
    BY <1>1, <1>2, <1>3, <1>4

(* ... and those of the others, of time and of the container service.       *)
LEMMA OtherRivals ==
    ASSUME Types, Course, Rivals, faults = 0, faults' = 0,
           \/ \E a \in Request : Raises(a) \/ GoesStale(a) \/ StatusFailsStale(a)
           \/ OthersMove \/ LockAges \/ Restart \/ UNCHANGED vars
    PROVE  Rivals'
<1> USE DedupAssumption DEF DedupAssumption, Types, Course, Rivals, RowOf, LockOf, ReadOf,
    JudgeReadsRequest, Racing,
        Unwritten, Engaged, Alive, Active, lockVars, jobVars, slotVars, submitVars, Fault
<1>1. ASSUME NEW a \in Request, Raises(a) PROVE FALSE
    BY <1>1 DEF Raises, DedupRaises, CreateRaises, LaunchFails, ReleaseRaises, MarkRunningRaises, WorkEndLost
<1>2. ASSUME NEW a \in Request, GoesStale(a) PROVE Rivals'
    BY <1>2 DEF GoesStale
<1>3. ASSUME NEW a \in Request, StatusFailsStale(a) PROVE Rivals'
    BY <1>3 DEF StatusFailsStale
<1>4. CASE OthersMove
    BY <1>4 DEF OthersMove
<1>5. CASE LockAges
    BY <1>5 DEF LockAges
<1>6. CASE Restart
    BY <1>6 DEF Restart
<1>7. CASE UNCHANGED vars
    BY <1>7 DEF vars
<1>8. QED
    BY <1>1, <1>2, <1>3, <1>4, <1>5, <1>6, <1>7

(* Every step keeps what is known of rivals; the first fault ends it.       *)
LEMMA RivalStep == Inv /\ RivalInv /\ [Next]_vars => RivalInv'
<1> SUFFICES ASSUME Inv, RivalInv, [Next]_vars, faults' = 0 PROVE Rivals'
    BY DEF RivalInv
<1>1. Types /\ Course /\ faults = 0
    <2>1. faults' = faults \/ faults' = faults + 1
        BY DEF Next, Step, Raises, ReadLock, Judge, Put, Admit, Create, Launch, Release,
            MarkRunning, WorkEnds, Leave, Heartbeat, DedupRaises, CreateRaises, LaunchFails,
            ReleaseRaises, MarkRunningRaises, WorkEndLost, GoesStale, StatusFailsStale,
            OthersMove, LockAges, Restart, Fault, vars
    <2>2. faults \in Nat
        BY DedupAssumption DEF Inv, Types, DedupAssumption
    <2>3. QED
        BY <2>1, <2>2 DEF Inv
<1>2. Rivals
    BY <1>1 DEF RivalInv
<1>3. ASSUME NEW r \in Request, Step(r) PROVE Rivals'
    BY <1>1, <1>2, <1>3, SubmitRivals, JobRivals DEF Step
<1>4. QED
    BY <1>1, <1>2, <1>3, OtherRivals DEF Next

(* As long as no call fails and nothing stalls, the lock names whoever goes *)
(* on with it, and no rival means to write over that name.                  *)
THEOREM RivalInvariant == Spec => []RivalInv
<1>1. Init => RivalInv
    BY DedupAssumption DEF DedupAssumption, Init, RivalInv, Rivals, RowOf, LockOf, ReadOf,
        JudgeReadsRequest, Racing, Unwritten, Engaged, Alive, Never
<1>2. QED
    BY <1>1, RivalStep, DedupInvariant, PTL DEF Spec

(* Two submits of the same content are never at work together, however many *)
(* race, restart or are refused, unless a call failed, the process stalled  *)
(* or one of them lost the lock four times (claim, put_dedup_lock, release).*)
THEOREM OneDocument == Spec => []OneWorker
<1>1. ASSUME RivalInv, faults = 0, NEW r \in Request, tries[r] < MaxTries, worker[r] = "work"
      PROVE  lock = r
    <2>1. r \in claimed
        BY <1>1 DEF RivalInv, Rivals, LockOf, MaxTries
    <2>2. QED
        BY <1>1, <2>1 DEF RivalInv, Rivals, LockOf, Engaged, Alive
<1>2. RivalInv => OneWorker
    BY <1>1 DEF OneWorker
<1>3. QED
    BY <1>2, RivalInvariant, PTL
=============================================================================
