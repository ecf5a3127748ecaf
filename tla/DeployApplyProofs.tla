--------------------------- MODULE DeployApplyProofs ---------------------------
(***************************************************************************)
(* What the fences of a deployment guarantee, for any number of attempts   *)
(* and of faults.  The sagas' records keep attempts apart (OneHand)        *)
(* whatever locks have run out; that a record holds the right baseline     *)
(* also needs the guard's lock of two hours.                               *)
(***************************************************************************)
EXTENDS DeployApply, TLAPS

-----------------------------------------------------------------------------
(* The sagas.                                                               *)

Early == {"idle", "planned", "gated", "locked", "checked", "consumed", "read"}
Span == {"begun", "restore others", "close others", "put", "apply", "verify rules",
         "verify services", "commit", "functions", "rules", "close rules", "services", "close services"}

(* From the begin of its ECS saga to its commit or the end of its cleanup.  *)
Within(a) == pc[a] \in Span \/ (pc[a] = "recover" /\ begun[a] # 0 /\ a \notin receipts)

(* An attempt within its saga has an open record, which the pointer names.  *)
SagaInv ==
    /\ \A a \in Attempts : pc[a] \in Early => begun[a] = 0 /\ saga[a] = "none"
    /\ \A a \in Attempts : pc[a] = "confirm" => a \in receipts
    /\ \A a \in Attempts : Within(a) => EcsOpen(a)

-----------------------------------------------------------------------------
(* The lock and the baselines.                                              *)

(* Nobody has outlived the guard's lock: then it is held wherever it is     *)
(* needed.                                                                  *)
Locked(a) == pc[a] \in {"locked", "checked", "consumed", "read"} \/ Within(a)
LockInv == ~overrun => \A a \in Attempts : Locked(a) => Held(lock, a)

(* Plan, baseline and the rules' record agree with production or with the   *)
(* release committed last.                                                  *)
Baselines ==
    /\ \A a \in Attempts : pc[a] \in {"checked", "consumed"} => live = plan[a]
    /\ \A a \in Attempts : pc[a] = "read" => plan[a] = base[a] /\ live = base[a]
    /\ \A a \in Attempts : Within(a) => plan[a] = base[a]
    /\ \A a \in Attempts : pc[a] = "restore others" => seen[a].base = release
    /\ \A a \in Attempts : pc[a] = "commit" => live = Whole(a)
    /\ eb.stage = "applying" => eb.base = release
BaseInv == ProductionIsRelease /\ (~overrun => Baselines)
-----------------------------------------------------------------------------
(* The variables keep their types.                                          *)
LEMMA TypesInit == Init => TypeOK
<1> SUFFICES ASSUME Init PROVE TypeOK
  OBVIOUS
<1>1. None \in Release /\ Whole(None) \in Production /\ NoLock \in Lock /\ NoRecord \in Record
  BY DEF Release, Whole, Production, NoLock, Lock, NoRecord, Record
<1>2. faults \in 0..MaxFaults
  BY DeployAssumption DEF Init, DeployAssumption
<1>3. "idle" \in Place /\ "none" \in Stages
  BY DEF Place, Stages
<1>4. /\ live \in Production /\ plan \in [Attempts -> Production] /\ base \in [Attempts -> Production]
      /\ seen \in [Attempts -> Record] /\ gate \in Lock /\ lock \in Lock /\ eb \in Record
  BY <1>1 DEF Init
<1>5. /\ pc \in [Attempts -> Place] /\ saga \in [Attempts -> Stages] /\ begun \in [Attempts -> 0..2]
      /\ active \in Release /\ release \in Release
  BY <1>1, <1>3 DEF Init
<1> QED
  BY <1>2, <1>4, <1>5 DEF Init, TypeOK

(* A fault counts up within its bound.                                       *)
LEMMA FaultsKept ==
    ASSUME TypeOK
    PROVE  (Fault => faults' \in 0..MaxFaults) /\ (Healthy => faults' = faults)
<1>1. faults \in Nat /\ MaxFaults \in Nat
  BY DeployAssumption DEF TypeOK, DeployAssumption
<1>2. ASSUME Fault PROVE faults' \in 0..MaxFaults
  BY <1>1, <1>2 DEF Fault
<1> QED
  BY <1>2 DEF Healthy

(* What an attempt may take for its baseline: a release for every part.      *)
LEMMA BaselineTypes ==
    ASSUME TypeOK, NEW a \in Attempts
    PROVE  \A p \in Part : plan[a][p] \in Release /\ base[a][p] \in Release
<1>1. plan[a] \in Production /\ base[a] \in Production
  BY DEF TypeOK
<1> QED
  BY <1>1 DEF Production

(* Every step keeps the types.                                               *)
LEMMA TypesKept == TypeOK /\ [Next]_vars => TypeOK'
<1> SUFFICES ASSUME TypeOK, [Next]_vars PROVE TypeOK'
  OBVIOUS
<1> USE DEF TypeOK, script, ledger, fences, sagas
<1>1. ASSUME NEW a \in Attempts, MakePlan(a) PROVE TypeOK'
  BY <1>1 DEF MakePlan, Go, Place, Ahead, CleanUp
<1>2. ASSUME NEW a \in Attempts, Acquire(a) PROVE TypeOK'
  BY <1>2, FaultsKept DEF Acquire, Lock, Release, Answered, Go, Place, Ahead, CleanUp
<1>3. ASSUME NEW a \in Attempts, Refused(a) PROVE TypeOK'
  BY <1>3 DEF Refused, Go, Place, Ahead, CleanUp
<1>4. ASSUME NEW a \in Attempts, AcquireLocal(a) PROVE TypeOK'
  BY <1>4, FaultsKept DEF AcquireLocal, Lock, Release, Answered, Go, Place, Ahead, CleanUp
<1>5. ASSUME NEW a \in Attempts, VerifyPlan(a) PROVE TypeOK'
  BY <1>5 DEF VerifyPlan, Go, Place, Ahead, CleanUp
<1>6. ASSUME NEW a \in Attempts, Consume(a) PROVE TypeOK'
  BY <1>6, FaultsKept DEF Consume, Answered, Go, Place, Ahead, CleanUp
<1>7. ASSUME NEW a \in Attempts, ReadBaseline(a) PROVE TypeOK'
  BY <1>7 DEF ReadBaseline, Go, Place, Ahead, CleanUp
<1>8. ASSUME NEW a \in Attempts, BeginEcs(a) PROVE TypeOK'
  <2>1. begun' \in [Attempts -> 0..2]
    <3>1. begun' = [begun EXCEPT ![a] = 1] \/ begun' = [begun EXCEPT ![a] = 0]
      BY <1>8 DEF BeginEcs
    <3> QED
      BY <3>1
  <2>2. pc' \in [Attempts -> Place] /\ faults' \in 0..MaxFaults
    BY <1>8, FaultsKept DEF BeginEcs, Answered, Go, Place, Ahead, CleanUp
  <2>3. active' \in Release /\ saga' \in [Attempts -> Stages]
    BY <1>8 DEF BeginEcs, Release, Stages
  <2> QED
    BY <1>8, <2>1, <2>2, <2>3 DEF BeginEcs
<1>9. ASSUME NEW a \in Attempts, ReadRules(a) PROVE TypeOK'
  BY <1>9 DEF ReadRules, Go, Place, Ahead, CleanUp
<1>10. ASSUME NEW a \in Attempts, RestoreOthers(a) PROVE TypeOK'
  BY <1>10 DEF RestoreOthers, Production, Release, Record, Part, Go, Place, Ahead, CleanUp
<1>11. ASSUME NEW a \in Attempts, CloseOthers(a) PROVE TypeOK'
  BY <1>11 DEF CloseOthers, Record, Release, RulesOpen, Go, Place, Ahead, CleanUp
<1>12. ASSUME NEW a \in Attempts, BeginRules(a) PROVE TypeOK'
  <2>1. begun' \in [Attempts -> 0..2]
    <3>1. begun' = [begun EXCEPT ![a] = 2] \/ begun' = [begun EXCEPT ![a] = 1]
      BY <1>12 DEF BeginRules
    <3> QED
      BY <3>1
  <2>2. pc' \in [Attempts -> Place] /\ faults' \in 0..MaxFaults
    BY <1>12, FaultsKept DEF BeginRules, Answered, Go, Place, Ahead, CleanUp
  <2>3. eb' \in Record
    BY <1>12 DEF BeginRules, Record, Release, Production, Part
  <2> QED
    BY <1>12, <2>1, <2>2, <2>3 DEF BeginRules
<1>13. ASSUME NEW a \in Attempts, NEW p \in Part, Terraform(a, p) PROVE TypeOK'
  BY <1>13 DEF Terraform, Production, Release, Go, Place, Ahead, CleanUp
<1>14. ASSUME NEW a \in Attempts, Applied(a) PROVE TypeOK'
  BY <1>14 DEF Applied, Go, Place, Ahead, CleanUp
<1>15. ASSUME NEW a \in Attempts, VerifyRules(a) PROVE TypeOK'
  BY <1>15 DEF VerifyRules, Go, Place, Ahead, CleanUp
<1>16. ASSUME NEW a \in Attempts, VerifyServices(a) PROVE TypeOK'
  BY <1>16 DEF VerifyServices, Go, Place, Ahead, CleanUp
<1>17. ASSUME NEW a \in Attempts, Commit(a) PROVE TypeOK'
  BY <1>17 DEF Commit, NoLock, Lock, Release, Record, Stages, RulesOpen, EcsOpen, Go, Place, Ahead, CleanUp
<1>18. ASSUME NEW a \in Attempts, Confirm(a) PROVE TypeOK'
  BY <1>18 DEF Confirm, Go, Place, Ahead, CleanUp
<1>19. ASSUME NEW a \in Attempts, Dies(a) PROVE TypeOK'
  BY <1>19 DEF Dies, Go, Place, Ahead, CleanUp
<1>20. ASSUME NEW a \in Attempts, Recover(a) PROVE TypeOK'
  BY <1>20 DEF Recover, Go, Place, Ahead, CleanUp
<1>21. ASSUME NEW a \in Attempts, RestoreFunctions(a) PROVE TypeOK'
  BY <1>21, BaselineTypes DEF RestoreFunctions, Production, Release, Part, Go, Place, Ahead, CleanUp
<1>22. ASSUME NEW a \in Attempts, RestoreRules(a) PROVE TypeOK'
  BY <1>22 DEF RestoreRules, Production, Release, Record, Part, Go, Place, Ahead, CleanUp
<1>23. ASSUME NEW a \in Attempts, SkipRules(a) PROVE TypeOK'
  BY <1>23 DEF SkipRules, Go, Place, Ahead, CleanUp
<1>24. ASSUME NEW a \in Attempts, CloseRules(a) PROVE TypeOK'
  BY <1>24 DEF CloseRules, Record, Release, RulesOpen, Go, Place, Ahead, CleanUp
<1>25. ASSUME NEW a \in Attempts, RestoreServices(a) PROVE TypeOK'
  BY <1>25, BaselineTypes DEF RestoreServices, Production, Release, Part, Go, Place, Ahead, CleanUp
<1>26. ASSUME NEW a \in Attempts, CloseServices(a) PROVE TypeOK'
  BY <1>26 DEF CloseServices, Stages, EcsOpen, Go, Place, Ahead, CleanUp
<1>27. ASSUME NEW a \in Attempts, MarkOutcome(a) PROVE TypeOK'
  BY <1>27 DEF MarkOutcome, Go, Place, Ahead, CleanUp
<1>28. ASSUME NEW a \in Attempts, ReleaseGate(a) PROVE TypeOK'
  BY <1>28 DEF ReleaseGate, NoLock, Lock, Release, Go, Place, Ahead, CleanUp
<1>29. ASSUME NEW a \in Attempts, ReleaseLocal(a) PROVE TypeOK'
  BY <1>29 DEF ReleaseLocal, NoLock, Lock, Release, Go, Place, Ahead, CleanUp
<1>30. ASSUME NEW a \in Attempts, CleanUpFails(a) PROVE TypeOK'
  BY <1>30, FaultsKept DEF CleanUpFails, After, Go, Place, Ahead, CleanUp
<1>31. ASSUME NEW a \in Attempts, Crash(a) PROVE TypeOK'
  BY <1>31, FaultsKept DEF Crash, Go, Place, Ahead, CleanUp
<1>32. CASE GateRunsOut
  <2>1. faults' \in 0..MaxFaults
    BY <1>32, FaultsKept DEF GateRunsOut
  <2> QED
    BY <1>32, <2>1 DEF GateRunsOut, Lock
<1>33. CASE LockRunsOut
  <2>1. faults' \in 0..MaxFaults /\ overrun' \in BOOLEAN
    BY <1>33, FaultsKept DEF LockRunsOut
  <2> QED
    BY <1>33, <2>1 DEF LockRunsOut, Lock
<1>34. CASE UNCHANGED vars
  BY <1>34 DEF vars
<1> QED
  BY <1>1, <1>2, <1>3, <1>4, <1>5, <1>6, <1>7, <1>8, <1>9, <1>10, <1>11, <1>12, <1>13, <1>14, <1>15,
      <1>16, <1>17, <1>18, <1>19, <1>20, <1>21, <1>22, <1>23, <1>24, <1>25, <1>26, <1>27, <1>28, <1>29,
      <1>30, <1>31, <1>32, <1>33, <1>34 DEF Next, Work

-----------------------------------------------------------------------------
(* One hand: the open record of an attempt keeps the others from beginning. *)
LEMMA SagaInit == Init => SagaInv
BY DEF Init, SagaInv, Within, Early, Span, EcsOpen

(* An attempt that goes elsewhere takes its record with it, if it is within  *)
(* its saga there.                                                           *)
LEMMA SagaMoves ==
    ASSUME TypeOK, SagaInv, NEW a \in Attempts, NEW to, Go(a, to),
           UNCHANGED <<saga, active, receipts>>,
           \A b \in Attempts : ~(b = a) => begun'[b] = begun[b],
           to \in Early => begun'[a] = 0 /\ saga[a] = "none",
           to = "confirm" => a \in receipts,
           to \in Span \/ (to = "recover" /\ begun'[a] # 0 /\ a \notin receipts) => EcsOpen(a)
    PROVE  SagaInv'
<1>1. \A b \in Attempts : pc'[b] = IF b = a THEN to ELSE pc[b]
  BY DEF Go, TypeOK
<1>2. \A b \in Attempts : pc'[b] \in Early => begun'[b] = 0 /\ saga[b] = "none"
  BY <1>1 DEF SagaInv
<1>3. \A b \in Attempts : pc'[b] = "confirm" => b \in receipts
  BY <1>1 DEF SagaInv
<1>4. \A b \in Attempts : Within(b)' => EcsOpen(b)
  BY <1>1 DEF SagaInv, Within
<1> QED
  BY <1>2, <1>3, <1>4 DEF SagaInv, EcsOpen

(* Every step keeps the open record and its pointer with the attempt that is *)
(* within its saga, whoever takes it.                                        *)
LEMMA SagaKept == TypeOK /\ SagaInv /\ [Next]_vars => SagaInv'
<1> SUFFICES ASSUME TypeOK, SagaInv, [Next]_vars PROVE SagaInv'
  OBVIOUS
<1>0. pc \in [Attempts -> Place] /\ saga \in [Attempts -> Stages] /\ begun \in [Attempts -> 0..2]
  BY DEF TypeOK
<1> USE <1>0 DEF SagaInv, Within, Early, Span, EcsOpen, Go, script, ledger, fences, sagas
<1>1. ASSUME NEW a \in Attempts, MakePlan(a) PROVE SagaInv'
  BY <1>1 DEF MakePlan
<1>2. ASSUME NEW a \in Attempts, Acquire(a) PROVE SagaInv'
  <2>1. PICK to \in {"gated", "ended"} : Go(a, to)
    BY <1>2 DEF Acquire, Answered
  <2>2. pc[a] = "planned" /\ UNCHANGED <<saga, active, receipts, begun>>
    BY <1>2 DEF Acquire
  <2>3. begun[a] = 0 /\ saga[a] = "none"
    BY <2>2
  <2> QED
    BY <2>1, <2>2, <2>3, SagaMoves
<1>3. ASSUME NEW a \in Attempts, Refused(a) PROVE SagaInv'
  BY <1>3 DEF Refused
<1>4. ASSUME NEW a \in Attempts, AcquireLocal(a) PROVE SagaInv'
  <2>1. pc' = [pc EXCEPT ![a] = "locked"] \/ pc' = [pc EXCEPT ![a] = "recover"]
    BY <1>4 DEF AcquireLocal, Answered
  <2>2. begun[a] = 0 /\ saga[a] = "none"
    BY <1>4 DEF AcquireLocal
  <2>3. UNCHANGED <<begun, saga, active, receipts>>
    BY <1>4 DEF AcquireLocal
  <2>4. CASE pc' = [pc EXCEPT ![a] = "locked"]
    BY <2>2, <2>3, <2>4
  <2>5. CASE pc' = [pc EXCEPT ![a] = "recover"]
    BY <2>2, <2>3, <2>5
  <2> QED
    BY <2>1, <2>4, <2>5
<1>5. ASSUME NEW a \in Attempts, VerifyPlan(a) PROVE SagaInv'
  BY <1>5 DEF VerifyPlan
<1>6. ASSUME NEW a \in Attempts, Consume(a) PROVE SagaInv'
  <2>1. pc' = [pc EXCEPT ![a] = "consumed"] \/ pc' = [pc EXCEPT ![a] = "recover"]
    BY <1>6 DEF Consume, Answered
  <2>2. begun[a] = 0 /\ saga[a] = "none"
    BY <1>6 DEF Consume
  <2>3. UNCHANGED <<begun, saga, active, receipts>>
    BY <1>6 DEF Consume
  <2>4. CASE pc' = [pc EXCEPT ![a] = "consumed"]
    BY <2>2, <2>3, <2>4
  <2>5. CASE pc' = [pc EXCEPT ![a] = "recover"]
    BY <2>2, <2>3, <2>5
  <2> QED
    BY <2>1, <2>4, <2>5
<1>7. ASSUME NEW a \in Attempts, ReadBaseline(a) PROVE SagaInv'
  BY <1>7 DEF ReadBaseline
<1>8. ASSUME NEW a \in Attempts, BeginEcs(a) PROVE SagaInv'
  <2>1. \A b \in Attempts : ~Within(b)
    BY <1>8, DeployAssumption DEF BeginEcs, DeployAssumption
  <2>2. saga' = [saga EXCEPT ![a] = "APPLYING"] /\ active' = a /\ receipts' = receipts
    BY <1>8 DEF BeginEcs
  <2>3. CASE pc' = [pc EXCEPT ![a] = "begun"]
    <3>1. begun' = [begun EXCEPT ![a] = 1]
      BY <1>8, <2>3 DEF BeginEcs
    <3> QED
      BY <2>1, <2>2, <2>3, <3>1
  <2>4. CASE pc' = [pc EXCEPT ![a] = "recover"]
    <3>1. begun' = [begun EXCEPT ![a] = 0]
      BY <1>8, <2>4 DEF BeginEcs
    <3> QED
      BY <2>1, <2>2, <2>4, <3>1
  <2> QED
    BY <1>8, <2>3, <2>4 DEF BeginEcs, Answered
<1>9. ASSUME NEW a \in Attempts, ReadRules(a) PROVE SagaInv'
  BY <1>9 DEF ReadRules
<1>10. ASSUME NEW a \in Attempts, RestoreOthers(a) PROVE SagaInv'
  BY <1>10 DEF RestoreOthers
<1>11. ASSUME NEW a \in Attempts, CloseOthers(a) PROVE SagaInv'
  BY <1>11 DEF CloseOthers
<1>12. ASSUME NEW a \in Attempts, BeginRules(a) PROVE SagaInv'
  <2>1. PICK to \in {"apply", "recover"} : Go(a, to)
    BY <1>12 DEF BeginRules, Answered
  <2>2. pc[a] = "put" /\ UNCHANGED <<saga, active, receipts>>
    BY <1>12 DEF BeginRules
  <2>3. \A b \in Attempts : ~(b = a) => begun'[b] = begun[b]
    BY <1>12 DEF BeginRules
  <2>4. EcsOpen(a)
    BY <2>2
  <2> QED
    BY <2>1, <2>2, <2>3, <2>4, SagaMoves
<1>13. ASSUME NEW a \in Attempts, NEW p \in Part, Terraform(a, p) PROVE SagaInv'
  BY <1>13 DEF Terraform
<1>14. ASSUME NEW a \in Attempts, Applied(a) PROVE SagaInv'
  BY <1>14 DEF Applied
<1>15. ASSUME NEW a \in Attempts, VerifyRules(a) PROVE SagaInv'
  BY <1>15 DEF VerifyRules
<1>16. ASSUME NEW a \in Attempts, VerifyServices(a) PROVE SagaInv'
  BY <1>16 DEF VerifyServices
<1>17. ASSUME NEW a \in Attempts, Commit(a) PROVE SagaInv'
  BY <1>17 DEF Commit
<1>18. ASSUME NEW a \in Attempts, Confirm(a) PROVE SagaInv'
  BY <1>18 DEF Confirm
<1>19. ASSUME NEW a \in Attempts, Dies(a) PROVE SagaInv'
  <2>1. pc[a] \in Early \/ pc[a] = "confirm" \/ pc[a] \in Span
    BY <1>19 DEF Dies, Ahead
  <2>2. pc' = [pc EXCEPT ![a] = "recover"] /\ UNCHANGED <<begun, saga, active, receipts>>
    BY <1>19 DEF Dies
  <2>3. Within(a)' => EcsOpen(a)
    BY <2>1, <2>2
  <2> QED
    BY <2>2, <2>3
<1>20. ASSUME NEW a \in Attempts, Recover(a) PROVE SagaInv'
  <2>1. UNCHANGED <<begun, saga, active, receipts>>
    BY <1>20 DEF Recover
  <2>2. CASE pc' = [pc EXCEPT ![a] = "functions"]
    <3>1. ~(begun[a] = 0) /\ a \notin receipts /\ pc[a] = "recover"
      BY <1>20, <2>2 DEF Recover
    <3>2. EcsOpen(a)
      BY <3>1
    <3> QED
      BY <2>1, <2>2, <3>2
  <2>3. CASE pc' = [pc EXCEPT ![a] = "mark"] \/ pc' = [pc EXCEPT ![a] = "unlock"]
    BY <2>1, <2>3
  <2> QED
    BY <1>20, <2>2, <2>3 DEF Recover
<1>21. ASSUME NEW a \in Attempts, RestoreFunctions(a) PROVE SagaInv'
  BY <1>21 DEF RestoreFunctions
<1>22. ASSUME NEW a \in Attempts, RestoreRules(a) PROVE SagaInv'
  BY <1>22 DEF RestoreRules
<1>23. ASSUME NEW a \in Attempts, SkipRules(a) PROVE SagaInv'
  BY <1>23 DEF SkipRules
<1>24. ASSUME NEW a \in Attempts, CloseRules(a) PROVE SagaInv'
  BY <1>24 DEF CloseRules
<1>25. ASSUME NEW a \in Attempts, RestoreServices(a) PROVE SagaInv'
  BY <1>25 DEF RestoreServices
<1>26. ASSUME NEW a \in Attempts, CloseServices(a) PROVE SagaInv'
  BY <1>26 DEF CloseServices
<1>27. ASSUME NEW a \in Attempts, MarkOutcome(a) PROVE SagaInv'
  BY <1>27 DEF MarkOutcome
<1>28. ASSUME NEW a \in Attempts, ReleaseGate(a) PROVE SagaInv'
  BY <1>28 DEF ReleaseGate
<1>29. ASSUME NEW a \in Attempts, ReleaseLocal(a) PROVE SagaInv'
  BY <1>29 DEF ReleaseLocal
<1>30. ASSUME NEW a \in Attempts, CleanUpFails(a) PROVE SagaInv'
  BY <1>30 DEF CleanUpFails, After
<1>31. ASSUME NEW a \in Attempts, Crash(a) PROVE SagaInv'
  BY <1>31 DEF Crash, Ahead, CleanUp
<1>32. CASE GateRunsOut
  BY <1>32 DEF GateRunsOut
<1>33. CASE LockRunsOut
  BY <1>33 DEF LockRunsOut
<1>34. CASE UNCHANGED vars
  BY <1>34 DEF vars
<1> QED
  BY <1>1, <1>2, <1>3, <1>4, <1>5, <1>6, <1>7, <1>8, <1>9, <1>10, <1>11, <1>12, <1>13, <1>14, <1>15,
      <1>16, <1>17, <1>18, <1>19, <1>20, <1>21, <1>22, <1>23, <1>24, <1>25, <1>26, <1>27, <1>28, <1>29,
      <1>30, <1>31, <1>32, <1>33, <1>34 DEF Next, Work

(* The pointer names one attempt, so two are never within their sagas.       *)
LEMMA OneWithin ==
    ASSUME SagaInv, NEW a \in Attempts, NEW b \in Attempts, Within(a), Within(b)
    PROVE  a = b
BY DEF SagaInv, EcsOpen

(* Whatever locks run out and whoever dies, two attempts never change       *)
(* production at the same time.                                             *)
THEOREM OneHandAtATime == Spec => []OneHand
<1>1. Init => TypeOK /\ SagaInv
  BY TypesInit, SagaInit
<1>2. TypeOK /\ SagaInv /\ [Next]_vars => (TypeOK /\ SagaInv)'
  BY TypesKept, SagaKept
<1>3. SagaInv => OneHand
  BY OneWithin DEF OneHand, AtHand, Within, Span
<1> QED
  BY <1>1, <1>2, <1>3, PTL DEF Spec

-----------------------------------------------------------------------------
(* The guard's lock.                                                        *)
LEMMA LockInit == Init => LockInv
BY DEF Init, LockInv, Locked, Within, Span

(* An attempt that goes elsewhere, to where it needs the lock only if it did *)
(* so before.                                                                *)
LEMMA LockStays ==
    ASSUME TypeOK, LockInv, NEW a \in Attempts, NEW to, Go(a, to),
           UNCHANGED <<lock, overrun>>, receipts \subseteq receipts',
           \A b \in Attempts : ~(b = a) => begun'[b] = begun[b],
           Locked(a)' => Locked(a)
    PROVE  LockInv'
<1>1. \A b \in Attempts : ~(b = a) => pc'[b] = pc[b]
  BY DEF Go, TypeOK
<1>2. \A b \in Attempts : Locked(b)' => Locked(b)
  BY <1>1 DEF Locked, Within
<1> QED
  BY <1>2 DEF LockInv, Held

(* Every step keeps the lock with the attempt within its lock, or counts it  *)
(* among those that overran.                                                 *)
LEMMA LockKept == TypeOK /\ SagaInv /\ LockInv /\ [Next]_vars => LockInv'
<1> SUFFICES ASSUME TypeOK, SagaInv, LockInv, [Next]_vars PROVE LockInv'
  OBVIOUS
<1>0. pc \in [Attempts -> Place] /\ saga \in [Attempts -> Stages] /\ begun \in [Attempts -> 0..2]
  BY DEF TypeOK
<1> USE <1>0 DEF LockInv, Locked, SagaInv, Within, Early, Span, Held, Go, script, ledger, fences, sagas
<1>1. ASSUME NEW a \in Attempts, MakePlan(a) PROVE LockInv'
  BY <1>1 DEF MakePlan
<1>2. ASSUME NEW a \in Attempts, Acquire(a) PROVE LockInv'
  <2>1. PICK to \in {"gated", "ended"} : Go(a, to)
    BY <1>2 DEF Acquire, Answered
  <2>2. pc[a] = "planned" /\ UNCHANGED <<lock, overrun, receipts>>
    BY <1>2 DEF Acquire
  <2>3. \A b \in Attempts : ~(b = a) => begun'[b] = begun[b]
    BY <1>2 DEF Acquire
  <2>4. Locked(a)' => Locked(a)
    BY <1>2, <2>1, <2>2 DEF Acquire
  <2> QED
    BY <2>1, <2>2, <2>3, <2>4, LockStays
<1>3. ASSUME NEW a \in Attempts, Refused(a) PROVE LockInv'
  BY <1>3 DEF Refused
<1>4. ASSUME NEW a \in Attempts, AcquireLocal(a) PROVE LockInv'
  <2>1. \A b \in Attempts : Locked(b) => overrun
    BY <1>4, DeployAssumption DEF AcquireLocal, Free, DeployAssumption
  <2>2. ASSUME NEW b \in Attempts, ~(b = a) PROVE Locked(b)' => Locked(b)
    <3>1. pc'[b] = pc[b]
      BY <1>0, <1>4, <2>2 DEF AcquireLocal, Answered
    <3> QED
      BY <1>4, <3>1 DEF AcquireLocal
  <2>3. Held(lock, a)' /\ overrun' = overrun
    BY <1>4 DEF AcquireLocal
  <2> QED
    BY <2>1, <2>2, <2>3
<1>5. ASSUME NEW a \in Attempts, VerifyPlan(a) PROVE LockInv'
  BY <1>5 DEF VerifyPlan
<1>6. ASSUME NEW a \in Attempts, Consume(a) PROVE LockInv'
  <2>1. PICK to \in {"consumed", "recover"} : Go(a, to)
    BY <1>6 DEF Consume, Answered
  <2>2. pc[a] = "checked" /\ UNCHANGED <<lock, overrun, receipts>>
    BY <1>6 DEF Consume
  <2>3. \A b \in Attempts : ~(b = a) => begun'[b] = begun[b]
    BY <1>6 DEF Consume
  <2>4. Locked(a)' => Locked(a)
    BY <1>6, <2>1, <2>2 DEF Consume
  <2> QED
    BY <2>1, <2>2, <2>3, <2>4, LockStays
<1>7. ASSUME NEW a \in Attempts, ReadBaseline(a) PROVE LockInv'
  BY <1>7 DEF ReadBaseline
<1>8. ASSUME NEW a \in Attempts, BeginEcs(a) PROVE LockInv'
  <2>1. PICK to \in {"begun", "recover"} : Go(a, to)
    BY <1>8 DEF BeginEcs, Answered
  <2>2. pc[a] = "read" /\ UNCHANGED <<lock, overrun, receipts>>
    BY <1>8 DEF BeginEcs
  <2>3. \A b \in Attempts : ~(b = a) => begun'[b] = begun[b]
    BY <1>8 DEF BeginEcs
  <2>4. Locked(a)' => Locked(a)
    BY <1>8, <2>1, <2>2 DEF BeginEcs
  <2> QED
    BY <2>1, <2>2, <2>3, <2>4, LockStays
<1>9. ASSUME NEW a \in Attempts, ReadRules(a) PROVE LockInv'
  BY <1>9 DEF ReadRules
<1>10. ASSUME NEW a \in Attempts, RestoreOthers(a) PROVE LockInv'
  BY <1>10 DEF RestoreOthers
<1>11. ASSUME NEW a \in Attempts, CloseOthers(a) PROVE LockInv'
  BY <1>11 DEF CloseOthers
<1>12. ASSUME NEW a \in Attempts, BeginRules(a) PROVE LockInv'
  <2>1. PICK to \in {"apply", "recover"} : Go(a, to)
    BY <1>12 DEF BeginRules, Answered
  <2>2. pc[a] = "put" /\ UNCHANGED <<lock, overrun, receipts>>
    BY <1>12 DEF BeginRules
  <2>3. \A b \in Attempts : ~(b = a) => begun'[b] = begun[b]
    BY <1>12 DEF BeginRules
  <2>4. Locked(a)' => Locked(a)
    BY <1>12, <2>1, <2>2 DEF BeginRules
  <2> QED
    BY <2>1, <2>2, <2>3, <2>4, LockStays
<1>13. ASSUME NEW a \in Attempts, NEW p \in Part, Terraform(a, p) PROVE LockInv'
  BY <1>13 DEF Terraform
<1>14. ASSUME NEW a \in Attempts, Applied(a) PROVE LockInv'
  BY <1>14 DEF Applied
<1>15. ASSUME NEW a \in Attempts, VerifyRules(a) PROVE LockInv'
  BY <1>15 DEF VerifyRules
<1>16. ASSUME NEW a \in Attempts, VerifyServices(a) PROVE LockInv'
  BY <1>16 DEF VerifyServices
<1>17. ASSUME NEW a \in Attempts, Commit(a) PROVE LockInv'
  <2>1. Go(a, "confirm") /\ pc[a] = "commit" /\ receipts' = receipts \cup {a}
    BY <1>17 DEF Commit
  <2>2. UNCHANGED <<lock, overrun, begun>>
    BY <1>17 DEF Commit
  <2>3. Locked(a)
    BY <2>1
  <2> QED
    BY <2>1, <2>2, <2>3, LockStays
<1>18. ASSUME NEW a \in Attempts, Confirm(a) PROVE LockInv'
  BY <1>18 DEF Confirm
<1>19. ASSUME NEW a \in Attempts, Dies(a) PROVE LockInv'
  <2>1. Go(a, "recover") /\ UNCHANGED <<lock, overrun, receipts, begun>>
    BY <1>19 DEF Dies
  <2>2. pc[a] \in Early \/ pc[a] = "confirm" \/ pc[a] \in Span
    BY <1>19 DEF Dies, Ahead
  <2>3. Locked(a)' => Locked(a)
    BY <2>1, <2>2
  <2> QED
    BY <2>1, <2>3, LockStays
<1>20. ASSUME NEW a \in Attempts, Recover(a) PROVE LockInv'
  BY <1>20 DEF Recover
<1>21. ASSUME NEW a \in Attempts, RestoreFunctions(a) PROVE LockInv'
  BY <1>21 DEF RestoreFunctions
<1>22. ASSUME NEW a \in Attempts, RestoreRules(a) PROVE LockInv'
  BY <1>22 DEF RestoreRules
<1>23. ASSUME NEW a \in Attempts, SkipRules(a) PROVE LockInv'
  BY <1>23 DEF SkipRules
<1>24. ASSUME NEW a \in Attempts, CloseRules(a) PROVE LockInv'
  BY <1>24 DEF CloseRules
<1>25. ASSUME NEW a \in Attempts, RestoreServices(a) PROVE LockInv'
  BY <1>25 DEF RestoreServices
<1>26. ASSUME NEW a \in Attempts, CloseServices(a) PROVE LockInv'
  BY <1>26 DEF CloseServices
<1>27. ASSUME NEW a \in Attempts, MarkOutcome(a) PROVE LockInv'
  BY <1>27 DEF MarkOutcome
<1>28. ASSUME NEW a \in Attempts, ReleaseGate(a) PROVE LockInv'
  BY <1>28 DEF ReleaseGate
<1>29. ASSUME NEW a \in Attempts, ReleaseLocal(a) PROVE LockInv'
  BY <1>29 DEF ReleaseLocal
<1>30. ASSUME NEW a \in Attempts, CleanUpFails(a) PROVE LockInv'
  <2>1. PICK to : Go(a, to) /\ <<pc[a], to>> \in After
    BY <1>30 DEF CleanUpFails
  <2>2. UNCHANGED <<lock, overrun, receipts, begun>>
    BY <1>30 DEF CleanUpFails
  <2>3. Locked(a)' => Locked(a)
    BY <2>1, <2>2 DEF After
  <2> QED
    BY <2>1, <2>2, <2>3, LockStays
<1>31. ASSUME NEW a \in Attempts, Crash(a) PROVE LockInv'
  BY <1>31 DEF Crash, Ahead, CleanUp
<1>32. CASE GateRunsOut
  BY <1>32 DEF GateRunsOut
<1>33. CASE LockRunsOut
  BY <1>33 DEF LockRunsOut
<1>34. CASE UNCHANGED vars
  BY <1>34 DEF vars
<1> QED
  BY <1>1, <1>2, <1>3, <1>4, <1>5, <1>6, <1>7, <1>8, <1>9, <1>10, <1>11, <1>12, <1>13, <1>14, <1>15,
      <1>16, <1>17, <1>18, <1>19, <1>20, <1>21, <1>22, <1>23, <1>24, <1>25, <1>26, <1>27, <1>28, <1>29,
      <1>30, <1>31, <1>32, <1>33, <1>34 DEF Next, Work

-----------------------------------------------------------------------------
(* The baselines.                                                           *)
(* The lock names one holder.                                                *)
LEMMA OneLocked ==
    ASSUME LockInv, ~overrun, NEW a \in Attempts, NEW b \in Attempts, Locked(a), Locked(b)
    PROVE  a = b
BY DEF LockInv, Held

(* At first no saga is open and production is the first release.             *)
LEMMA BaseInit == Init => BaseInv
BY DEF Init, BaseInv, Baselines, ProductionIsRelease, Within, Span, NoRecord

(* The rules alone, or everything but the rules, are parts of production.    *)
LEMMA WholeRules ==
    ASSUME NEW r
    PROVE  Whole(r).rules = r
BY DEF Whole, Part

(* Within its saga an attempt may change production as it likes: all that   *)
(* is said of production meanwhile is said of the baseline.                 *)
LEMMA LiveChanges ==
    ASSUME TypeOK, SagaInv, LockInv, BaseInv,
           NEW a \in Attempts, pc[a] \in Span, NEW to \in Span, Go(a, to),
           to \notin {"restore others", "commit"},
           UNCHANGED <<plan, base, seen, begun, receipts, active, saga, eb, release, overrun>>
    PROVE  BaseInv'
<1>1. pc' = [pc EXCEPT ![a] = to] /\ pc \in [Attempts -> Place]
  BY DEF Go, TypeOK
<1>2. active = a /\ saga[a] = "APPLYING" /\ active # None
  BY DeployAssumption DEF SagaInv, Within, EcsOpen, DeployAssumption
<1>3. ProductionIsRelease'
  BY <1>2 DEF BaseInv, ProductionIsRelease
<1>4. ASSUME ~overrun PROVE Baselines'
  <2>1. ASSUME NEW b \in Attempts, ~(b = a) PROVE ~Locked(b) /\ pc'[b] = pc[b]
    BY <1>1, <1>4, <2>1, OneLocked DEF Locked, Within
  <2>2. pc'[a] = to
    BY <1>1
  <2>3. \A b \in Attempts : pc'[b] \notin {"checked", "consumed", "read", "restore others", "commit"}
    BY <2>1, <2>2 DEF Locked, Within, Span
  <2>4. plan[a] = base[a]
    BY <1>4 DEF BaseInv, Baselines, Within
  <2>5. \A b \in Attempts : Within(b)' => plan[b] = base[b]
    BY <2>1, <2>4 DEF Within, Locked
  <2>6. eb.stage = "applying" => eb.base = release
    BY <1>4 DEF BaseInv, Baselines
  <2> QED
    BY <2>3, <2>5, <2>6 DEF Baselines
<1> QED
  BY <1>3, <1>4 DEF BaseInv

(* What is said of the baselines after a step that leaves production as it   *)
(* is depends on the attempt that takes it.                                  *)
LEMMA BaselinesStay ==
    ASSUME Baselines, NEW a \in Attempts, UNCHANGED <<live, release>>,
           \A b \in Attempts : ~(b = a) =>
               /\ pc'[b] = pc[b] /\ plan'[b] = plan[b] /\ base'[b] = base[b] /\ seen'[b] = seen[b]
               /\ Within(b)' => Within(b),
           eb'.stage = "applying" => eb'.base = release,
           pc'[a] \in {"checked", "consumed"} => live = plan'[a],
           pc'[a] = "read" => plan'[a] = base'[a] /\ live = base'[a],
           Within(a)' => plan'[a] = base'[a],
           pc'[a] = "restore others" => seen'[a].base = release,
           pc'[a] = "commit" => live = Whole(a)
    PROVE  Baselines'
<1>1. \A b \in Attempts : pc'[b] \in {"checked", "consumed"} => live = plan'[b]
  BY DEF Baselines
<1>2. \A b \in Attempts : pc'[b] = "read" => plan'[b] = base'[b] /\ live = base'[b]
  BY DEF Baselines
<1>3. \A b \in Attempts : Within(b)' => plan'[b] = base'[b]
  BY DEF Baselines
<1>4. \A b \in Attempts : pc'[b] = "restore others" => seen'[b].base = release
  BY DEF Baselines
<1>5. \A b \in Attempts : pc'[b] = "commit" => live = Whole(b)
  BY DEF Baselines
<1> QED
  BY <1>1, <1>2, <1>3, <1>4, <1>5 DEF Baselines

(* An attempt that only goes elsewhere, and not to where more is said of it, *)
(* changes nothing of the baselines.                                         *)
LEMMA OnlyMoves ==
    ASSUME TypeOK, BaseInv, NEW a \in Attempts, NEW to, Go(a, to),
           to \notin {"read", "restore others", "commit"},
           to \in {"checked", "consumed"} => pc[a] \in {"checked", "consumed"},
           Within(a)' => Within(a),
           \A b \in Attempts : ~(b = a) => begun'[b] = begun[b],
           UNCHANGED <<plan, base, seen, receipts, active, saga, eb, live, release, overrun>>
    PROVE  BaseInv'
<1>1. \A b \in Attempts : pc'[b] = IF b = a THEN to ELSE pc[b]
  BY DEF Go, TypeOK
<1>2. ProductionIsRelease'
  BY DEF BaseInv, ProductionIsRelease
<1>3. ASSUME ~overrun PROVE Baselines'
  <2>1. \A b \in Attempts : ~(b = a) => (Within(b)' => Within(b))
    BY <1>1 DEF Within
  <2>2. Baselines
    BY <1>3 DEF BaseInv
  <2>3. eb'.stage = "applying" => eb'.base = release
    BY <2>2 DEF Baselines
  <2>4. Within(a)' => plan[a] = base[a]
    BY <2>2 DEF Baselines
  <2>5. pc'[a] \in {"checked", "consumed"} => live = plan[a]
    BY <1>1, <2>2 DEF Baselines
  <2> QED
    BY <1>1, <2>1, <2>2, <2>3, <2>4, <2>5, BaselinesStay
<1> QED
  BY <1>2, <1>3 DEF BaseInv

(* Every step keeps the baselines of the attempts and of production.         *)
LEMMA BaseKept == TypeOK /\ SagaInv /\ LockInv /\ BaseInv /\ [Next]_vars => BaseInv'
<1> SUFFICES ASSUME TypeOK, SagaInv, LockInv, BaseInv, [Next]_vars PROVE BaseInv'
  OBVIOUS
<1>0. pc \in [Attempts -> Place] /\ saga \in [Attempts -> Stages] /\ begun \in [Attempts -> 0..2]
  BY DEF TypeOK
<1> USE <1>0 DEF BaseInv, Baselines, ProductionIsRelease, SagaInv, Within, Early, Span, EcsOpen,
                 Go, script, ledger, fences, sagas
<1>1. ASSUME NEW a \in Attempts, MakePlan(a) PROVE BaseInv'
  <2>1. pc[a] = "idle" /\ pc'[a] = "planned"
    BY <1>1 DEF MakePlan
  <2>2. \A b \in Attempts : ~(b = a) => plan'[b] = plan[b] /\ pc'[b] = pc[b]
    BY <1>1 DEF MakePlan, TypeOK
  <2>3. UNCHANGED <<base, live, release, active, saga, overrun, begun, receipts, eb, seen>>
    BY <1>1 DEF MakePlan
  <2>4. ProductionIsRelease'
    BY <2>3
  <2>5. ASSUME ~overrun PROVE Baselines'
    <3>1. \A b \in Attempts : Within(b)' => Within(b) /\ ~(b = a)
      BY <2>1, <2>2, <2>3
    <3>2. eb'.stage = "applying" => eb'.base = release
      BY <2>3, <2>5
    <3>3. ~Within(a)' /\ Baselines
      BY <2>5, <3>1
    <3> HIDE DEF Baselines, BaseInv, SagaInv, Within, EcsOpen
    <3> QED
      BY <2>1, <2>2, <2>3, <3>1, <3>2, <3>3, BaselinesStay
  <2> QED
    BY <2>3, <2>4, <2>5
<1>2. ASSUME NEW a \in Attempts, Acquire(a) PROVE BaseInv'
  <2>1. PICK to \in {"gated", "ended"} : Go(a, to)
    BY <1>2 DEF Acquire, Answered
  <2>2. UNCHANGED <<plan, base, seen, begun, receipts, active, saga, eb, live, release, overrun>>
    BY <1>2 DEF Acquire
  <2>3. pc[a] = "planned" /\ begun[a] = 0
    BY <1>2 DEF Acquire
  <2>4. ~Within(a)'
    BY <2>1, <2>2, <2>3
  <2> QED
    BY <2>1, <2>2, <2>3, <2>4, OnlyMoves
<1>3. ASSUME NEW a \in Attempts, Refused(a) PROVE BaseInv'
  BY <1>3 DEF Refused
<1>4. ASSUME NEW a \in Attempts, AcquireLocal(a) PROVE BaseInv'
  <2>1. PICK to \in {"locked", "recover"} : Go(a, to)
    BY <1>4 DEF AcquireLocal, Answered
  <2>2. UNCHANGED <<plan, base, seen, begun, receipts, active, saga, eb, live, release, overrun>>
    BY <1>4 DEF AcquireLocal
  <2>3. pc[a] = "gated" /\ begun[a] = 0
    BY <1>4 DEF AcquireLocal
  <2>4. ~Within(a)'
    BY <2>1, <2>2, <2>3
  <2> QED
    BY <2>1, <2>2, <2>3, <2>4, OnlyMoves
<1>5. ASSUME NEW a \in Attempts, VerifyPlan(a) PROVE BaseInv'
  BY <1>5 DEF VerifyPlan
<1>6. ASSUME NEW a \in Attempts, Consume(a) PROVE BaseInv'
  <2>1. PICK to \in {"consumed", "recover"} : Go(a, to)
    BY <1>6 DEF Consume, Answered
  <2>2. UNCHANGED <<plan, base, seen, begun, receipts, active, saga, eb, live, release, overrun>>
    BY <1>6 DEF Consume
  <2>3. pc[a] = "checked" /\ begun[a] = 0
    BY <1>6 DEF Consume
  <2>4. ~Within(a)'
    BY <2>1, <2>2, <2>3
  <2> QED
    BY <2>1, <2>2, <2>3, <2>4, OnlyMoves
<1>7. ASSUME NEW a \in Attempts, ReadBaseline(a) PROVE BaseInv'
  <2>1. pc[a] = "consumed" /\ pc'[a] = "read" /\ base'[a] = live /\ saga[a] = "none"
    BY <1>7 DEF ReadBaseline, TypeOK
  <2>2. \A b \in Attempts : ~(b = a) => base'[b] = base[b] /\ pc'[b] = pc[b]
    BY <1>7 DEF ReadBaseline, TypeOK
  <2>3. active \in Attempts \cup {None}
    BY DEF TypeOK, Release
  <2>4. UNCHANGED <<plan, live, release, active, saga, overrun, begun, receipts, eb, seen>>
    BY <1>7 DEF ReadBaseline
  <2>5. ProductionIsRelease'
    <3>1. CASE active = a
      BY <2>1, <2>4, <3>1
    <3>2. CASE ~(active = a)
      BY <2>2, <2>3, <2>4, <3>2
    <3> QED
      BY <3>1, <3>2
  <2>6. ASSUME ~overrun PROVE Baselines'
    <3>1. \A b \in Attempts : Within(b)' => Within(b) /\ ~(b = a)
      BY <2>1, <2>2, <2>4
    <3>2. plan[a] = base'[a] /\ live = base'[a]
      BY <2>1, <2>6
    <3>3. eb'.stage = "applying" => eb'.base = release
      BY <2>4, <2>6
    <3>4. ~Within(a)' /\ Baselines
      BY <2>6, <3>1
    <3> HIDE DEF Baselines, BaseInv, SagaInv, Within, EcsOpen
    <3> QED
      BY <2>1, <2>2, <2>4, <3>1, <3>2, <3>3, <3>4, BaselinesStay
  <2> QED
    BY <2>4, <2>5, <2>6
<1>8. ASSUME NEW a \in Attempts, BeginEcs(a) PROVE BaseInv'
  <2>1. pc[a] = "read" /\ pc'[a] \in {"begun", "recover"}
    BY <1>8 DEF BeginEcs, Answered
  <2>2. \A b \in Attempts : ~(b = a) => begun'[b] = begun[b] /\ pc'[b] = pc[b]
    BY <1>8 DEF BeginEcs, Answered
  <2>3. UNCHANGED <<plan, base, seen, receipts, eb, live, release, overrun>> /\ active' = a
    BY <1>8 DEF BeginEcs
  <2>4. active = None \/ saga[active] # "APPLYING"
    BY <1>8 DEF BeginEcs
  <2>5. ASSUME ~overrun PROVE base[a] = Whole(release) /\ plan[a] = base[a]
    BY <2>1, <2>4, <2>5
  <2>6. saga'[a] = "APPLYING" /\ ~(a = None)
    BY <1>8, DeployAssumption DEF BeginEcs, DeployAssumption
  <2>7. ProductionIsRelease'
    BY <2>3, <2>5, <2>6
  <2>8. ASSUME ~overrun PROVE Baselines'
    <3>1. Baselines /\ (eb.stage = "applying" => eb.base = release)
      BY <2>8
    <3>2. \A b \in Attempts : ~(b = a) => (Within(b)' => Within(b))
      BY <2>2, <2>3
    <3> HIDE DEF Baselines, BaseInv, SagaInv, Within, EcsOpen
    <3> QED
      BY <2>1, <2>2, <2>3, <2>5, <2>8, <3>1, <3>2, BaselinesStay
  <2> QED
    BY <2>3, <2>7, <2>8
<1>9. ASSUME NEW a \in Attempts, ReadRules(a) PROVE BaseInv'
  <2>1. seen'[a] = eb /\ (pc'[a] = "restore others" => eb.stage = "applying")
    BY <1>9 DEF ReadRules, TypeOK
  <2>2. \A b \in Attempts : ~(b = a) => seen'[b] = seen[b] /\ pc'[b] = pc[b]
    BY <1>9 DEF ReadRules, TypeOK
  <2>3. pc[a] = "begun" /\ pc'[a] \in {"restore others", "put"}
    BY <1>9 DEF ReadRules
  <2>4. UNCHANGED <<plan, base, live, release, active, saga, overrun, begun, receipts, eb>>
    BY <1>9 DEF ReadRules
  <2>5. ASSUME ~overrun PROVE Baselines'
    <3>1. \A b \in Attempts : pc'[b] = "restore others" => seen'[b].base = release
      <4>1. eb.stage = "applying" => eb.base = release
        BY <2>5
      <4>2. pc'[a] = "restore others" => seen'[a].base = release
        BY <2>1, <4>1
      <4>3. \A b \in Attempts : pc[b] = "restore others" => seen[b].base = release
        BY <2>5
      <4> QED
        BY <2>2, <4>2, <4>3
    <3>2. \A b \in Attempts : Within(b)' => Within(b)
      BY <2>2, <2>3, <2>4
    <3>3. \A b \in Attempts : pc'[b] \in {"checked", "consumed", "read", "commit"} => pc'[b] = pc[b]
      BY <2>2, <2>3
    <3> QED
      BY <2>4, <2>5, <3>1, <3>2, <3>3
  <2>6. ProductionIsRelease'
    BY <2>4
  <2> QED
    BY <2>4, <2>5, <2>6
<1>10. ASSUME NEW a \in Attempts, RestoreOthers(a) PROVE BaseInv'
  <2>1. pc[a] = "restore others" /\ Go(a, "close others")
    BY <1>10 DEF RestoreOthers
  <2>2. UNCHANGED <<plan, base, seen, begun, receipts, active, saga, eb, release, overrun>>
    BY <1>10 DEF RestoreOthers
  <2> QED
    BY <2>1, <2>2, LiveChanges DEF Span
<1>11. ASSUME NEW a \in Attempts, CloseOthers(a) PROVE BaseInv'
  <2>1. eb'.stage = "restored"
    BY <1>11 DEF CloseOthers, TypeOK, Record
  <2>2. \A b \in Attempts : pc'[b] = "restore others" => seen'[b] = seen[b] /\ pc[b] = "restore others"
    BY <1>11 DEF CloseOthers, TypeOK
  <2>3. UNCHANGED <<plan, base, live, release, active, saga, overrun, begun, receipts>>
    BY <1>11 DEF CloseOthers
  <2>4. \A b \in Attempts : pc'[b] # pc[b] => b = a /\ pc[b] \in Span /\ pc'[b] = "put"
    BY <1>11 DEF CloseOthers
  <2>5. ASSUME ~overrun PROVE Baselines'
    <3>1. \A b \in Attempts : Within(b)' => Within(b)
      BY <2>3, <2>4
    <3>2. \A b \in Attempts : ~(b = a) => pc'[b] = pc[b] /\ seen'[b] = seen[b]
      <4>1. seen \in [Attempts -> Record]
        BY DEF TypeOK
      <4> HIDE DEF Baselines, BaseInv, ProductionIsRelease, SagaInv, Within, EcsOpen
      <4> QED
        BY <1>11, <4>1 DEF CloseOthers
    <3>3. pc'[a] = "put" /\ Baselines
      <4>1. Baselines
        BY <2>5
      <4>2. pc'[a] = "put"
        <5> HIDE DEF Baselines, BaseInv, ProductionIsRelease, SagaInv, Within, EcsOpen
        <5> QED
          BY <1>11 DEF CloseOthers
      <4> QED
        BY <4>1, <4>2
    <3>4. Within(a)' => plan[a] = base[a]
      BY <2>5, <3>1
    <3> HIDE DEF Baselines, BaseInv, SagaInv, Within, EcsOpen
    <3> QED
      BY <2>1, <2>3, <3>1, <3>2, <3>3, <3>4, BaselinesStay
  <2>6. ProductionIsRelease'
    BY <2>3
  <2> QED
    BY <2>3, <2>5, <2>6
<1>12. ASSUME NEW a \in Attempts, BeginRules(a) PROVE BaseInv'
  <2>1. pc[a] = "put" /\ pc'[a] \in {"apply", "recover"} /\ active = a /\ saga[a] = "APPLYING"
    BY <1>12 DEF BeginRules, Answered
  <2>2. \A b \in Attempts : ~(b = a) => begun'[b] = begun[b] /\ pc'[b] = pc[b]
    BY <1>12 DEF BeginRules, Answered
  <2>3. active # None
    BY <2>1, DeployAssumption DEF DeployAssumption
  <2>4. UNCHANGED <<plan, base, live, release, active, saga, overrun, seen, receipts>>
    BY <1>12 DEF BeginRules
  <2>5. ProductionIsRelease'
    BY <2>4
  <2>6. ASSUME ~overrun PROVE Baselines'
    <3>1. base[a] = Whole(release) /\ plan[a] = base[a]
      BY <2>1, <2>3, <2>6
    <3>2. plan[a].rules = release
      <4> HIDE DEF Baselines, BaseInv, ProductionIsRelease, SagaInv, Within, EcsOpen
      <4> QED
        BY <3>1, WholeRules
    <3>3. eb'.base = release
      BY <1>12, <3>2 DEF BeginRules
    <3>4. \A b \in Attempts : ~(b = a) => (Within(b)' => Within(b))
      BY <2>2, <2>4
    <3>5. Baselines
      BY <2>6
    <3> HIDE DEF Baselines, BaseInv, SagaInv, Within, EcsOpen
    <3> QED
      BY <2>1, <2>2, <2>4, <3>1, <3>3, <3>4, <3>5, BaselinesStay
  <2> QED
    BY <2>4, <2>5, <2>6
<1>13. ASSUME NEW a \in Attempts, NEW p \in Part, Terraform(a, p) PROVE BaseInv'
  <2> HIDE DEF Baselines, BaseInv, ProductionIsRelease, SagaInv, Within, EcsOpen
  <2>1. pc[a] = "apply" /\ Go(a, "apply")
    BY <1>13 DEF Terraform
  <2>2. UNCHANGED <<plan, base, seen, begun, receipts, active, saga, eb, release, overrun>>
    BY <1>13 DEF Terraform
  <2> QED
    BY <2>1, <2>2, LiveChanges DEF Span
<1>14. ASSUME NEW a \in Attempts, Applied(a) PROVE BaseInv'
  BY <1>14 DEF Applied
<1>15. ASSUME NEW a \in Attempts, VerifyRules(a) PROVE BaseInv'
  <2>1. PICK to \in {"verify services"} : Go(a, to)
    BY <1>15 DEF VerifyRules
  <2>2. UNCHANGED <<plan, base, seen, begun, receipts, active, saga, eb, live, release, overrun>>
    BY <1>15 DEF VerifyRules
  <2>3. Within(a)' => Within(a)
    BY <1>15, <2>1, <2>2 DEF VerifyRules
  <2> QED
    BY <2>1, <2>2, <2>3, OnlyMoves
<1>16. ASSUME NEW a \in Attempts, VerifyServices(a) PROVE BaseInv'
  BY <1>16 DEF VerifyServices
<1>17. ASSUME NEW a \in Attempts, Commit(a) PROVE BaseInv'
  <2>1. pc[a] = "commit" /\ pc'[a] = "confirm" /\ active = a
    BY <1>17 DEF Commit
  <2>2. saga'[a] = "APPLIED" /\ release' = a /\ eb'.stage = "complete"
    BY <1>17 DEF Commit, TypeOK, Record
  <2>3. UNCHANGED <<plan, base, live, seen, begun, active, overrun>>
    BY <1>17 DEF Commit
  <2>4. ProductionIsRelease'
    BY <2>1, <2>2, <2>3
  <2>5. ASSUME ~overrun PROVE Baselines'
    <3>1. ASSUME NEW b \in Attempts, ~(b = a) PROVE ~Locked(b) /\ pc'[b] = pc[b]
      BY <1>17, <2>1, <2>5, <3>1, OneLocked DEF Commit, Locked
    <3>2. \A b \in Attempts : ~(b = a) => pc[b] \notin {"checked", "consumed", "read", "restore others", "commit"}
      BY <3>1 DEF Locked
    <3>3. \A b \in Attempts : ~Within(b)'
      BY <1>17, <2>1, <3>1 DEF Commit, Locked
    <3>4. \A b \in Attempts : pc'[b] \notin {"checked", "consumed", "read", "restore others", "commit"}
      BY <2>1, <3>1, <3>2
    <3> QED
      BY <2>2, <3>3, <3>4
  <2> QED
    BY <2>4, <2>5, <2>3
<1>18. ASSUME NEW a \in Attempts, Confirm(a) PROVE BaseInv'
  BY <1>18 DEF Confirm
<1>19. ASSUME NEW a \in Attempts, Dies(a) PROVE BaseInv'
  <2>1. PICK to \in {"recover"} : Go(a, to)
    BY <1>19 DEF Dies
  <2>2. UNCHANGED <<plan, base, seen, begun, receipts, active, saga, eb, live, release, overrun>>
    BY <1>19 DEF Dies
  <2>3. Within(a)' => Within(a)
    BY <1>19, <2>1, <2>2 DEF Dies, Ahead
  <2> QED
    BY <2>1, <2>2, <2>3, OnlyMoves
<1>20. ASSUME NEW a \in Attempts, Recover(a) PROVE BaseInv'
  <2>1. PICK to \in {"mark", "unlock", "functions"} : Go(a, to)
    BY <1>20 DEF Recover
  <2>2. UNCHANGED <<plan, base, seen, begun, receipts, active, saga, eb, live, release, overrun>>
    BY <1>20 DEF Recover
  <2>3. Within(a)' => Within(a)
    BY <1>20, <2>1, <2>2 DEF Recover
  <2> QED
    BY <2>1, <2>2, <2>3, OnlyMoves
<1>21. ASSUME NEW a \in Attempts, RestoreFunctions(a) PROVE BaseInv'
  <2>1. pc[a] = "functions" /\ Go(a, "rules")
    BY <1>21 DEF RestoreFunctions
  <2>2. UNCHANGED <<plan, base, seen, begun, receipts, active, saga, eb, release, overrun>>
    BY <1>21 DEF RestoreFunctions
  <2> QED
    BY <2>1, <2>2, LiveChanges DEF Span
<1>22. ASSUME NEW a \in Attempts, RestoreRules(a) PROVE BaseInv'
  <2>1. pc[a] = "rules" /\ Go(a, "close rules")
    BY <1>22 DEF RestoreRules
  <2>2. UNCHANGED <<plan, base, seen, begun, receipts, active, saga, eb, release, overrun>>
    BY <1>22 DEF RestoreRules
  <2> QED
    BY <2>1, <2>2, LiveChanges DEF Span
<1>23. ASSUME NEW a \in Attempts, SkipRules(a) PROVE BaseInv'
  BY <1>23 DEF SkipRules
<1>24. ASSUME NEW a \in Attempts, CloseRules(a) PROVE BaseInv'
  <2>1. eb'.stage = "applying" => eb' = eb
    BY <1>24 DEF CloseRules, TypeOK, Record
  <2> QED
    BY <1>24, <2>1 DEF CloseRules
<1>25. ASSUME NEW a \in Attempts, RestoreServices(a) PROVE BaseInv'
  <2>1. pc[a] = "services" /\ Go(a, "close services")
    BY <1>25 DEF RestoreServices
  <2>2. UNCHANGED <<plan, base, seen, begun, receipts, active, saga, eb, release, overrun>>
    BY <1>25 DEF RestoreServices
  <2> QED
    BY <2>1, <2>2, LiveChanges DEF Span
<1>26. ASSUME NEW a \in Attempts, CloseServices(a) PROVE BaseInv'
  BY <1>26 DEF CloseServices
<1>27. ASSUME NEW a \in Attempts, MarkOutcome(a) PROVE BaseInv'
  BY <1>27 DEF MarkOutcome
<1>28. ASSUME NEW a \in Attempts, ReleaseGate(a) PROVE BaseInv'
  BY <1>28 DEF ReleaseGate
<1>29. ASSUME NEW a \in Attempts, ReleaseLocal(a) PROVE BaseInv'
  BY <1>29 DEF ReleaseLocal
<1>30. ASSUME NEW a \in Attempts, CleanUpFails(a) PROVE BaseInv'
  <2>1. PICK to : Go(a, to) /\ <<pc[a], to>> \in After
    BY <1>30 DEF CleanUpFails
  <2>2. UNCHANGED <<plan, base, seen, begun, receipts, active, saga, eb, live, release, overrun>>
    BY <1>30 DEF CleanUpFails
  <2>3. Within(a)' => Within(a)
    BY <2>1, <2>2 DEF After
  <2>4. to \notin {"read", "restore others", "commit", "checked", "consumed"}
    BY <2>1 DEF After
  <2> QED
    BY <2>1, <2>2, <2>3, <2>4, OnlyMoves
<1>31. ASSUME NEW a \in Attempts, Crash(a) PROVE BaseInv'
  BY <1>31 DEF Crash, Ahead, CleanUp
<1>32. CASE GateRunsOut
  BY <1>32 DEF GateRunsOut
<1>33. CASE LockRunsOut
  BY <1>33 DEF LockRunsOut
<1>34. CASE UNCHANGED vars
  BY <1>34 DEF vars
<1> QED
  BY <1>1, <1>2, <1>3, <1>4, <1>5, <1>6, <1>7, <1>8, <1>9, <1>10, <1>11, <1>12, <1>13, <1>14, <1>15,
      <1>16, <1>17, <1>18, <1>19, <1>20, <1>21, <1>22, <1>23, <1>24, <1>25, <1>26, <1>27, <1>28, <1>29,
      <1>30, <1>31, <1>32, <1>33, <1>34 DEF Next, Work

-----------------------------------------------------------------------------
(* Production.                                                              *)
DeployInv == TypeOK /\ SagaInv /\ LockInv /\ BaseInv

(* The inductive invariant: types, the open record of whoever is within its *)
(* saga, the guard's lock, and the baselines.                               *)
THEOREM DeployInvariant == Spec => []DeployInv
<1>1. Init => DeployInv
  BY TypesInit, SagaInit, LockInit, BaseInit DEF DeployInv
<1>2. DeployInv /\ [Next]_vars => DeployInv'
  BY TypesKept, SagaKept, LockKept, BaseKept DEF DeployInv
<1> QED
  BY <1>1, <1>2, PTL DEF Spec

(* While no saga is open, production is the release committed last; while   *)
(* one is, its record holds that release.                                   *)
THEOREM ProductionIsKnown == Spec => []ProductionIsRelease
<1>1. DeployInv => ProductionIsRelease
  BY DEF DeployInv, BaseInv
<1> QED
  BY <1>1, DeployInvariant, PTL

Covered ==
    ~overrun => \A p \in Part : live'[p] # live[p] =>
        /\ active # None /\ saga[active] = "APPLYING"
        /\ live'[p] \in {active, base[active][p]}

(* A step that leaves production as it is changes nothing to be covered.     *)
LEMMA StillSteps ==
    ASSUME [Next]_vars,
           ~ \E a \in Attempts :
               \/ RestoreOthers(a) \/ RestoreFunctions(a) \/ RestoreRules(a) \/ RestoreServices(a)
               \/ \E p \in Part : Terraform(a, p)
    PROVE  live' = live
<1>1. ASSUME NEW a \in Attempts,
             MakePlan(a) \/ Acquire(a) \/ Refused(a) \/ AcquireLocal(a) \/ VerifyPlan(a)
      PROVE  live' = live
  BY <1>1 DEF MakePlan, Acquire, Refused, AcquireLocal, VerifyPlan
<1>2. ASSUME NEW a \in Attempts,
             Consume(a) \/ ReadBaseline(a) \/ BeginEcs(a) \/ ReadRules(a) \/ CloseOthers(a)
      PROVE  live' = live
  BY <1>2 DEF Consume, ReadBaseline, BeginEcs, ReadRules, CloseOthers
<1>3. ASSUME NEW a \in Attempts,
             BeginRules(a) \/ Applied(a) \/ VerifyRules(a) \/ VerifyServices(a) \/ Commit(a)
      PROVE  live' = live
  BY <1>3 DEF BeginRules, Applied, VerifyRules, VerifyServices, Commit
<1>4. ASSUME NEW a \in Attempts,
             Confirm(a) \/ Dies(a) \/ Recover(a) \/ SkipRules(a) \/ CloseRules(a)
      PROVE  live' = live
  BY <1>4 DEF Confirm, Dies, Recover, SkipRules, CloseRules
<1>5. ASSUME NEW a \in Attempts,
             CloseServices(a) \/ MarkOutcome(a) \/ ReleaseGate(a) \/ ReleaseLocal(a) \/ CleanUpFails(a)
      PROVE  live' = live
  BY <1>5 DEF CloseServices, MarkOutcome, ReleaseGate, ReleaseLocal, CleanUpFails
<1>6. ASSUME NEW a \in Attempts, Crash(a) PROVE live' = live
  BY <1>6 DEF Crash
<1>7. CASE GateRunsOut \/ LockRunsOut \/ UNCHANGED vars
  BY <1>7 DEF GateRunsOut, LockRunsOut, vars
<1> QED
  BY <1>1, <1>2, <1>3, <1>4, <1>5, <1>6, <1>7 DEF Next, Work

(* An attempt that changes one part, to its own release or its baseline.    *)
LEMMA CoveredChange ==
    ASSUME DeployInv, NEW a \in Attempts, pc[a] \in Span, NEW q \in Part, NEW v,
           live' = [live EXCEPT ![q] = v],
           ~overrun => v \in {a, base[a][q]}
    PROVE  Covered
<1>1. active = a /\ saga[a] = "APPLYING" /\ active # None
  BY DeployAssumption DEF DeployInv, SagaInv, Within, EcsOpen, DeployAssumption
<1>2. \A p \in Part : live'[p] = IF p = q THEN v ELSE live[p]
  BY DEF DeployInv, TypeOK, Production
<1> QED
  BY <1>1, <1>2 DEF Covered

(* The baseline of an open saga is the release committed last.               *)
LEMMA OpenBaseline ==
    ASSUME DeployInv, ~overrun, NEW a \in Attempts, pc[a] \in Span
    PROVE  base[a] = Whole(release) /\ plan[a] = base[a]
<1>1. active = a /\ saga[a] = "APPLYING" /\ active # None
  BY DeployAssumption DEF DeployInv, SagaInv, Within, EcsOpen, DeployAssumption
<1> QED
  BY <1>1 DEF DeployInv, BaseInv, Baselines, ProductionIsRelease, Within

(* Every step's changes of production are covered by an open saga.           *)
LEMMA ChangeIsCovered == DeployInv /\ [Next]_vars => Covered
<1> SUFFICES ASSUME DeployInv, [Next]_vars PROVE Covered
  OBVIOUS
<1>0. \A r : \A p \in Part : Whole(r)[p] = r
  BY DEF Whole
<1>1. ASSUME NEW a \in Attempts, RestoreOthers(a) PROVE Covered
  <2>1. pc[a] \in Span /\ "rules" \in Part /\ live' = [live EXCEPT !["rules"] = seen[a].base]
    BY <1>1 DEF RestoreOthers, Span, Part
  <2>2. ~overrun => seen[a].base = base[a]["rules"]
    <3>1. ~overrun => seen[a].base = release
      BY <1>1 DEF RestoreOthers, DeployInv, BaseInv, Baselines
    <3> QED
      BY <1>0, <2>1, <3>1, OpenBaseline
  <2> QED
    BY <2>1, <2>2, CoveredChange
<1>2. ASSUME NEW a \in Attempts, RestoreFunctions(a) PROVE Covered
  <2>1. pc[a] \in Span /\ "functions" \in Part /\ live' = [live EXCEPT !["functions"] = plan[a]["functions"]]
    BY <1>2 DEF RestoreFunctions, Span, Part
  <2> QED
    BY <2>1, OpenBaseline, CoveredChange
<1>3. ASSUME NEW a \in Attempts, RestoreRules(a) PROVE Covered
  <2>1. pc[a] \in Span /\ "rules" \in Part /\ live' = [live EXCEPT !["rules"] = eb.base]
    BY <1>3 DEF RestoreRules, Span, Part
  <2>2. ~overrun => eb.base = base[a]["rules"]
    <3>1. ~overrun => eb.base = release
      BY <1>3 DEF RestoreRules, RulesOpen, DeployInv, BaseInv, Baselines
    <3> QED
      BY <1>0, <2>1, <3>1, OpenBaseline
  <2> QED
    BY <2>1, <2>2, CoveredChange
<1>4. ASSUME NEW a \in Attempts, RestoreServices(a) PROVE Covered
  <2>1. pc[a] \in Span /\ "services" \in Part /\ live' = [live EXCEPT !["services"] = base[a]["services"]]
    BY <1>4 DEF RestoreServices, Span, Part
  <2> QED
    BY <2>1, CoveredChange
<1>5. ASSUME NEW a \in Attempts, NEW p \in Part, Terraform(a, p) PROVE Covered
  <2>1. pc[a] \in Span /\ live' = [live EXCEPT ![p] = a]
    BY <1>5 DEF Terraform, Span
  <2> QED
    BY <2>1, CoveredChange
<1>6. CASE live' = live
  BY <1>6 DEF Covered
<1> QED
  BY <1>1, <1>2, <1>3, <1>4, <1>5, <1>6, StillSteps

(* Production changes under an open saga only, to what its plan wants or    *)
(* back to its baseline: no cleanup undoes a commit.                        *)
THEOREM ProductionIsCovered == Spec => ChangesAreCovered
<1>1. DeployInv /\ [Next]_vars => [Covered]_vars
  BY ChangeIsCovered
<1> QED
  BY <1>1, DeployInvariant, PTL DEF Spec, ChangesAreCovered, Covered
=============================================================================
