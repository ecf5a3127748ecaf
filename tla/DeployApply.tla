------------------------------ MODULE DeployApply ------------------------------
(***************************************************************************)
(* Guarded deployments (infra/deploy/terraform_runtime_guard.sh, apply).   *)
(* A deployment applies a saved plan to production under three fences: the *)
(* lease lock of the image ledger with the plan's one-time intent          *)
(* (codebuild/release_evidence.py), the guard's own lock of two hours, and *)
(* the records of two sagas, which keep what production was and are closed *)
(* by a commit of everything at once (deployment_apply_finalizer.py) or by *)
(* a restoration (ecs_service_apply_saga.py, eventbridge_apply_saga.py).   *)
(*                                                                         *)
(* Production has three parts, each at the release of one attempt: the ECS *)
(* services, the EventBridge rules, and the functions and other revisions  *)
(* that the script itself restores.  A request that failed has taken       *)
(* effect by then or never does.  Nobody repairs a saga by hand.           *)
(***************************************************************************)
EXTENDS Naturals

CONSTANTS Attempts,   \* runs of apply, each with its plan and its intent
          None,
          MaxFaults   \* bound: lost answers, failed clean-ups, deaths, overruns

ASSUME DeployAssumption == None \notin Attempts /\ MaxFaults \in Nat

Part == {"services", "rules", "functions"}
Release == Attempts \cup {None}    \* None: what was there before
Production == [Part -> Release]
Whole(r) == [p \in Part |-> r]

VARIABLES
    pc,        \* where each attempt is
    plan,      \* production as each saved plan expects it
    base,      \* the baseline each attempt has read, then keeps in its ECS record
    seen,      \* the EventBridge record each attempt has read
    begun,     \* sagas the script knows as started: 0, 1 (ECS) or 2 (both)
    intent,    \* the state of each attempt's intent
    receipts,  \* attempts whose finalization is recorded
    gate,      \* the lease lock
    lock,      \* the guard's lock
    active,    \* the attempt the ECS pointer names
    saga,      \* the stage of each attempt's ECS record, and of the pointer to it
    eb,        \* the EventBridge record
    live,      \* production
    release,   \* history: the attempt committed last
    overrun,   \* history: a live attempt has outlived the guard's lock
    faults

script == <<pc, plan, base, seen, begun>>
ledger == <<intent, receipts>>
fences == <<gate, lock, overrun>>
sagas == <<active, saga, eb>>
vars == <<script, ledger, fences, sagas, live, release, faults>>

NoLock == [owner |-> None, fresh |-> FALSE]
NoRecord == [owner |-> None, stage |-> "complete", base |-> None]

Init ==
    /\ pc = [a \in Attempts |-> "idle"]
    /\ plan = [a \in Attempts |-> Whole(None)] /\ base = [a \in Attempts |-> Whole(None)]
    /\ seen = [a \in Attempts |-> NoRecord] /\ begun = [a \in Attempts |-> 0]
    /\ intent = [a \in Attempts |-> "none"] /\ receipts = {}
    /\ gate = NoLock /\ lock = NoLock /\ overrun = FALSE
    /\ active = None /\ saga = [a \in Attempts |-> "none"] /\ eb = NoRecord
    /\ live = Whole(None) /\ release = None /\ faults = 0

Go(a, to) == pc' = [pc EXCEPT ![a] = to]
Fault == faults < MaxFaults /\ faults' = faults + 1
Healthy == faults' = faults

Free(l) == l.owner = None \/ ~l.fresh
Held(l, a) == l.owner = a /\ l.fresh
EcsOpen(a) == active = a /\ saga[a] = "APPLYING"
RulesOpen(a) == eb.owner = a /\ eb.stage = "applying"

(* A call that takes effect and is answered, or whose answer is lost.       *)
Answered(a, to, lost) == \/ Go(a, to) /\ Healthy
                         \/ Go(a, lost) /\ Fault

-----------------------------------------------------------------------------
(* The fences.                                                              *)

(* A plan is made for production as it is; its intent is prepared.          *)
MakePlan(a) ==
    /\ pc[a] = "idle" /\ Go(a, "planned")
    /\ plan' = [plan EXCEPT ![a] = live]
    /\ intent' = [intent EXCEPT ![a] = "PREPARED"]
    /\ UNCHANGED <<base, seen, begun, receipts, fences, sagas, live, release, faults>>

(* The lease lock and the start of the intent are one transaction.  A script *)
(* that is not told of its success leaves both as they are.                 *)
Acquire(a) ==
    /\ pc[a] = "planned" /\ Free(gate) /\ intent[a] = "PREPARED"
    /\ gate' = [owner |-> a, fresh |-> TRUE]
    /\ intent' = [intent EXCEPT ![a] = "APPLYING"]
    /\ Answered(a, "gated", "ended")
    /\ UNCHANGED <<plan, base, seen, begun, receipts, lock, overrun, sagas, live, release>>

Refused(a) ==
    /\ pc[a] = "planned" /\ Go(a, "ended")
    /\ UNCHANGED <<plan, base, seen, begun, ledger, fences, sagas, live, release, faults>>

AcquireLocal(a) ==
    /\ pc[a] = "gated" /\ Free(lock)
    /\ lock' = [owner |-> a, fresh |-> TRUE]
    /\ Answered(a, "locked", "recover")
    /\ UNCHANGED <<plan, base, seen, begun, ledger, gate, overrun, sagas, live, release>>

(* verify_receipt: production is still what the plan expects.               *)
VerifyPlan(a) ==
    /\ pc[a] = "locked" /\ live = plan[a] /\ Go(a, "checked")
    /\ UNCHANGED <<plan, base, seen, begun, ledger, fences, sagas, live, release, faults>>

Consume(a) ==
    /\ pc[a] = "checked" /\ Held(gate, a) /\ intent[a] = "APPLYING"
    /\ intent' = [intent EXCEPT ![a] = "CONSUMED"]
    /\ Answered(a, "consumed", "recover")
    /\ UNCHANGED <<plan, base, seen, begun, receipts, fences, sagas, live, release>>

-----------------------------------------------------------------------------
(* The sagas begin.                                                         *)
ReadBaseline(a) ==
    /\ pc[a] = "consumed" /\ Go(a, "read")
    /\ base' = [base EXCEPT ![a] = live]
    /\ UNCHANGED <<plan, seen, begun, ledger, fences, sagas, live, release, faults>>

(* Mutant: the pointer may name an attempt that is still open.              *)
BeginEcsAnyway(a) ==
    /\ pc[a] = "read" /\ saga[a] = "none"
    /\ saga' = [saga EXCEPT ![a] = "APPLYING"] /\ active' = a
    /\ Answered(a, "begun", "recover")
    /\ begun' = [begun EXCEPT ![a] = IF pc'[a] = "begun" THEN 1 ELSE 0]
    /\ UNCHANGED <<plan, base, seen, ledger, fences, eb, live, release>>

(* begin is one-shot: a lost answer is an error, and the script does not    *)
(* know the saga as started.                                                *)
BeginEcs(a) ==
    /\ pc[a] = "read" /\ saga[a] = "none"
    /\ active # None => saga[active] \in {"APPLIED", "RESTORED"}
    /\ saga' = [saga EXCEPT ![a] = "APPLYING"] /\ active' = a
    /\ Answered(a, "begun", "recover")
    /\ begun' = [begun EXCEPT ![a] = IF pc'[a] = "begun" THEN 1 ELSE 0]
    /\ UNCHANGED <<plan, base, seen, ledger, fences, eb, live, release>>

ReadRules(a) ==
    /\ pc[a] = "begun"
    /\ seen' = [seen EXCEPT ![a] = eb]
    /\ Go(a, IF eb.stage = "applying" THEN "restore others" ELSE "put")
    /\ UNCHANGED <<plan, base, begun, ledger, fences, sagas, live, release, faults>>

(* A record left open by an earlier attempt: its rules are restored first.  *)
RestoreOthers(a) ==
    /\ pc[a] = "restore others" /\ Go(a, "close others")
    /\ live' = [live EXCEPT !.rules = seen[a].base]
    /\ UNCHANGED <<plan, base, seen, begun, ledger, fences, sagas, release, faults>>

CloseOthers(a) ==
    /\ pc[a] = "close others" /\ eb = seen[a] /\ Go(a, "put")
    /\ eb' = [eb EXCEPT !.stage = "restored"]
    /\ seen' = [seen EXCEPT ![a] = eb']
    /\ UNCHANGED <<plan, base, begun, ledger, fences, active, saga, live, release, faults>>

(* The rules must be as the plan expects them; the record of the earlier    *)
(* attempt, compared as it was read, is replaced.                           *)
BeginRules(a) ==
    /\ pc[a] = "put" /\ live.rules = plan[a].rules /\ eb = seen[a]
    /\ eb' = [owner |-> a, stage |-> "applying", base |-> live.rules]
    /\ Answered(a, "apply", "recover")
    /\ begun' = [begun EXCEPT ![a] = IF pc'[a] = "apply" THEN 2 ELSE 1]
    /\ UNCHANGED <<plan, base, seen, ledger, fences, active, saga, live, release>>

-----------------------------------------------------------------------------
(* The apply, its verification and its commit.                              *)
Terraform(a, p) ==
    /\ pc[a] = "apply" /\ live[p] # a
    /\ live' = [live EXCEPT ![p] = a]
    /\ UNCHANGED <<script, ledger, fences, sagas, release, faults>>

Applied(a) ==
    /\ pc[a] = "apply" /\ live = Whole(a) /\ Go(a, "verify rules")
    /\ UNCHANGED <<plan, base, seen, begun, ledger, fences, sagas, live, release, faults>>

(* The commit asks that the lease had not run out at this verification.     *)
VerifyRules(a) ==
    /\ pc[a] = "verify rules" /\ RulesOpen(a) /\ live.rules = a /\ Held(gate, a)
    /\ Go(a, "verify services")
    /\ UNCHANGED <<plan, base, seen, begun, ledger, fences, sagas, live, release, faults>>

VerifyServices(a) ==
    /\ pc[a] = "verify services" /\ EcsOpen(a) /\ live = Whole(a)
    /\ Go(a, "commit")
    /\ UNCHANGED <<plan, base, seen, begun, ledger, fences, sagas, live, release, faults>>

(* One transaction closes both sagas and the intent, releases the lease     *)
(* lock and stores the receipt.                                             *)
Commit(a) ==
    /\ pc[a] = "commit" /\ EcsOpen(a) /\ RulesOpen(a)
    /\ intent[a] = "CONSUMED" /\ gate.owner = a
    /\ saga' = [saga EXCEPT ![a] = "APPLIED"]
    /\ eb' = [eb EXCEPT !.stage = "complete"]
    /\ intent' = [intent EXCEPT ![a] = "APPLIED"]
    /\ gate' = NoLock
    /\ receipts' = receipts \cup {a} /\ release' = a
    /\ Go(a, "confirm")
    /\ UNCHANGED <<plan, base, seen, begun, lock, overrun, active, live, faults>>

(* _confirm_terminal: everything is read again as the commit left it.       *)
Confirmable(a) ==
    /\ a \in receipts /\ intent[a] = "APPLIED" /\ gate.owner = None
    /\ active = a /\ saga[a] = "APPLIED" /\ eb.owner = a /\ eb.stage = "complete"

Confirm(a) ==
    /\ pc[a] = "confirm" /\ Confirmable(a) /\ Go(a, "unlock")
    /\ UNCHANGED <<plan, base, seen, begun, ledger, fences, sagas, live, release, faults>>

Ahead == {"gated", "locked", "checked", "consumed", "read", "begun", "restore others",
          "close others", "put", "apply", "verify rules", "verify services", "commit", "confirm"}

(* A check that fails, a failed call, a failed heartbeat or a signal ends   *)
(* the script, which then cleans up.                                        *)
Dies(a) ==
    /\ pc[a] \in Ahead /\ Go(a, "recover")
    /\ UNCHANGED <<plan, base, seen, begun, ledger, fences, sagas, live, release, faults>>

-----------------------------------------------------------------------------
(* cleanup_apply_command.                                                   *)

(* Mutant: an attempt that began no saga leaves intent and lease lock.      *)
RecoverLeaves(a) ==
    /\ pc[a] = "recover"
    /\ Go(a, IF begun[a] = 0 \/ a \in receipts THEN "unlock" ELSE "functions")
    /\ UNCHANGED <<plan, base, seen, begun, ledger, fences, sagas, live, release, faults>>

(* A commit that took place is left alone, confirmed or not.                *)
Recover(a) ==
    /\ pc[a] = "recover"
    /\ Go(a, IF begun[a] = 0 THEN "mark" ELSE IF a \in receipts THEN "unlock" ELSE "functions")
    /\ UNCHANGED <<plan, base, seen, begun, ledger, fences, sagas, live, release, faults>>

RestoreFunctions(a) ==
    /\ pc[a] = "functions" /\ Go(a, "rules")
    /\ live' = [live EXCEPT !.functions = plan[a].functions]
    /\ UNCHANGED <<plan, base, seen, begun, ledger, fences, sagas, release, faults>>

RestoreRules(a) ==
    /\ pc[a] = "rules" /\ begun[a] = 2 /\ RulesOpen(a) /\ Go(a, "close rules")
    /\ live' = [live EXCEPT !.rules = eb.base]
    /\ UNCHANGED <<plan, base, seen, begun, ledger, fences, sagas, release, faults>>

SkipRules(a) ==
    /\ pc[a] = "rules" /\ ~(begun[a] = 2 /\ RulesOpen(a)) /\ Go(a, "services")
    /\ UNCHANGED <<plan, base, seen, begun, ledger, fences, sagas, live, release, faults>>

CloseRules(a) ==
    /\ pc[a] = "close rules" /\ Go(a, "services")
    /\ eb' = IF RulesOpen(a) THEN [eb EXCEPT !.stage = "restored"] ELSE eb
    /\ UNCHANGED <<plan, base, seen, begun, ledger, fences, active, saga, live, release, faults>>

RestoreServices(a) ==
    /\ pc[a] = "services" /\ saga[a] = "APPLYING" /\ Go(a, "close services")
    /\ live' = [live EXCEPT !.services = base[a].services]
    /\ UNCHANGED <<plan, base, seen, begun, ledger, fences, sagas, release, faults>>

(* Mutant: the restored production is not compared with the baseline.       *)
CloseUnverified(a) ==
    /\ pc[a] = "close services" /\ Go(a, "mark")
    /\ saga' = IF EcsOpen(a) THEN [saga EXCEPT ![a] = "RESTORED"] ELSE saga
    /\ UNCHANGED <<plan, base, seen, begun, ledger, fences, active, eb, live, release, faults>>

(* The whole baseline, rules and functions included, must be back.          *)
CloseServices(a) ==
    /\ pc[a] = "close services" /\ Go(a, "mark")
    /\ saga' = IF EcsOpen(a) /\ live = base[a] THEN [saga EXCEPT ![a] = "RESTORED"] ELSE saga
    /\ UNCHANGED <<plan, base, seen, begun, ledger, fences, active, eb, live, release, faults>>

MarkOutcome(a) ==
    /\ pc[a] = "mark" /\ Go(a, "ungate")
    /\ intent' = IF intent[a] \in {"APPLYING", "CONSUMED"}
                 THEN [intent EXCEPT ![a] = "RECONCILE_REQUIRED"] ELSE intent
    /\ UNCHANGED <<plan, base, seen, begun, receipts, fences, sagas, live, release, faults>>

ReleaseGate(a) ==
    /\ pc[a] = "ungate" /\ Go(a, "unlock")
    /\ gate' = IF gate.owner = a THEN NoLock ELSE gate
    /\ UNCHANGED <<plan, base, seen, begun, ledger, lock, overrun, sagas, live, release, faults>>

ReleaseLocal(a) ==
    /\ pc[a] = "unlock" /\ Go(a, "ended")
    /\ lock' = IF lock.owner = a THEN NoLock ELSE lock
    /\ UNCHANGED <<plan, base, seen, begun, ledger, gate, overrun, sagas, live, release, faults>>

CleanUp == {"recover", "functions", "rules", "close rules", "services", "close services",
            "mark", "ungate", "unlock"}

(* Mutant: a recovery that cannot tell is taken for "not committed".        *)
AfterGuessing == {
    <<"recover", "functions">>, <<"functions", "rules">>,
    <<"rules", "services">>, <<"close rules", "services">>,
    <<"services", "mark">>, <<"close services", "mark">>,
    <<"mark", "ungate">>, <<"ungate", "unlock">>, <<"unlock", "ended">>}

(* A step of the cleanup that fails is passed over; a recovery that cannot  *)
(* tell whether the commit took place ends it.                              *)
After == {
    <<"recover", "unlock">>, <<"functions", "rules">>,
    <<"rules", "services">>, <<"close rules", "services">>,
    <<"services", "mark">>, <<"close services", "mark">>,
    <<"mark", "ungate">>, <<"ungate", "unlock">>, <<"unlock", "ended">>}

CleanUpFails(a) ==
    /\ pc[a] = "recover" => begun[a] > 0
    /\ \E to \in CleanUp \cup {"ended"} : <<pc[a], to>> \in After /\ Go(a, to)
    /\ Fault
    /\ UNCHANGED <<plan, base, seen, begun, ledger, fences, sagas, live, release>>

-----------------------------------------------------------------------------
(* The environment.                                                         *)
Crash(a) ==
    /\ pc[a] \in Ahead \cup CleanUp /\ Go(a, "dead") /\ Fault
    /\ UNCHANGED <<plan, base, seen, begun, ledger, fences, sagas, live, release>>

(* The heartbeat is stopped before the commit, and a script that cleans up  *)
(* after a failed apply has none: the lease may run out.  It does so under  *)
(* a heartbeat only when the host stalls.                                   *)
Beating == Ahead \ {"commit", "confirm"}

GateRunsOut ==
    /\ gate.owner # None /\ gate.fresh
    /\ gate' = [gate EXCEPT !.fresh = FALSE]
    /\ IF pc[gate.owner] \in Beating THEN Fault ELSE Healthy
    /\ UNCHANGED <<script, ledger, lock, overrun, sagas, live, release>>

(* Two hours, never renewed.                                                *)
LockRunsOut ==
    /\ lock.owner # None /\ lock.fresh
    /\ lock' = [lock EXCEPT !.fresh = FALSE]
    /\ IF pc[lock.owner] \in {"dead", "ended"}
       THEN Healthy /\ overrun' = overrun
       ELSE Fault /\ overrun' = TRUE
    /\ UNCHANGED <<script, ledger, gate, sagas, live, release>>

Work(a) ==
    \/ Acquire(a) \/ Refused(a) \/ AcquireLocal(a) \/ VerifyPlan(a) \/ Consume(a)
    \/ ReadBaseline(a) \/ BeginEcs(a)
    \/ ReadRules(a) \/ RestoreOthers(a) \/ CloseOthers(a) \/ BeginRules(a)
    \/ \E p \in Part : Terraform(a, p)
    \/ Applied(a) \/ VerifyRules(a) \/ VerifyServices(a) \/ Commit(a) \/ Confirm(a)
    \/ Dies(a)
    \/ Recover(a) \/ RestoreFunctions(a) \/ RestoreRules(a) \/ SkipRules(a) \/ CloseRules(a)
    \/ RestoreServices(a) \/ CloseServices(a) \/ MarkOutcome(a) \/ ReleaseGate(a) \/ ReleaseLocal(a)

Next ==
    \/ \E a \in Attempts : MakePlan(a) \/ Work(a) \/ CleanUpFails(a) \/ Crash(a)
    \/ GateRunsOut \/ LockRunsOut

Spec == Init /\ [][Next]_vars

(* A script that lives goes on; every command it runs has a time limit.     *)
FairSpec == Spec /\ \A a \in Attempts : WF_vars(Work(a))

-----------------------------------------------------------------------------
(* Types of the state of scripts, ledgers, locks and production.            *)
Stages == {"none", "APPLYING", "APPLIED", "RESTORED"}
Record == [owner : Release, stage : {"applying", "complete", "restored"}, base : Release]
Lock == [owner : Release, fresh : BOOLEAN]
Place == {"idle", "planned", "ended", "dead"} \cup Ahead \cup CleanUp
TypeOK ==
    /\ pc \in [Attempts -> Place]
    /\ plan \in [Attempts -> Production] /\ base \in [Attempts -> Production]
    /\ seen \in [Attempts -> Record] /\ begun \in [Attempts -> 0..2]
    /\ intent \in [Attempts -> {"none", "PREPARED", "APPLYING", "CONSUMED", "APPLIED", "RECONCILE_REQUIRED"}]
    /\ receipts \subseteq Attempts /\ gate \in Lock /\ lock \in Lock
    /\ active \in Release /\ saga \in [Attempts -> Stages] /\ eb \in Record
    /\ live \in Production /\ release \in Release
    /\ overrun \in BOOLEAN /\ faults \in 0..MaxFaults

(* At a step that changes production.                                       *)
AtHand(a) == pc[a] \in {"restore others", "apply", "functions", "rules", "services"}

(* Whatever locks have run out, two attempts never change production at the *)
(* same time: the open saga of one keeps out the others.                    *)
OneHand == \A a, b \in Attempts : AtHand(a) /\ AtHand(b) => a = b

(* While no saga is open, production as a whole is the release committed    *)
(* last; while one is, its baseline is.  Stated until a live attempt        *)
(* outlives the guard's lock of two hours: from then on a baseline may be   *)
(* read of a production half changed.                                       *)
ProductionIsRelease ==
    ~overrun =>
        IF active # None /\ saga[active] = "APPLYING"
        THEN base[active] = Whole(release)
        ELSE live = Whole(release)

(* Production changes only under an open saga, towards its plan or back to  *)
(* its baseline: nothing that was committed is undone by a clean-up, also   *)
(* when the answer of the commit was lost.  It, too, is stated only until a *)
(* live attempt outlives the guard's lock.                                  *)
ChangesAreCovered ==
    [][~overrun => \A p \in Part : live'[p] # live[p] =>
           /\ active # None /\ saga[active] = "APPLYING"
           /\ live'[p] \in {active, base[active][p]}]_vars

(* An attempt that meets no fault ends and leaves nothing behind: no open   *)
(* saga, no lock, no pending intent.                                        *)
LeftNothing(a) ==
    /\ gate.owner # a /\ lock.owner # a /\ ~EcsOpen(a) /\ ~RulesOpen(a)
    /\ intent[a] \notin {"APPLYING", "CONSUMED"}
EndsClean ==
    \A a \in Attempts :
        pc[a] # "idle" ~> pc[a] \in {"ended", "dead"} /\ (faults = 0 => LeftNothing(a))
=============================================================================
