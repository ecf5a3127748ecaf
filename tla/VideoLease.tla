----------------------------- MODULE VideoLease -----------------------------
(***************************************************************************)
(* The processing lease and the result cache of the video analysis         *)
(* (adapters/video_algorithm_cache.py) and the skill that pays for the     *)
(* analysis under them (skills/video_algorithm/skill.py: run,              *)
(* _run_uncached, _finalize_cached_output, _LeaseHeartbeat).               *)
(*                                                                         *)
(* One cache key: two S3 objects, the lease and the result, written only   *)
(* with If-None-Match or If-Match.  A run is one skill.run, in any process *)
(* and thread, with its heartbeat thread.  An action is one S3 call, or a  *)
(* read followed by nothing that another run could tell apart.             *)
(***************************************************************************)
EXTENDS Integers, FiniteSets

CONSTANTS Run,         \* executions of the skill for this key
          None,        \* no run
          MaxFaults    \* bound: failed S3 calls and lapses of a working lease

ASSUME LeaseAssumption == IsFiniteSet(Run) /\ None \notin Run /\ MaxFaults \in Nat

VARIABLES
    lease,      \* the lease object: its owner (token), generation and state
    leaseSeen,  \* readers whose ETag of the lease object is still current
    result,     \* the result object: its owner, generation, stage and freshness
    resultSeen, \* runs whose ETag of the result object (or its absence) is current
    pc,         \* where every run is
    stage,      \* the stage a run is about to commit
    gen,        \* the generation of a run's lease, 0 before it has one
    beat,       \* the heartbeat thread of a run
    lost,       \* runs whose heartbeat object recorded a lost lease
    missed,     \* history: runs that took a failed result read for a miss
    lapsed,     \* history: a lease expired while its owner was at work
    faults

s3Vars == <<lease, leaseSeen, result, resultSeen>>
runVars == <<pc, stage, gen, beat, lost>>
vars == <<s3Vars, runVars, missed, lapsed, faults>>

Main(r) == <<r, "main">>
Beat(r) == <<r, "beat">>
Reader == Run \X {"main", "beat"}

NoLease == [owner |-> None, gen |-> 0, state |-> "absent"]
NoResult == [owner |-> None, gen |-> 0, stage |-> "absent", fresh |-> FALSE]

Go(r, to) == pc' = [pc EXCEPT ![r] = to]

Fault == faults < MaxFaults /\ faults' = faults + 1

(* Every write of an object gives it another ETag.                          *)
WriteLease(l) == lease' = l /\ leaseSeen' = {}

Leased(r, g) == [owner |-> r, gen |-> g, state |-> "active"]

Owns(r) == lease = Leased(r, gen[r])

(* "complete" results lack an artefact when publishing it failed: "partial".*)
HasArtifacts == result.fresh /\ result.stage = "complete"

Init ==
    /\ lease = NoLease /\ leaseSeen = {}
    /\ result = NoResult /\ resultSeen = {}
    /\ pc = [r \in Run |-> "lookup"]
    /\ stage = [r \in Run |-> "core"]
    /\ gen = [r \in Run |-> 0]
    /\ beat = [r \in Run |-> "off"]
    /\ lost = {} /\ missed = {} /\ lapsed = FALSE /\ faults = 0

-----------------------------------------------------------------------------
(* The lookup and acquire_lease.                                            *)

(* A result with all artefacts is returned; anything else, and a failed     *)
(* read, is a miss.                                                         *)
Lookup(r) ==
    /\ pc[r] = "lookup"
    /\ Go(r, IF HasArtifacts THEN "ended" ELSE "acquire")
    /\ UNCHANGED <<s3Vars, stage, gen, beat, lost, missed, lapsed, faults>>

LookupMisses(r) ==
    /\ pc[r] = "lookup"
    /\ Fault
    /\ Go(r, "acquire")
    /\ UNCHANGED <<s3Vars, stage, gen, beat, lost, missed, lapsed>>

Acquired(r, g) ==
    /\ WriteLease(Leased(r, g))
    /\ gen' = [gen EXCEPT ![r] = g]
    /\ beat' = [beat EXCEPT ![r] = "idle"]
    /\ Go(r, "hold")

AcquireNew(r) ==
    /\ pc[r] = "acquire"
    /\ IF lease = NoLease
       THEN Acquired(r, 1)
       ELSE Go(r, "inspect") /\ UNCHANGED <<lease, leaseSeen, gen, beat>>
    /\ UNCHANGED <<result, resultSeen, stage, lost, missed, lapsed, faults>>

(* The first write raises: it may have been applied, and a retry inside the *)
(* client may then meet its own lease (412).                                *)
AcquireRaises(r) ==
    /\ pc[r] = "acquire"
    /\ Fault
    /\ \/ Go(r, "ended") /\ UNCHANGED <<lease, leaseSeen>>
       \/ lease = NoLease /\ WriteLease(Leased(r, 1)) /\ pc' \in {[pc EXCEPT ![r] = to] : to \in {"ended", "inspect"}}
    /\ UNCHANGED <<result, resultSeen, stage, gen, beat, lost, missed, lapsed>>

(* An active lease is held by somebody else; a released or expired one can  *)
(* be taken over, under the ETag just read.                                 *)
\* Mutant: an active lease is taken over too.
TakeableAny == TRUE

Takeable == lease.state # "active"

Inspect(r) ==
    /\ pc[r] = "inspect"
    /\ IF Takeable
       THEN Go(r, "takeover") /\ leaseSeen' = leaseSeen \cup {Main(r)}
       ELSE Go(r, "relook") /\ UNCHANGED leaseSeen
    /\ UNCHANGED <<lease, result, resultSeen, stage, gen, beat, lost, missed, lapsed, faults>>

TakeOver(r) ==
    /\ pc[r] = "takeover"
    /\ IF Main(r) \in leaseSeen
       THEN Acquired(r, lease.gen + 1)
       ELSE Go(r, "relook") /\ UNCHANGED <<lease, leaseSeen, gen, beat>>
    /\ UNCHANGED <<result, resultSeen, stage, lost, missed, lapsed, faults>>

(* acquire_lease returns None: the skill refuses to pay.                    *)
TakeOverRaises(r) ==
    /\ pc[r] \in {"inspect", "takeover"}
    /\ Fault
    /\ Go(r, "ended")
    /\ \/ UNCHANGED <<lease, leaseSeen>>
       \/ pc[r] = "takeover" /\ Main(r) \in leaseSeen /\ WriteLease(Leased(r, lease.gen + 1))
    /\ UNCHANGED <<result, resultSeen, stage, gen, beat, lost, missed, lapsed>>

(* The lease is held: one more look at the result, then "in progress".      *)
Relook(r) ==
    /\ pc[r] = "relook"
    /\ Go(r, "ended")
    /\ UNCHANGED <<s3Vars, stage, gen, beat, lost, missed, lapsed, faults>>

-----------------------------------------------------------------------------
(* The owner at work.                                                       *)

(* What was completed between the miss and the lease is used: returned,     *)
(* given its artefacts, or nothing is there and the analysis begins.        *)
AfterHold ==
    IF HasArtifacts THEN "release" ELSE IF result.fresh THEN "finalize" ELSE "search"

\* Mutant: the first miss is believed.
HoldTrustsLookup(r) ==
    /\ pc[r] = "hold"
    /\ Go(r, "search")
    /\ UNCHANGED <<s3Vars, stage, gen, beat, lost, missed, lapsed, faults>>

Hold(r) ==
    /\ pc[r] = "hold"
    /\ Go(r, AfterHold)
    /\ UNCHANGED <<s3Vars, stage, gen, beat, lost, missed, lapsed, faults>>

HoldMisses(r) ==
    /\ pc[r] = "hold"
    /\ Fault
    /\ Go(r, "search")
    /\ missed' = missed \cup {r}
    /\ UNCHANGED <<s3Vars, stage, gen, beat, lost, lapsed>>

(* assert_owned: under the lock of the heartbeat object, a synchronous      *)
(* renewal (read, then a write under the ETag read) before every paid step  *)
(* and before every commit.                                                 *)
Renewing == [boundary |-> "boundaryWrite", precommit |-> "precommitWrite"]
Renewed == [boundaryWrite |-> "billing", precommitWrite |-> "commit"]

AssertRead(r) ==
    /\ pc[r] \in DOMAIN Renewing
    /\ beat[r] # "write"
    /\ IF r \notin lost /\ Owns(r)
       THEN Go(r, Renewing[pc[r]]) /\ leaseSeen' = leaseSeen \cup {Main(r)} /\ UNCHANGED lost
       ELSE Go(r, "release") /\ lost' = lost \cup {r} /\ UNCHANGED leaseSeen
    /\ UNCHANGED <<lease, result, resultSeen, stage, gen, beat, missed, lapsed, faults>>

AssertWrite(r) ==
    /\ pc[r] \in DOMAIN Renewed
    /\ IF Main(r) \in leaseSeen
       THEN WriteLease(Leased(r, gen[r])) /\ Go(r, Renewed[pc[r]]) /\ UNCHANGED lost
       ELSE Go(r, "release") /\ lost' = lost \cup {r} /\ UNCHANGED <<lease, leaseSeen>>
    /\ UNCHANGED <<result, resultSeen, stage, gen, beat, missed, lapsed, faults>>

(* An I/O error is retried twice; then the run gives up.  Here the          *)
(* heartbeat may come between two attempts: it does the same renewal.       *)
Before == [boundary |-> "boundary", boundaryWrite |-> "boundary",
           precommit |-> "precommit", precommitWrite |-> "precommit"]

AssertRaises(r) ==
    /\ pc[r] \in DOMAIN Before
    /\ pc[r] \in DOMAIN Renewing => beat[r] # "write"
    /\ Fault
    /\ \/ UNCHANGED <<lease, leaseSeen>>
       \/ pc[r] \in DOMAIN Renewed /\ Main(r) \in leaseSeen /\ WriteLease(Leased(r, gen[r]))
    /\ pc' \in {[pc EXCEPT ![r] = to] : to \in {Before[pc[r]], "release"}}
    /\ UNCHANGED <<result, resultSeen, stage, gen, beat, lost, missed, lapsed>>

Precommit(r, what) == stage' = [stage EXCEPT ![r] = what] /\ Go(r, "precommit")

(* The search is free.  When it finds nothing, an empty result is complete. *)
Search(r) ==
    /\ pc[r] = "search"
    /\ \/ Precommit(r, "complete")
       \/ pc' \in {[pc EXCEPT ![r] = to] : to \in {"boundary", "release"}} /\ UNCHANGED stage
    /\ UNCHANGED <<s3Vars, gen, beat, lost, missed, lapsed, faults>>

(* A paid wave or the synthesis ends: another one follows, the core is      *)
(* committed, or an exception ends the run.                                 *)
BillingEnds(r) ==
    /\ pc[r] = "billing"
    /\ \/ Precommit(r, "core")
       \/ pc' \in {[pc EXCEPT ![r] = to] : to \in {"boundary", "release"}} /\ UNCHANGED stage
    /\ UNCHANGED <<s3Vars, gen, beat, lost, missed, lapsed, faults>>

(* Reports and slides, of an analysis just paid for or of a stored core: a  *)
(* checkpoint of the core (in the first case), the complete result with or  *)
(* without all artefacts, or an exception.                                  *)
ArtifactsEnd(r) ==
    /\ pc[r] \in {"artifacts", "finalize"}
    /\ \/ pc[r] = "artifacts" /\ Precommit(r, "core")
       \/ Precommit(r, "partial") \/ Precommit(r, "complete")
       \/ Go(r, "release") /\ UNCHANGED stage
    /\ UNCHANGED <<s3Vars, gen, beat, lost, missed, lapsed, faults>>

-----------------------------------------------------------------------------
(* put: the lease is checked again and the present result read; then the    *)
(* conditional write.  A newer owner's result stays, and so does a complete *)
(* result of the same generation.                                           *)
Newer(r) == result.gen > gen[r] \/ (result.gen = gen[r] /\ result.owner # r)

Downgrade(r) == result.gen = gen[r] /\ result.stage \in {"partial", "complete"} /\ stage[r] = "core"

AfterCommit(r) == IF stage[r] = "core" THEN "artifacts" ELSE "release"

\* Mutant: only the ETag guards the result, the generation does not.
CommitReadUnfenced(r) ==
    /\ pc[r] = "commit"
    /\ Go(r, "commitWrite") /\ resultSeen' = resultSeen \cup {r}
    /\ UNCHANGED <<lease, leaseSeen, result, stage, gen, beat, lost, missed, lapsed, faults>>

CommitRead(r) ==
    /\ pc[r] = "commit"
    /\ IF ~Owns(r) \/ Newer(r)
       THEN Go(r, "release") /\ UNCHANGED resultSeen
       ELSE IF Downgrade(r)
       THEN Go(r, AfterCommit(r)) /\ UNCHANGED resultSeen
       ELSE Go(r, "commitWrite") /\ resultSeen' = resultSeen \cup {r}
    /\ UNCHANGED <<lease, leaseSeen, result, stage, gen, beat, lost, missed, lapsed, faults>>

WriteResult(r) ==
    /\ result' = [owner |-> r, gen |-> gen[r], stage |-> stage[r], fresh |-> TRUE]
    /\ resultSeen' = {}

CommitWrite(r) ==
    /\ pc[r] = "commitWrite"
    /\ IF r \in resultSeen
       THEN WriteResult(r) /\ Go(r, AfterCommit(r))
       ELSE Go(r, "release") /\ UNCHANGED <<result, resultSeen>>
    /\ UNCHANGED <<lease, leaseSeen, stage, gen, beat, lost, missed, lapsed, faults>>

(* Retried from the renewal on, or given up.                                *)
\* Mutant: a failed write counts as a commit.
CommitRaisesUnnoticed(r) ==
    /\ pc[r] \in {"commit", "commitWrite"}
    /\ Fault
    /\ Go(r, AfterCommit(r))
    /\ UNCHANGED <<s3Vars, stage, gen, beat, lost, missed, lapsed>>

CommitRaises(r) ==
    /\ pc[r] \in {"commit", "commitWrite"}
    /\ Fault
    /\ \/ UNCHANGED <<result, resultSeen>>
       \/ pc[r] = "commitWrite" /\ r \in resultSeen /\ WriteResult(r)
    /\ pc' \in {[pc EXCEPT ![r] = to] : to \in {"precommit", "release"}}
    /\ UNCHANGED <<lease, leaseSeen, stage, gen, beat, lost, missed, lapsed>>

-----------------------------------------------------------------------------
(* release_lease, after the heartbeat was told to stop.                     *)
ReleaseRead(r) ==
    /\ pc[r] = "release"
    /\ IF lease.owner = r /\ lease.gen = gen[r]
       THEN Go(r, "releaseWrite") /\ leaseSeen' = leaseSeen \cup {Main(r)}
       ELSE Go(r, "ended") /\ UNCHANGED leaseSeen
    /\ UNCHANGED <<lease, result, resultSeen, stage, gen, beat, lost, missed, lapsed, faults>>

\* Mutant: the lease object is deleted, so generations count again from one.
ReleaseForgets(r) ==
    /\ pc[r] = "releaseWrite"
    /\ IF Main(r) \in leaseSeen THEN WriteLease(NoLease) ELSE UNCHANGED <<lease, leaseSeen>>
    /\ Go(r, "ended")
    /\ UNCHANGED <<result, resultSeen, stage, gen, beat, lost, missed, lapsed, faults>>

ReleaseWrite(r) ==
    /\ pc[r] = "releaseWrite"
    /\ IF Main(r) \in leaseSeen
       THEN WriteLease([lease EXCEPT !.state = "released"])
       ELSE UNCHANGED <<lease, leaseSeen>>
    /\ Go(r, "ended")
    /\ UNCHANGED <<result, resultSeen, stage, gen, beat, lost, missed, lapsed, faults>>

ReleaseRaises(r) ==
    /\ pc[r] \in {"release", "releaseWrite"}
    /\ Fault
    /\ \/ UNCHANGED <<lease, leaseSeen>>
       \/ pc[r] = "releaseWrite" /\ Main(r) \in leaseSeen
          /\ WriteLease([lease EXCEPT !.state = "released"])
    /\ Go(r, "ended")
    /\ UNCHANGED <<result, resultSeen, stage, gen, beat, lost, missed, lapsed>>

-----------------------------------------------------------------------------
(* The heartbeat thread: the same renewal, one at a time with assert_owned; *)
(* a write under way may outlive the run, whose close waits five seconds.   *)
Ending == {"release", "releaseWrite", "ended", "dead"}

HeartbeatRead(r) ==
    /\ beat[r] = "idle"
    /\ pc[r] \notin Ending /\ pc[r] \notin DOMAIN Renewed
    /\ IF Owns(r)
       THEN beat' = [beat EXCEPT ![r] = "write"] /\ leaseSeen' = leaseSeen \cup {Beat(r)}
            /\ UNCHANGED lost
       ELSE beat' = [beat EXCEPT ![r] = "off"] /\ lost' = lost \cup {r} /\ UNCHANGED leaseSeen
    /\ UNCHANGED <<lease, result, resultSeen, pc, stage, gen, missed, lapsed, faults>>

HeartbeatWrite(r) ==
    /\ beat[r] = "write" /\ pc[r] # "dead"
    /\ IF Beat(r) \in leaseSeen
       THEN WriteLease(Leased(r, gen[r])) /\ beat' = [beat EXCEPT ![r] = "idle"] /\ UNCHANGED lost
       ELSE beat' = [beat EXCEPT ![r] = "off"] /\ lost' = lost \cup {r}
            /\ UNCHANGED <<lease, leaseSeen>>
    /\ UNCHANGED <<result, resultSeen, pc, stage, gen, missed, lapsed, faults>>

HeartbeatRaises(r) ==
    /\ beat[r] = "write" /\ pc[r] # "dead"
    /\ Fault
    /\ \/ UNCHANGED <<lease, leaseSeen>>
       \/ Beat(r) \in leaseSeen /\ WriteLease(Leased(r, gen[r]))
    /\ beat' = [beat EXCEPT ![r] = "idle"]
    /\ UNCHANGED <<result, resultSeen, pc, stage, gen, lost, missed, lapsed>>

(* Time: nobody renews the lease of a run that ended or died.  A working    *)
(* owner's lease expires only when its renewals fail, or the whole process  *)
(* stands still, for the length of the lease: that is a fault.  The object  *)
(* itself does not change, so an ETag stays current.                        *)
AtWork(r) == pc[r] \notin {"lookup", "acquire", "inspect", "takeover", "relook", "ended", "dead"}

LeaseExpires ==
    /\ lease.state = "active"
    /\ lease' = [lease EXCEPT !.state = "expired"]
    /\ IF AtWork(lease.owner) /\ gen[lease.owner] = lease.gen
       THEN Fault /\ lapsed' = TRUE
       ELSE UNCHANGED <<lapsed, faults>>
    /\ UNCHANGED <<leaseSeen, result, resultSeen, runVars, missed>>

ResultExpires ==
    /\ result.fresh
    /\ result' = [result EXCEPT !.fresh = FALSE]
    /\ UNCHANGED <<lease, leaseSeen, resultSeen, runVars, missed, lapsed, faults>>

(* The process of a run is killed.                                          *)
Dies(r) ==
    /\ pc[r] \notin {"ended", "dead"}
    /\ Go(r, "dead")
    /\ UNCHANGED <<s3Vars, stage, gen, beat, lost, missed, lapsed, faults>>

Step(r) ==
    \/ Lookup(r) \/ AcquireNew(r) \/ Inspect(r) \/ TakeOver(r) \/ Relook(r) \/ Hold(r)
    \/ AssertRead(r) \/ AssertWrite(r) \/ Search(r) \/ BillingEnds(r) \/ ArtifactsEnd(r)
    \/ CommitRead(r) \/ CommitWrite(r) \/ ReleaseRead(r) \/ ReleaseWrite(r)
    \/ HeartbeatRead(r) \/ HeartbeatWrite(r)

Raises(r) ==
    \/ LookupMisses(r) \/ AcquireRaises(r) \/ TakeOverRaises(r) \/ HoldMisses(r)
    \/ AssertRaises(r) \/ CommitRaises(r) \/ ReleaseRaises(r) \/ HeartbeatRaises(r)

Next ==
    \/ \E r \in Run : Step(r) \/ Raises(r) \/ Dies(r)
    \/ LeaseExpires \/ ResultExpires

Spec == Init /\ [][Next]_vars

-----------------------------------------------------------------------------
TypeOK ==
    /\ lease \in [owner : Run \cup {None}, gen : Nat,
                  state : {"absent", "active", "expired", "released"}]
    /\ lease.state = "absent" <=> lease = NoLease
    /\ lease.owner = None <=> lease = NoLease
    /\ leaseSeen \subseteq Reader
    /\ result \in [owner : Run \cup {None}, gen : Nat,
                   stage : {"absent", "core", "partial", "complete"}, fresh : BOOLEAN]
    /\ resultSeen \subseteq Run
    /\ pc \in [Run -> {"lookup", "acquire", "inspect", "takeover", "relook", "hold", "search",
                       "boundary", "boundaryWrite", "billing", "artifacts", "finalize",
                       "precommit", "precommitWrite", "commit", "commitWrite", "release", "releaseWrite", "ended", "dead"}]
    /\ stage \in [Run -> {"core", "partial", "complete"}]
    /\ gen \in [Run -> Nat]
    /\ beat \in [Run -> {"off", "idle", "write"}]
    /\ lost \subseteq Run /\ missed \subseteq Run
    /\ lapsed \in BOOLEAN /\ faults \in 0..MaxFaults

(* One run pays at a time, however many threads and processes were given    *)
(* the same request, whichever calls fail and whoever is killed, unless a   *)
(* lease lapsed under a working owner.                                      *)
OneBiller == lapsed \/ \A r, s \in Run : pc[r] = "billing" /\ pc[s] = "billing" => r = s

(* No two runs ever hold the same generation, lapses included.              *)
OwnGeneration == \A r, s \in Run : gen[r] = gen[s] /\ gen[r] > 0 => r = s

(* An earlier owner never replaces the result of a later one, and a result  *)
(* is never taken back to the core stage by its own generation: for every   *)
(* order of expiry, takeover, delayed write and failed call.                *)
ResultFenced ==
    [][/\ result'.gen >= result.gen
       /\ result'.gen = result.gen /\ result.gen > 0 =>
             /\ result'.owner = result.owner
             /\ result.stage # "core" => result'.stage # "core"]_vars

(* What was paid for is stored, or a later owner's result is, before the    *)
(* artefacts are made, whichever writes raise, applied or not: a failed     *)
(* report or slide deck does not cost a second analysis.                    *)
PaidIsStored == \A r \in Run : pc[r] = "artifacts" => result.gen >= gen[r]

(* Nobody starts to pay while a usable result is stored, unless its own     *)
(* read of the result failed or a lease lapsed.                             *)
NotPaidTwice ==
    [][\A r \in Run : pc[r] = "boundaryWrite" /\ pc'[r] = "billing" =>
          ~result.fresh \/ lapsed \/ r \in missed]_vars
=============================================================================
