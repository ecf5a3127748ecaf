--------------------------- MODULE VideoLeaseProofs ---------------------------
(***************************************************************************)
(* What the generations of the lease guarantee, for any number of runs and *)
(* of faults.  Nobody needs a clock for it: that generations are not       *)
(* shared, and that a stale owner's result never replaces a newer one,     *)
(* holds also when a lease lapsed under its owner.  That one run pays, and *)
(* pays once, holds as long as none did.                                   *)
(***************************************************************************)
EXTENDS VideoLease, TLAPS

-----------------------------------------------------------------------------
(* The lease.                                                               *)

(* The object is of this run's lease, whatever its state.                   *)
Holds(r) == lease.owner = r /\ lease.gen = gen[r]

Writing == {"boundaryWrite", "precommitWrite", "releaseWrite"}

(* A generation below the object's is of the past; the object's own belongs *)
(* to its owner, and to whoever may still write it under a current ETag.    *)
FenceInv ==
    /\ \A r \in Run : gen[r] <= lease.gen
    /\ \A r \in Run : gen[r] = lease.gen /\ gen[r] > 0 => lease.owner = r
    /\ OwnGeneration
    /\ \A r \in Run : pc[r] \in Writing /\ Main(r) \in leaseSeen => Holds(r)
    /\ \A r \in Run : beat[r] = "write" /\ Beat(r) \in leaseSeen => Holds(r)

-----------------------------------------------------------------------------
(* The result.                                                              *)

(* Whoever may write the result under a current ETag would neither replace  *)
(* a newer one nor take a complete one of its own back to the core stage.   *)
ResultInv ==
    /\ result.stage = "absent" => result.gen = 0
    /\ \A r \in resultSeen : pc[r] = "commitWrite" => ~Newer(r) /\ ~Downgrade(r)
    /\ PaidIsStored

-----------------------------------------------------------------------------
(* Paying.                                                                  *)

Working == {"hold", "search", "boundary", "boundaryWrite", "billing", "artifacts", "finalize",
            "precommit", "precommitWrite", "commit", "commitWrite"}
Paying == {"search", "boundary", "boundaryWrite", "billing"}

(* No lease lapsed: then whoever is at work has an active lease, nobody can *)
(* take it over, and who goes on to pay does so without a stored result.    *)
PayInv ==
    ~lapsed =>
        /\ \A r \in Run : pc[r] \in Working => Holds(r) /\ lease.state = "active"
        /\ \A r \in Run : pc[r] = "takeover" /\ Main(r) \in leaseSeen => lease.state # "active"
        /\ \A r \in Run : pc[r] \in Paying /\ r \notin missed => ~result.fresh

Inv == TypeOK /\ FenceInv /\ ResultInv /\ PayInv

-----------------------------------------------------------------------------
(* Each run has two readers of the lease object of its own.                 *)
LEMMA Readers ==
    \A r, s \in Run : /\ Main(r) \in Reader /\ Beat(r) \in Reader /\ Main(r) # Beat(s)
                      /\ Main(r) = Main(s) => r = s
                      /\ Beat(r) = Beat(s) => r = s
BY DEF Main, Beat, Reader

(* The renewals, by their places.                                           *)
LEMMA Renewals ==
    /\ DOMAIN Renewing = {"boundary", "precommit"} /\ DOMAIN Renewed = {"boundaryWrite", "precommitWrite"}
    /\ DOMAIN Before = {"boundary", "boundaryWrite", "precommit", "precommitWrite"}
    /\ Renewing["boundary"] = "boundaryWrite" /\ Renewing["precommit"] = "precommitWrite"
    /\ Renewed["boundaryWrite"] = "billing" /\ Renewed["precommitWrite"] = "commit"
    /\ Before["boundary"] = "boundary" /\ Before["boundaryWrite"] = "boundary"
    /\ Before["precommit"] = "precommit" /\ Before["precommitWrite"] = "precommit"
BY DEF Renewing, Renewed, Before

-----------------------------------------------------------------------------
(* What the steps may change.                                               *)

(* A step of a run adds to the ETags and sets what is this run's only, and  *)
(* leaves the history of lapses alone.                                      *)
LEMMA RunFrame ==
    ASSUME NEW r \in Run, Step(r) \/ Raises(r) \/ Dies(r)
    PROVE  /\ leaseSeen' \subseteq leaseSeen \cup {Main(r), Beat(r)}
           /\ resultSeen' \subseteq resultSeen \cup {r}
           /\ lost' \subseteq lost \cup {r} /\ missed' \subseteq missed \cup {r}
           /\ UNCHANGED faults \/ Fault
           /\ UNCHANGED lapsed
BY DEF Step, Raises, WriteLease, WriteResult, Acquired, Lookup, LookupMisses, AcquireNew, AcquireRaises,
       Inspect, TakeOver, TakeOverRaises, Relook, Hold, HoldMisses, AssertRead, AssertWrite, AssertRaises,
       Search, BillingEnds, ArtifactsEnd, CommitRead, CommitWrite, CommitRaises, ReleaseRead, ReleaseWrite,
       ReleaseRaises, HeartbeatRead, HeartbeatWrite, HeartbeatRaises, Dies, s3Vars

(* The result changes in these ways only.                                   *)
LEMMA ResultChanges ==
    ASSUME [Next]_vars
    PROVE  \/ result' = result
           \/ result' = [result EXCEPT !.fresh = FALSE]
           \/ \E r \in Run : r \in resultSeen /\ pc[r] = "commitWrite" /\ WriteResult(r)
BY DEF Next, Step, Raises, Lookup, LookupMisses, AcquireNew, AcquireRaises, Inspect, TakeOver, TakeOverRaises,
       Relook, Hold, HoldMisses, AssertRead, AssertWrite, AssertRaises, Search, BillingEnds, ArtifactsEnd,
       CommitRead, CommitWrite, CommitRaises, ReleaseRead, ReleaseWrite, ReleaseRaises, HeartbeatRead,
       HeartbeatWrite, HeartbeatRaises, Dies, LeaseExpires, ResultExpires, vars, s3Vars

-----------------------------------------------------------------------------
(* Types.                                                                   *)

Places == {"lookup", "acquire", "inspect", "takeover", "relook", "hold", "search",
           "boundary", "boundaryWrite", "billing", "artifacts", "finalize",
           "precommit", "precommitWrite", "commit", "commitWrite", "release", "releaseWrite", "ended", "dead"}
LeaseOK ==
    /\ lease \in [owner : Run \cup {None}, gen : Nat, state : {"absent", "active", "expired", "released"}]
    /\ lease.state = "absent" <=> lease = NoLease
    /\ lease.owner = None <=> lease = NoLease
ResultOK ==
    result \in [owner : Run \cup {None}, gen : Nat,
                stage : {"absent", "core", "partial", "complete"}, fresh : BOOLEAN]
RunOK ==
    /\ pc \in [Run -> Places] /\ stage \in [Run -> {"core", "partial", "complete"}]
    /\ gen \in [Run -> Nat] /\ beat \in [Run -> {"off", "idle", "write"}]
RestOK ==
    /\ leaseSeen \subseteq Reader /\ resultSeen \subseteq Run
    /\ lost \subseteq Run /\ missed \subseteq Run
BoundsOK == lapsed \in BOOLEAN /\ faults \in 0..MaxFaults

(* The parts of the type invariant.                                         *)
LEMMA Types == TypeOK <=> LeaseOK /\ ResultOK /\ RunOK /\ RestOK /\ BoundsOK
BY DEF TypeOK, LeaseOK, ResultOK, RunOK, RestOK, BoundsOK, Places

(* ... and after a step.                                                    *)
LEMMA TypesNext == TypeOK' <=> LeaseOK' /\ ResultOK' /\ RunOK' /\ RestOK' /\ BoundsOK'
BY DEF TypeOK, LeaseOK, ResultOK, RunOK, RestOK, BoundsOK, Places

(* A lease that was written, ...                                            *)
LEMMA LeasedType ==
    ASSUME NEW r \in Run, NEW g \in Nat, lease' = Leased(r, g)
    PROVE  LeaseOK'
BY LeaseAssumption DEF LeaseAssumption, LeaseOK, Leased, NoLease

(* ... and one that ran out or was given back.                              *)
LEMMA MarkedType ==
    ASSUME LeaseOK, lease # NoLease, NEW how \in {"expired", "released"},
           lease' = [lease EXCEPT !.state = how]
    PROVE  LeaseOK'
<1>1. lease.owner \in Run /\ lease.gen \in Nat
    BY DEF LeaseOK
<1>2. lease' = [owner |-> lease.owner, gen |-> lease.gen, state |-> how]
    BY DEF LeaseOK
<1>3. QED
    BY <1>1, <1>2, LeaseAssumption DEF LeaseAssumption, LeaseOK, NoLease

(* A fault counts up within its bound.                                      *)
LEMMA FaultsBound == faults \in 0..MaxFaults /\ Fault => faults' \in 0..MaxFaults
BY LeaseAssumption DEF Fault, LeaseAssumption

(* The variables have their types at first.                                 *)
LEMMA TypesInit == Init => TypeOK
<1> SUFFICES ASSUME Init PROVE TypeOK
    OBVIOUS
<1>1. LeaseOK
    BY LeaseAssumption DEF Init, LeaseOK, NoLease, LeaseAssumption
<1>2. ResultOK
    BY DEF Init, ResultOK, NoResult
<1>3. RunOK
    BY DEF Init, RunOK, Places
<1>4. RestOK
    BY DEF Init, RestOK
<1>5. faults \in 0..MaxFaults
    BY LeaseAssumption DEF Init, LeaseAssumption
<1>6. BoundsOK
    BY <1>5 DEF Init, BoundsOK
<1>7. QED
    BY <1>1, <1>2, <1>3, <1>4, <1>6, Types

(* Every step keeps the type of the lease object, ...                       *)
LEMMA LeaseKept == TypeOK /\ FenceInv /\ [Next]_vars => LeaseOK'
<1> SUFFICES ASSUME TypeOK, FenceInv, [Next]_vars PROVE LeaseOK'
    OBVIOUS
<1>0. LeaseOK /\ gen \in [Run -> Nat] /\ (lease' = lease => LeaseOK')
    BY Types DEF LeaseOK, RunOK
<1>a. ASSUME NEW r \in Run, NEW g \in Nat, WriteLease(Leased(r, g)) PROVE LeaseOK'
    BY <1>a, LeasedType DEF WriteLease
<1>b. ASSUME NEW r \in Run, pc[r] = "releaseWrite", Main(r) \in leaseSeen,
             WriteLease([lease EXCEPT !.state = "released"])
      PROVE  LeaseOK'
    <2>1. lease.owner = r
        BY <1>b DEF FenceInv, Writing, Holds
    <2>2. lease # NoLease
        BY <2>1, LeaseAssumption DEF NoLease, LeaseAssumption
    <2>3. QED
        BY <1>0, <1>b, <2>2, MarkedType DEF WriteLease
<1>1. ASSUME NEW r \in Run, AcquireNew(r) \/ AcquireRaises(r) PROVE LeaseOK'
    BY <1>1, <1>0, <1>a DEF AcquireNew, AcquireRaises, Acquired
<1>2. ASSUME NEW r \in Run, TakeOver(r) \/ TakeOverRaises(r) PROVE LeaseOK'
    <2>1. lease.gen + 1 \in Nat
        BY <1>0 DEF LeaseOK
    <2>2. QED
        BY <1>2, <2>1, <1>0, <1>a DEF TakeOver, TakeOverRaises, Acquired
<1>3. ASSUME NEW r \in Run, AssertWrite(r) \/ AssertRaises(r) \/ HeartbeatWrite(r) \/ HeartbeatRaises(r) PROVE LeaseOK'
    BY <1>3, <1>0, <1>a DEF AssertWrite, AssertRaises, HeartbeatWrite, HeartbeatRaises
<1>4. ASSUME NEW r \in Run, ReleaseWrite(r) \/ ReleaseRaises(r) PROVE LeaseOK'
    BY <1>4, <1>0, <1>b DEF ReleaseWrite, ReleaseRaises
<1>5. ASSUME LeaseExpires PROVE LeaseOK'
    <2>1. lease # NoLease
        BY <1>5 DEF LeaseExpires, NoLease
    <2>2. QED
        BY <1>5, <1>0, <2>1, MarkedType DEF LeaseExpires
<1>6. ASSUME UNCHANGED lease PROVE LeaseOK'
    BY <1>6, <1>0
<1>7. QED
    BY <1>1, <1>2, <1>3, <1>4, <1>5, <1>6 DEF Next, Step, Raises, Lookup, LookupMisses, Inspect, Relook, Hold,
           HoldMisses, AssertRead, Search, BillingEnds, ArtifactsEnd, CommitRead, CommitWrite, CommitRaises,
           ReleaseRead, HeartbeatRead, Dies, ResultExpires, vars, s3Vars

(* ... of the result, ...                                                   *)
LEMMA ResultKept == TypeOK /\ [Next]_vars => ResultOK'
<1> SUFFICES ASSUME TypeOK, [Next]_vars PROVE ResultOK'
    OBVIOUS
<1>0. ResultOK /\ RunOK /\ (result' = result => ResultOK')
    BY Types DEF ResultOK
<1>1. ASSUME NEW r \in Run, WriteResult(r) PROVE ResultOK'
    BY <1>1, <1>0 DEF WriteResult, ResultOK, RunOK
<1>2. ASSUME result' = [result EXCEPT !.fresh = FALSE] PROVE ResultOK'
    BY <1>2, <1>0 DEF ResultOK
<1>3. QED
    BY <1>0, <1>1, <1>2, ResultChanges

(* ... of what the runs know, ...                                           *)
LEMMA RunKept == TypeOK /\ [Next]_vars => RunOK'
<1> SUFFICES ASSUME TypeOK, [Next]_vars PROVE RunOK'
    OBVIOUS
<1>0. RunOK /\ LeaseOK
    BY Types
<1>a. ASSUME NEW r \in Run, NEW to \in Places, Go(r, to), UNCHANGED <<stage, gen, beat>> PROVE RunOK'
    BY <1>a, <1>0 DEF Go, RunOK
<1>b. ASSUME NEW r \in Run, NEW g \in Nat, Acquired(r, g), UNCHANGED stage PROVE RunOK'
    BY <1>b, <1>0 DEF Acquired, Go, RunOK, Places
<1>c. ASSUME NEW r \in Run, NEW what \in {"core", "partial", "complete"}, Precommit(r, what),
             UNCHANGED <<gen, beat>>
      PROVE  RunOK'
    BY <1>c, <1>0 DEF Precommit, Go, RunOK, Places
<1>d. ASSUME NEW r \in Run, NEW how \in {"off", "idle", "write"}, beat' = [beat EXCEPT ![r] = how],
             UNCHANGED <<pc, stage, gen>>
      PROVE  RunOK'
    BY <1>d, <1>0 DEF RunOK
<1>1. ASSUME NEW r \in Run, AcquireNew(r) \/ TakeOver(r) PROVE RunOK'
    <2>1. lease.gen + 1 \in Nat
        BY <1>0 DEF LeaseOK
    <2>2. QED
        BY <1>1, <1>a, <1>b, <2>1 DEF AcquireNew, TakeOver, Places
<1>2. ASSUME NEW r \in Run, Search(r) \/ BillingEnds(r) \/ ArtifactsEnd(r) PROVE RunOK'
    BY <1>2, <1>a, <1>c DEF Search, BillingEnds, ArtifactsEnd, Go, Places
<1>3. ASSUME NEW r \in Run, HeartbeatRead(r) \/ HeartbeatWrite(r) \/ HeartbeatRaises(r) PROVE RunOK'
    BY <1>3, <1>d DEF HeartbeatRead, HeartbeatWrite, HeartbeatRaises
<1>4. ASSUME NEW r \in Run, Lookup(r) \/ LookupMisses(r) \/ Inspect(r) \/ Relook(r) \/ Dies(r) PROVE RunOK'
    BY <1>4, <1>a DEF Lookup, LookupMisses, Inspect, Relook, Dies, Places
<1>5. ASSUME NEW r \in Run, AcquireRaises(r) \/ TakeOverRaises(r) PROVE RunOK'
    BY <1>5, <1>a DEF AcquireRaises, TakeOverRaises, Go, Places
<1>6. ASSUME NEW r \in Run, Hold(r) \/ HoldMisses(r) PROVE RunOK'
    <2>1. AfterHold \in Places
        BY DEF AfterHold, Places
    <2>2. QED
        BY <1>6, <2>1, <1>a DEF Hold, HoldMisses, Places
<1>7. ASSUME NEW r \in Run, AssertRead(r) \/ AssertWrite(r) PROVE RunOK'
    BY <1>7, <1>a, Renewals DEF AssertRead, AssertWrite, Places
<1>8. ASSUME NEW r \in Run, AssertRaises(r) PROVE RunOK'
    BY <1>8, <1>a, Renewals DEF AssertRaises, Go, Places
<1>9. ASSUME NEW r \in Run, CommitRead(r) \/ CommitWrite(r) PROVE RunOK'
    BY <1>9, <1>a DEF CommitRead, CommitWrite, AfterCommit, Places
<1>10. ASSUME NEW r \in Run, CommitRaises(r) PROVE RunOK'
    BY <1>10, <1>a DEF CommitRaises, Go, Places
<1>11. ASSUME NEW r \in Run, ReleaseRead(r) \/ ReleaseWrite(r) \/ ReleaseRaises(r) PROVE RunOK'
    BY <1>11, <1>a DEF ReleaseRead, ReleaseWrite, ReleaseRaises, Places
<1>12. ASSUME UNCHANGED runVars PROVE RunOK'
    BY <1>12, <1>0 DEF runVars, RunOK
<1>13. QED
    BY <1>1, <1>2, <1>3, <1>4, <1>5, <1>6, <1>7, <1>8, <1>9, <1>10, <1>11, <1>12
    DEF Next, Step, Raises, LeaseExpires, ResultExpires, vars

(* ... and of the ETags, the sets of runs and the bounds.                   *)
LEMMA RestKept == TypeOK /\ [Next]_vars => RestOK' /\ BoundsOK'
<1> SUFFICES ASSUME TypeOK, [Next]_vars PROVE RestOK' /\ BoundsOK'
    OBVIOUS
<1>0. RestOK /\ BoundsOK
    BY Types
<1>1. RestOK'
    <2>1. ASSUME NEW r \in Run, Step(r) \/ Raises(r) \/ Dies(r) PROVE RestOK'
        BY <2>1, <1>0, RunFrame, Readers DEF RestOK
    <2>2. ASSUME LeaseExpires \/ ResultExpires \/ UNCHANGED vars PROVE RestOK'
        BY <2>2, <1>0 DEF LeaseExpires, ResultExpires, vars, s3Vars, runVars, RestOK
    <2>3. QED
        BY <2>1, <2>2 DEF Next
<1>2. faults' \in 0..MaxFaults
    <2>1. UNCHANGED faults \/ Fault
        BY RunFrame DEF Next, LeaseExpires, ResultExpires, vars
    <2>2. QED
        BY <1>0, <2>1, FaultsBound DEF BoundsOK
<1>3. lapsed' \in BOOLEAN
    <2>1. lapsed' = TRUE \/ lapsed' = lapsed
        BY RunFrame DEF Next, LeaseExpires, ResultExpires, vars
    <2>2. QED
        BY <2>1, <1>0 DEF BoundsOK
<1>4. QED
    BY <1>1, <1>2, <1>3 DEF BoundsOK

-----------------------------------------------------------------------------
(* The generations.                                                         *)

(* A step that leaves owner and generation of the object as they are, and   *)
(* brings nobody who is not the owner closer to a write, keeps the fence.   *)
LEMMA FenceSame ==
    ASSUME FenceInv, UNCHANGED gen, lease'.owner = lease.owner, lease'.gen = lease.gen,
           \A r \in Run : pc'[r] \in Writing /\ Main(r) \in leaseSeen' =>
               Holds(r) \/ (pc[r] \in Writing /\ Main(r) \in leaseSeen),
           \A r \in Run : beat'[r] = "write" /\ Beat(r) \in leaseSeen' =>
               Holds(r) \/ (beat[r] = "write" /\ Beat(r) \in leaseSeen)
    PROVE  FenceInv'
<1>1. \A r \in Run : Holds(r) => Holds(r)'
    BY DEF Holds
<1>2. \A r \in Run : pc'[r] \in Writing /\ Main(r) \in leaseSeen' => Holds(r)'
    BY <1>1 DEF FenceInv
<1>3. \A r \in Run : beat'[r] = "write" /\ Beat(r) \in leaseSeen' => Holds(r)'
    BY <1>1 DEF FenceInv
<1>4. OwnGeneration'
    BY DEF FenceInv, OwnGeneration
<1>5. QED
    BY <1>2, <1>3, <1>4 DEF FenceInv

(* So does one that writes a lease of a generation nobody had.              *)
LEMMA FenceNewer ==
    ASSUME FenceInv, gen \in [Run -> Nat], NEW r \in Run, NEW g \in Nat, WriteLease(Leased(r, g)),
           \A s \in Run : gen[s] < g,
           gen' = gen \/ gen' = [gen EXCEPT ![r] = g]
    PROVE  FenceInv'
<1>1. lease'.owner = r /\ lease'.gen = g /\ leaseSeen' = {}
    BY DEF WriteLease, Leased
<1>2. \A s \in Run : ~(s = r) => gen'[s] = gen[s] /\ gen[s] < g
    OBVIOUS
<1>3. gen'[r] = gen[r] \/ gen'[r] = g
    OBVIOUS
<1>4. gen[r] \in Nat /\ gen[r] < g
    OBVIOUS
<1>5. \A s \in Run : gen'[s] <= g
    BY <1>2, <1>3, <1>4
<1>6. \A s \in Run : gen'[s] = g => s = r
    BY <1>2
<1>7. OwnGeneration'
    BY <1>2, <1>3, <1>4, <1>6 DEF FenceInv, OwnGeneration
<1>8. QED
    BY <1>1, <1>5, <1>6, <1>7 DEF FenceInv

(* Every step keeps the fence.                                              *)
LEMMA FenceKept == TypeOK /\ FenceInv /\ [Next]_vars => FenceInv'
<1> SUFFICES ASSUME TypeOK, FenceInv, [Next]_vars PROVE FenceInv'
    OBVIOUS
<1>0. pc \in [Run -> Places] /\ beat \in [Run -> {"off", "idle", "write"}] /\ gen \in [Run -> Nat]
    BY Types DEF RunOK
<1>a. lease.gen \in Nat /\ \A r \in Run : gen[r] <= lease.gen
    BY Types DEF LeaseOK, FenceInv
<1>b. \A r \in Run : gen[r] < lease.gen + 1
    BY <1>0, <1>a
<1>c. lease = NoLease => \A r \in Run : gen[r] < 1
    BY <1>0, <1>a DEF NoLease
\* Nothing is written.
<1>d. ASSUME NEW r \in Run, NEW to, Go(r, to), to \notin Writing, UNCHANGED <<gen, beat>>,
             lease'.owner = lease.owner, lease'.gen = lease.gen,
             leaseSeen' \subseteq leaseSeen \cup {Main(r)}
      PROVE  FenceInv'
    <2>1. \A s \in Run : pc'[s] = IF s = r THEN to ELSE pc[s]
        BY <1>d, <1>0 DEF Go
    <2>2. \A s \in Run : Main(s) \in leaseSeen' => Main(s) \in leaseSeen \/ s = r
        BY <1>d, Readers
    <2>3. \A s \in Run : Beat(s) \in leaseSeen' => Beat(s) \in leaseSeen
        BY <1>d, Readers
    <2>4. QED
        BY <1>d, <2>1, <2>2, <2>3, FenceSame
\* A lease is renewed or given back.
<1>e. ASSUME UNCHANGED gen, lease'.owner = lease.owner, lease'.gen = lease.gen, leaseSeen' = {}
      PROVE  FenceInv'
    BY <1>e, FenceSame
<1>f. ASSUME NEW r \in Run, Holds(r), WriteLease(Leased(r, gen[r])), UNCHANGED gen PROVE FenceInv'
    BY <1>f, <1>e DEF WriteLease, Leased, Holds
<1>1. ASSUME NEW r \in Run, AcquireNew(r) PROVE FenceInv'
    BY <1>1, <1>0, <1>c, <1>d, FenceNewer DEF AcquireNew, Acquired, Writing
<1>2. ASSUME NEW r \in Run, AcquireRaises(r) PROVE FenceInv'
    <2>1. PICK to \in {"ended", "inspect"} : Go(r, to)
        BY <1>2 DEF AcquireRaises, Go
    <2>2. QED
        BY <1>2, <2>1, <1>0, <1>c, <1>d, FenceNewer DEF AcquireRaises, Writing
<1>3. ASSUME NEW r \in Run, Inspect(r) PROVE FenceInv'
    BY <1>3, <1>d DEF Inspect, Writing
<1>4. ASSUME NEW r \in Run, TakeOver(r) PROVE FenceInv'
    BY <1>4, <1>0, <1>a, <1>b, <1>d, FenceNewer DEF TakeOver, Acquired, Writing
<1>5. ASSUME NEW r \in Run, TakeOverRaises(r) PROVE FenceInv'
    BY <1>5, <1>0, <1>a, <1>b, <1>d, FenceNewer DEF TakeOverRaises, Writing
<1>6. ASSUME NEW r \in Run, AssertRead(r) PROVE FenceInv'
    <2>1. CASE ~lost' = lost
        BY <1>6, <2>1, <1>d, Renewals DEF AssertRead, Writing
    <2>2. CASE lost' = lost
        <3>1. UNCHANGED <<lease, gen, beat>> /\ \A s \in Run : ~(s = r) => pc'[s] = pc[s]
            BY <1>6, <1>0 DEF AssertRead, Go
        <3>2. Owns(r) => Holds(r)
            BY DEF Owns, Holds, Leased
        <3>3. leaseSeen' \subseteq leaseSeen \cup {Main(r)} /\ (pc'[r] \in Writing => Holds(r))
            BY <1>6, <3>2, <1>0, Renewals DEF AssertRead, Writing, Go
        <3>4. QED
            BY <3>1, <3>3, Readers, FenceSame
    <2>3. QED
        BY <2>1, <2>2
<1>7. ASSUME NEW r \in Run, AssertWrite(r) PROVE FenceInv'
    <2>1. Main(r) \in leaseSeen => Holds(r)
        BY <1>7, Renewals DEF AssertWrite, FenceInv, Writing
    <2>2. QED
        BY <1>7, <2>1, <1>d, <1>f DEF AssertWrite, Writing
<1>8. ASSUME NEW r \in Run, AssertRaises(r) PROVE FenceInv'
    <2>1. pc[r] \in DOMAIN Renewed /\ Main(r) \in leaseSeen => Holds(r)
        BY Renewals DEF FenceInv, Writing
    <2>2. PICK to \in {"boundary", "precommit", "release"} : Go(r, to)
        BY <1>8, Renewals DEF AssertRaises, Go
    <2>3. QED
        BY <1>8, <2>1, <2>2, <1>d, <1>f DEF AssertRaises, Writing
<1>9. ASSUME NEW r \in Run, ReleaseRead(r) PROVE FenceInv'
    <2>1. UNCHANGED <<lease, gen, beat>> /\ \A s \in Run : ~(s = r) => pc'[s] = pc[s]
        BY <1>9, <1>0 DEF ReleaseRead, Go
    <2>2. leaseSeen' \subseteq leaseSeen \cup {Main(r)} /\ (pc'[r] \in Writing => Holds(r))
        BY <1>9, <1>0 DEF ReleaseRead, Holds, Writing, Go
    <2>3. QED
        BY <2>1, <2>2, Readers, FenceSame
<1>10. ASSUME NEW r \in Run, ReleaseWrite(r) \/ ReleaseRaises(r) PROVE FenceInv'
    <2>1. Go(r, "ended") /\ UNCHANGED <<gen, beat>>
        BY <1>10 DEF ReleaseWrite, ReleaseRaises
    <2>2. UNCHANGED <<lease, leaseSeen>> \/ WriteLease([lease EXCEPT !.state = "released"])
        BY <1>10 DEF ReleaseWrite, ReleaseRaises
    <2>3. lease'.owner = lease.owner /\ lease'.gen = lease.gen
        BY <2>2, Types DEF WriteLease, LeaseOK
    <2>4. QED
        BY <2>1, <2>2, <2>3, <1>d DEF WriteLease, Writing
<1>11. ASSUME NEW r \in Run, HeartbeatRead(r) PROVE FenceInv'
    <2>1. UNCHANGED <<lease, gen, pc>> /\ \A s \in Run : ~(s = r) => beat'[s] = beat[s]
        BY <1>11, <1>0 DEF HeartbeatRead
    <2>2. leaseSeen' \subseteq leaseSeen \cup {Beat(r)} /\ (beat'[r] = "write" => Holds(r))
        BY <1>11, <1>0 DEF HeartbeatRead, Owns, Leased, Holds
    <2>3. QED
        BY <2>1, <2>2, Readers, FenceSame
<1>12. ASSUME NEW r \in Run, HeartbeatWrite(r) \/ HeartbeatRaises(r) PROVE FenceInv'
    <2>1. beat[r] = "write" /\ UNCHANGED <<gen, pc>>
        BY <1>12 DEF HeartbeatWrite, HeartbeatRaises
    <2>2. CASE UNCHANGED <<lease, leaseSeen>>
        <3>1. \A s \in Run : beat'[s] = "write" => beat[s] = "write"
            BY <1>12, <1>0 DEF HeartbeatWrite, HeartbeatRaises
        <3>2. QED
            BY <2>1, <2>2, <3>1, FenceSame
    <2>3. CASE Beat(r) \in leaseSeen /\ WriteLease(Leased(r, gen[r]))
        BY <2>1, <2>3, <1>f DEF FenceInv
    <2>4. QED
        BY <1>12, <2>2, <2>3 DEF HeartbeatWrite, HeartbeatRaises
<1>13. ASSUME LeaseExpires PROVE FenceInv'
    <2>1. lease'.owner = lease.owner /\ lease'.gen = lease.gen /\ UNCHANGED <<leaseSeen, gen, pc, beat>>
        BY <1>13, Types DEF LeaseExpires, runVars, LeaseOK
    <2>2. QED
        BY <2>1, FenceSame
<1>15. ASSUME NEW r \in Run,
              Lookup(r) \/ LookupMisses(r) \/ Relook(r) \/ Hold(r) \/ HoldMisses(r) \/ Dies(r)
       PROVE  FenceInv'
    <2>1. AfterHold \notin Writing
        BY DEF AfterHold, Writing
    <2>2. QED
        BY <1>15, <1>d, <2>1 DEF Lookup, LookupMisses, Relook, Hold, HoldMisses, Dies, s3Vars, Writing
<1>16. ASSUME NEW r \in Run, Search(r) \/ BillingEnds(r) \/ ArtifactsEnd(r) PROVE FenceInv'
    <2>1. PICK to \in {"precommit", "boundary", "release"} : Go(r, to)
        BY <1>16 DEF Search, BillingEnds, ArtifactsEnd, Precommit, Go
    <2>2. QED
        BY <1>16, <1>d, <2>1 DEF Search, BillingEnds, ArtifactsEnd, s3Vars, Writing
<1>17. ASSUME NEW r \in Run, CommitRead(r) \/ CommitWrite(r) \/ CommitRaises(r) PROVE FenceInv'
    <2>1. PICK to \in {"release", "artifacts", "commitWrite", "precommit"} : Go(r, to)
        BY <1>17 DEF CommitRead, CommitWrite, CommitRaises, AfterCommit, Go
    <2>2. QED
        BY <1>17, <1>d, <2>1 DEF CommitRead, CommitWrite, CommitRaises, Writing
<1>18. ASSUME ResultExpires \/ UNCHANGED vars PROVE FenceInv'
    BY <1>18, FenceSame DEF ResultExpires, vars, s3Vars, runVars
<1>19. QED
    BY <1>1, <1>2, <1>3, <1>4, <1>5, <1>6, <1>7, <1>8, <1>9, <1>10, <1>11, <1>12, <1>13, <1>15, <1>16,
       <1>17, <1>18 DEF Next, Step, Raises

-----------------------------------------------------------------------------
(* The result.                                                              *)

(* A step that leaves owner, generation and stage of the result as they     *)
(* are keeps what is known of it.                                           *)
LEMMA ResultSame ==
    ASSUME ResultInv, result'.owner = result.owner, result'.gen = result.gen, result'.stage = result.stage,
           \A r \in Run : pc'[r] \in {"commitWrite", "artifacts"} => gen'[r] = gen[r] /\ stage'[r] = stage[r],
           \A r \in Run : pc'[r] = "commitWrite" /\ r \in resultSeen' =>
               \/ pc[r] = "commitWrite" /\ r \in resultSeen
               \/ ~Newer(r) /\ ~Downgrade(r),
           \A r \in Run : pc'[r] = "artifacts" => pc[r] = "artifacts" \/ result.gen >= gen[r],
           resultSeen' \subseteq Run
    PROVE  ResultInv'
<1>1. \A r \in Run : pc'[r] = "commitWrite" /\ r \in resultSeen' => ~Newer(r) /\ ~Downgrade(r)
    BY DEF ResultInv
<1>2. \A r \in resultSeen' : pc'[r] = "commitWrite" => ~Newer(r)' /\ ~Downgrade(r)'
    BY <1>1 DEF Newer, Downgrade
<1>3. PaidIsStored'
    BY DEF ResultInv, PaidIsStored
<1>4. QED
    BY <1>2, <1>3 DEF ResultInv

(* A write under a current ETag replaces no newer result, and does not take *)
(* one of the same generation back.                                         *)
LEMMA ResultWritten ==
    ASSUME ResultOK, RunOK, ResultInv, NEW r \in resultSeen, r \in Run, pc[r] = "commitWrite", WriteResult(r)
    PROVE  /\ result'.gen >= result.gen
           /\ result'.gen = result.gen /\ result.gen > 0 =>
                 result'.owner = result.owner /\ (result.stage # "core" => result'.stage # "core")
<1>1. ~Newer(r) /\ ~Downgrade(r)
    BY DEF ResultInv
<1>2. result'.owner = r /\ result'.gen = gen[r] /\ result'.stage = stage[r]
    BY DEF WriteResult
<1>3. result.gen \in Nat /\ gen[r] \in Nat /\ result.stage \in {"absent", "core", "partial", "complete"}
    BY DEF ResultOK, RunOK
<1>4. result.gen > 0 => result.stage # "absent"
    BY <1>3 DEF ResultInv
<1>5. QED
    BY <1>1, <1>2, <1>3, <1>4 DEF Newer, Downgrade

(* Every step keeps what is known of the result.                            *)
LEMMA ResultInvKept == TypeOK /\ ResultInv /\ [Next]_vars => ResultInv'
<1> SUFFICES ASSUME TypeOK, ResultInv, [Next]_vars PROVE ResultInv'
    OBVIOUS
<1>0. ResultOK /\ RunOK /\ RestOK /\ RestOK' /\ RunOK'
    BY Types, RestKept, RunKept
<1>s. resultSeen \subseteq Run /\ resultSeen' \subseteq Run
    BY <1>0 DEF RestOK
<1>p. pc \in [Run -> Places] /\ gen \in [Run -> Nat] /\ stage \in [Run -> {"core", "partial", "complete"}]
    BY <1>0 DEF RunOK
\* Nobody comes to the write of the result or to the artefacts.
<1>d. ASSUME NEW r \in Run, NEW to, Go(r, to), to \notin {"commitWrite", "artifacts"}, UNCHANGED <<result, resultSeen>>,
             \A t \in Run : ~(t = r) => gen'[t] = gen[t] /\ stage'[t] = stage[t]
      PROVE  ResultInv'
    <2>1. \A t \in Run : pc'[t] = IF t = r THEN to ELSE pc[t]
        BY <1>d, <1>p DEF Go
    <2>2. QED
        BY <1>d, <1>s, <2>1, ResultSame
\* The result is written.
<1>w. ASSUME NEW r \in Run, r \in resultSeen, pc[r] = "commitWrite", WriteResult(r), NEW to, Go(r, to),
             to # "commitWrite", UNCHANGED <<gen, stage>>
      PROVE  ResultInv'
    <2>1. result'.gen >= result.gen /\ result'.gen = gen[r] /\ result'.stage = stage[r] /\ resultSeen' = {}
        BY <1>w, <1>0, ResultWritten DEF WriteResult
    <2>2. \A t \in Run : pc'[t] = IF t = r THEN to ELSE pc[t]
        BY <1>w, <1>p DEF Go
    <2>3. \A t \in Run : gen[t] \in Nat
        BY <1>p
    <2>4. result.gen \in Nat /\ result'.gen \in Nat
        BY <1>0, <2>1, <2>3 DEF ResultOK
    <2>5. \A t \in Run : pc[t] = "artifacts" => result.gen >= gen[t]
        BY DEF ResultInv, PaidIsStored
    <2>6. PaidIsStored'
        BY <1>w, <2>1, <2>2, <2>3, <2>4, <2>5 DEF PaidIsStored
    <2>7. result'.stage # "absent"
        BY <2>1, <1>p
    <2>8. QED
        BY <2>1, <2>6, <2>7 DEF ResultInv
<1>1. ASSUME NEW r \in Run, AcquireNew(r) \/ TakeOver(r) PROVE ResultInv'
    <2>1. PICK to \in {"hold", "inspect", "relook"} : Go(r, to)
        BY <1>1 DEF AcquireNew, TakeOver, Acquired
    <2>2. \A t \in Run : ~(t = r) => gen'[t] = gen[t] /\ stage'[t] = stage[t]
        BY <1>1, <1>p DEF AcquireNew, TakeOver, Acquired
    <2>3. QED
        BY <1>1, <1>d, <2>1, <2>2 DEF AcquireNew, TakeOver
<1>2. ASSUME NEW r \in Run, Search(r) \/ BillingEnds(r) \/ ArtifactsEnd(r) PROVE ResultInv'
    <2>1. PICK to \in {"precommit", "boundary", "release"} : Go(r, to)
        BY <1>2 DEF Search, BillingEnds, ArtifactsEnd, Precommit, Go
    <2>2. \A t \in Run : ~(t = r) => gen'[t] = gen[t] /\ stage'[t] = stage[t]
        BY <1>2, <1>p DEF Search, BillingEnds, ArtifactsEnd, Precommit
    <2>3. QED
        BY <1>2, <1>d, <2>1, <2>2 DEF Search, BillingEnds, ArtifactsEnd, s3Vars
<1>3. ASSUME NEW r \in Run, CommitRead(r) PROVE ResultInv'
    <2>1. UNCHANGED <<result, gen, stage>> /\ resultSeen' \subseteq resultSeen \cup {r}
        BY <1>3 DEF CommitRead
    <2>2. pc[r] = "commit" /\ \A t \in Run : ~(t = r) => pc'[t] = pc[t]
        BY <1>3, <1>p DEF CommitRead, Go
    <2>3. pc'[r] = "commitWrite" => ~Newer(r) /\ ~Downgrade(r)
        BY <1>3, <1>p DEF CommitRead, Go, AfterCommit
    <2>4. pc'[r] = "artifacts" => Downgrade(r)
        BY <1>3, <1>p DEF CommitRead, Go
    <2>5. gen[r] \in Nat
        BY <1>p
    <2>6. Downgrade(r) => result.gen >= gen[r]
        BY <2>5 DEF Downgrade
    <2>7. QED
        BY <1>s, <2>1, <2>2, <2>3, <2>4, <2>6, ResultSame
<1>4. ASSUME NEW r \in Run, CommitWrite(r) PROVE ResultInv'
    BY <1>4, <1>d, <1>w DEF CommitWrite, AfterCommit
<1>5. ASSUME NEW r \in Run, CommitRaises(r) PROVE ResultInv'
    <2>1. PICK to \in {"precommit", "release"} : Go(r, to)
        BY <1>5 DEF CommitRaises, Go
    <2>2. QED
        BY <1>5, <2>1, <1>d, <1>w DEF CommitRaises
<1>6. ASSUME NEW r \in Run, HeartbeatRead(r) \/ HeartbeatWrite(r) \/ HeartbeatRaises(r) PROVE ResultInv'
    BY <1>6, <1>s, ResultSame DEF HeartbeatRead, HeartbeatWrite, HeartbeatRaises
<1>7. ASSUME NEW r \in Run,
             Lookup(r) \/ LookupMisses(r) \/ AcquireRaises(r) \/ Inspect(r) \/ TakeOverRaises(r) \/ Relook(r)
             \/ Hold(r) \/ HoldMisses(r) \/ Dies(r)
      PROVE  ResultInv'
    <2>1. PICK to \in Places : Go(r, to) /\ to \notin {"commitWrite", "artifacts"}
        <3>1. AfterHold \in Places \ {"commitWrite", "artifacts"}
            BY DEF AfterHold, Places
        <3>2. QED
            BY <1>7, <3>1 DEF Lookup, LookupMisses, AcquireRaises, Inspect, TakeOverRaises, Relook, Hold,
                HoldMisses,
                              Dies, Go, Places
    <2>2. UNCHANGED <<result, resultSeen, gen, stage>>
        BY <1>7 DEF Lookup, LookupMisses, AcquireRaises, Inspect, TakeOverRaises, Relook, Hold,
            HoldMisses, Dies, s3Vars
    <2>3. QED
        BY <1>d, <2>1, <2>2
<1>8. ASSUME NEW r \in Run, AssertRead(r) \/ AssertWrite(r) \/ AssertRaises(r)
      PROVE  ResultInv'
    <2>1. PICK to \in Places : Go(r, to) /\ to \notin {"commitWrite", "artifacts"}
        BY <1>8, Renewals DEF AssertRead, AssertWrite, AssertRaises, Go, Places
    <2>2. UNCHANGED <<result, resultSeen, gen, stage>>
        BY <1>8 DEF AssertRead, AssertWrite, AssertRaises
    <2>3. QED
        BY <1>d, <2>1, <2>2
<1>9. ASSUME NEW r \in Run, ReleaseRead(r) \/ ReleaseWrite(r) \/ ReleaseRaises(r) PROVE ResultInv'
    BY <1>9, <1>d DEF ReleaseRead, ReleaseWrite, ReleaseRaises
<1>10. ASSUME LeaseExpires \/ ResultExpires \/ UNCHANGED vars PROVE ResultInv'
    <2>1. result'.owner = result.owner /\ result'.gen = result.gen /\ result'.stage = result.stage
        BY <1>10, <1>0 DEF LeaseExpires, ResultExpires, vars, s3Vars, ResultOK
    <2>2. UNCHANGED <<resultSeen, pc, gen, stage>>
        BY <1>10 DEF LeaseExpires, ResultExpires, vars, s3Vars, runVars
    <2>3. QED
        BY <1>s, <2>1, <2>2, ResultSame
<1>11. QED
    BY <1>1, <1>2, <1>3, <1>4, <1>5, <1>6, <1>7, <1>8, <1>9, <1>10 DEF Next, Step, Raises

-----------------------------------------------------------------------------
(* Paying.                                                                  *)

(* A step that leaves an active lease as it is, and brings nobody to work,  *)
(* to a takeover or past a stored result, keeps what is known of payers.    *)
LEMMA PaySame ==
    ASSUME PayInv, lapsed' = lapsed,
           lease'.owner = lease.owner, lease'.gen = lease.gen, lease.state = "active" => lease'.state = "active",
           \A r \in Run : pc'[r] \in Working => pc[r] \in Working /\ gen'[r] = gen[r],
           \A r \in Run : pc'[r] = "takeover" /\ Main(r) \in leaseSeen' => lease'.state # "active",
           \A r \in Run : pc'[r] \in Paying => r \in missed' \/ ~result'.fresh \/ (pc[r] \in Paying /\ r \notin missed),
           result'.fresh => result.fresh
    PROVE  PayInv'
<1> SUFFICES ASSUME ~lapsed PROVE PayInv'
    BY DEF PayInv
<1>1. \A r \in Run : pc'[r] \in Working => Holds(r)' /\ lease'.state = "active"
    BY DEF PayInv, Holds
<1>2. \A r \in Run : pc'[r] \in Paying /\ r \notin missed' => ~result'.fresh
    BY DEF PayInv
<1>3. QED
    BY <1>1, <1>2 DEF PayInv

(* One at most is at work.                                                  *)
LEMMA OneAtWork ==
    ASSUME PayInv, ~lapsed, NEW r \in Run, NEW s \in Run, pc[r] \in Working, pc[s] \in Working
    PROVE  r = s
BY DEF PayInv, Holds

(* Every step keeps what is known of those who pay.                         *)
LEMMA PayKept == TypeOK /\ FenceInv /\ PayInv /\ [Next]_vars => PayInv'
<1> SUFFICES ASSUME TypeOK, FenceInv, PayInv, [Next]_vars PROVE PayInv'
    OBVIOUS
<1>0. LeaseOK /\ pc \in [Run -> Places] /\ gen \in [Run -> Nat]
    BY Types DEF RunOK
\* The lease stays.
<1>d. ASSUME NEW r \in Run, NEW to, Go(r, to), to # "takeover", to \in Working => pc[r] \in Working,
             to \in Paying => r \in missed' \/ ~result.fresh \/ (pc[r] \in Paying /\ r \notin missed),
             UNCHANGED <<gen, lease, result, lapsed>>, missed \subseteq missed',
             leaseSeen' \subseteq leaseSeen \cup {Main(r)}
      PROVE  PayInv'
    <2>1. \A t \in Run : pc'[t] = IF t = r THEN to ELSE pc[t]
        BY <1>d, <1>0 DEF Go
    <2>2. CASE lapsed
        BY <1>d, <2>2 DEF PayInv
    <2>3. CASE ~lapsed
        <3>1. \A t \in Run : pc'[t] = "takeover" /\ Main(t) \in leaseSeen' => lease'.state # "active"
            BY <1>d, <2>1, <2>3, Readers DEF PayInv
        <3>2. \A t \in Run : pc'[t] \in Paying =>
                  t \in missed' \/ ~result'.fresh \/ (pc[t] \in Paying /\ t \notin missed)
            BY <1>d, <2>1
        <3>3. QED
            BY <1>d, <2>1, <3>1, <3>2, PaySame
    <2>4. QED
        BY <2>2, <2>3
\* The lease is renewed.
<1>f. ASSUME NEW r \in Run, Holds(r), WriteLease(Leased(r, gen[r])), UNCHANGED <<gen, result, missed, lapsed>>,
             \A t \in Run : pc'[t] \in Working => pc[t] \in Working,
             \A t \in Run : pc'[t] \in Paying => pc[t] \in Paying
      PROVE  PayInv'
    <2>1. lease'.owner = lease.owner /\ lease'.gen = lease.gen /\ lease'.state = "active" /\ leaseSeen' = {}
        BY <1>f DEF WriteLease, Leased, Holds
    <2>2. QED
        BY <1>f, <2>1, PaySame
\* A lease that is not active is replaced.
<1>n. ASSUME NEW r \in Run, NEW g, lease.state # "active", WriteLease(Leased(r, g)),
             \A t \in Run : ~(t = r) => pc'[t] = pc[t],
             pc'[r] \notin Paying, pc'[r] \in Working => gen'[r] = g, UNCHANGED lapsed
      PROVE  PayInv'
    <2>1. lease'.owner = r /\ lease'.gen = g /\ lease'.state = "active" /\ leaseSeen' = {}
        BY <1>n DEF WriteLease, Leased
    <2>2. CASE lapsed
        BY <1>n, <2>2 DEF PayInv
    <2>3. CASE ~lapsed
        <3>1. \A t \in Run : pc[t] \notin Working /\ pc[t] \notin Paying
            BY <1>n, <2>3 DEF PayInv, Working, Paying
        <3>2. \A t \in Run : pc'[t] \in Working => Holds(t)'
            BY <1>n, <2>1, <3>1 DEF Holds
        <3>3. \A t \in Run : pc'[t] \notin Paying
            BY <1>n, <3>1
        <3>4. QED
            BY <2>1, <3>2, <3>3 DEF PayInv
    <2>4. QED
        BY <2>2, <2>3
<1>a. lease = NoLease => lease.state # "active"
    BY DEF NoLease
<1>b. ASSUME ~lapsed, NEW r \in Run, pc[r] = "takeover", Main(r) \in leaseSeen PROVE lease.state # "active"
    BY <1>b DEF PayInv
<1>1. ASSUME NEW r \in Run, AcquireNew(r) PROVE PayInv'
    <2>1. CASE Go(r, "inspect") /\ UNCHANGED <<lease, leaseSeen, gen>>
        BY <1>1, <2>1, <1>d DEF AcquireNew, Working, Paying
    <2>2. CASE lease = NoLease /\ Acquired(r, 1)
        BY <1>1, <2>2, <1>0, <1>a, <1>n DEF AcquireNew, Acquired, Go, Working, Paying
    <2>3. QED
        BY <1>1, <2>1, <2>2 DEF AcquireNew
<1>2. ASSUME NEW r \in Run, AcquireRaises(r) PROVE PayInv'
    <2>1. PICK to \in {"ended", "inspect"} : Go(r, to)
        BY <1>2 DEF AcquireRaises, Go
    <2>2. CASE UNCHANGED <<lease, leaseSeen>>
        BY <1>2, <2>1, <2>2, <1>d DEF AcquireRaises, Working, Paying
    <2>3. CASE lease = NoLease /\ WriteLease(Leased(r, 1))
        BY <1>2, <2>1, <2>3, <1>0, <1>a, <1>n DEF AcquireRaises, Go, Working, Paying
    <2>4. QED
        BY <1>2, <2>2, <2>3 DEF AcquireRaises
<1>3. ASSUME NEW r \in Run, Inspect(r) PROVE PayInv'
    <2>1. CASE Go(r, "relook") /\ UNCHANGED leaseSeen
        BY <1>3, <2>1, <1>d DEF Inspect, Working, Paying
    <2>2. CASE Takeable /\ Go(r, "takeover")
        <3>1. \A t \in Run : pc'[t] \in Working \cup Paying => pc[t] = pc'[t]
            BY <2>2, <1>0 DEF Go, Working, Paying
        <3>2. UNCHANGED <<lease, result, gen, missed, lapsed>> /\ lease.state # "active"
            BY <1>3, <2>2 DEF Inspect, Takeable
        <3>3. QED
            BY <3>1, <3>2, PaySame DEF PayInv
    <2>3. QED
        BY <1>3, <2>1, <2>2 DEF Inspect
<1>4. ASSUME NEW r \in Run, TakeOver(r) \/ TakeOverRaises(r) PROVE PayInv'
    <2>1. PICK to \in {"hold", "relook", "ended"} : Go(r, to)
        BY <1>4 DEF TakeOver, TakeOverRaises, Acquired
    <2>2. CASE UNCHANGED <<lease, leaseSeen, gen>> /\ to # "hold"
        BY <1>4, <2>1, <2>2, <1>d DEF TakeOver, TakeOverRaises, Working, Paying
    <2>3. CASE /\ pc[r] = "takeover" /\ Main(r) \in leaseSeen /\ WriteLease(Leased(r, lease.gen + 1))
               /\ to = "hold" => gen'[r] = lease.gen + 1
        <3>1. CASE lapsed
            BY <1>4, <3>1 DEF TakeOver, TakeOverRaises, PayInv
        <3>2. CASE ~lapsed
            <4>1. UNCHANGED lapsed /\ pc'[r] = to /\ \A t \in Run : ~(t = r) => pc'[t] = pc[t]
                BY <1>4, <2>1, <1>0 DEF TakeOver, TakeOverRaises, Go
            <4>2. to \notin Paying /\ (to \in Working => to = "hold")
                BY DEF Working, Paying
            <4>3. QED
                BY <2>3, <3>2, <4>1, <4>2, <1>b, <1>n
        <3>3. QED
            BY <3>1, <3>2
    <2>4. QED
        BY <1>4, <2>1, <2>2, <2>3, <1>0 DEF TakeOver, TakeOverRaises, Acquired, Go
<1>5. ASSUME NEW r \in Run, Hold(r) PROVE PayInv'
    <2>1. AfterHold # "takeover" /\ (AfterHold \in Paying => ~result.fresh)
        BY DEF AfterHold, Paying, HasArtifacts
    <2>2. QED
        BY <1>5, <2>1, <1>d DEF Hold, s3Vars, Working
<1>6. ASSUME NEW r \in Run, HoldMisses(r) PROVE PayInv'
    BY <1>6, <1>d DEF HoldMisses, s3Vars, Working
<1>7. ASSUME NEW r \in Run, AssertRead(r) PROVE PayInv'
    <2>1. UNCHANGED <<lease, result, gen, missed, lapsed>> /\ leaseSeen' \subseteq leaseSeen \cup {Main(r)}
        BY <1>7 DEF AssertRead
    <2>2. CASE Go(r, "release")
        BY <2>1, <2>2, <1>d DEF Working, Paying
    <2>3. CASE pc[r] = "boundary" /\ Go(r, "boundaryWrite")
        <3>1. r \in missed \/ r \notin missed
            OBVIOUS
        <3>2. pc[r] \in Working /\ pc[r] \in Paying
            BY <2>3 DEF Working, Paying
        <3>3. QED
            BY <2>1, <2>3, <3>1, <3>2, <1>d
    <2>4. CASE pc[r] = "precommit" /\ Go(r, "precommitWrite")
        BY <2>1, <2>4, <1>d DEF Working, Paying
    <2>5. QED
        BY <1>7, <2>2, <2>3, <2>4, Renewals DEF AssertRead
<1>8. ASSUME NEW r \in Run, AssertWrite(r) \/ AssertRaises(r) PROVE PayInv'
    <2>1. PICK to \in {"boundary", "precommit", "billing", "commit", "release"} :
             Go(r, to) /\ (to \in Paying => pc[r] \in Paying) /\ pc[r] \in Working
        BY <1>8, Renewals DEF AssertWrite, AssertRaises, Go, Paying, Working
    <2>2. UNCHANGED <<gen, result, missed, lapsed>>
        BY <1>8 DEF AssertWrite, AssertRaises
    <2>3. CASE UNCHANGED <<lease, leaseSeen>>
        <3>1. r \in missed \/ r \notin missed
            OBVIOUS
        <3>2. QED
            BY <2>1, <2>2, <2>3, <3>1, <1>d
    <2>4. CASE pc[r] \in DOMAIN Renewed /\ Main(r) \in leaseSeen /\ WriteLease(Leased(r, gen[r]))
        <3>1. Holds(r)
            BY <2>4, Renewals DEF FenceInv, Writing
        <3>2. \A t \in Run : pc'[t] = IF t = r THEN to ELSE pc[t]
            BY <2>1, <1>0 DEF Go
        <3>3. QED
            BY <2>1, <2>2, <2>4, <3>1, <3>2, <1>f
    <2>5. QED
        BY <1>8, <2>3, <2>4 DEF AssertWrite, AssertRaises
<1>9. ASSUME NEW r \in Run, Search(r) \/ BillingEnds(r) PROVE PayInv'
    <2>1. PICK to \in {"precommit", "boundary", "release"} : Go(r, to)
        BY <1>9 DEF Search, BillingEnds, Precommit, Go
    <2>2. pc[r] \in Working /\ pc[r] \in Paying /\ UNCHANGED <<gen, result, lease, leaseSeen, missed, lapsed>>
        BY <1>9 DEF Search, BillingEnds, s3Vars, Working, Paying
    <2>3. QED
        BY <2>1, <2>2, <1>d
<1>10. ASSUME NEW r \in Run, ArtifactsEnd(r) PROVE PayInv'
    <2>1. PICK to \in {"precommit", "release"} : Go(r, to)
        BY <1>10 DEF ArtifactsEnd, Precommit
    <2>2. QED
        BY <1>10, <2>1, <1>d DEF ArtifactsEnd, s3Vars, Working, Paying
<1>11. ASSUME NEW r \in Run, CommitRead(r) \/ CommitWrite(r) \/ CommitRaises(r) PROVE PayInv'
    <2>1. PICK to \in {"release", "artifacts", "commitWrite", "precommit"} : Go(r, to)
        BY <1>11 DEF CommitRead, CommitWrite, CommitRaises, AfterCommit, Go
    <2>2. /\ UNCHANGED <<gen, lease, leaseSeen, missed, lapsed>>
          /\ pc[r] \in Working /\ to \notin Paying /\ to # "takeover"
        BY <1>11, <2>1 DEF CommitRead, CommitWrite, CommitRaises, Working, Paying
    <2>3. CASE UNCHANGED result
        BY <2>1, <2>2, <2>3, <1>d
    <2>4. CASE lapsed
        BY <2>2, <2>4 DEF PayInv
    <2>5. CASE ~lapsed
        <3>1. \A t \in Run : pc'[t] = IF t = r THEN to ELSE pc[t]
            BY <2>1, <1>0 DEF Go
        <3>2. \A t \in Run : pc[t] \in Paying => t = r
            BY <2>2, <2>5, OneAtWork DEF Working, Paying
        <3>3. \A t \in Run : pc'[t] \notin Paying
            BY <2>2, <3>1, <3>2
        <3>4. \A t \in Run : pc'[t] \in Working => Holds(t)' /\ lease'.state = "active"
            BY <2>2, <2>5, <3>1 DEF PayInv, Holds
        <3>5. \A t \in Run : pc'[t] = "takeover" /\ Main(t) \in leaseSeen' => lease'.state # "active"
            BY <2>2, <2>5, <3>1 DEF PayInv
        <3>6. QED
            BY <3>3, <3>4, <3>5 DEF PayInv
    <2>6. QED
        BY <2>4, <2>5
<1>12. ASSUME NEW r \in Run, ReleaseRead(r) PROVE PayInv'
    BY <1>12, <1>d DEF ReleaseRead, Working, Paying
<1>13. ASSUME NEW r \in Run, ReleaseWrite(r) \/ ReleaseRaises(r) PROVE PayInv'
    <2>1. Go(r, "ended") /\ UNCHANGED <<result, gen, missed, lapsed>>
        BY <1>13 DEF ReleaseWrite, ReleaseRaises
    <2>2. CASE UNCHANGED <<lease, leaseSeen>>
        BY <2>1, <2>2, <1>d DEF Working, Paying
    <2>3. CASE pc[r] = "releaseWrite" /\ Main(r) \in leaseSeen /\ WriteLease([lease EXCEPT !.state = "released"])
        <3>1. Holds(r)
            BY <2>3 DEF FenceInv, Writing
        <3>2. CASE lapsed
            BY <2>1, <3>2 DEF PayInv
        <3>3. CASE ~lapsed
            <4>1. \A t \in Run : pc[t] \in Working => t = r
                BY <3>1, <3>3 DEF PayInv, Holds
            <4>2. \A t \in Run : pc'[t] \notin Working /\ pc'[t] \notin Paying
                BY <2>1, <2>3, <4>1, <1>0 DEF Go, Working, Paying
            <4>3. leaseSeen' = {}
                BY <2>3 DEF WriteLease
            <4>4. QED
                BY <4>2, <4>3 DEF PayInv
        <3>4. QED
            BY <3>2, <3>3
    <2>4. QED
        BY <1>13, <2>2, <2>3 DEF ReleaseWrite, ReleaseRaises
<1>14. ASSUME NEW r \in Run, HeartbeatRead(r) PROVE PayInv'
    <2>1. UNCHANGED <<lease, result, gen, pc, missed, lapsed>> /\ leaseSeen' \subseteq leaseSeen \cup {Beat(r)}
        BY <1>14 DEF HeartbeatRead
    <2>2. \A t \in Run : Main(t) \in leaseSeen' => Main(t) \in leaseSeen
        BY <2>1, Readers
    <2>3. QED
        BY <2>1, <2>2 DEF PayInv, Holds
<1>15. ASSUME NEW r \in Run, HeartbeatWrite(r) \/ HeartbeatRaises(r) PROVE PayInv'
    <2>1. UNCHANGED <<result, gen, pc, missed, lapsed>> /\ beat[r] = "write"
        BY <1>15 DEF HeartbeatWrite, HeartbeatRaises
    <2>2. CASE UNCHANGED <<lease, leaseSeen>>
        BY <2>1, <2>2 DEF PayInv, Holds
    <2>3. CASE Beat(r) \in leaseSeen /\ WriteLease(Leased(r, gen[r]))
        <3>1. Holds(r)
            BY <2>1, <2>3 DEF FenceInv
        <3>2. QED
            BY <2>1, <2>3, <3>1, <1>f
    <2>4. QED
        BY <1>15, <2>2, <2>3 DEF HeartbeatWrite, HeartbeatRaises
<1>16. ASSUME NEW r \in Run, Lookup(r) \/ LookupMisses(r) \/ Relook(r) \/ Dies(r) PROVE PayInv'
    BY <1>16, <1>d DEF Lookup, LookupMisses, Relook, Dies, s3Vars, Working, Paying
<1>17. ASSUME LeaseExpires PROVE PayInv'
    <2>1. UNCHANGED <<leaseSeen, result, pc, gen, missed>> /\ lease'.state = "expired"
        BY <1>17, <1>0 DEF LeaseExpires, runVars, LeaseOK
    <2>2. CASE lapsed'
        BY <2>2 DEF PayInv
    <2>3. CASE ~lapsed'
        <3>1. ~lapsed /\ ~(AtWork(lease.owner) /\ gen[lease.owner] = lease.gen)
            BY <1>17, <2>3 DEF LeaseExpires
        <3>2. \A t \in Run : pc[t] \in Working => AtWork(t) /\ Holds(t)
            BY <3>1 DEF PayInv, Working, AtWork
        <3>3. \A t \in Run : pc[t] \notin Working
            BY <3>1, <3>2 DEF Holds
        <3>4. \A t \in Run : pc'[t] \notin Working /\ pc'[t] \notin Paying
            BY <2>1, <3>3 DEF Working, Paying
        <3>5. QED
            BY <2>1, <3>4 DEF PayInv
    <2>4. QED
        BY <2>2, <2>3
<1>18. ASSUME ResultExpires PROVE PayInv'
    <2>1. UNCHANGED <<lease, leaseSeen, pc, gen, missed, lapsed>> /\ result' = [result EXCEPT !.fresh = FALSE]
        BY <1>18 DEF ResultExpires, runVars
    <2>2. ~result'.fresh
        BY <2>1, Types DEF ResultOK
    <2>3. QED
        BY <2>1, <2>2 DEF PayInv, Holds
<1>19. ASSUME UNCHANGED vars PROVE PayInv'
    BY <1>19 DEF vars, s3Vars, runVars, PayInv, Holds
<1>20. QED
    BY <1>1, <1>2, <1>3, <1>4, <1>5, <1>6, <1>7, <1>8, <1>9, <1>10, <1>11, <1>12, <1>13, <1>14, <1>15, <1>16,
       <1>17, <1>18, <1>19 DEF Next, Step, Raises

-----------------------------------------------------------------------------
(* The theorems.                                                            *)

(* Types, fence, result and payers together hold in every state.            *)
THEOREM LeaseInvariant == Spec => []Inv
<1>1. Init => Inv
    <2> SUFFICES ASSUME Init PROVE Inv
        OBVIOUS
    <2>1. FenceInv
        BY DEF Init, FenceInv, OwnGeneration, NoLease, Holds
    <2>2. ResultInv
        BY DEF Init, ResultInv, NoResult, PaidIsStored
    <2>3. PayInv
        BY DEF Init, PayInv, Working, Paying
    <2>4. QED
        BY <2>1, <2>2, <2>3, TypesInit DEF Inv
<1>2. Inv /\ [Next]_vars => Inv'
    <2> SUFFICES ASSUME Inv, [Next]_vars PROVE Inv'
        OBVIOUS
    <2>1. TypeOK'
        BY LeaseKept, ResultKept, RunKept, RestKept, TypesNext DEF Inv
    <2>2. QED
        BY <2>1, FenceKept, ResultInvKept, PayKept DEF Inv
<1>3. QED
    BY <1>1, <1>2, PTL DEF Spec

(* The variables of every run keep their types.                             *)
THEOREM LeaseTyping == Spec => []TypeOK
<1>1. Inv => TypeOK
    BY DEF Inv
<1>2. QED
    BY <1>1, LeaseInvariant, PTL

(* No two runs are ever given the same generation of the lease, whichever   *)
(* calls of acquire_lease and renew_lease raise, applied or not.            *)
THEOREM GenerationsApart == Spec => []OwnGeneration
<1>1. Inv => OwnGeneration
    BY DEF Inv, FenceInv
<1>2. QED
    BY <1>1, LeaseInvariant, PTL

(* One run pays at a time, unless a lease lapsed under a working owner.     *)
THEOREM OnePays == Spec => []OneBiller
<1>1. Inv => OneBiller
    BY OneAtWork DEF Inv, OneBiller, Working
<1>2. QED
    BY <1>1, LeaseInvariant, PTL

(* Before the artefacts are made, the result of this owner or of a later    *)
(* one is stored, however many commits raised.                              *)
THEOREM CoreIsStored == Spec => []PaidIsStored
<1>1. Inv => PaidIsStored
    BY DEF Inv, ResultInv
<1>2. QED
    BY <1>1, LeaseInvariant, PTL

(* put never replaces the result of a later owner, and never takes one of   *)
(* its own generation back to the core stage.                               *)
THEOREM ResultsAdvance == Spec => ResultFenced
<1> DEFINE Fenced ==
        /\ result'.gen >= result.gen
        /\ result'.gen = result.gen /\ result.gen > 0 =>
              /\ result'.owner = result.owner
              /\ result.stage # "core" => result'.stage # "core"
<1>1. Inv /\ [Next]_vars => [Fenced]_vars
    <2> SUFFICES ASSUME Inv, [Next]_vars PROVE Fenced
        OBVIOUS
    <2>1. ResultOK /\ RunOK /\ RestOK /\ ResultInv
        BY Types DEF Inv
    <2>2. CASE result'.owner = result.owner /\ result'.gen = result.gen /\ result'.stage = result.stage
        BY <2>1, <2>2 DEF ResultOK
    <2>3. CASE \E r \in Run : r \in resultSeen /\ pc[r] = "commitWrite" /\ WriteResult(r)
        BY <2>1, <2>3, ResultWritten
    <2>4. QED
        BY <2>1, <2>2, <2>3, ResultChanges DEF ResultOK
<1>2. QED
    BY <1>1, LeaseInvariant, PTL DEF Spec, ResultFenced

(* Nobody goes on to a paid call while a usable result is stored, unless    *)
(* its own read of it failed or a lease lapsed.                             *)
THEOREM NoSecondPayment == Spec => NotPaidTwice
<1> DEFINE Payment == \A r \in Run : pc[r] = "boundaryWrite" /\ pc'[r] = "billing" =>
                        ~result.fresh \/ lapsed \/ r \in missed
<1>1. Inv /\ [Next]_vars => [Payment]_vars
    BY DEF Inv, PayInv, Paying
<1>2. QED
    BY <1>1, LeaseInvariant, PTL DEF Spec, NotPaidTwice
=============================================================================
