------------------------- MODULE DetachedJobsProofs -------------------------
(* Proofs about DetachedJobs for any set of requests and any limits.       *)
EXTENDS DetachedJobs, SequenceTheorems, FiniteSetTheorems, WellFoundedInduction, TLAPS

-----------------------------------------------------------------------------
(* What the queue operators return.                                        *)

(* The least element of a set of numbers, which names a place in the queue. *)
LEMMA MinOfNaturals ==
    ASSUME NEW T, T \subseteq Nat, T # {}
    PROVE  Min(T) \in T /\ \A y \in T : Min(T) <= y
<1>1. PICK x \in T : \A y \in T : ~(<<y, x>> \in OpToRel(<, Nat))
    BY NatLessThanWellFounded, WFMin
<1>2. ASSUME NEW y \in T PROVE x <= y
    <2>1. <<y, x>> \in Nat \X Nat
        OBVIOUS
    <2>2. ~(<<y, x>>[1] < <<y, x>>[2])
        BY <1>1, <2>1, Zenon DEF OpToRel
    <2>3. QED
        BY <2>2
<1>3. QED
    BY <1>2 DEF Min

(* A part of a queue of S is a queue of S, with the elements of the part.   *)
LEMMA PartOfQueue ==
    ASSUME NEW S, NEW q \in Seq(S), NEW m \in 1..(Len(q) + 1), NEW n \in 0..Len(q), m <= n + 1
    PROVE  /\ SubSeq(q, m, n) \in Seq(S)
           /\ Len(SubSeq(q, m, n)) = n - m + 1
           /\ \A i \in 1..(n - m + 1) : SubSeq(q, m, n)[i] = q[m + i - 1]
<1>1. Len(q) \in Nat /\ \A i \in 1..Len(q) : q[i] \in S
    BY LenProperties, ElementOfSeq
<1>2. \A i \in m..n : q[i] \in S
    BY <1>1
<1>3. m \in Int /\ n \in Int
    BY <1>1
<1>4. SubSeq(q, m, n) \in Seq(S)
    BY <1>2, <1>3, SubSeqProperties, Zenon
<1>5. Len(SubSeq(q, m, n)) = n - m + 1
    <2>1. Len(SubSeq(q, m, n)) = IF m <= n THEN n - m + 1 ELSE 0
        BY <1>2, <1>3, SubSeqProperties, Zenon
    <2>2. ~(m <= n) => n - m + 1 = 0
        BY <1>1, <1>3
    <2>3. QED
        BY <2>1, <2>2, Zenon
<1>6. ASSUME NEW i \in 1..(n - m + 1) PROVE SubSeq(q, m, n)[i] = q[m + i - 1]
    BY <1>1, <1>2, <1>3
<1>7. QED
    BY <1>4, <1>5, <1>6, Zenon

(* deque.insert moves the elements from the place on one place back.        *)
LEMMA InsertAtShape ==
    ASSUME NEW S, NEW q \in Seq(S), NEW p \in 1..(Len(q) + 1), NEW e \in S
    PROVE  /\ InsertAt(q, p, e) \in Seq(S)
           /\ Len(InsertAt(q, p, e)) = Len(q) + 1
           /\ \A i \in 1..(Len(q) + 1) :
                InsertAt(q, p, e)[i] = IF i < p THEN q[i] ELSE IF i = p THEN e ELSE q[i - 1]
<1> DEFINE a == SubSeq(q, 1, p - 1)
           b == SubSeq(q, p, Len(q))
           c == a \o <<e>>
<1>1. Len(q) \in Nat
    BY LenProperties
<1>2. a \in Seq(S) /\ Len(a) = p - 1 /\ \A i \in 1..(p - 1) : a[i] = q[i]
    <2>1. 1 \in 1..(Len(q) + 1) /\ p - 1 \in 0..Len(q) /\ 1 <= (p - 1) + 1 /\ (p - 1) - 1 + 1 = p - 1
        BY <1>1
    <2>2. \A i \in 1..(p - 1) : 1 + i - 1 = i
        BY <1>1
    <2>3. a \in Seq(S) /\ Len(a) = (p - 1) - 1 + 1 /\ \A i \in 1..((p - 1) - 1 + 1) : a[i] = q[1 + i - 1]
        BY <2>1, PartOfQueue
    <2>4. QED
        BY <2>1, <2>2, <2>3
<1>3. /\ b \in Seq(S) /\ Len(b) = Len(q) - p + 1
      /\ \A i \in 1..(Len(q) - p + 1) : b[i] = q[p + i - 1]
    <2>1. Len(q) \in 0..Len(q) /\ p <= Len(q) + 1
        BY <1>1
    <2>2. QED
        BY <2>1, PartOfQueue
<1>4. InsertAt(q, p, e) = c \o b
    BY DEF InsertAt
<1> HIDE DEF a, b
<1>5. /\ c \in Seq(S) /\ Len(c) = p
      /\ \A i \in 1..p : c[i] = IF i < p THEN q[i] ELSE e
    BY <1>1, <1>2
<1> HIDE DEF c
<1>6. /\ c \o b \in Seq(S) /\ Len(c \o b) = Len(q) + 1
      /\ \A i \in 1..(Len(q) + 1) : (c \o b)[i] = IF i <= p THEN c[i] ELSE b[i - p]
    <2>1. /\ c \o b \in Seq(S) /\ Len(c \o b) = Len(c) + Len(b)
          /\ \A i \in 1..(Len(c) + Len(b)) : (c \o b)[i] = IF i <= Len(c) THEN c[i] ELSE b[i - Len(c)]
        BY <1>3, <1>5, ConcatProperties
    <2>2. Len(c) = p /\ Len(c) + Len(b) = Len(q) + 1
        BY <1>1, <1>3, <1>5
    <2>3. QED
        BY <2>1, <2>2, Zenon
<1>7. ASSUME NEW i \in 1..(Len(q) + 1)
      PROVE  (c \o b)[i] = IF i < p THEN q[i] ELSE IF i = p THEN e ELSE q[i - 1]
    <2>1. CASE i <= p
        BY <1>1, <1>5, <1>6, <2>1
    <2>2. CASE ~(i <= p)
        <3>1. i - p \in 1..(Len(q) - p + 1) /\ p + (i - p) - 1 = i - 1
            BY <1>1, <2>2
        <3>2. b[i - p] = q[p + (i - p) - 1]
            BY <1>3, <3>1
        <3>3. QED
            BY <1>1, <1>6, <2>2, <3>1, <3>2
    <2>3. QED
        BY <2>1, <2>2
<1>8. QED
    BY <1>4, <1>6, <1>7

(* deque.remove takes out the first place that holds e, if any does.        *)
LEMMA RemoveFirstShape ==
    ASSUME NEW S, NEW q \in Seq(S), NEW e, Contains(q, e)
    PROVE  /\ RemoveFirst(q, e) \in Seq(S)
           /\ Len(RemoveFirst(q, e)) = Len(q) - 1
           /\ \E k \in 1..Len(q) :
                /\ q[k] = e
                /\ \A i \in 1..(Len(q) - 1) : RemoveFirst(q, e)[i] = IF i < k THEN q[i] ELSE q[i + 1]
<1> DEFINE I == {i \in 1..Len(q) : q[i] = e}
           k == Min(I)
           a == SubSeq(q, 1, k - 1)
           b == SubSeq(q, k + 1, Len(q))
<1>1. Len(q) \in Nat
    BY LenProperties
<1>2. k \in 1..Len(q) /\ q[k] = e
    <2>1. I # {} /\ I \subseteq Nat
        BY DEF Contains
    <2>2. k \in I
        BY <2>1, MinOfNaturals
    <2>3. QED
        BY <2>2
<1>3. RemoveFirst(q, e) = a \o b
    BY DEF Contains, RemoveFirst, SelectInSeq, RemoveAt
<1> HIDE DEF k
<1>4. a \in Seq(S) /\ Len(a) = k - 1 /\ \A i \in 1..(k - 1) : a[i] = q[i]
    <2>1. 1 \in 1..(Len(q) + 1) /\ k - 1 \in 0..Len(q) /\ 1 <= (k - 1) + 1 /\ (k - 1) - 1 + 1 = k - 1
        BY <1>1, <1>2
    <2>2. \A i \in 1..(k - 1) : 1 + i - 1 = i
        BY <1>1
    <2>3. a \in Seq(S) /\ Len(a) = (k - 1) - 1 + 1 /\ \A i \in 1..((k - 1) - 1 + 1) : a[i] = q[1 + i - 1]
        BY <2>1, PartOfQueue
    <2>4. QED
        BY <2>1, <2>2, <2>3
<1>5. b \in Seq(S) /\ Len(b) = Len(q) - k /\ \A i \in 1..(Len(q) - k) : b[i] = q[k + i]
    <2>1. /\ k + 1 \in 1..(Len(q) + 1) /\ Len(q) \in 0..Len(q) /\ k + 1 <= Len(q) + 1
          /\ Len(q) - (k + 1) + 1 = Len(q) - k
        BY <1>1, <1>2
    <2>2. \A i \in 1..(Len(q) - k) : (k + 1) + i - 1 = k + i
        BY <1>1, <1>2
    <2>3. /\ b \in Seq(S) /\ Len(b) = Len(q) - (k + 1) + 1
          /\ \A i \in 1..(Len(q) - (k + 1) + 1) : b[i] = q[(k + 1) + i - 1]
        BY <2>1, PartOfQueue
    <2>4. QED
        BY <2>1, <2>2, <2>3
<1> HIDE DEF a, b
<1>6. /\ a \o b \in Seq(S) /\ Len(a \o b) = Len(q) - 1
      /\ \A i \in 1..(Len(q) - 1) : (a \o b)[i] = IF i <= k - 1 THEN a[i] ELSE b[i - (k - 1)]
    <2>1. /\ a \o b \in Seq(S) /\ Len(a \o b) = Len(a) + Len(b)
          /\ \A i \in 1..(Len(a) + Len(b)) : (a \o b)[i] = IF i <= Len(a) THEN a[i] ELSE b[i - Len(a)]
        BY <1>4, <1>5, ConcatProperties
    <2>2. Len(a) = k - 1 /\ Len(a) + Len(b) = Len(q) - 1
        BY <1>1, <1>2, <1>4, <1>5
    <2>3. QED
        BY <2>1, <2>2, Zenon
<1>7. ASSUME NEW i \in 1..(Len(q) - 1) PROVE (a \o b)[i] = IF i < k THEN q[i] ELSE q[i + 1]
    <2>1. CASE i < k
        BY <1>1, <1>2, <1>4, <1>6, <2>1
    <2>2. CASE ~(i < k)
        <3>1. i - (k - 1) \in 1..(Len(q) - k) /\ k + (i - (k - 1)) = i + 1
            BY <1>1, <1>2, <2>2
        <3>2. b[i - (k - 1)] = q[k + (i - (k - 1))]
            BY <1>5, <3>1
        <3>3. QED
            BY <1>1, <1>2, <1>6, <2>2, <3>1, <3>2
    <2>3. QED
        BY <2>1, <2>2
<1>8. QED
    BY <1>2, <1>3, <1>6, <1>7

(* So it leaves a queue of S, also when nothing is taken out.               *)
LEMMA RemoveFirstType ==
    ASSUME NEW S, NEW q \in Seq(S), NEW e
    PROVE  RemoveFirst(q, e) \in Seq(S)
<1>1. CASE Contains(q, e)
    BY <1>1, RemoveFirstShape
<1>2. CASE ~Contains(q, e)
    BY <1>2 DEF Contains, RemoveFirst
<1>3. QED
    BY <1>1, <1>2

(* Explicit requests wait before automatic ones.                            *)
Sorted(q) == \A i, j \in 1..Len(q) : i <= j => Priority(q[j]) <= Priority(q[i])

(* _enqueue_locked inserts at a place of the queue or at its end, behind    *)
(* whoever has the same priority and before whoever has a lower one.        *)
LEMMA PlaceInQueue ==
    ASSUME NEW r \in Request, waiting \in Seq(Request)
    PROVE  /\ EnqueuePlace(r) \in 1..(Len(waiting) + 1)
           /\ Sorted(waiting) =>
                \A i \in 1..Len(waiting) :
                    IF i < EnqueuePlace(r) THEN Priority(r) <= Priority(waiting[i])
                                           ELSE Priority(waiting[i]) <= Priority(r)
<1> DEFINE lower == {i \in DOMAIN waiting : Priority(waiting[i]) < Priority(r)}
           p == EnqueuePlace(r)
<1>1. Len(waiting) \in Nat /\ DOMAIN waiting = 1..Len(waiting)
    BY LenProperties
<1>2. \A x : Priority(x) \in {0, 1}
    BY DEF Priority
<1>3. CASE lower = {}
    <2>1. p = Len(waiting) + 1
        BY <1>3 DEF EnqueuePlace
    <2>2. \A i \in 1..Len(waiting) : Priority(r) <= Priority(waiting[i])
        BY <1>1, <1>2, <1>3
    <2>3. QED
        BY <1>1, <2>1, <2>2
<1>4. CASE lower # {}
    <2>0. lower \subseteq Nat
        BY <1>1
    <2>1. Min(lower) \in lower /\ \A i \in lower : Min(lower) <= i
        BY <1>4, <2>0, MinOfNaturals
    <2>2. p = Min(lower)
        BY <1>4 DEF EnqueuePlace
    <2>3. p \in 1..Len(waiting) /\ Priority(waiting[p]) < Priority(r)
        BY <1>1, <2>1, <2>2
    <2>4. ASSUME NEW i \in 1..Len(waiting), i < p PROVE Priority(r) <= Priority(waiting[i])
        <3>1. i \in lower => p <= i
            BY <2>1, <2>2
        <3>2. i \notin lower
            BY <1>1, <2>3, <2>4, <3>1
        <3>3. QED
            BY <1>1, <1>2, <3>2
    <2>5. ASSUME Sorted(waiting), NEW i \in 1..Len(waiting), ~(i < p)
          PROVE  Priority(waiting[i]) <= Priority(r)
        <3>1. Priority(waiting[i]) <= Priority(waiting[p])
            BY <1>1, <2>3, <2>5 DEF Sorted
        <3>2. QED
            BY <1>2, <2>3, <3>1
    <2> HIDE DEF p
    <2>6. QED
        BY <1>1, <2>3, <2>4, <2>5 DEF p
<1>5. QED
    BY <1>3, <1>4

(* The queue with one more request is a queue of requests.                  *)
LEMMA EnqueuedType ==
    ASSUME NEW r \in Request, waiting \in Seq(Request)
    PROVE  Enqueued(r) \in Seq(Request)
BY PlaceInQueue, InsertAtShape DEF Enqueued

-----------------------------------------------------------------------------
(* Every step keeps the registry, the flags and the threads well typed.     *)
LEMMA TypeStep == TypeOK /\ [Next]_vars => TypeOK'
<1> SUFFICES ASSUME TypeOK, [Next]_vars PROVE TypeOK'
    OBVIOUS
<1> USE RequestAssumption, LimitAssumption
<1>u. CASE UNCHANGED vars
    BY <1>u DEF TypeOK, vars, registryVars, flagVars, noticeVars, shutdownVars
<1>1. ASSUME NEW r \in Request, Precheck(r) PROVE TypeOK'
    <2>1. /\ caller' \in [Request -> CallerState]
          /\ reply' \in [Request -> Reply]
        BY <1>1 DEF TypeOK, Precheck, Answer, CallerState, Reply
    <2>2. /\ jobs' \in [Key -> Request \cup {NoJob}]
          /\ running' \subseteq Request /\ old' \subseteq running'
          /\ sweepers' \subseteq Request
        BY <1>1 DEF TypeOK, Precheck, SweepSlots, StaleJobs, SweptJobs
    <2>3. QED
        BY <1>1, <2>1, <2>2 DEF TypeOK, Precheck, flagVars, shutdownVars
<1>2. ASSUME NEW r \in Request, StartRefused(r) PROVE TypeOK'
    BY <1>2 DEF TypeOK, StartRefused, Answer,
        ThreadState, CallerState, Reply, Notice, vars, registryVars, flagVars, noticeVars, shutdownVars
<1>3. ASSUME NEW r \in Request, StartDuplicate(r) PROVE TypeOK'
    BY <1>3 DEF TypeOK, StartDuplicate, Answer, SweepSlots, StaleJobs, SweptJobs,
        ThreadState, CallerState, Reply, Notice, vars, registryVars, flagVars, noticeVars, shutdownVars
<1>4. ASSUME NEW r \in Request, StartBusy(r) PROVE TypeOK'
    BY <1>4 DEF TypeOK, StartBusy, Answer, SweepSlots, StaleJobs, SweptJobs,
        ThreadState, CallerState, Reply, Notice, vars, registryVars, flagVars, noticeVars, shutdownVars
<1>5. ASSUME NEW r \in Request, StartRegisters(r) PROVE TypeOK'
    <2>1. waiting' \in Seq(Request)
        BY <1>5, EnqueuedType DEF TypeOK, StartRegisters
    <2>2. QED
        BY <1>5, <2>1 DEF TypeOK, StartRegisters, SweepSlots, StaleJobs, SweptJobs,
            ThreadState, CallerState, vars, registryVars, flagVars, noticeVars, shutdownVars
<1>6. ASSUME NEW r \in Request, ThreadStarts(r) PROVE TypeOK'
    BY <1>6 DEF TypeOK, ThreadStarts,
        ThreadState, CallerState, Reply, Notice, vars, registryVars, flagVars, noticeVars, shutdownVars
<1>7. ASSUME NEW r \in Request, ThreadStartFails(r) PROVE TypeOK'
    <2>1. waiting' \in Seq(Request)
        BY <1>7, RemoveFirstType DEF TypeOK, ThreadStartFails, ReleaseRegistry, ReleasedJobs, Answer
    <2>2. QED
        BY <1>7, <2>1 DEF TypeOK, ThreadStartFails, ReleaseRegistry, ReleasedJobs, Answer, ThreadState,
            CallerState, Reply, Notice, vars, registryVars, flagVars, noticeVars, shutdownVars
<1>8. ASSUME NEW r \in Request, AddWaker(r) PROVE TypeOK'
    BY <1>8 DEF TypeOK, AddWaker,
        ThreadState, CallerState, Reply, Notice, vars, registryVars, flagVars, noticeVars, shutdownVars
<1>9. ASSUME NEW r \in Request, WaiterWoken(r) PROVE TypeOK'
    BY <1>9 DEF TypeOK, WaiterWoken, Answer, OutcomeReply,
        ThreadState, CallerState, Reply, Notice, vars, registryVars, flagVars, noticeVars, shutdownVars
<1>10. ASSUME NEW r \in Request, WaitTimeout(r) PROVE TypeOK'
    BY <1>10 DEF TypeOK, WaitTimeout, Answer, OutcomeReply, DetachFlags, DetachResult,
        ThreadState, CallerState, Reply, Notice, vars, registryVars, flagVars, noticeVars, shutdownVars
<1>11. ASSUME NEW r \in Request, CallerCancelled(r) PROVE TypeOK'
    BY <1>11 DEF TypeOK, CallerCancelled, DetachFlags, DetachResult,
        ThreadState, CallerState, Reply, Notice, vars, registryVars, flagVars, noticeVars, shutdownVars
<1>12. ASSUME NEW r \in Request, AutoDetaches(r) PROVE TypeOK'
    BY <1>12 DEF TypeOK, AutoDetaches, Answer, DetachFlags, DetachResult,
        ThreadState, CallerState, Reply, Notice, vars, registryVars, flagVars, noticeVars, shutdownVars
<1>13. ASSUME NEW r \in Request, AcquireSlot(r) PROVE TypeOK'
    BY <1>13 DEF TypeOK, AcquireSlot,
        ThreadState, CallerState, Reply, Notice, vars, registryVars, flagVars, noticeVars, shutdownVars
<1>14. ASSUME NEW r \in Request, SlotRefused(r) PROVE TypeOK'
    <2>1. waiting' \in Seq(Request)
        BY <1>14, RemoveFirstType DEF TypeOK, SlotRefused
    <2>2. QED
        BY <1>14, <2>1 DEF TypeOK, SlotRefused, ThreadState, CallerState, Reply, Notice, vars,
            registryVars, flagVars, noticeVars, shutdownVars
<1>15. ASSUME NEW r \in Request, SlotWaitTick(r) PROVE TypeOK'
    BY <1>15 DEF TypeOK, SlotWaitTick, SweepSlots, StaleJobs, SweptJobs,
        ThreadState, CallerState, Reply, Notice, vars, registryVars, flagVars, noticeVars, shutdownVars
<1>16. ASSUME NEW r \in Request, RefusedCompletes(r) PROVE TypeOK'
    BY <1>16 DEF TypeOK, RefusedCompletes, Completes,
        ThreadState, CallerState, Reply, Notice, vars, registryVars, flagVars, noticeVars, shutdownVars
<1>17. ASSUME NEW r \in Request, WakesWaiter(r) PROVE TypeOK'
    BY <1>17 DEF TypeOK, WakesWaiter,
        ThreadState, CallerState, Reply, Notice, vars, registryVars, flagVars, noticeVars, shutdownVars
<1>18. ASSUME NEW r \in Request, JobFinishClaims(r) PROVE TypeOK'
    BY <1>18 DEF TypeOK, JobFinishClaims, FinishClaims,
        ThreadState, CallerState, Reply, Notice, vars, registryVars, flagVars, noticeVars, shutdownVars
<1>19. ASSUME NEW r \in Request, JobNotifies(r) PROVE TypeOK'
    BY <1>19 DEF TypeOK, JobNotifies, OnDetachedDone, CompletionNotice,
        ThreadState, CallerState, Reply, Notice, vars, registryVars, flagVars, noticeVars, shutdownVars
<1>20. ASSUME NEW r \in Request, Releases(r) PROVE TypeOK'
    <2>1. waiting' \in Seq(Request)
        BY <1>20, RemoveFirstType DEF TypeOK, Releases, ReleaseRegistry, ReleasedJobs
    <2>2. QED
        BY <1>20, <2>1 DEF TypeOK, Releases, ReleaseRegistry, ReleasedJobs, ThreadState, CallerState,
            Reply, Notice, vars, registryVars, flagVars, noticeVars, shutdownVars
<1>21. ASSUME NEW r \in Request, TargetReturns(r) PROVE TypeOK'
    BY <1>21 DEF TypeOK, TargetReturns, Completes,
        ThreadState, CallerState, Reply, Notice, vars, registryVars, flagVars, noticeVars, shutdownVars
<1>22. ASSUME NEW r \in Request, DelivererClaims(r) PROVE TypeOK'
    BY <1>22 DEF TypeOK, DelivererClaims, FinishClaims,
        ThreadState, CallerState, Reply, Notice, vars, registryVars, flagVars, noticeVars, shutdownVars
<1>23. ASSUME NEW r \in Request, DelivererNotifies(r) PROVE TypeOK'
    BY <1>23 DEF TypeOK, DelivererNotifies, OnDetachedDone, CompletionNotice,
        ThreadState, CallerState, Reply, Notice, vars, registryVars, flagVars, noticeVars, shutdownVars
<1>24. ASSUME NEW r \in Request, SweeperMarks(r) PROVE TypeOK'
    BY <1>24 DEF TypeOK, SweeperMarks, MayMark,
        ThreadState, CallerState, Reply, Notice, vars, registryVars, flagVars, noticeVars, shutdownVars
<1>25. ASSUME NEW r \in Request, ReporterPosts(r) PROVE TypeOK'
    BY <1>25 DEF TypeOK, ReporterPosts,
        ThreadState, CallerState, Reply, Notice, vars, registryVars, flagVars, noticeVars, shutdownVars
<1>26. ASSUME NEW r \in Request, ShutdownMarks(r) PROVE TypeOK'
    BY <1>26 DEF TypeOK, ShutdownMarks, MayMark,
        ThreadState, CallerState, Reply, Notice, vars, registryVars, flagVars, noticeVars, shutdownVars
<1>27. ASSUME NEW r \in Request, GrowsOld(r) PROVE TypeOK'
    BY <1>27 DEF TypeOK, GrowsOld,
        ThreadState, CallerState, Reply, Notice, vars, registryVars, flagVars, noticeVars, shutdownVars
<1>28. CASE InterruptAll
    BY <1>28 DEF TypeOK, InterruptAll, Registered, vars, registryVars, flagVars, noticeVars, shutdownVars
<1>29. CASE ShutdownReports
    BY <1>29 DEF TypeOK, ShutdownReports, vars, registryVars, flagVars, noticeVars, shutdownVars
<1>30. CASE Finished
    BY <1>30 DEF TypeOK, Finished, vars, registryVars, flagVars, noticeVars, shutdownVars
<1>q. QED
    BY <1>u, <1>1, <1>2, <1>3, <1>4, <1>5, <1>6, <1>7, <1>8, <1>9, <1>10, <1>11, <1>12, <1>13, <1>14,
        <1>15, <1>16, <1>17, <1>18, <1>19, <1>20, <1>21, <1>22, <1>23, <1>24, <1>25, <1>26, <1>27, <1>28,
        <1>29, <1>30
        DEF Next, CallerStep, JobStep, DelivererStep, NoticeStep

(* The type invariant of the registry, its jobs and their callers.          *)
THEOREM Typing == Spec => []TypeOK
<1>1. ASSUME Init PROVE TypeOK
    <2>1. waiting \in Seq(Request) /\ notices \in [Request -> Seq(Notice)]
        BY <1>1 DEF Init
    <2>2. reporters \subseteq Request \X {"interrupted", "timeout"} /\ shutdowns \in 0..MaxShutdownCalls
        BY <1>1, LimitAssumption DEF Init
    <2>3. closing \in BOOLEAN
        BY <1>1 DEF Init
    <2>4. /\ jobs \in [Key -> Request \cup {NoJob}]
          /\ thread \in [Request -> ThreadState] /\ caller \in [Request -> CallerState]
          /\ deliverer \in [Request -> {"none", "finish", "notify", "ended"}]
          /\ reply \in [Request -> Reply]
        BY <1>1 DEF Init, ThreadState, CallerState, Reply
    <2>5. QED
        BY <1>1, <2>1, <2>2, <2>3, <2>4, Zenon DEF Init, TypeOK
<1>2. QED
    BY <1>1, TypeStep, PTL DEF Spec

-----------------------------------------------------------------------------
(* Every step keeps the keys with their owners.                            *)
LEMMA RegistryStep == TypeOK /\ RegistryInv /\ [Next]_vars => RegistryInv'
<1> SUFFICES ASSUME TypeOK, RegistryInv, [Next]_vars PROVE RegistryInv'
    OBVIOUS
<1> USE RequestAssumption DEF TypeOK, RegistryInv, KeyOwned, SlotsHeldByWorkers, RefusedAreEnding,
    ThreadFollowsStart, Live, Overdue, Working
<1>u. CASE UNCHANGED vars
    BY <1>u DEF vars, registryVars, flagVars, noticeVars, shutdownVars
<1>1. ASSUME NEW r \in Request, Precheck(r) PROVE RegistryInv'
    BY <1>1 DEF Precheck, PrecheckAnswers, Answer, SweepSlots, StaleJobs, SweptJobs, ThreadState,
        CallerState, vars, registryVars, flagVars, noticeVars, shutdownVars
<1>2. ASSUME NEW r \in Request, StartRefused(r) PROVE RegistryInv'
    BY <1>2 DEF StartRefused, Answer, ThreadState, CallerState, vars, registryVars, flagVars, noticeVars,
        shutdownVars
<1>3. ASSUME NEW r \in Request, StartDuplicate(r) PROVE RegistryInv'
    BY <1>3 DEF StartDuplicate, Answer, SweepSlots, StaleJobs, SweptJobs, ThreadState, CallerState, vars,
        registryVars, flagVars, noticeVars, shutdownVars
<1>4. ASSUME NEW r \in Request, StartBusy(r) PROVE RegistryInv'
    BY <1>4 DEF StartBusy, Answer, SweepSlots, StaleJobs, SweptJobs, ThreadState, CallerState, vars,
        registryVars, flagVars, noticeVars, shutdownVars
<1>5. ASSUME NEW r \in Request, StartRegisters(r) PROVE RegistryInv'
    BY <1>5 DEF StartRegisters, SweepSlots, StaleJobs, SweptJobs, ThreadState, CallerState, vars,
        registryVars, flagVars, noticeVars, shutdownVars
<1>6. ASSUME NEW r \in Request, ThreadStarts(r) PROVE RegistryInv'
    BY <1>6 DEF ThreadStarts, ThreadState, CallerState, vars, registryVars, flagVars, noticeVars, shutdownVars
<1>7. ASSUME NEW r \in Request, ThreadStartFails(r) PROVE RegistryInv'
    BY <1>7 DEF ThreadStartFails, ReleaseRegistry, ReleasedJobs, Answer, ThreadState, CallerState, vars,
        registryVars, flagVars, noticeVars, shutdownVars
<1>8. ASSUME NEW r \in Request, AddWaker(r) PROVE RegistryInv'
    BY <1>8 DEF AddWaker, ThreadState, CallerState, vars, registryVars, flagVars, noticeVars, shutdownVars
<1>9. ASSUME NEW r \in Request, WaiterWoken(r) PROVE RegistryInv'
    BY <1>9 DEF WaiterWoken, Answer, ThreadState, CallerState, vars, registryVars, flagVars, noticeVars,
        shutdownVars
<1>10. ASSUME NEW r \in Request, WaitTimeout(r) PROVE RegistryInv'
    BY <1>10 DEF WaitTimeout, Answer, ThreadState, CallerState, vars, registryVars, flagVars, noticeVars,
        shutdownVars
<1>11. ASSUME NEW r \in Request, CallerCancelled(r) PROVE RegistryInv'
    BY <1>11 DEF CallerCancelled, ThreadState, CallerState, vars, registryVars, flagVars, noticeVars,
        shutdownVars
<1>12. ASSUME NEW r \in Request, AutoDetaches(r) PROVE RegistryInv'
    BY <1>12 DEF AutoDetaches, Answer, ThreadState, CallerState, vars, registryVars, flagVars,
        noticeVars, shutdownVars
<1>13. ASSUME NEW r \in Request, AcquireSlot(r) PROVE RegistryInv'
    BY <1>13 DEF AcquireSlot, ThreadState, CallerState, vars, registryVars, flagVars, noticeVars, shutdownVars
<1>14. ASSUME NEW r \in Request, SlotRefused(r) PROVE RegistryInv'
    BY <1>14 DEF SlotRefused, ThreadState, CallerState, vars, registryVars, flagVars, noticeVars, shutdownVars
<1>15. ASSUME NEW r \in Request, SlotWaitTick(r) PROVE RegistryInv'
    BY <1>15 DEF SlotWaitTick, SweepSlots, StaleJobs, SweptJobs, ThreadState, CallerState, vars,
        registryVars, flagVars, noticeVars, shutdownVars
<1>16. ASSUME NEW r \in Request, RefusedCompletes(r) PROVE RegistryInv'
    BY <1>16 DEF RefusedCompletes, Completes, ThreadState, CallerState, vars, registryVars, flagVars,
        noticeVars, shutdownVars
<1>17. ASSUME NEW r \in Request, WakesWaiter(r) PROVE RegistryInv'
    BY <1>17 DEF WakesWaiter, ThreadState, CallerState, vars, registryVars, flagVars, noticeVars, shutdownVars
<1>18. ASSUME NEW r \in Request, JobFinishClaims(r) PROVE RegistryInv'
    BY <1>18 DEF JobFinishClaims, FinishClaims, ThreadState, CallerState, vars, registryVars, flagVars,
        noticeVars, shutdownVars
<1>19. ASSUME NEW r \in Request, JobNotifies(r) PROVE RegistryInv'
    BY <1>19 DEF JobNotifies, OnDetachedDone, ThreadState, CallerState, vars, registryVars, flagVars,
        noticeVars, shutdownVars
<1>20. ASSUME NEW r \in Request, Releases(r) PROVE RegistryInv'
    BY <1>20 DEF Releases, ReleaseRegistry, ReleasedJobs, ThreadState, CallerState, vars, registryVars,
        flagVars, noticeVars, shutdownVars
<1>21. ASSUME NEW r \in Request, TargetReturns(r) PROVE RegistryInv'
    BY <1>21 DEF TargetReturns, Completes, ThreadState, CallerState, vars, registryVars, flagVars,
        noticeVars, shutdownVars
<1>22. ASSUME NEW r \in Request, DelivererClaims(r) PROVE RegistryInv'
    BY <1>22 DEF DelivererClaims, FinishClaims, ThreadState, CallerState, vars, registryVars, flagVars,
        noticeVars, shutdownVars
<1>23. ASSUME NEW r \in Request, DelivererNotifies(r) PROVE RegistryInv'
    BY <1>23 DEF DelivererNotifies, OnDetachedDone, ThreadState, CallerState, vars, registryVars,
        flagVars, noticeVars, shutdownVars
<1>24. ASSUME NEW r \in Request, SweeperMarks(r) PROVE RegistryInv'
    BY <1>24 DEF SweeperMarks, ThreadState, CallerState, vars, registryVars, flagVars, noticeVars, shutdownVars
<1>25. ASSUME NEW r \in Request, ReporterPosts(r) PROVE RegistryInv'
    BY <1>25 DEF ReporterPosts, ThreadState, CallerState, vars, registryVars, flagVars, noticeVars, shutdownVars
<1>26. ASSUME NEW r \in Request, ShutdownMarks(r) PROVE RegistryInv'
    BY <1>26 DEF ShutdownMarks, ThreadState, CallerState, vars, registryVars, flagVars, noticeVars, shutdownVars
<1>27. ASSUME NEW r \in Request, GrowsOld(r) PROVE RegistryInv'
    BY <1>27 DEF GrowsOld, ThreadState, CallerState, vars, registryVars, flagVars, noticeVars, shutdownVars
<1>28. CASE InterruptAll
    BY <1>28 DEF InterruptAll, vars, registryVars, flagVars, noticeVars, shutdownVars
<1>29. CASE ShutdownReports
    BY <1>29 DEF ShutdownReports, vars, registryVars, flagVars, noticeVars, shutdownVars
<1>30. CASE Finished
    BY <1>30 DEF Finished, vars, registryVars, flagVars, noticeVars, shutdownVars
<1>q. QED
    BY <1>u, <1>1, <1>2, <1>3, <1>4, <1>5, <1>6, <1>7, <1>8, <1>9, <1>10, <1>11, <1>12, <1>13, <1>14,
        <1>15, <1>16, <1>17, <1>18, <1>19, <1>20, <1>21, <1>22, <1>23, <1>24, <1>25, <1>26, <1>27, <1>28,
        <1>29, <1>30
        DEF Next, CallerStep, JobStep, DelivererStep, NoticeStep

(* Of every reachable registry: live jobs own keys, slots have threads.     *)
THEOREM RegistryInvariant == Spec => []RegistryInv
<1>1. Init => RegistryInv
    BY DEF Init, RegistryInv, KeyOwned, SlotsHeldByWorkers, RefusedAreEnding, ThreadFollowsStart, Live,
        Overdue, Working
<1>2. QED
    BY <1>1, RegistryStep, Typing, PTL DEF Spec

(* One live job per key, whatever the number of requests, keys and slots:   *)
(* two live jobs of a key that kept their time would both own it.           *)
THEOREM KeyExclusion == Spec => []OneLiveJobPerKey
<1>1. RegistryInv => OneLiveJobPerKey
    BY DEF RegistryInv, KeyOwned, OneLiveJobPerKey
<1>2. QED
    BY <1>1, RegistryInvariant, PTL

-----------------------------------------------------------------------------
(* Only AcquireSlot adds a holder, and it looks for a free slot first.      *)
LEMMA SlotStep == TypeOK /\ SlotBound /\ [Next]_vars => SlotBound'
<1> SUFFICES ASSUME TypeOK, SlotBound, [Next]_vars PROVE SlotBound'
    OBVIOUS
<1>1. IsFiniteSet(running) /\ Cardinality(running) \in Nat
    BY RequestAssumption, FS_Subset, FS_CardinalityType DEF TypeOK
<1>2. ASSUME running' \subseteq running PROVE SlotBound'
    BY <1>1, <1>2, FS_Subset, FS_CardinalityType, LimitAssumption DEF SlotBound
<1>3. ASSUME NEW r \in Request, AcquireSlot(r) PROVE SlotBound'
    <2>1. running' = running \cup {r} /\ Cardinality(running) < MaxBackground
        BY <1>3 DEF AcquireSlot, SlotFree
    <2>2. Cardinality(running') <= Cardinality(running) + 1
        BY <1>1, <2>1, FS_AddElement
    <2>3. Cardinality(running') \in Nat
        BY <1>1, <2>1, FS_AddElement, FS_CardinalityType
    <2>4. QED
        BY <1>1, <2>1, <2>2, <2>3, LimitAssumption DEF SlotBound
<1>4. ASSUME NEW r \in Request, CallerStep(r) PROVE running' \subseteq running
    BY <1>4 DEF CallerStep, Precheck, StartRefused, StartDuplicate, StartBusy, StartRegisters,
        ThreadStarts, ThreadStartFails, AddWaker, WaiterWoken, WaitTimeout, CallerCancelled,
        AutoDetaches, SweepSlots, ReleaseRegistry, registryVars
<1>5. ASSUME NEW r \in Request, JobStep(r), ~AcquireSlot(r) PROVE running' \subseteq running
    BY <1>5 DEF JobStep, SlotRefused, SlotWaitTick, RefusedCompletes, Completes, WakesWaiter,
        JobFinishClaims, FinishClaims, JobNotifies, OnDetachedDone, Releases, SweepSlots,
        ReleaseRegistry, registryVars
<1>6. ASSUME NEW r \in Request,
             TargetReturns(r) \/ DelivererStep(r) \/ NoticeStep(r) \/ GrowsOld(r)
      PROVE  running' \subseteq running
    BY <1>6 DEF TargetReturns, Completes, DelivererStep, DelivererClaims, DelivererNotifies,
        FinishClaims, OnDetachedDone, NoticeStep, SweeperMarks, ReporterPosts, ShutdownMarks,
        GrowsOld, registryVars
<1>7. ASSUME InterruptAll \/ ShutdownReports \/ Finished \/ UNCHANGED vars
      PROVE  running' \subseteq running
    BY <1>7 DEF InterruptAll, ShutdownReports, Finished, vars, registryVars
<1>8. QED
    BY <1>2, <1>3, <1>4, <1>5, <1>6, <1>7 DEF Next

(* The skills that run, those past the time limit not counted, never        *)
(* outnumber the slots.                                                     *)
THEOREM SkillLimit == Spec => []SkillsWithinLimit
<1>1. Init => SlotBound
    BY FS_EmptySet, LimitAssumption DEF Init, SlotBound
<1>2. TypeOK /\ RegistryInv /\ SlotBound => SkillsWithinLimit
    <2> SUFFICES ASSUME TypeOK, RegistryInv, SlotBound PROVE SkillsWithinLimit
        OBVIOUS
    <2> DEFINE atWork == {r \in Request : thread[r] = "target" /\ ~Overdue(r)}
    <2>1. atWork \subseteq running
        BY DEF RegistryInv, RefusedAreEnding, Overdue, Working
    <2>2. IsFiniteSet(running) /\ Cardinality(running) \in Nat
        BY RequestAssumption, FS_Subset, FS_CardinalityType DEF TypeOK
    <2>3. Cardinality(atWork) <= Cardinality(running) /\ Cardinality(atWork) \in Nat
        BY <2>1, <2>2, FS_Subset, FS_CardinalityType
    <2>4. QED
        BY <2>2, <2>3, LimitAssumption DEF SlotBound, SkillsWithinLimit
<1>3. QED
    BY <1>1, <1>2, SlotStep, Typing, RegistryInvariant, PTL DEF Spec

-----------------------------------------------------------------------------
(* The queue and the entries name jobs that live: nobody waits twice, who   *)
(* waits has a thread that was not given its slot yet, and an entry is that *)
(* of a live job with its key.                                              *)
Coming == \A r \in Request : Contains(waiting, r) => thread[r] \in {"born", "slot"}

QueueInv == IsInjective(waiting) /\ Sorted(waiting) /\ Coming

EntryInv == \A k \in Key : jobs[k] # NoJob => KeyOf[jobs[k]] = k /\ Live(jobs[k])

(* Taking out one request leaves the others once each and in order, ...     *)
LEMMA OneTakenOut ==
    ASSUME waiting \in Seq(Request), IsInjective(waiting), Sorted(waiting), NEW e,
           NEW w, w = RemoveFirst(waiting, e)
    PROVE  /\ IsInjective(w) /\ Sorted(w)
           /\ \A s : Contains(w, s) => Contains(waiting, s) /\ s # e
<1>1. Len(waiting) \in Nat /\ \A i, j \in 1..Len(waiting) : waiting[i] = waiting[j] => i = j
    BY LenProperties DEF IsInjective
<1>2. CASE ~Contains(waiting, e)
    BY <1>2 DEF Contains, RemoveFirst
<1>3. CASE Contains(waiting, e)
    <2>1. w \in Seq(Request) /\ Len(w) = Len(waiting) - 1 /\ DOMAIN w = 1..Len(w)
        BY <1>3, RemoveFirstShape, LenProperties
    <2>2. PICK k \in 1..Len(waiting) :
            /\ waiting[k] = e
            /\ \A i \in 1..(Len(waiting) - 1) : w[i] = IF i < k THEN waiting[i] ELSE waiting[i + 1]
        BY <1>3, RemoveFirstShape
    <2> DEFINE from(i) == IF i < k THEN i ELSE i + 1
    <2>3. \A i \in 1..Len(w) : from(i) \in 1..Len(waiting) /\ from(i) # k /\ w[i] = waiting[from(i)]
        BY <1>1, <2>1, <2>2
    <2>4. \A i, j \in 1..Len(w) : (from(i) = from(j) => i = j) /\ (i <= j => from(i) <= from(j))
        BY <1>1, <2>1
    <2> HIDE DEF from
    <2>5. IsInjective(w)
        <3>1. ASSUME NEW i \in 1..Len(w), NEW j \in 1..Len(w), w[i] = w[j] PROVE i = j
            <4>1. from(i) = from(j)
                BY <1>1, <2>3, <3>1
            <4>2. QED
                BY <2>4, <4>1
        <3>2. QED
            BY <2>1, <3>1 DEF IsInjective
    <2>6. Sorted(w)
        BY <2>3, <2>4 DEF Sorted
    <2>7. \A s : Contains(w, s) => Contains(waiting, s) /\ s # e
        BY <1>1, <2>2, <2>3 DEF Contains
    <2>8. QED
        BY <2>5, <2>6, <2>7
<1>4. QED
    BY <1>2, <1>3

(* ... so does taking the head, ...                                         *)
LEMMA HeadTaken ==
    ASSUME waiting \in Seq(Request), waiting # <<>>, IsInjective(waiting), Sorted(waiting)
    PROVE  /\ IsInjective(Tail(waiting)) /\ Sorted(Tail(waiting))
           /\ \A s : Contains(Tail(waiting), s) => Contains(waiting, s) /\ s # Head(waiting)
<1>1. Len(waiting) \in Nat /\ \A i, j \in 1..Len(waiting) : waiting[i] = waiting[j] => i = j
    BY LenProperties DEF IsInjective
<1>2. /\ Tail(waiting) \in Seq(Request) /\ Len(Tail(waiting)) = Len(waiting) - 1
      /\ DOMAIN Tail(waiting) = 1..Len(Tail(waiting))
      /\ \A i \in 1..Len(Tail(waiting)) : Tail(waiting)[i] = waiting[i + 1]
    BY HeadTailProperties, LenProperties
<1>3. Len(waiting) >= 1 /\ Head(waiting) = waiting[1]
    BY <1>1, EmptySeq
<1>4. \A i \in 1..Len(Tail(waiting)) : i + 1 \in 1..Len(waiting) /\ i + 1 # 1
    BY <1>1, <1>2
<1>5. IsInjective(Tail(waiting))
    BY <1>1, <1>2, <1>4 DEF IsInjective
<1>6. Sorted(Tail(waiting))
    BY <1>2, <1>4 DEF Sorted
<1>7. \A s : Contains(Tail(waiting), s) => Contains(waiting, s) /\ s # Head(waiting)
    BY <1>1, <1>2, <1>3, <1>4 DEF Contains
<1>8. QED
    BY <1>5, <1>6, <1>7

(* ... and a new request joins the queue once and at its place.             *)
LEMMA OneJoins ==
    ASSUME waiting \in Seq(Request), IsInjective(waiting), Sorted(waiting),
           NEW r \in Request, ~Contains(waiting, r)
    PROVE  /\ IsInjective(Enqueued(r)) /\ Sorted(Enqueued(r))
           /\ \A s : Contains(Enqueued(r), s) => s = r \/ Contains(waiting, s)
<1> DEFINE p == EnqueuePlace(r)
           w == Enqueued(r)
           from(i) == IF i < p THEN i ELSE i - 1
<1>1. Len(waiting) \in Nat /\ \A i, j \in 1..Len(waiting) : waiting[i] = waiting[j] => i = j
    BY LenProperties DEF IsInjective
<1>2. /\ p \in 1..(Len(waiting) + 1)
      /\ \A i \in 1..Len(waiting) : IF i < p THEN Priority(r) <= Priority(waiting[i])
                                             ELSE Priority(waiting[i]) <= Priority(r)
    BY PlaceInQueue
<1>3. /\ w \in Seq(Request) /\ Len(w) = Len(waiting) + 1
      /\ \A i \in 1..(Len(waiting) + 1) :
            w[i] = IF i < p THEN waiting[i] ELSE IF i = p THEN r ELSE waiting[i - 1]
    <2>1. \A S : \A q \in Seq(S) : \A k \in 1..(Len(q) + 1) : \A e \in S :
             /\ InsertAt(q, k, e) \in Seq(S)
             /\ Len(InsertAt(q, k, e)) = Len(q) + 1
             /\ \A i \in 1..(Len(q) + 1) :
                    InsertAt(q, k, e)[i] = IF i < k THEN q[i] ELSE IF i = k THEN e ELSE q[i - 1]
        BY InsertAtShape, Zenon
    <2>2. w = InsertAt(waiting, p, r)
        BY DEF Enqueued
    <2> HIDE DEF p, w, from
    <2>3. p \in 1..(Len(waiting) + 1)
        BY <1>2
    <2>4. /\ InsertAt(waiting, p, r) \in Seq(Request)
          /\ Len(InsertAt(waiting, p, r)) = Len(waiting) + 1
          /\ \A i \in 1..(Len(waiting) + 1) : InsertAt(waiting, p, r)[i] =
                IF i < p THEN waiting[i] ELSE IF i = p THEN r ELSE waiting[i - 1]
        BY <2>1, <2>3
    <2>5. QED
        BY <2>2, <2>4
<1>4. DOMAIN w = 1..Len(w)
    BY <1>3, LenProperties
<1> HIDE DEF p, w
<1>5. w[p] = r /\ \A i \in 1..Len(w) : i # p => from(i) \in 1..Len(waiting) /\ w[i] = waiting[from(i)]
    BY <1>1, <1>2, <1>3
<1>6. \A i, j \in 1..Len(w) : i # p /\ j # p => (from(i) = from(j) => i = j) /\ (i <= j => from(i) <= from(j))
    BY <1>1, <1>2, <1>3
<1>7. \A i \in 1..Len(w) : i # p => IF i < p THEN Priority(r) <= Priority(w[i])
                                             ELSE Priority(w[i]) <= Priority(r)
    <2>1. \A i \in 1..Len(w) : i # p => (i < p <=> from(i) < p)
        BY <1>1, <1>2, <1>3
    <2>2. QED
        BY <1>2, <1>5, <2>1
<1> HIDE DEF from
<1>8. \A i \in 1..Len(w) : i # p => w[i] # r
    BY <1>5 DEF Contains
<1>9. IsInjective(w)
    BY <1>1, <1>4, <1>5, <1>6, <1>8 DEF IsInjective
<1>10. Sorted(w)
    <2>1. SUFFICES ASSUME NEW i \in 1..Len(w), NEW j \in 1..Len(w), i <= j
                   PROVE  Priority(w[j]) <= Priority(w[i])
        BY DEF Sorted
    <2>2. CASE i # p /\ j # p
        BY <1>5, <1>6, <2>1, <2>2 DEF Sorted
    <2>3. CASE i = p /\ j # p
        BY <1>2, <1>3, <1>5, <1>7, <2>1, <2>3
    <2>4. CASE i # p /\ j = p
        BY <1>2, <1>3, <1>5, <1>7, <2>1, <2>4
    <2>5. CASE i = p /\ j = p
        BY <2>5 DEF Priority
    <2>6. QED
        BY <2>2, <2>3, <2>4, <2>5
<1>11. \A s : Contains(w, s) => s = r \/ Contains(waiting, s)
    BY <1>5 DEF Contains
<1>12. QED
    BY <1>9, <1>10, <1>11 DEF w

(* A step that leaves the queue and its members' threads alone.             *)
LEMMA QueueFrame ==
    ASSUME QueueInv, UNCHANGED waiting,
           \A s \in Request : thread[s] \in {"born", "slot"} => thread'[s] \in {"born", "slot"}
    PROVE  QueueInv'
BY DEF QueueInv, Coming, Sorted, Priority, Contains, IsInjective

(* A job that is refused, gets its slot or leaves is taken out of the queue.*)
LEMMA QueueLeaves ==
    ASSUME TypeOK, QueueInv, NEW r \in Request, NEW to, thread' = [thread EXCEPT ![r] = to],
           \/ waiting' = RemoveFirst(waiting, r)
           \/ waiting # <<>> /\ Head(waiting) = r /\ waiting' = Tail(waiting)
    PROVE  QueueInv'
<1>1. waiting \in Seq(Request) /\ thread \in [Request -> ThreadState]
    BY DEF TypeOK
<1>2. IsInjective(waiting') /\ Sorted(waiting') /\ \A s : Contains(waiting', s) => Contains(waiting, s) /\ s # r
    <2>1. CASE waiting' = RemoveFirst(waiting, r)
        BY <1>1, <2>1, OneTakenOut DEF QueueInv
    <2>2. CASE waiting # <<>> /\ Head(waiting) = r /\ waiting' = Tail(waiting)
        BY <1>1, <2>2, HeadTaken DEF QueueInv
    <2>3. QED
        BY <2>1, <2>2
<1>3. Coming'
    BY <1>1, <1>2 DEF QueueInv, Coming, Contains
<1>4. QED
    BY <1>2, <1>3 DEF QueueInv, Sorted, Priority

(* Every step keeps the queue: one joins, one leaves, or nobody moves.      *)
LEMMA QueueStep == TypeOK /\ RegistryInv /\ QueueInv /\ [Next]_vars => QueueInv'
<1> SUFFICES ASSUME TypeOK, RegistryInv, QueueInv, [Next]_vars PROVE QueueInv'
    OBVIOUS
<1>1. thread \in [Request -> ThreadState] /\ waiting \in Seq(Request)
    BY DEF TypeOK
<1>2. ASSUME NEW r \in Request, StartRegisters(r) PROVE QueueInv'
    <2>1. waiting' = Enqueued(r) /\ thread' = [thread EXCEPT ![r] = "born"] /\ thread[r] = "unborn"
        BY <1>2 DEF StartRegisters, RegistryInv, ThreadFollowsStart
    <2>2. ~Contains(waiting, r)
        BY <2>1 DEF QueueInv, Coming
    <2>3. IsInjective(waiting') /\ Sorted(waiting') /\ \A s : Contains(waiting', s) => s = r \/ Contains(waiting, s)
        BY <1>1, <2>1, <2>2, OneJoins DEF QueueInv
    <2>4. Coming'
        BY <1>1, <2>1, <2>3 DEF QueueInv, Coming, Contains
    <2>5. QED
        BY <2>3, <2>4 DEF QueueInv, Sorted, Priority
<1>3. ASSUME NEW r \in Request, ThreadStartFails(r) \/ AcquireSlot(r) \/ SlotRefused(r) \/ Releases(r)
      PROVE  QueueInv'
    <2>1. \E to : thread' = [thread EXCEPT ![r] = to]
        BY <1>3 DEF ThreadStartFails, AcquireSlot, SlotRefused, Releases
    <2>2. \/ waiting' = RemoveFirst(waiting, r)
          \/ waiting # <<>> /\ Head(waiting) = r /\ waiting' = Tail(waiting)
        BY <1>3 DEF ThreadStartFails, AcquireSlot, SlotRefused, Releases, ReleaseRegistry
    <2>3. QED
        BY <2>1, <2>2, QueueLeaves
<1>4. ASSUME NEW r \in Request,
             ThreadStarts(r) \/ TargetReturns(r) \/ RefusedCompletes(r) \/ WakesWaiter(r) \/ JobFinishClaims(r)
                 \/ JobNotifies(r)
      PROVE  QueueInv'
    <2>1. UNCHANGED waiting
        BY <1>4 DEF ThreadStarts, TargetReturns, RefusedCompletes, Completes, WakesWaiter, JobFinishClaims,
            FinishClaims, JobNotifies, OnDetachedDone, registryVars
    <2>2. \E to : thread' = [thread EXCEPT ![r] = to] /\ (thread[r] \notin {"born", "slot"} \/ to = "slot")
        BY <1>4 DEF ThreadStarts, TargetReturns, RefusedCompletes, Completes, WakesWaiter,
            JobFinishClaims, JobNotifies
    <2>3. QED
        BY <1>1, <2>1, <2>2, QueueFrame
<1>5. ASSUME NEW r \in Request,
             \/ Precheck(r) \/ StartRefused(r) \/ StartDuplicate(r) \/ StartBusy(r) \/ AddWaker(r) \/ WaiterWoken(r)
             \/ WaitTimeout(r) \/ CallerCancelled(r) \/ AutoDetaches(r) \/ SlotWaitTick(r) \/ DelivererStep(r)
             \/ NoticeStep(r) \/ GrowsOld(r)
      PROVE  UNCHANGED <<waiting, thread>>
    BY <1>5 DEF Precheck, StartRefused, StartDuplicate, StartBusy, AddWaker, WaiterWoken, WaitTimeout,
        CallerCancelled, AutoDetaches, SlotWaitTick, DelivererStep, DelivererClaims, FinishClaims,
            DelivererNotifies,
        OnDetachedDone, NoticeStep, SweeperMarks, ReporterPosts, ShutdownMarks, GrowsOld, registryVars
<1>6. CASE InterruptAll \/ ShutdownReports \/ Finished \/ UNCHANGED vars
    BY <1>6, QueueFrame DEF InterruptAll, ShutdownReports, Finished, vars, registryVars
<1>7. ASSUME UNCHANGED <<waiting, thread>> PROVE QueueInv'
    BY <1>7, QueueFrame
<1>8. QED
    BY <1>2, <1>3, <1>4, <1>5, <1>6, <1>7 DEF Next, CallerStep, JobStep

(* A step that writes no entry and ends no job.                             *)
LEMMA EntryFrame ==
    ASSUME TypeOK, EntryInv, \A k \in Key : jobs'[k] \in {jobs[k], NoJob},
           \A s \in Request : Live(s) => Live(s)'
    PROVE  EntryInv'
BY DEF EntryInv, TypeOK

(* Every step keeps the entries: an ending job takes its own away.          *)
LEMMA EntryStep == TypeOK /\ RegistryInv /\ EntryInv /\ [Next]_vars => EntryInv'
<1> SUFFICES ASSUME TypeOK, RegistryInv, EntryInv, [Next]_vars PROVE EntryInv'
    OBVIOUS
<1>1. thread \in [Request -> ThreadState] /\ jobs \in [Key -> Request \cup {NoJob}]
    BY DEF TypeOK
<1>2. ASSUME NEW r \in Request, StartRegisters(r) PROVE EntryInv'
    <2>1. /\ jobs' = [SweptJobs EXCEPT ![KeyOf[r]] = r] /\ thread' = [thread EXCEPT ![r] = "born"]
        BY <1>2 DEF StartRegisters
    <2>2. QED
        BY <1>1, <2>1, RequestAssumption DEF EntryInv, SweptJobs, Live
<1>3. ASSUME NEW r \in Request, ThreadStartFails(r) \/ Releases(r) PROVE EntryInv'
    <2>1. jobs' = ReleasedJobs(r) /\ thread' = [thread EXCEPT ![r] = "ended"]
        BY <1>3 DEF ThreadStartFails, Releases, ReleaseRegistry
    <2>2. QED
        BY <1>1, <2>1, RequestAssumption DEF EntryInv, ReleasedJobs, Live
<1>4. ASSUME NEW r \in Request, Precheck(r) \/ StartDuplicate(r) \/ StartBusy(r) \/ SlotWaitTick(r)
      PROVE  EntryInv'
    <2>1. jobs' \in {jobs, SweptJobs} /\ UNCHANGED thread
        BY <1>4 DEF Precheck, StartDuplicate, StartBusy, SlotWaitTick
    <2>2. \A k \in Key : jobs'[k] \in {jobs[k], NoJob}
        BY <2>1 DEF SweptJobs
    <2>3. QED
        BY <2>1, <2>2, EntryFrame DEF Live
<1>5. ASSUME NEW r \in Request,
             \/ ThreadStarts(r) \/ AcquireSlot(r) \/ SlotRefused(r) \/ TargetReturns(r) \/ RefusedCompletes(r)
             \/ WakesWaiter(r) \/ JobFinishClaims(r) \/ JobNotifies(r)
      PROVE  EntryInv'
    <2>1. UNCHANGED jobs
        BY <1>5 DEF ThreadStarts, AcquireSlot, SlotRefused, TargetReturns, RefusedCompletes, Completes,
            WakesWaiter,
            JobFinishClaims, FinishClaims, JobNotifies, OnDetachedDone, registryVars
    <2>2. \E to \in ThreadState \ {"unborn", "ended"} : thread' = [thread EXCEPT ![r] = to]
        BY <1>5 DEF ThreadStarts, AcquireSlot, SlotRefused, TargetReturns, RefusedCompletes, Completes,
            WakesWaiter,
            JobFinishClaims, JobNotifies, ThreadState
    <2>3. \A s \in Request : Live(s) => Live(s)'
        BY <1>1, <2>2 DEF Live
    <2>4. QED
        BY <2>1, <2>3, EntryFrame
<1>6. ASSUME NEW r \in Request,
             \/ StartRefused(r) \/ AddWaker(r) \/ WaiterWoken(r) \/ WaitTimeout(r) \/ CallerCancelled(r)
             \/ AutoDetaches(r) \/ DelivererStep(r) \/ NoticeStep(r) \/ GrowsOld(r)
      PROVE  UNCHANGED <<jobs, thread>>
    BY <1>6 DEF StartRefused, AddWaker, WaiterWoken, WaitTimeout, CallerCancelled, AutoDetaches, DelivererStep,
        DelivererClaims, FinishClaims, DelivererNotifies, OnDetachedDone, NoticeStep, SweeperMarks,
            ReporterPosts,
        ShutdownMarks, GrowsOld, registryVars
<1>7. CASE InterruptAll \/ ShutdownReports \/ Finished \/ UNCHANGED vars
    BY <1>7, EntryFrame DEF InterruptAll, ShutdownReports, Finished, vars, registryVars, Live
<1>8. ASSUME UNCHANGED <<jobs, thread>> PROVE EntryInv'
    BY <1>8, EntryFrame DEF Live
<1>9. QED
    BY <1>2, <1>3, <1>4, <1>5, <1>6, <1>7, <1>8 DEF Next, CallerStep, JobStep

(* The queue and the entries of every reachable registry.                   *)
THEOREM QueueInvariant == Spec => [](QueueInv /\ EntryInv)
<1>1. Init => QueueInv /\ EntryInv
    BY DEF Init, QueueInv, Coming, Sorted, IsInjective, Contains, EntryInv
<1>2. QED
    BY <1>1, QueueStep, EntryStep, Typing, RegistryInvariant, PTL DEF Spec

(* A job whose thread has ended holds no slot, no place in the queue and no *)
(* key (release, start when the thread does not start, acquire_slot).       *)
THEOREM NothingLeaks == Spec => []NothingLeaked
<1>1. TypeOK /\ RegistryInv /\ QueueInv /\ EntryInv => NothingLeaked
    <2> SUFFICES ASSUME TypeOK, RegistryInv, QueueInv, EntryInv, NEW r \in Request, thread[r] = "ended"
                 PROVE  r \notin running /\ ~Contains(waiting, r) /\ jobs[KeyOf[r]] # r
        BY DEF NothingLeaked
    <2>1. r \notin running
        BY DEF RegistryInv, SlotsHeldByWorkers, Working
    <2>2. ~Contains(waiting, r)
        BY DEF QueueInv, Coming
    <2>3. jobs[KeyOf[r]] # r
        BY RequestAssumption DEF EntryInv, Live
    <2>4. QED
        BY <2>1, <2>2, <2>3
<1>2. QED
    BY <1>1, QueueInvariant, RegistryInvariant, Typing, PTL

(* The automatic second stage gets no slot while an explicit request waits: *)
(* the queue is in the order of priorities, and only its head gets a slot   *)
(* (_enqueue_locked, acquire_slot).                                         *)
THEOREM ExplicitGoesFirst == Spec => ExplicitFirst
<1> DEFINE Passes == \A r \in AutoRequest : r \in running' \ running =>
                        \A s \in Explicit : ~Contains(waiting, s)
<1>1. TypeOK /\ QueueInv /\ [Next]_vars => [Passes]_vars
    <2> SUFFICES ASSUME TypeOK, QueueInv, [Next]_vars, NEW a \in AutoRequest, a \in running' \ running
                 PROVE  \A s \in Explicit : ~Contains(waiting, s)
        OBVIOUS
    <2>1. PICK r \in Request : AcquireSlot(r)
        <3>1. ASSUME NEW r \in Request, CallerStep(r) PROVE running' \subseteq running
            BY <3>1 DEF CallerStep, Precheck, StartRefused, StartDuplicate, StartBusy, StartRegisters,
                ThreadStarts, ThreadStartFails, AddWaker, WaiterWoken, WaitTimeout, CallerCancelled,
                AutoDetaches, SweepSlots, ReleaseRegistry, registryVars
        <3>2. ASSUME NEW r \in Request, JobStep(r), ~AcquireSlot(r) PROVE running' \subseteq running
            BY <3>2 DEF JobStep, SlotRefused, SlotWaitTick, SweepSlots, RefusedCompletes, Completes,
                WakesWaiter,
                JobFinishClaims, FinishClaims, JobNotifies, OnDetachedDone, Releases, ReleaseRegistry,
                    registryVars
        <3>3. ASSUME NEW r \in Request, TargetReturns(r) \/ DelivererStep(r) \/ NoticeStep(r) \/ GrowsOld(r)
              PROVE  running' = running
            BY <3>3 DEF TargetReturns, Completes, DelivererStep, DelivererClaims, FinishClaims,
                DelivererNotifies,
                OnDetachedDone, NoticeStep, SweeperMarks, ReporterPosts, ShutdownMarks, GrowsOld, registryVars
        <3>4. CASE InterruptAll \/ ShutdownReports \/ Finished \/ UNCHANGED vars
            BY <3>4 DEF InterruptAll, ShutdownReports, Finished, vars, registryVars
        <3>5. QED
            BY <3>1, <3>2, <3>3, <3>4 DEF Next
    <2>2. a = r /\ waiting # <<>> /\ Head(waiting) = a
        BY <2>1 DEF AcquireSlot
    <2>3. waiting \in Seq(Request) /\ Len(waiting) \in Nat /\ Len(waiting) >= 1 /\ waiting[1] = a
        BY <2>2, LenProperties, EmptySeq DEF TypeOK
    <2>4. ASSUME NEW i \in 1..Len(waiting) PROVE Priority(waiting[i]) = 0
        <3>1. Priority(waiting[i]) <= Priority(a)
            BY <2>3 DEF QueueInv, Sorted
        <3>2. QED
            BY <3>1 DEF Priority
    <2>5. QED
        BY <2>4 DEF Contains, Priority, Explicit
<1>2. QED
    BY <1>1, QueueInvariant, Typing, PTL DEF Spec, ExplicitFirst

-----------------------------------------------------------------------------
(* What a request has been told, or is about to be told, by whom.           *)

Silent(r) == reply[r] \in {"none", "receipt", "dropped"}

Reported(r) == \E kind \in Notice : <<r, kind>> \in reporters

Untold(r) == notices[r] = <<>> /\ r \notin marked /\ ~Reported(r)

Announcing(r) == (thread[r] = "notify" \/ deliverer[r] = "notify") /\ r \notin saw

(* The job ends, is detached and is claimed by one of its two threads, each *)
(* once and in this order.                                                  *)
Course(r) ==
    /\ caller[r] # "answered" => reply[r] = "none"
    /\ r \in detached => caller[r] \in {"answered", "gone"}
    /\ r \in interrupted => r \in detached
    /\ r \in handled => r \in done /\ r \in detached
    /\ r \in done => thread[r] \in {"finish", "notify", "wake", "release", "ended"}
    /\ thread[r] \in {"finish", "notify", "wake", "release"} => r \in done
    /\ thread[r] = "finish" => r \in detached
    /\ deliverer[r] # "none" => r \in detached /\ r \in done
    /\ thread[r] = "notify" \/ deliverer[r] = "notify" => r \in handled
    /\ r \in saw <=> r \in handled /\ r \in interrupted

(* An interruption has one messenger: the reply, the mark of the shutdown,  *)
(* a posting thread or the notice.  So has the end of a job that was not    *)
(* interrupted: one of the two threads that complete it, or the notice.     *)
Messenger(r) ==
    /\ r \notin interrupted /\ r \notin handled => Untold(r)
    /\ r \notin interrupted => r \notin marked /\ ~Reported(r)
    /\ r \in detached /\ r \notin interrupted => Silent(r)
    /\ ~Silent(r) => Untold(r)
    /\ r \in marked => ~Reported(r) /\ notices[r] = <<>>
    /\ Reported(r) => notices[r] = <<>>
    /\ \A kind, other \in Notice : <<r, kind>> \in reporters /\ <<r, other>> \in reporters => kind = other
    /\ Announcing(r) => notices[r] = <<>>
    /\ ~(thread[r] = "notify" /\ deliverer[r] = "notify" /\ r \notin saw)
    /\ Len(notices[r]) <= 1

OutcomeInv == \A r \in Request : Course(r) /\ Messenger(r)

(* Every step keeps the course of a job, ...                                 *)
LEMMA CourseStep ==
    TypeOK /\ RegistryInv /\ OutcomeInv /\ [Next]_vars => \A s \in Request : Course(s)'
<1> SUFFICES ASSUME TypeOK, RegistryInv, OutcomeInv, [Next]_vars, NEW s \in Request PROVE Course(s)'
    OBVIOUS
<1> USE RequestAssumption DEF OutcomeInv, Course, TypeOK, RegistryInv, ThreadFollowsStart,
        registryVars, flagVars, noticeVars, shutdownVars, vars
<1>1. ASSUME NEW r \in Request, Precheck(r) PROVE Course(s)'
    <2>1. /\ caller[r] = "idle"
          /\ \/ Answer(r, "inProgress")
             \/ caller' = [caller EXCEPT ![r] = "prechecked"] /\ UNCHANGED reply
        BY <1>1 DEF Precheck
    <2>2. UNCHANGED <<flagVars, thread, deliverer, saw>>
        BY <1>1 DEF Precheck
    <2>3. CASE Answer(r, "inProgress")
        BY <2>1, <2>2, <2>3 DEF Answer
    <2>4. CASE caller' = [caller EXCEPT ![r] = "prechecked"] /\ UNCHANGED reply
        BY <2>1, <2>2, <2>4
    <2>5. QED
        BY <2>1, <2>3, <2>4
<1>2. ASSUME NEW r \in Request, StartRefused(r) PROVE Course(s)'
    BY <1>2 DEF StartRefused, Answer
<1>3. ASSUME NEW r \in Request, StartDuplicate(r) PROVE Course(s)'
    BY <1>3 DEF StartDuplicate, Answer
<1>4. ASSUME NEW r \in Request, StartBusy(r) PROVE Course(s)'
    BY <1>4 DEF StartBusy, Answer
<1>5. ASSUME NEW r \in Request, StartRegisters(r) PROVE Course(s)'
    BY <1>5 DEF StartRegisters
<1>6. ASSUME NEW r \in Request, ThreadStarts(r) PROVE Course(s)'
    BY <1>6 DEF ThreadStarts
<1>7. ASSUME NEW r \in Request, ThreadStartFails(r) PROVE Course(s)'
    BY <1>7 DEF ThreadStartFails, Answer
<1>8. ASSUME NEW r \in Request, AddWaker(r) PROVE Course(s)'
    BY <1>8 DEF AddWaker
<1>9. ASSUME NEW r \in Request, WaiterWoken(r) PROVE Course(s)'
    BY <1>9 DEF WaiterWoken, Answer, OutcomeReply
<1>10. ASSUME NEW r \in Request, WaitTimeout(r) PROVE Course(s)'
    BY <1>10 DEF WaitTimeout, Answer, OutcomeReply, DetachFlags, DetachResult
<1>11. ASSUME NEW r \in Request, CallerCancelled(r) PROVE Course(s)'
    BY <1>11 DEF CallerCancelled, DetachFlags, DetachResult
<1>12. ASSUME NEW r \in Request, AutoDetaches(r) PROVE Course(s)'
    BY <1>12 DEF AutoDetaches, Answer, DetachFlags, DetachResult
<1>13. ASSUME NEW r \in Request, AcquireSlot(r) PROVE Course(s)'
    BY <1>13 DEF AcquireSlot
<1>14. ASSUME NEW r \in Request, SlotRefused(r) PROVE Course(s)'
    BY <1>14 DEF SlotRefused
<1>15. ASSUME NEW r \in Request, SlotWaitTick(r) PROVE Course(s)'
    BY <1>15 DEF SlotWaitTick
<1>16. ASSUME NEW r \in Request, RefusedCompletes(r) PROVE Course(s)'
    BY <1>16 DEF RefusedCompletes, Completes
<1>17. ASSUME NEW r \in Request, WakesWaiter(r) PROVE Course(s)'
    BY <1>17 DEF WakesWaiter
<1>18. ASSUME NEW r \in Request, JobFinishClaims(r) PROVE Course(s)'
    BY <1>18 DEF JobFinishClaims, FinishClaims
<1>19. ASSUME NEW r \in Request, JobNotifies(r) PROVE Course(s)'
    BY <1>19 DEF JobNotifies, OnDetachedDone
<1>20. ASSUME NEW r \in Request, Releases(r) PROVE Course(s)'
    BY <1>20 DEF Releases
<1>21. ASSUME NEW r \in Request, TargetReturns(r) PROVE Course(s)'
    BY <1>21 DEF TargetReturns, Completes
<1>22. ASSUME NEW r \in Request, DelivererClaims(r) PROVE Course(s)'
    BY <1>22 DEF DelivererClaims, FinishClaims
<1>23. ASSUME NEW r \in Request, DelivererNotifies(r) PROVE Course(s)'
    BY <1>23 DEF DelivererNotifies, OnDetachedDone
<1>24. ASSUME NEW r \in Request, SweeperMarks(r) PROVE Course(s)'
    BY <1>24 DEF SweeperMarks, MayMark
<1>25. ASSUME NEW r \in Request, ReporterPosts(r) PROVE Course(s)'
    BY <1>25 DEF ReporterPosts
<1>26. ASSUME NEW r \in Request, ShutdownMarks(r) PROVE Course(s)'
    BY <1>26 DEF ShutdownMarks, MayMark
<1>27. ASSUME NEW r \in Request, GrowsOld(r) PROVE Course(s)'
    BY <1>27 DEF GrowsOld
<1>28. CASE InterruptAll
    BY <1>28 DEF InterruptAll
<1>29. CASE ShutdownReports
    BY <1>29 DEF ShutdownReports
<1>30. CASE Finished
    BY <1>30 DEF Finished
<1>31. CASE UNCHANGED vars
    BY <1>31 DEF vars
<1>q. QED
    BY <1>1, <1>2, <1>3, <1>4, <1>5, <1>6, <1>7, <1>8, <1>9, <1>10, <1>11, <1>12, <1>13, <1>14, <1>15,
        <1>16, <1>17, <1>18, <1>19, <1>20, <1>21, <1>22, <1>23, <1>24, <1>25, <1>26, <1>27, <1>28, <1>29,
        <1>30, <1>31
        DEF Next, CallerStep, JobStep, DelivererStep, NoticeStep

(* ... and its one messenger.                                               *)
LEMMA MessengerStep ==
    TypeOK /\ RegistryInv /\ OutcomeInv /\ [Next]_vars => \A s \in Request : Messenger(s)'
<1> SUFFICES ASSUME TypeOK, RegistryInv, OutcomeInv, [Next]_vars, NEW s \in Request PROVE Messenger(s)'
    OBVIOUS
<1> USE RequestAssumption DEF OutcomeInv, Course, Messenger, Untold, Reported, Announcing, Silent, Notice,
        TypeOK, RegistryInv, ThreadFollowsStart, registryVars, flagVars, noticeVars, shutdownVars, vars
<1>1. ASSUME NEW r \in Request, Precheck(r) PROVE Messenger(s)'
    BY <1>1 DEF Precheck, PrecheckAnswers, Answer
<1>2. ASSUME NEW r \in Request, StartRefused(r) PROVE Messenger(s)'
    BY <1>2 DEF StartRefused, Answer
<1>3. ASSUME NEW r \in Request, StartDuplicate(r) PROVE Messenger(s)'
    BY <1>3 DEF StartDuplicate, Answer
<1>4. ASSUME NEW r \in Request, StartBusy(r) PROVE Messenger(s)'
    BY <1>4 DEF StartBusy, Answer
<1>5. ASSUME NEW r \in Request, StartRegisters(r) PROVE Messenger(s)'
    BY <1>5 DEF StartRegisters
<1>6. ASSUME NEW r \in Request, ThreadStarts(r) PROVE Messenger(s)'
    BY <1>6 DEF ThreadStarts
<1>7. ASSUME NEW r \in Request, ThreadStartFails(r) PROVE Messenger(s)'
    BY <1>7 DEF ThreadStartFails, Answer
<1>8. ASSUME NEW r \in Request, AddWaker(r) PROVE Messenger(s)'
    BY <1>8 DEF AddWaker
<1>9. ASSUME NEW r \in Request, WaiterWoken(r) PROVE Messenger(s)'
    BY <1>9 DEF WaiterWoken, Answer, OutcomeReply
<1>10. ASSUME NEW r \in Request, WaitTimeout(r) PROVE Messenger(s)'
    BY <1>10 DEF WaitTimeout, Answer, OutcomeReply, DetachFlags, DetachResult
<1>11. ASSUME NEW r \in Request, CallerCancelled(r) PROVE Messenger(s)'
    BY <1>11 DEF CallerCancelled, DetachFlags, DetachResult
<1>12. ASSUME NEW r \in Request, AutoDetaches(r) PROVE Messenger(s)'
    BY <1>12 DEF AutoDetaches, Answer, DetachFlags, DetachResult
<1>13. ASSUME NEW r \in Request, AcquireSlot(r) PROVE Messenger(s)'
    BY <1>13 DEF AcquireSlot
<1>14. ASSUME NEW r \in Request, SlotRefused(r) PROVE Messenger(s)'
    BY <1>14 DEF SlotRefused
<1>15. ASSUME NEW r \in Request, SlotWaitTick(r) PROVE Messenger(s)'
    BY <1>15 DEF SlotWaitTick
<1>16. ASSUME NEW r \in Request, RefusedCompletes(r) PROVE Messenger(s)'
    BY <1>16 DEF RefusedCompletes, Completes
<1>17. ASSUME NEW r \in Request, WakesWaiter(r) PROVE Messenger(s)'
    BY <1>17 DEF WakesWaiter
<1>18. ASSUME NEW r \in Request, JobFinishClaims(r) PROVE Messenger(s)'
    BY <1>18 DEF JobFinishClaims, FinishClaims
<1>19. ASSUME NEW r \in Request, JobNotifies(r) PROVE Messenger(s)'
    BY <1>19 DEF JobNotifies, OnDetachedDone
<1>20. ASSUME NEW r \in Request, Releases(r) PROVE Messenger(s)'
    BY <1>20 DEF Releases
<1>21. ASSUME NEW r \in Request, TargetReturns(r) PROVE Messenger(s)'
    BY <1>21 DEF TargetReturns, Completes
<1>22. ASSUME NEW r \in Request, DelivererClaims(r) PROVE Messenger(s)'
    BY <1>22 DEF DelivererClaims, FinishClaims
<1>23. ASSUME NEW r \in Request, DelivererNotifies(r) PROVE Messenger(s)'
    BY <1>23 DEF DelivererNotifies, OnDetachedDone
<1>24. ASSUME NEW r \in Request, SweeperMarks(r) PROVE Messenger(s)'
    BY <1>24 DEF SweeperMarks, MayMark
<1>25. ASSUME NEW r \in Request, ReporterPosts(r) PROVE Messenger(s)'
    BY <1>25 DEF ReporterPosts
<1>26. ASSUME NEW r \in Request, ShutdownMarks(r) PROVE Messenger(s)'
    BY <1>26 DEF ShutdownMarks, MayMark
<1>27. ASSUME NEW r \in Request, GrowsOld(r) PROVE Messenger(s)'
    BY <1>27 DEF GrowsOld
<1>28. CASE InterruptAll
    BY <1>28 DEF InterruptAll
<1>29. CASE ShutdownReports
    BY <1>29 DEF ShutdownReports
<1>30. CASE Finished
    BY <1>30 DEF Finished
<1>31. CASE UNCHANGED vars
    BY <1>31 DEF vars
<1>q. QED
    BY <1>1, <1>2, <1>3, <1>4, <1>5, <1>6, <1>7, <1>8, <1>9, <1>10, <1>11, <1>12, <1>13, <1>14, <1>15,
        <1>16, <1>17, <1>18, <1>19, <1>20, <1>21, <1>22, <1>23, <1>24, <1>25, <1>26, <1>27, <1>28, <1>29,
        <1>30, <1>31
        DEF Next, CallerStep, JobStep, DelivererStep, NoticeStep

(* Every job takes its course and has one messenger at most.                *)
THEOREM OutcomeInvariant == Spec => []OutcomeInv
<1>1. Init => OutcomeInv
    BY DEF Init, OutcomeInv, Course, Messenger, Untold, Reported, Announcing, Silent
<1>2. TypeOK /\ RegistryInv /\ OutcomeInv /\ [Next]_vars => OutcomeInv'
    BY CourseStep, MessengerStep DEF OutcomeInv
<1>3. QED
    BY <1>1, <1>2, Typing, RegistryInvariant, PTL DEF Spec

(* Nobody is told two outcomes of a request, in whatever order the job      *)
(* ends, its caller waits, leaves or is cancelled, the sweep gives it up    *)
(* and the process is told to stop (detach, mark_interrupted,               *)
(* _finish_detached, notify_interrupted).                                   *)
THEOREM OneOutcome == Spec => []AtMostOneOutcome
<1>1. TypeOK /\ OutcomeInv => AtMostOneOutcome
    <2> SUFFICES ASSUME TypeOK, OutcomeInv, NEW r \in Request PROVE Outcomes(r) <= 1
        BY DEF AtMostOneOutcome
    <2>1. Len(notices[r]) \in Nat /\ Len(notices[r]) <= 1 /\ (~Silent(r) => notices[r] = <<>>)
        BY LenProperties DEF TypeOK, OutcomeInv, Messenger, Untold
    <2>2. CASE Silent(r)
        BY <2>1, <2>2 DEF Outcomes, Silent
    <2>3. CASE ~Silent(r)
        BY <2>1, <2>3 DEF Outcomes, Silent
    <2>4. QED
        BY <2>2, <2>3
<1>2. QED
    BY <1>1, OutcomeInvariant, Typing, PTL
=============================================================================
