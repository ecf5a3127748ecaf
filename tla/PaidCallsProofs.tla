-------------------------- MODULE PaidCallsProofs --------------------------
(* Proofs about PaidCalls, for any calls, limits and faults: the gate, then *)
(* the ledger.  What a sum over a set is, which the library defines by      *)
(* recursion, is proved in between.                                         *)
EXTENDS PaidCalls, SequencesExt, SequenceTheorems, FiniteSetTheorems, WellFoundedInduction, TLAPS

(* Nobody is in the queue twice; with the true count and the balance of the *)
(* units this is preserved by every step.                                   *)
GateInv == GateTypeOK /\ IsInjective(queue) /\ UnitsBalanced /\ WaitingIsTrue

Place == {"idle", "waits", "woken", "gone", "wokenGone", "runs", "ended"}
CallsAt(at, places) == {c \in Call : at[c] \in places}
Unit == {"woken", "wokenGone", "runs"}
Queued == {"woken", "wokenGone", "waits", "gone"}

-----------------------------------------------------------------------------
(* What the queue operators return.                                        *)

(* The least element of a set of numbers, which names a place in the queue. *)
LEMMA MinOfNaturals ==
    ASSUME NEW T, T \subseteq Nat, T # {}
    PROVE  Min(T) \in T /\ \A y \in T : Min(T) <= y
<1>1. PICK x \in T : \A y \in T : ~(<<y, x>> \in OpToRel(<, Nat))
    BY NatLessThanWellFounded, WFMin
<1>2. ASSUME NEW y \in T PROVE x <= y
    <2>1. <<y, x>> \in Nat \X Nat
        OBVIOUS
    <2>2. ~(<<y, x>>[1] < <<y, x>>[2])
        BY <1>1, <2>1, Zenon DEF OpToRel
    <2>3. QED
        BY <2>2
<1>3. QED
    BY <1>2 DEF Min

(* An element that is in the queue once is removed, and nothing else is.    *)
LEMMA RemoveFirstOnce ==
    ASSUME NEW S, NEW q \in Seq(S), NEW e \in ToSet(q), IsInjective(q)
    PROVE  /\ RemoveFirst(q, e) \in Seq(S)
           /\ Len(RemoveFirst(q, e)) = Len(q) - 1
           /\ ToSet(RemoveFirst(q, e)) = ToSet(q) \ {e}
           /\ IsInjective(RemoveFirst(q, e))
<1> DEFINE I == {i \in 1..Len(q) : q[i] = e}
           k == Min(I)
           r == RemoveFirst(q, e)
<1>1. Len(q) \in Nat /\ DOMAIN q = 1..Len(q) /\ \A i \in 1..Len(q) : q[i] \in S
    BY LenProperties, ElementOfSeq
<1>2. \A i, j \in 1..Len(q) : q[i] = q[j] => i = j
    BY <1>1 DEF IsInjective
<1>3. I # {} /\ I \subseteq Nat
    BY <1>1 DEF ToSet
<1>4. k \in I
    BY <1>3, MinOfNaturals
<1>5. k \in 1..Len(q) /\ q[k] = e
    BY <1>4
<1>6. r = SubSeq(q, 1, k - 1) \o SubSeq(q, k + 1, Len(q))
    BY <1>3 DEF RemoveFirst, SelectInSeq, RemoveAt
<1> HIDE DEF k, r
<1>7. /\ SubSeq(q, 1, k - 1) \in Seq(S) /\ Len(SubSeq(q, 1, k - 1)) = k - 1
      /\ \A i \in 1..(k - 1) : SubSeq(q, 1, k - 1)[i] = q[i]
    <2>1. \A i \in 1..(k - 1) : q[i] \in S
        BY <1>1, <1>5
    <2>2. 1 \in Int /\ k - 1 \in Int
        BY <1>5
    <2>3. SubSeq(q, 1, k - 1) \in Seq(S)
        BY <2>1, <2>2, SubSeqProperties, Zenon
    <2>4. Len(SubSeq(q, 1, k - 1)) = k - 1
        BY <1>1, <1>5, <2>1, <2>2
    <2>5. ASSUME NEW i \in 1..(k - 1) PROVE SubSeq(q, 1, k - 1)[i] = q[i]
        BY <1>1, <1>5, <2>1, <2>2
    <2>6. QED
        BY <2>3, <2>4, <2>5, Zenon
<1>8. /\ SubSeq(q, k + 1, Len(q)) \in Seq(S) /\ Len(SubSeq(q, k + 1, Len(q))) = Len(q) - k
      /\ \A i \in 1..(Len(q) - k) : SubSeq(q, k + 1, Len(q))[i] = q[k + i]
    <2>1. \A i \in (k + 1)..Len(q) : q[i] \in S
        BY <1>1, <1>5
    <2>2. k + 1 \in Int /\ Len(q) \in Int
        BY <1>1, <1>5
    <2>3. SubSeq(q, k + 1, Len(q)) \in Seq(S)
        BY <2>1, <2>2, SubSeqProperties, Zenon
    <2>4. Len(SubSeq(q, k + 1, Len(q))) = Len(q) - k
        <3>1. Len(SubSeq(q, k + 1, Len(q))) = IF k + 1 <= Len(q) THEN Len(q) - (k + 1) + 1 ELSE 0
            BY <2>1, <2>2, SubSeqProperties, ZenonT(30)
        <3>2. CASE k + 1 <= Len(q)
            <4>1. Len(SubSeq(q, k + 1, Len(q))) = Len(q) - (k + 1) + 1
                BY <3>1, <3>2, Zenon
            <4>2. Len(q) - (k + 1) + 1 = Len(q) - k
                BY <1>1, <1>5
            <4>3. QED
                BY <4>1, <4>2, Zenon
        <3>3. CASE ~(k + 1 <= Len(q))
            <4>1. Len(SubSeq(q, k + 1, Len(q))) = 0
                BY <3>1, <3>3, Zenon
            <4>2. Len(q) - k = 0
                <5>1. k \in Nat /\ Len(q) \in Nat /\ k <= Len(q)
                    BY <1>1, <1>5
                <5>2. QED
                    BY <3>3, <5>1
            <4>3. QED
                BY <4>1, <4>2, Zenon
        <3>4. QED
            BY <3>2, <3>3, Zenon
    <2>5. ASSUME NEW i \in 1..(Len(q) - k) PROVE SubSeq(q, k + 1, Len(q))[i] = q[k + i]
        BY <1>1, <1>5, <2>1, <2>2
    <2>6. QED
        BY <2>3, <2>4, <2>5, Zenon
<1>9. /\ r \in Seq(S) /\ Len(r) = Len(q) - 1
      /\ \A i \in 1..Len(r) : r[i] = IF i < k THEN q[i] ELSE q[i + 1]
    <2> DEFINE a == SubSeq(q, 1, k - 1)
               b == SubSeq(q, k + 1, Len(q))
    <2> HIDE DEF a, b
    <2>1. /\ a \o b \in Seq(S) /\ Len(a \o b) = Len(a) + Len(b)
          /\ \A i \in 1..(Len(a) + Len(b)) : (a \o b)[i] = IF i <= Len(a) THEN a[i] ELSE b[i - Len(a)]
        BY <1>7, <1>8, ConcatProperties DEF a, b
    <2>2. r = a \o b
        BY <1>6 DEF a, b
    <2>3. Len(a) = k - 1 /\ \A i \in 1..(k - 1) : a[i] = q[i]
        BY <1>7 DEF a
    <2>4. Len(b) = Len(q) - k /\ \A i \in 1..(Len(q) - k) : b[i] = q[k + i]
        BY <1>8 DEF b
    <2>5. Len(r) = Len(q) - 1
        <3>1. Len(r) = (k - 1) + (Len(q) - k)
            BY <2>1, <2>2, <2>3, <2>4, Zenon
        <3>2. QED
            BY <1>1, <1>5, <3>1
    <2>6. ASSUME NEW i \in 1..Len(r) PROVE r[i] = IF i < k THEN q[i] ELSE q[i + 1]
        <3>1. CASE i < k
            BY <1>1, <1>5, <2>1, <2>2, <2>3, <2>4, <2>5, <3>1
        <3>2. CASE ~(i < k)
            <4>1. i - (k - 1) \in 1..(Len(q) - k) /\ k + (i - (k - 1)) = i + 1
                BY <1>1, <1>5, <2>5, <3>2
            <4>2. r[i] = b[i - (k - 1)]
                BY <1>1, <1>5, <2>1, <2>2, <2>3, <2>4, <2>5, <3>2
            <4>3. b[i - (k - 1)] = q[k + (i - (k - 1))]
                BY <2>4, <4>1
            <4>4. QED
                BY <3>2, <4>1, <4>2, <4>3
        <3>3. QED
            BY <3>1, <3>2
    <2>7. QED
        BY <2>1, <2>2, <2>5, <2>6
<1>10. DOMAIN r = 1..Len(r)
    BY <1>9, LenProperties
<1>11. ToSet(r) = ToSet(q) \ {e}
    <2>1. ASSUME NEW i \in 1..Len(r) PROVE r[i] \in ToSet(q) \ {e}
        <3>1. CASE i < k
            <4>1. r[i] = q[i] /\ i \in 1..Len(q) /\ i # k
                BY <1>1, <1>5, <1>9, <3>1
            <4>2. QED
                BY <1>1, <1>2, <1>5, <4>1 DEF ToSet
        <3>2. CASE ~(i < k)
            <4>1. r[i] = q[i + 1] /\ i + 1 \in 1..Len(q) /\ i + 1 # k
                BY <1>1, <1>5, <1>9, <3>2
            <4>2. QED
                BY <1>1, <1>2, <1>5, <4>1 DEF ToSet
        <3>3. QED
            BY <3>1, <3>2
    <2>2. ASSUME NEW i \in 1..Len(q), q[i] # e PROVE \E j \in 1..Len(r) : r[j] = q[i]
        <3>1. CASE i < k
            <4>1. i \in 1..Len(r) /\ r[i] = q[i]
                BY <1>1, <1>5, <1>9, <3>1
            <4>2. QED
                BY <4>1
        <3>2. CASE i > k
            <4>1. i - 1 \in 1..Len(r) /\ ~(i - 1 < k) /\ (i - 1) + 1 = i
                BY <1>1, <1>5, <1>9, <3>2
            <4>2. r[i - 1] = q[i]
                BY <1>9, <4>1
            <4>3. QED
                BY <4>1, <4>2
        <3>3. i # k
            BY <1>5, <2>2
        <3>4. QED
            BY <1>1, <1>5, <3>1, <3>2, <3>3
    <2>3. ToSet(r) = {r[i] : i \in 1..Len(r)} /\ ToSet(q) = {q[i] : i \in 1..Len(q)}
        BY <1>1, <1>10 DEF ToSet
    <2>4. ToSet(r) \subseteq ToSet(q) \ {e}
        BY <2>1, <2>3
    <2>5. ToSet(q) \ {e} \subseteq ToSet(r)
        BY <2>2, <2>3
    <2>6. QED
        BY <2>4, <2>5
<1>12. IsInjective(r)
    <2>1. ASSUME NEW i \in 1..Len(r), NEW j \in 1..Len(r), r[i] = r[j] PROVE i = j
        <3>1. Len(r) = Len(q) - 1 /\ i + 1 \in 1..Len(q) /\ j + 1 \in 1..Len(q)
              /\ i \in 1..Len(q) /\ j \in 1..Len(q)
            BY <1>1, <1>9
        <3>2. r[i] = (IF i < k THEN q[i] ELSE q[i + 1]) /\ r[j] = (IF j < k THEN q[j] ELSE q[j + 1])
            BY <1>9
        <3>3. CASE i < k /\ j < k
            BY <1>2, <2>1, <3>1, <3>2, <3>3
        <3>4. CASE i < k /\ ~(j < k)
            <4>1. q[i] = q[j + 1]
                BY <2>1, <3>2, <3>4, Zenon
            <4>2. QED
                BY <1>2, <1>5, <3>1, <3>4, <4>1
        <3>5. CASE ~(i < k) /\ j < k
            <4>1. q[i + 1] = q[j]
                BY <2>1, <3>2, <3>5, Zenon
            <4>2. QED
                BY <1>2, <1>5, <3>1, <3>5, <4>1
        <3>6. CASE ~(i < k) /\ ~(j < k)
            <4>1. q[i + 1] = q[j + 1]
                BY <2>1, <3>2, <3>6, Zenon
            <4>2. QED
                BY <1>2, <3>1, <4>1
        <3>7. QED
            BY <3>3, <3>4, <3>5, <3>6
    <2>2. QED
        BY <1>10, <2>1 DEF IsInjective
<1>13. QED
    BY <1>9, <1>11, <1>12 DEF r

(* A queue without doubles gets a newcomer at its end.                      *)
LEMMA AppendOnce ==
    ASSUME NEW S, NEW q \in Seq(S), NEW e \in S, e \notin ToSet(q), IsInjective(q)
    PROVE  /\ Append(q, e) \in Seq(S)
           /\ Len(Append(q, e)) = Len(q) + 1
           /\ ToSet(Append(q, e)) = ToSet(q) \cup {e}
           /\ IsInjective(Append(q, e))
<1> DEFINE r == Append(q, e)
<1>1. Len(q) \in Nat /\ DOMAIN q = 1..Len(q)
    BY LenProperties
<1>2. /\ r \in Seq(S) /\ Len(r) = Len(q) + 1
      /\ \A i \in 1..Len(q) : r[i] = q[i]
      /\ r[Len(q) + 1] = e
    BY AppendProperties
<1> HIDE DEF r
<1>3. DOMAIN r = 1..Len(r)
    BY <1>2, LenProperties
<1>4. \A i \in 1..Len(q) : q[i] \in ToSet(q)
    BY <1>1 DEF ToSet
<1>5. ToSet(r) = ToSet(q) \cup {e}
    <2>1. ASSUME NEW i \in 1..Len(r) PROVE r[i] \in ToSet(q) \cup {e}
        <3>1. i \in 1..Len(q) \/ i = Len(q) + 1
            BY <1>1, <1>2
        <3>2. QED
            BY <1>2, <1>4, <3>1
    <2>2. ASSUME NEW i \in 1..Len(q) PROVE \E j \in 1..Len(r) : r[j] = q[i]
        BY <1>1, <1>2
    <2>3. Len(q) + 1 \in 1..Len(r)
        BY <1>1, <1>2
    <2>4. \A y \in ToSet(q) \cup {e} : \E j \in 1..Len(r) : r[j] = y
        BY <1>1, <1>2, <2>2, <2>3 DEF ToSet
    <2>5. ToSet(r) = {r[i] : i \in 1..Len(r)}
        BY <1>3 DEF ToSet
    <2>6. QED
        BY <2>1, <2>4, <2>5
<1>6. IsInjective(r)
    <2>1. ASSUME NEW i \in 1..Len(r), NEW j \in 1..Len(r), r[i] = r[j] PROVE i = j
        <3>1. (i \in 1..Len(q) \/ i = Len(q) + 1) /\ (j \in 1..Len(q) \/ j = Len(q) + 1)
            BY <1>1, <1>2
        <3>2. CASE i \in 1..Len(q) /\ j \in 1..Len(q)
            BY <1>1, <1>2, <2>1, <3>2 DEF IsInjective
        <3>3. CASE i \in 1..Len(q) /\ j = Len(q) + 1
            BY <1>2, <1>4, <2>1, <3>3
        <3>4. CASE i = Len(q) + 1 /\ j \in 1..Len(q)
            BY <1>2, <1>4, <2>1, <3>4
        <3>5. QED
            BY <3>1, <3>2, <3>3, <3>4
    <2>2. QED
        BY <1>3, <2>1 DEF IsInjective
<1>7. QED
    BY <1>2, <1>5, <1>6 DEF r

-----------------------------------------------------------------------------
(* Those with a unit and those in the queue, by their places, ...           *)
LEMMA Sets == Holders = CallsAt(place, Unit) /\ Waiters = CallsAt(place, Queued)
BY DEF Holders, Owners, Waiters, In, CallsAt, Unit, Queued

(* ... and after a step.                                                    *)
LEMMA SetsNext ==
    Holders' = CallsAt(place', Unit) /\ Waiters' = CallsAt(place', Queued)
BY DEF Holders, Owners, Waiters, In, CallsAt, Unit, Queued

(* Sets of calls are finite.                                                *)
LEMMA FiniteCalls ==
    ASSUME NEW T \in SUBSET Call
    PROVE  IsFiniteSet(T) /\ Cardinality(T) \in Nat
BY GateAssumption, FS_Subset, FS_CardinalityType DEF GateAssumption

(* No more are woken than there are units.                                  *)
LEMMA MinOfThree ==
    ASSUME NEW a \in Nat, NEW b \in Nat, NEW n \in Nat
    PROVE  Min({a, b, n}) <= a
BY MinOfNaturals

(* Units handed to waiters stay what they were together, and the queue      *)
(* keeps its members.                                                       *)
LEMMA WakeLemma ==
    ASSUME NEW q, NEW at \in [Call -> Place], NEW units \in Nat, NEW most \in Nat,
           ToSet(q) \subseteq Call, Wake(q, at, units, most)
    PROVE  /\ place' \in [Call -> Place] /\ value' \in Nat
           /\ value' + Cardinality(CallsAt(place', Unit)) = units + Cardinality(CallsAt(at, Unit))
           /\ CallsAt(place', Queued) = CallsAt(at, Queued)
<1> DEFINE asleep == {c \in ToSet(q) : at[c] = "waits"}
<1>1. PICK woken \in SUBSET asleep :
          /\ Cardinality(woken) = Min({units, most, Cardinality(asleep)})
          /\ value' = units - Cardinality(woken)
          /\ place' = [c \in Call |-> IF c \in woken THEN "woken" ELSE at[c]]
    BY DEF Wake
<1>2. woken \subseteq Call /\ asleep \subseteq Call /\ \A c \in woken : at[c] = "waits"
    OBVIOUS
<1>3. Cardinality(woken) \in Nat /\ Cardinality(asleep) \in Nat /\ IsFiniteSet(woken)
    BY <1>2, FiniteCalls
<1>4. Cardinality(woken) <= units
    BY <1>1, <1>3, MinOfThree
<1>5. place' \in [Call -> Place]
    BY <1>1 DEF Place
<1>6. CallsAt(place', Queued) = CallsAt(at, Queued)
    BY <1>1, <1>2 DEF CallsAt, Queued
<1>7. CallsAt(place', Unit) = CallsAt(at, Unit) \cup woken /\ CallsAt(at, Unit) \cap woken = {}
    BY <1>1, <1>2 DEF CallsAt, Unit
<1>8. CallsAt(at, Unit) \subseteq Call
    BY DEF CallsAt
<1>9. IsFiniteSet(CallsAt(at, Unit)) /\ Cardinality(CallsAt(at, Unit)) \in Nat
    BY <1>8, FiniteCalls
<1>10. Cardinality(CallsAt(place', Unit)) = Cardinality(CallsAt(at, Unit)) + Cardinality(woken)
    <2>1. Cardinality(CallsAt(at, Unit) \cup woken)
              = Cardinality(CallsAt(at, Unit)) + Cardinality(woken) - Cardinality(CallsAt(at, Unit) \cap woken)
        BY <1>3, <1>9, FS_Union
    <2>2. Cardinality(CallsAt(at, Unit) \cap woken) = 0
        BY <1>7, FS_EmptySet
    <2>3. QED
        BY <1>3, <1>7, <1>9, <2>1, <2>2
<1>11. QED
    BY <1>1, <1>3, <1>4, <1>5, <1>6, <1>9, <1>10

(* One call moves: what that does to the number of units that are out.      *)
LEMMA MoveLemma ==
    ASSUME NEW at \in [Call -> Place], NEW c \in Call, NEW x \in Place
    PROVE  LET to == [at EXCEPT ![c] = x] IN
           /\ to \in [Call -> Place]
           /\ Cardinality(CallsAt(at, Unit)) \in Nat
           /\ Cardinality(CallsAt(to, Unit)) =
                  IF at[c] \in Unit
                  THEN Cardinality(CallsAt(at, Unit)) - (IF x \in Unit THEN 0 ELSE 1)
                  ELSE Cardinality(CallsAt(at, Unit)) + (IF x \in Unit THEN 1 ELSE 0)
           /\ CallsAt(to, Queued) =
                  IF x \in Queued THEN CallsAt(at, Queued) \cup {c} ELSE CallsAt(at, Queued) \ {c}
<1> DEFINE to == [at EXCEPT ![c] = x]
           S == CallsAt(at, Unit)
           T == CallsAt(to, Unit)
<1>1. to \in [Call -> Place] /\ to[c] = x /\ \A d \in Call \ {c} : to[d] = at[d]
    OBVIOUS
<1>2. S \subseteq Call
    BY DEF CallsAt
<1>3. IsFiniteSet(S) /\ Cardinality(S) \in Nat
    BY <1>2, FiniteCalls
<1>4. (c \in S) <=> at[c] \in Unit
    BY DEF CallsAt
<1>5. T = IF x \in Unit THEN S \cup {c} ELSE S \ {c}
    BY <1>1 DEF CallsAt
<1>6. CallsAt(to, Queued) =
          IF x \in Queued THEN CallsAt(at, Queued) \cup {c} ELSE CallsAt(at, Queued) \ {c}
    BY <1>1 DEF CallsAt
<1> HIDE DEF to, S, T
<1>7. Cardinality(S \cup {c}) = IF c \in S THEN Cardinality(S) ELSE Cardinality(S) + 1
    BY <1>3, FS_AddElement
<1>8. Cardinality(S \ {c}) = IF c \in S THEN Cardinality(S) - 1 ELSE Cardinality(S)
    BY <1>3, FS_RemoveElement
<1>9. Cardinality(T) = IF at[c] \in Unit
                       THEN Cardinality(S) - (IF x \in Unit THEN 0 ELSE 1)
                       ELSE Cardinality(S) + (IF x \in Unit THEN 1 ELSE 0)
    <2>1. CASE x \in Unit
        <3>1. T = S \cup {c}
            BY <1>5, <2>1, Zenon
        <3>2. QED
            BY <1>3, <1>4, <1>7, <2>1, <3>1
    <2>2. CASE ~(x \in Unit)
        <3>1. T = S \ {c}
            BY <1>5, <2>2, Zenon
        <3>2. QED
            BY <1>3, <1>4, <1>8, <2>2, <3>1
    <2>3. QED
        BY <2>1, <2>2, Zenon
<1>10. QED
    BY <1>1, <1>3, <1>6, <1>9 DEF to, S, T

-----------------------------------------------------------------------------
(* What the invariant says, in terms of the two sets of places.             *)
LEMMA Facts ==
    ASSUME GateInv
    PROVE  /\ value \in Nat /\ waiting \in Nat /\ queue \in Seq(Call) /\ IsInjective(queue)
           /\ place \in [Call -> Place] /\ Concurrency \in Nat
           /\ value + Cardinality(CallsAt(place, Unit)) = Concurrency
           /\ waiting = Len(queue) /\ waiting <= QueueMax /\ ToSet(queue) = CallsAt(place, Queued)
<1>1. value \in 0..Concurrency /\ Concurrency \in Nat
    BY GateAssumption DEF GateInv, GateTypeOK, GateAssumption
<1>2. value \in Nat
    BY <1>1
<1>3. QED
    BY <1>1, <1>2, Sets DEF GateInv, GateTypeOK, UnitsBalanced, WaitingIsTrue, Place

(* What the invariant after a step comes down to.                           *)
LEMMA FactsNext ==
    ASSUME value' \in Nat, waiting' \in Nat, queue' \in Seq(Call), IsInjective(queue'),
           place' \in [Call -> Place],
           value' + Cardinality(CallsAt(place', Unit)) = Concurrency,
           waiting' = Len(queue'), waiting' <= QueueMax, ToSet(queue') = CallsAt(place', Queued)
    PROVE  GateInv'
<1>1. CallsAt(place', Unit) \subseteq Call
    BY DEF CallsAt
<1>2. Cardinality(CallsAt(place', Unit)) \in Nat /\ Concurrency \in Nat
    BY <1>1, FiniteCalls, GateAssumption DEF GateAssumption
<1>3. value' \in 0..Concurrency
    BY <1>2
<1>4. QED
    BY <1>3, SetsNext DEF GateInv, GateTypeOK, UnitsBalanced, WaitingIsTrue, Place

(* A call leaves the queue, and free units are given to those behind it.    *)
LEMMA OutOfQueue ==
    ASSUME GateInv, NEW c \in Call, place[c] \in Queued, NEW x \in Place, x \notin Queued,
           NEW units \in Nat,
           units + Cardinality(CallsAt([place EXCEPT ![c] = x], Unit)) = Concurrency,
           CallsAt([place EXCEPT ![c] = x], Queued) = CallsAt(place, Queued) \ {c},
           queue' = RemoveFirst(queue, c),
           Wake(queue', [place EXCEPT ![c] = x], units, units),
           waiting' = waiting - 1
    PROVE  GateInv'
<1> DEFINE at == [place EXCEPT ![c] = x]
<1>1. /\ value \in Nat /\ waiting \in Nat /\ queue \in Seq(Call) /\ IsInjective(queue)
      /\ place \in [Call -> Place] /\ waiting = Len(queue) /\ waiting <= QueueMax
      /\ ToSet(queue) = CallsAt(place, Queued) /\ Concurrency \in Nat
    BY Facts
<1>2. c \in ToSet(queue)
    BY <1>1 DEF CallsAt
<1>3. /\ queue' \in Seq(Call) /\ Len(queue') = Len(queue) - 1
      /\ ToSet(queue') = ToSet(queue) \ {c} /\ IsInjective(queue')
    BY <1>1, <1>2, RemoveFirstOnce
<1>4. at \in [Call -> Place]
    BY <1>1
<1>5. ToSet(queue') \subseteq Call
    BY <1>1, <1>3 DEF CallsAt
<1> HIDE DEF at
<1>6. Wake(queue', at, units, units)
    BY DEF at
<1>7. /\ place' \in [Call -> Place] /\ value' \in Nat
      /\ value' + Cardinality(CallsAt(place', Unit)) = units + Cardinality(CallsAt(at, Unit))
      /\ CallsAt(place', Queued) = CallsAt(at, Queued)
    BY <1>4, <1>5, <1>6, WakeLemma
<1>8. value' + Cardinality(CallsAt(place', Unit)) = Concurrency
    BY <1>7, Zenon DEF at
<1>9. ToSet(queue') = CallsAt(place', Queued)
    BY <1>1, <1>3, <1>7, Zenon DEF at
<1>10. Len(queue') \in Nat
    BY <1>3, LenProperties
<1>11. waiting' = Len(queue') /\ waiting' \in Nat /\ waiting' <= QueueMax
    BY <1>1, <1>3, <1>10, GateAssumption DEF GateAssumption
<1>12. QED
    BY <1>3, <1>7, <1>8, <1>9, <1>11, FactsNext

-----------------------------------------------------------------------------
(* An empty gate is balanced.                                               *)
LEMMA GateInit_Inv == GateInit => GateInv
<1> SUFFICES ASSUME GateInit PROVE GateInv
    OBVIOUS
<1>1. value = Concurrency /\ Concurrency \in Nat /\ QueueMax \in Nat
    BY GateAssumption DEF GateInit, GateAssumption
<1>2. queue = <<>> /\ waiting = 0 /\ place = [c \in Call |-> "idle"]
    BY DEF GateInit
<1>3. Holders = {} /\ Waiters = {}
    BY <1>2, Sets DEF CallsAt, Unit, Queued
<1>4. Cardinality(Holders) = 0
    BY <1>3, FS_EmptySet
<1>5. GateTypeOK
    BY <1>1, <1>2 DEF GateTypeOK
<1>6. UnitsBalanced
    BY <1>1, <1>4 DEF UnitsBalanced
<1>7. IsInjective(queue)
    BY <1>2 DEF IsInjective
<1>8. WaitingIsTrue
    BY <1>1, <1>2, <1>3 DEF WaitingIsTrue, ToSet
<1>9. QED
    BY <1>5, <1>6, <1>7, <1>8 DEF GateInv

(* A call that is refused, enters at once or queues keeps the invariant, ... *)
LEMMA ArriveInv == ASSUME GateInv, NEW c \in Call, Arrive(c) PROVE GateInv'
<1>1. /\ value \in Nat /\ waiting \in Nat /\ queue \in Seq(Call) /\ IsInjective(queue)
      /\ place \in [Call -> Place] /\ Concurrency \in Nat
      /\ value + Cardinality(CallsAt(place, Unit)) = Concurrency
      /\ waiting = Len(queue) /\ waiting <= QueueMax /\ ToSet(queue) = CallsAt(place, Queued)
    BY Facts
<1>2. QueueMax \in Nat
    BY GateAssumption DEF GateAssumption
<1>3. place[c] = "idle"
    BY DEF Arrive, Refuse, EnterAtOnce, Enqueue
<1>4. c \notin CallsAt(place, Queued) /\ place[c] \notin Unit
    BY <1>3 DEF CallsAt, Queued, Unit
<1>5. CASE Refuse(c)
    <2>1. place' = [place EXCEPT ![c] = "ended"] /\ UNCHANGED <<value, queue, waiting>>
        BY <1>5 DEF Refuse, Move
    <2>2. "ended" \in Place /\ "ended" \notin Unit /\ "ended" \notin Queued
        BY DEF Place, Unit, Queued
    <2>3. /\ place' \in [Call -> Place]
          /\ Cardinality(CallsAt(place', Unit)) = Cardinality(CallsAt(place, Unit))
          /\ CallsAt(place', Queued) = CallsAt(place, Queued) \ {c}
        <3>1. CallsAt(place', Unit) = CallsAt(place, Unit)
            BY <1>1, <1>4, <2>1, <2>2 DEF CallsAt
        <3>2. place' \in [Call -> Place] /\ CallsAt(place', Queued) = CallsAt(place, Queued) \ {c}
            BY <1>1, <2>1, <2>2, MoveLemma
        <3>3. QED
            BY <3>1, <3>2
    <2>4. CallsAt(place', Queued) = CallsAt(place, Queued)
        BY <1>4, <2>3
    <2>5. QED
        BY <1>1, <2>1, <2>3, <2>4, FactsNext
<1>6. CASE EnterAtOnce(c)
    <2>1. /\ place' = [place EXCEPT ![c] = "runs"] /\ UNCHANGED <<queue, waiting>>
          /\ value' = value - 1 /\ value # 0
        BY <1>6 DEF EnterAtOnce, Move, Locked
    <2>2. "runs" \in Place /\ "runs" \in Unit /\ "runs" \notin Queued
        BY DEF Place, Unit, Queued
    <2>3. /\ place' \in [Call -> Place] /\ Cardinality(CallsAt(place, Unit)) \in Nat
          /\ Cardinality(CallsAt(place', Unit)) = Cardinality(CallsAt(place, Unit)) + 1
          /\ CallsAt(place', Queued) = CallsAt(place, Queued) \ {c}
        BY <1>1, <1>4, <2>1, <2>2, MoveLemma
    <2>4. CallsAt(place', Queued) = CallsAt(place, Queued)
        BY <1>4, <2>3
    <2>5. value' \in Nat /\ value' + Cardinality(CallsAt(place', Unit)) = Concurrency
        BY <1>1, <2>1, <2>3
    <2>6. QED
        BY <1>1, <2>1, <2>3, <2>4, <2>5, FactsNext
<1>7. CASE Enqueue(c)
    <2>1. /\ place' = [place EXCEPT ![c] = "waits"] /\ value' = value
          /\ queue' = Append(queue, c) /\ waiting' = waiting + 1 /\ waiting < QueueMax
        BY <1>7 DEF Enqueue, Move
    <2>2. "waits" \in Place /\ "waits" \notin Unit /\ "waits" \in Queued
        BY DEF Place, Unit, Queued
    <2>3. /\ place' \in [Call -> Place]
          /\ Cardinality(CallsAt(place', Unit)) = Cardinality(CallsAt(place, Unit))
          /\ CallsAt(place', Queued) = CallsAt(place, Queued) \cup {c}
        <3>1. CallsAt(place', Unit) = CallsAt(place, Unit)
            BY <1>1, <1>4, <2>1, <2>2 DEF CallsAt
        <3>2. place' \in [Call -> Place] /\ CallsAt(place', Queued) = CallsAt(place, Queued) \cup {c}
            BY <1>1, <2>1, <2>2, MoveLemma
        <3>3. QED
            BY <3>1, <3>2
    <2>4. c \notin ToSet(queue)
        BY <1>1, <1>4
    <2>5. /\ queue' \in Seq(Call) /\ Len(queue') = Len(queue) + 1
          /\ ToSet(queue') = ToSet(queue) \cup {c} /\ IsInjective(queue')
        BY <1>1, <2>1, <2>4, AppendOnce
    <2>6. waiting' = Len(queue') /\ waiting' \in Nat /\ waiting' <= QueueMax
        BY <1>1, <1>2, <2>1, <2>5
    <2>7. QED
        BY <1>1, <2>1, <2>3, <2>5, <2>6, FactsNext
<1>8. QED
    BY <1>5, <1>6, <1>7 DEF Arrive

(* ... so does one that enters, or gives its unit back after giving up, ... *)
LEMMA GateMovesInv == ASSUME GateInv, NEW c \in Call, Enter(c) \/ Gone(c) PROVE GateInv'
<1>1. /\ value \in Nat /\ place \in [Call -> Place] /\ Concurrency \in Nat
      /\ value + Cardinality(CallsAt(place, Unit)) = Concurrency
    BY Facts
<1>2. /\ {"runs", "ended"} \subseteq Place /\ "runs" \in Unit /\ "ended" \notin Unit
      /\ "runs" \notin Queued /\ "ended" \notin Queued
    BY DEF Place, Unit, Queued
<1>3. CASE Enter(c)
    <2>1. /\ place[c] = "woken" /\ queue' = RemoveFirst(queue, c) /\ waiting' = waiting - 1
          /\ Wake(queue', [place EXCEPT ![c] = "runs"], value, value)
        BY <1>3 DEF Enter
    <2>2. place[c] \in Unit /\ place[c] \in Queued
        BY <2>1 DEF Unit, Queued
    <2>3. /\ Cardinality(CallsAt([place EXCEPT ![c] = "runs"], Unit)) = Cardinality(CallsAt(place, Unit)) - 0
          /\ CallsAt([place EXCEPT ![c] = "runs"], Queued) = CallsAt(place, Queued) \ {c}
          /\ Cardinality(CallsAt(place, Unit)) \in Nat
        BY <1>1, <1>2, <2>2, MoveLemma
    <2>4. value + Cardinality(CallsAt([place EXCEPT ![c] = "runs"], Unit)) = Concurrency
        BY <1>1, <2>3
    <2>5. QED
        BY <1>1, <1>2, <2>1, <2>2, <2>3, <2>4, OutOfQueue
<1>4. CASE Gone(c)
    <2> DEFINE units == value + (IF place[c] = "wokenGone" THEN 1 ELSE 0)
    <2>1. /\ place[c] \in {"gone", "wokenGone"} /\ queue' = RemoveFirst(queue, c)
          /\ waiting' = waiting - 1 /\ Wake(queue', [place EXCEPT ![c] = "ended"], units, units)
        BY <1>4 DEF Gone
    <2>2. place[c] \in Queued /\ (place[c] \in Unit <=> place[c] = "wokenGone")
        BY <2>1 DEF Unit, Queued
    <2>3. /\ Cardinality(CallsAt([place EXCEPT ![c] = "ended"], Unit)) =
                IF place[c] \in Unit THEN Cardinality(CallsAt(place, Unit)) - 1
                                     ELSE Cardinality(CallsAt(place, Unit)) + 0
          /\ CallsAt([place EXCEPT ![c] = "ended"], Queued) = CallsAt(place, Queued) \ {c}
          /\ Cardinality(CallsAt(place, Unit)) \in Nat
        BY <1>1, <1>2, MoveLemma
    <2>4. units \in Nat /\ units + Cardinality(CallsAt([place EXCEPT ![c] = "ended"], Unit)) = Concurrency
        BY <1>1, <2>2, <2>3
    <2> HIDE DEF units
    <2>5. QED
        BY <1>2, <2>1, <2>2, <2>3, <2>4, OutOfQueue
<1>5. QED
    BY <1>3, <1>4

(* ... one whose wait times out or is cancelled, ...                        *)
LEMMA GiveUpInv == ASSUME GateInv, NEW c \in Call, GiveUp(c) PROVE GateInv'
<1>1. /\ value \in Nat /\ waiting \in Nat /\ queue \in Seq(Call) /\ IsInjective(queue)
      /\ place \in [Call -> Place]
      /\ value + Cardinality(CallsAt(place, Unit)) = Concurrency
      /\ waiting = Len(queue) /\ waiting <= QueueMax /\ ToSet(queue) = CallsAt(place, Queued)
    BY Facts
<1>2. UNCHANGED <<value, queue, waiting>>
    BY DEF GiveUp
<1>3. PICK x \in {"gone", "wokenGone"} :
          place' = [place EXCEPT ![c] = x] /\ place[c] \in Queued /\ (x \in Unit <=> place[c] \in Unit)
    BY DEF GiveUp, Move, Unit, Queued
<1>4. x \in Place /\ x \in Queued
    BY DEF Place, Queued
<1>5. /\ place' \in [Call -> Place] /\ CallsAt(place', Queued) = CallsAt(place, Queued) \cup {c}
      /\ CallsAt(place', Unit) = CallsAt(place, Unit)
    <2>1. place' \in [Call -> Place] /\ CallsAt(place', Queued) = CallsAt(place, Queued) \cup {c}
        BY <1>1, <1>3, <1>4, MoveLemma
    <2>2. CallsAt(place', Unit) = CallsAt(place, Unit)
        BY <1>1, <1>3 DEF CallsAt
    <2>3. QED
        BY <2>1, <2>2
<1>6. CallsAt(place', Queued) = CallsAt(place, Queued)
    BY <1>3, <1>5 DEF CallsAt
<1>7. QED
    BY <1>1, <1>2, <1>5, <1>6, FactsNext

(* ... one that leaves, ...                                                 *)
LEMMA LeaveInv == ASSUME GateInv, NEW c \in Call, Leave(c) PROVE GateInv'
<1> DEFINE at == [place EXCEPT ![c] = "ended"]
<1>1. /\ value \in Nat /\ waiting \in Nat /\ queue \in Seq(Call) /\ IsInjective(queue)
      /\ place \in [Call -> Place] /\ Concurrency \in Nat
      /\ value + Cardinality(CallsAt(place, Unit)) = Concurrency
      /\ waiting = Len(queue) /\ waiting <= QueueMax /\ ToSet(queue) = CallsAt(place, Queued)
    BY Facts
<1>2. place[c] = "runs" /\ Wake(queue, at, value + 1, 1) /\ UNCHANGED <<queue, waiting>>
    BY DEF Leave
<1>3. /\ "ended" \in Place /\ "ended" \notin Unit /\ "ended" \notin Queued
      /\ place[c] \in Unit /\ place[c] \notin Queued
    BY <1>2 DEF Place, Unit, Queued
<1>4. /\ at \in [Call -> Place] /\ Cardinality(CallsAt(place, Unit)) \in Nat
      /\ Cardinality(CallsAt(at, Unit)) = Cardinality(CallsAt(place, Unit)) - 1
      /\ CallsAt(at, Queued) = CallsAt(place, Queued) \ {c}
    BY <1>1, <1>3, MoveLemma
<1>5. CallsAt(at, Queued) = CallsAt(place, Queued)
    BY <1>3, <1>4 DEF CallsAt
<1>6. ToSet(queue) \subseteq Call
    BY <1>1 DEF CallsAt
<1> HIDE DEF at
<1>7. value + 1 \in Nat /\ 1 \in Nat
    BY <1>1
<1>8. /\ place' \in [Call -> Place] /\ value' \in Nat
      /\ value' + Cardinality(CallsAt(place', Unit)) = (value + 1) + Cardinality(CallsAt(at, Unit))
      /\ CallsAt(place', Queued) = CallsAt(at, Queued)
    BY <1>2, <1>4, <1>6, <1>7, WakeLemma
<1>9. (value + 1) + Cardinality(CallsAt(at, Unit)) = Concurrency
    BY <1>1, <1>4
<1>10. value' + Cardinality(CallsAt(place', Unit)) = Concurrency /\ ToSet(queue') = CallsAt(place', Queued)
    BY <1>1, <1>2, <1>5, <1>8, <1>9, Zenon
<1>11. QED
    BY <1>1, <1>2, <1>8, <1>10, FactsNext

(* ... and the replacement of the process.                                  *)
LEMMA DiesInv == ASSUME GateInv, ProcessDies PROVE GateInv'
<1>1. /\ value' = Concurrency /\ queue' = <<>> /\ waiting' = 0
      /\ place' = [c \in Call |-> IF place[c] = "idle" THEN "idle" ELSE "ended"]
    BY DEF ProcessDies
<1>2. Concurrency \in Nat /\ QueueMax \in Nat
    BY GateAssumption DEF GateAssumption
<1>3. CallsAt(place', Unit) = {} /\ CallsAt(place', Queued) = {} /\ place' \in [Call -> Place]
    BY <1>1 DEF CallsAt, Unit, Queued, Place
<1>4. Cardinality(CallsAt(place', Unit)) = 0
    BY <1>3, FS_EmptySet
<1>5. queue' \in Seq(Call) /\ Len(queue') = 0 /\ IsInjective(queue') /\ ToSet(queue') = {}
    BY <1>1 DEF IsInjective, ToSet
<1>6. value' \in Nat /\ value' + Cardinality(CallsAt(place', Unit)) = Concurrency
    BY <1>1, <1>2, <1>4
<1>7. waiting' \in Nat /\ waiting' = Len(queue') /\ waiting' <= QueueMax
    BY <1>1, <1>2, <1>5
<1>8. QED
    BY <1>3, <1>5, <1>6, <1>7, FactsNext

(* Every step keeps the invariant.                                          *)
LEMMA NextInv == GateInv /\ [Next]_vars => GateInv'
<1> SUFFICES ASSUME GateInv, [Next]_vars PROVE GateInv'
    OBVIOUS
<1>1. ASSUME UNCHANGED gateVars PROVE GateInv'
    BY <1>1 DEF gateVars, GateInv, GateTypeOK, UnitsBalanced, WaitingIsTrue, Holders, Owners, Waiters, In
<1>2. ASSUME NEW c \in Paid, ThreadBegins(c) \/ ThreadProceeds(c) \/ ThreadErrs(c) PROVE GateInv'
    BY <1>1, <1>2 DEF ThreadBegins, ThreadProceeds, ThreadErrs
<1>3. ASSUME NEW c \in Call, Arrives(c) PROVE GateInv'
    BY <1>3, ArriveInv DEF Arrives
<1>4. ASSUME NEW c \in Call, GateMoves(c) PROVE GateInv'
    BY <1>4, GateMovesInv DEF GateMoves
<1>5. ASSUME NEW c \in Call, GivesUp(c) PROVE GateInv'
    BY <1>5, GiveUpInv DEF GivesUp
<1>6. ASSUME NEW c \in Call, Answered(c) \/ ClientCancels(c) PROVE GateInv'
    BY <1>6, LeaveInv DEF Answered, ClientCancels
<1>7. CASE ProcessDies
    BY <1>7, DiesInv
<1>8. CASE UNCHANGED vars
    BY <1>1, <1>8 DEF vars
<1>9. QED
    BY <1>2, <1>3, <1>4, <1>5, <1>6, <1>7, <1>8 DEF Next

-----------------------------------------------------------------------------
(* The gate keeps its units and its count of waiters for any number of      *)
(* calls, units and places in the queue, whatever the threads and the       *)
(* ledger do.                                                               *)
THEOREM GateInvariant == Spec => []GateInv
<1>1. Init => GateInv
    BY GateInit_Inv DEF Init
<1>2. QED
    BY <1>1, NextInv, PTL DEF Spec

(* No unit of the semaphore is lost or made by a wait that times out, a     *)
(* call that is cancelled while it waits, after it was woken or at work, or *)
(* a restart (RequestGate.submit).                                          *)
THEOREM UnitsNeverLost == Spec => []UnitsBalanced
<1>1. GateInv => UnitsBalanced
    BY DEF GateInv
<1>2. QED
    BY <1>1, GateInvariant, PTL

(* The metric that decides whether a call is refused is the length of the   *)
(* semaphore's queue, and never above the limit.                            *)
THEOREM QueueCounted == Spec => []WaitingIsTrue
<1>1. GateInv => WaitingIsTrue
    BY DEF GateInv
<1>2. QED
    BY <1>1, GateInvariant, PTL

-----------------------------------------------------------------------------
(* Sums over the calls.                                                     *)

(* Induction over the subsets of a finite set: a collection that has a      *)
(* subset whenever it has what remains without any one element, has all.    *)
LEMMA SubsetsInduction ==
    ASSUME NEW S, IsFiniteSet(S), NEW G,
           \A T \in SUBSET S : (\A x \in T : T \ {x} \in G) => T \in G
    PROVE  \A T \in SUBSET S : T \in G
<1> DEFINE Missed == {T \in SUBSET S : T \notin G}
           Sizes == {Cardinality(T) : T \in Missed}
<1>1. SUFFICES ASSUME Missed # {} PROVE FALSE
    OBVIOUS
<1>2. ASSUME NEW T \in SUBSET S PROVE IsFiniteSet(T) /\ Cardinality(T) \in Nat
    BY FS_Subset, FS_CardinalityType
<1>3. Sizes \subseteq Nat /\ Sizes # {}
    BY <1>1, <1>2
<1>4. PICK n \in Sizes : \A m \in Sizes : ~(<<m, n>> \in OpToRel(<, Nat))
    BY <1>3, NatLessThanWellFounded, WFMin
<1>5. PICK T \in Missed : n = Cardinality(T)
    BY <1>4
<1>6. PICK x \in T : T \ {x} \in Missed
    BY <1>5
<1>7. Cardinality(T \ {x}) = Cardinality(T) - 1 /\ Cardinality(T) \in Nat /\ Cardinality(T \ {x}) \in Nat
    BY <1>2, <1>5, <1>6, FS_RemoveElement
<1>8. Cardinality(T \ {x}) \in Sizes
    BY <1>6
<1>9. <<Cardinality(T \ {x}), n>> \in OpToRel(<, Nat)
    <2> DEFINE p == <<Cardinality(T \ {x}), n>>
    <2>1. p \in Nat \X Nat /\ p[1] = Cardinality(T \ {x}) /\ p[2] = n
        BY <1>5, <1>7
    <2>2. p[1] < p[2]
        BY <1>5, <1>7, <2>1
    <2>3. QED
        BY <2>1, <2>2, Zenon DEF OpToRel
<1>10. QED
    BY <1>4, <1>8, <1>9

(* The equation of a sum over the subsets of S: sums[T] adds f over T.      *)
Adds(sums, f, S) ==
    sums = [T \in SUBSET S |->
              IF T = {} THEN 0 ELSE f[CHOOSE x \in T : TRUE] + sums[T \ {CHOOSE x \in T : TRUE}]]

(* There is such a function: by induction over the number of elements.      *)
LEMMA SumsExist ==
    ASSUME NEW S, IsFiniteSet(S), NEW f, \A x \in S : f[x] \in Int
    PROVE  \E sums \in [SUBSET S -> Int] : Adds(sums, f, S)
<1> DEFINE Pick(T) == CHOOSE x \in T : TRUE
           Value(g, T) == IF T = {} THEN 0 ELSE f[Pick(T)] + g[T \ {Pick(T)}]
           Upto(U) == {T \in SUBSET S : Cardinality(T) <= Cardinality(U)}
           G == {U \in SUBSET S : \E g \in [SUBSET S -> Int] : \A T \in Upto(U) : g[T] = Value(g, T)}
<1>1. ASSUME NEW T \in SUBSET S, T # {}
      PROVE  /\ Pick(T) \in T /\ T \ {Pick(T)} \in SUBSET S /\ f[Pick(T)] \in Int
    BY <1>1
<1>2. ASSUME NEW T \in SUBSET S PROVE IsFiniteSet(T) /\ Cardinality(T) \in Nat
    BY FS_Subset, FS_CardinalityType
<1>3. ASSUME NEW T \in SUBSET S, NEW x \in T
      PROVE  Cardinality(T \ {x}) = Cardinality(T) - 1
    BY <1>2, FS_RemoveElement
<1>4. ASSUME NEW T \in SUBSET S, NEW g \in [SUBSET S -> Int] PROVE Value(g, T) \in Int
    BY <1>1
<1> HIDE DEF Pick
<1>5. {} \in G
    <2> DEFINE g == [T \in SUBSET S |-> 0]
    <2>1. ASSUME NEW T \in Upto({}) PROVE T = {}
        BY <1>2, FS_EmptySet
    <2>2. \A T \in Upto({}) : g[T] = Value(g, T)
        BY <2>1
    <2>3. g \in [SUBSET S -> Int]
        OBVIOUS
    <2>4. QED
        BY <2>2, <2>3
<1>6. ASSUME NEW U \in SUBSET S, NEW x \in U, U \ {x} \in G PROVE U \in G
    <2>1. PICK g \in [SUBSET S -> Int] : \A T \in Upto(U \ {x}) : g[T] = Value(g, T)
        BY <1>6
    <2>2. Cardinality(U \ {x}) = Cardinality(U) - 1 /\ Cardinality(U) \in Nat
        BY <1>2, <1>3
    <2> DEFINE h == [T \in SUBSET S |-> IF Cardinality(T) < Cardinality(U) THEN g[T] ELSE Value(g, T)]
    <2>3. h \in [SUBSET S -> Int]
        BY <1>4
    <2>4. ASSUME NEW T \in Upto(U) PROVE h[T] = Value(h, T)
        <3>1. h[T] = Value(g, T)
            BY <1>2, <2>1, <2>2
        <3>2. CASE T = {}
            BY <3>1, <3>2
        <3>3. CASE T # {}
            <4>1. T \ {Pick(T)} \in SUBSET S /\ Cardinality(T \ {Pick(T)}) < Cardinality(U)
                BY <1>1, <1>2, <1>3, <2>2, <3>3
            <4>2. h[T \ {Pick(T)}] = g[T \ {Pick(T)}]
                BY <4>1
            <4>3. QED
                BY <3>1, <3>3, <4>2
        <3>4. QED
            BY <3>2, <3>3
    <2>5. QED
        BY <2>3, <2>4
<1> HIDE DEF G
<1>7. \A U \in SUBSET S : (\A x \in U : U \ {x} \in G) => U \in G
    BY <1>5, <1>6
<1>8. \A U \in SUBSET S : U \in G
    BY <1>7, SubsetsInduction, Zenon
<1>9. PICK g \in [SUBSET S -> Int] : \A T \in Upto(S) : g[T] = Value(g, T)
    BY <1>8, S \in SUBSET S DEF G
<1>10. ASSUME NEW T \in SUBSET S PROVE T \in Upto(S)
    BY <1>2, FS_Subset
<1>11. g = [T \in SUBSET S |-> Value(g, T)]
    BY <1>9, <1>10
<1>12. QED
    BY <1>11 DEF Adds, Pick

(* A sum over a part of the set has its value in such a function.           *)
LEMMA SumUnfolds ==
    ASSUME NEW S, IsFiniteSet(S), NEW f, \A x \in S : f[x] \in Int,
           NEW sums, Adds(sums, f, S), NEW T \in SUBSET S
    PROVE  SumFunctionOnSet(f, T) = sums[T]
<1> DEFINE own == CHOOSE g : Adds(g, f, T)
<1>1. IsFiniteSet(T)
    BY FS_Subset
<1>2. \E g : Adds(g, f, T)
    BY <1>1, SumsExist
<1>3. Adds(own, f, T)
    BY <1>2
<1>4. SumFunctionOnSet(f, T) = own[T]
    BY DEF SumFunctionOnSet, FoldFunctionOnSet, MapThenFoldSet, Adds
<1> HIDE DEF own
<1> DEFINE G == {U \in SUBSET T : own[U] = sums[U]}
<1>5. ASSUME NEW U \in SUBSET T, \A x \in U : U \ {x} \in G PROVE U \in G
    <2>1. U \in SUBSET S
        OBVIOUS
    <2>2. /\ own[U] = IF U = {} THEN 0 ELSE f[CHOOSE x \in U : TRUE] + own[U \ {CHOOSE x \in U : TRUE}]
          /\ sums[U] = IF U = {} THEN 0 ELSE f[CHOOSE x \in U : TRUE] + sums[U \ {CHOOSE x \in U : TRUE}]
        BY <1>3, <2>1 DEF Adds
    <2>3. CASE U = {}
        BY <2>2, <2>3
    <2>4. CASE U # {}
        <3>1. (CHOOSE x \in U : TRUE) \in U
            BY <2>4
        <3>2. own[U \ {CHOOSE x \in U : TRUE}] = sums[U \ {CHOOSE x \in U : TRUE}]
            BY <1>5, <3>1
        <3>3. QED
            BY <2>2, <2>4, <3>2
    <2>5. QED
        BY <2>3, <2>4
<1> HIDE DEF G
<1>6. T \in G
    BY <1>1, <1>5, SubsetsInduction
<1>7. QED
    BY <1>4, <1>6 DEF G

(* A sum by one of its terms, whichever is taken.                           *)
LEMMA SumByOne ==
    ASSUME NEW S, IsFiniteSet(S), NEW f, \A x \in S : f[x] \in Int
    PROVE  /\ SumFunctionOnSet(f, {}) = 0
           /\ SumFunctionOnSet(f, S) \in Int
           /\ \A x \in S : SumFunctionOnSet(f, S) = f[x] + SumFunctionOnSet(f, S \ {x})
<1>1. PICK sums \in [SUBSET S -> Int] : Adds(sums, f, S)
    BY SumsExist
<1>0. \A T \in SUBSET S : SumFunctionOnSet(f, T) = sums[T]
    BY SumUnfolds, <1>1
<1> DEFINE Pick(T) == CHOOSE x \in T : TRUE
           G == {T \in SUBSET S : \A x \in T : sums[T] = f[x] + sums[T \ {x}]}
<1>2. /\ sums[{}] = 0
      /\ \A T \in SUBSET S : T # {} => Pick(T) \in T /\ sums[T] = f[Pick(T)] + sums[T \ {Pick(T)}]
    BY <1>1 DEF Adds
<1> HIDE DEF Pick
<1>3. ASSUME NEW T \in SUBSET S, \A x \in T : T \ {x} \in G PROVE T \in G
    <2>1. ASSUME NEW x \in T PROVE sums[T] = f[x] + sums[T \ {x}]
        <3> DEFINE y == Pick(T)
        <3>1. y \in T /\ sums[T] = f[y] + sums[T \ {y}]
            BY <1>2
        <3> HIDE DEF y
        <3>2. CASE x = y
            BY <3>1, <3>2
        <3>3. CASE x # y
            <4>1. x \in T \ {y} /\ y \in T \ {x} /\ (T \ {y}) \ {x} = (T \ {x}) \ {y}
                BY <3>1, <3>3
            <4>2. /\ sums[T \ {y}] = f[x] + sums[(T \ {x}) \ {y}]
                  /\ sums[T \ {x}] = f[y] + sums[(T \ {x}) \ {y}]
                BY <1>3, <3>1, <4>1
            <4>3. f[x] \in Int /\ f[y] \in Int /\ sums[(T \ {x}) \ {y}] \in Int
                BY <3>1
            <4>4. sums[T] = f[y] + (f[x] + sums[(T \ {x}) \ {y}])
                BY <3>1, <4>2
            <4>5. QED
                BY <4>2, <4>3, <4>4
        <3>4. QED
            BY <3>2, <3>3
    <2>2. QED
        BY <2>1
<1> HIDE DEF G
<1>4. S \in G
    BY <1>3, SubsetsInduction
<1>5. \A x \in S : sums[S] = f[x] + sums[S \ {x}]
    BY <1>4 DEF G
<1>6. QED
    BY <1>0, <1>1, <1>2, <1>5

(* A sum of numbers each at most another is at most the sum of the others,  *)
(* and so when a part is left out.                                          *)
LEMMA SumGrows ==
    ASSUME NEW S, IsFiniteSet(S), NEW T \in SUBSET S,
           NEW f, \A x \in S : f[x] \in Int, NEW g, \A x \in S : g[x] \in Int,
           \A x \in T : f[x] <= g[x], \A x \in S \ T : 0 <= g[x]
    PROVE  SumFunctionOnSet(f, T) <= SumFunctionOnSet(g, S)
<1> DEFINE G == {U \in SUBSET S : SumFunctionOnSet(f, U \cap T) <= SumFunctionOnSet(g, U)}
<1>1. ASSUME NEW U \in SUBSET S
      PROVE  /\ IsFiniteSet(U)
             /\ SumFunctionOnSet(f, U) \in Int /\ SumFunctionOnSet(g, U) \in Int
             /\ \A x \in U : /\ SumFunctionOnSet(f, U) = f[x] + SumFunctionOnSet(f, U \ {x})
                            /\ SumFunctionOnSet(g, U) = g[x] + SumFunctionOnSet(g, U \ {x})
    <2>1. IsFiniteSet(U)
        BY FS_Subset
    <2>2. \A x \in U : f[x] \in Int /\ g[x] \in Int
        OBVIOUS
    <2>3. /\ SumFunctionOnSet(f, U) \in Int
          /\ \A x \in U : SumFunctionOnSet(f, U) = f[x] + SumFunctionOnSet(f, U \ {x})
        BY <2>1, <2>2, SumByOne, Zenon
    <2>4. /\ SumFunctionOnSet(g, U) \in Int
          /\ \A x \in U : SumFunctionOnSet(g, U) = g[x] + SumFunctionOnSet(g, U \ {x})
        BY <2>1, <2>2, SumByOne, Zenon
    <2>5. QED
        BY <2>1, <2>3, <2>4
<1>2. SumFunctionOnSet(f, {}) = 0 /\ SumFunctionOnSet(g, {}) = 0
    BY SumByOne, Zenon
<1>3. ASSUME NEW U \in SUBSET S, \A x \in U : U \ {x} \in G PROVE U \in G
    <2>1. CASE U = {}
        <3>1. U \cap T = {}
            BY <2>1
        <3>2. QED
            BY <1>2, <2>1, <3>1
    <2>2. CASE U # {}
        <3>1. PICK x \in U : U \ {x} \in G
            BY <1>3, <2>2
        <3> DEFINE V == U \ {x}
        <3>2. /\ SumFunctionOnSet(f, V \cap T) <= SumFunctionOnSet(g, V)
              /\ SumFunctionOnSet(f, V \cap T) \in Int /\ SumFunctionOnSet(g, V) \in Int
              /\ SumFunctionOnSet(g, U) = g[x] + SumFunctionOnSet(g, V)
              /\ f[x] \in Int /\ g[x] \in Int
            BY <1>1, <3>1
        <3>3. CASE x \in T
            <4>1. x \in U \cap T /\ (U \cap T) \ {x} = V \cap T
                BY <3>1, <3>3
            <4>2. SumFunctionOnSet(f, U \cap T) = f[x] + SumFunctionOnSet(f, V \cap T)
                BY <1>1, <4>1
            <4>3. f[x] <= g[x]
                BY <3>3
            <4>4. QED
                BY <3>2, <4>2, <4>3
        <3>4. CASE x \notin T
            <4>1. U \cap T = V \cap T
                BY <3>4
            <4>2. 0 <= g[x]
                BY <3>4
            <4>3. QED
                BY <3>2, <4>1, <4>2
        <3>5. QED
            BY <3>3, <3>4
    <2>3. QED
        BY <2>1, <2>2
<1> HIDE DEF G
<1>4. S \in G
    BY <1>3, SubsetsInduction
<1>5. S \cap T = T
    OBVIOUS
<1>6. QED
    BY <1>4, <1>5 DEF G

(* A sum whose terms are those of another, except at one place.             *)
LEMMA SumMoves ==
    ASSUME NEW S, IsFiniteSet(S), NEW f, \A x \in S : f[x] \in Int, NEW g, \A x \in S : g[x] \in Int,
           NEW c, \A x \in S \ {c} : g[x] = f[x]
    PROVE  SumFunctionOnSet(g, S) = SumFunctionOnSet(f, S) + (IF c \in S THEN g[c] - f[c] ELSE 0)
<1>1. SumFunctionOnSet(f, S \ {c}) = SumFunctionOnSet(g, S \ {c})
    <2>1. IsFiniteSet(S \ {c}) /\ \A x \in S \ {c} : f[x] \in Int /\ g[x] \in Int /\ f[x] <= g[x] /\ g[x] <= f[x]
        BY FS_Subset
    <2>2. /\ SumFunctionOnSet(f, S \ {c}) <= SumFunctionOnSet(g, S \ {c})
          /\ SumFunctionOnSet(g, S \ {c}) <= SumFunctionOnSet(f, S \ {c})
        BY <2>1, SumGrows
    <2>3. SumFunctionOnSet(f, S \ {c}) \in Int /\ SumFunctionOnSet(g, S \ {c}) \in Int
        BY <2>1, SumByOne
    <2>4. QED
        BY <2>2, <2>3
<1>2. SumFunctionOnSet(f, S) \in Int /\ SumFunctionOnSet(g, S) \in Int
    BY SumByOne
<1>3. CASE c \in S
    <2>1. /\ SumFunctionOnSet(f, S) = f[c] + SumFunctionOnSet(f, S \ {c})
          /\ SumFunctionOnSet(g, S) = g[c] + SumFunctionOnSet(g, S \ {c})
        BY <1>3, SumByOne
    <2>2. IsFiniteSet(S \ {c}) /\ \A x \in S \ {c} : f[x] \in Int
        BY FS_Subset
    <2>3. SumFunctionOnSet(f, S \ {c}) \in Int
        BY <2>2, SumByOne
    <2>4. f[c] \in Int /\ g[c] \in Int
        BY <1>3
    <2>5. QED
        BY <1>1, <1>3, <2>1, <2>3, <2>4
<1>4. CASE c \notin S
    <2>1. S \ {c} = S
        BY <1>4
    <2>2. QED
        BY <1>1, <1>2, <1>4, <2>1
<1>5. QED
    BY <1>3, <1>4

(* A sum of zeros.                                                          *)
LEMMA SumOfNothing ==
    ASSUME NEW S, IsFiniteSet(S), NEW f, \A x \in S : f[x] = 0
    PROVE  SumFunctionOnSet(f, S) = 0
<1> DEFINE G == {U \in SUBSET S : SumFunctionOnSet(f, U) = 0}
<1>1. ASSUME NEW U \in SUBSET S, \A x \in U : U \ {x} \in G PROVE U \in G
    <2>1. IsFiniteSet(U) /\ \A x \in U : f[x] \in Int
        BY FS_Subset
    <2>2. CASE U = {}
        BY <2>1, <2>2, SumByOne
    <2>3. CASE U # {}
        <3>1. PICK x \in U : U \ {x} \in G
            BY <1>1, <2>3
        <3>2. SumFunctionOnSet(f, U) = f[x] + SumFunctionOnSet(f, U \ {x})
            BY <2>1, SumByOne
        <3>3. QED
            BY <3>1, <3>2
    <2>4. QED
        BY <2>2, <2>3
<1> HIDE DEF G
<1>2. \A U \in SUBSET S : (\A x \in U : U \ {x} \in G) => U \in G
    BY <1>1
<1>3. \A U \in SUBSET S : U \in G
    BY <1>2, SubsetsInduction, Zenon
<1>4. QED
    BY <1>3, S \in SUBSET S DEF G

-----------------------------------------------------------------------------
(* The ledger.                                                              *)

(* What the provider's row must hold for a call, whatever fails: the        *)
(* estimate from its reservation until it is settled, then the bill of a    *)
(* strict call and nothing for another.                                     *)
Held == [c \in Paid |->
    IF pc[c] \in {"reserveUser", "denied", "rollback"} \/ (pc[c] \in {"run", "settle"} /\ c \in reserved)
    THEN Est ELSE IF c \in Strict THEN billed[c] ELSE 0]

(* The same for the row of the user, which is reserved and settled second.  *)
UserHeld == [c \in Paid |->
    IF pc[c] \in {"run", "settle", "settleUser"} /\ c \in reserved
    THEN Est ELSE IF c \in Strict THEN billed[c] ELSE 0]

(* Where a call is tells what it reserved, charged and was billed.          *)
CourseAt(c) ==
    /\ pc[c] \in {"reserve", "reserveUser", "denied", "rollback"} =>
          c \notin reserved /\ billed[c] = 0 /\ charge[c] = 0
    /\ pc[c] = "run" => billed[c] = 0 /\ charge[c] = 0
    /\ c \in Strict /\ pc[c] \in {"run", "settle", "settleUser"} => c \in reserved
    /\ c \in Strict /\ pc[c] \in {"settle", "settleUser"} => billed[c] <= charge[c]

CallsCourse == \A c \in Paid : CourseAt(c)

(* The rows cover what is held, and what is held for strict calls keeps to  *)
(* the limits, up to an estimate for every repeated addition.  Neither half *)
(* is inductive alone: a reservation is judged by the row.                  *)
BudgetInv ==
    /\ SumFunctionOnSet(Held, Paid) <= total + Est * repeated
    /\ SumFunctionOnSet(Held, Strict) <= Limit + Est * repeated
    /\ \A u \in Users :
         /\ SumFunctionOnSet(UserHeld, CallsOf(u)) <= spent[u] + Est * repeated
         /\ SumFunctionOnSet(UserHeld, Strict \cap CallsOf(u)) <= UserLimit + Est * repeated

(* Without faults the rows hold an estimate as long as it is reserved, and  *)
(* what a call settled afterwards.                                          *)
InRow == [c \in Paid |->
    IF pc[c] \in {"reserveUser", "denied", "rollback"} \/ (pc[c] \in {"run", "settle"} /\ c \in reserved)
    THEN Est ELSE IF pc[c] \in {"run", "settle"} THEN 0 ELSE charge[c]]

InUserRow == [c \in Paid |->
    IF pc[c] \in {"run", "settle", "settleUser"}
    THEN IF c \in reserved THEN Est ELSE 0 ELSE charge[c]]

RowsInv == repeated + failed = 0 =>
    /\ total = SumFunctionOnSet(InRow, Paid)
    /\ \A u \in Users : spent[u] = SumFunctionOnSet(InUserRow, CallsOf(u))

LedgerInv == LedgerTypeOK /\ CallsCourse /\ BudgetInv /\ RowsInv

(* A step of the call c leaves the other calls and the rows of other users. *)
Single(c) ==
    /\ \A x \in Paid \ {c} : /\ pc'[x] = pc[x] /\ (x \in reserved' <=> x \in reserved)
                             /\ billed'[x] = billed[x] /\ charge'[x] = charge[x]
    /\ \A u \in Users \ {UserOf[c]} : spent'[u] = spent[u]

(* What the step adds to the two rows, and what a repetition may add.       *)
Added == total' - total
AddedFor(u) == spent'[u] - spent[u]
Slack == Est * repeated' - Est * repeated

(* What is held for c moves with the rows, and grows only where they have   *)
(* room for an estimate.                                                    *)
Covered(c) ==
    /\ 0 <= Slack
    /\ Held'[c] <= Held[c] + Added + Slack
    /\ UserHeld'[c] <= UserHeld[c] + AddedFor(UserOf[c]) + Slack
    /\ Held'[c] <= Held[c] + Slack \/ (Held'[c] <= Held[c] + Est /\ total <= Limit - Est)
    /\ \/ UserHeld'[c] <= UserHeld[c] + Slack
       \/ UserHeld'[c] <= UserHeld[c] + Est /\ spent[UserOf[c]] <= UserLimit - Est

(* Without a fault the rows move exactly as what they hold for c.           *)
Exact(c) == repeated' + failed' = 0 =>
    /\ repeated + failed = 0
    /\ InRow'[c] = InRow[c] + Added
    /\ InUserRow'[c] = InUserRow[c] + AddedFor(UserOf[c])

(* The constants, and the sets the sums are taken over.                     *)
LEMMA Numbers ==
    /\ IsFiniteSet(Paid) /\ Strict \in SUBSET Paid /\ IsFiniteSet(Strict)
    /\ Est \in Nat /\ Est > 0 /\ Limit \in Nat /\ UserLimit \in Nat /\ MaxFaults \in Nat
    /\ \A u \in Users : /\ CallsOf(u) \in SUBSET Paid /\ IsFiniteSet(CallsOf(u))
                        /\ (Strict \cap CallsOf(u)) \in SUBSET CallsOf(u)
                        /\ IsFiniteSet(Strict \cap CallsOf(u))
    /\ \A c \in Paid : UserOf[c] \in Users /\ c \in CallsOf(UserOf[c])
    /\ \A c \in Paid : \A u \in Users : c \in CallsOf(u) <=> u = UserOf[c]
<1>1. /\ IsFiniteSet(Paid) /\ Strict \in SUBSET Paid /\ Est \in Nat /\ Est > 0
      /\ Limit \in Nat /\ UserLimit \in Nat /\ MaxFaults \in Nat
    BY LedgerAssumption DEF LedgerAssumption
<1>2. \A T \in SUBSET Paid : IsFiniteSet(T)
    BY <1>1, FS_Subset
<1>3. \A u \in Users : CallsOf(u) \in SUBSET Paid
    BY DEF CallsOf
<1>4. \A c \in Paid : UserOf[c] \in Users /\ \A u \in Users : c \in CallsOf(u) <=> u = UserOf[c]
    BY DEF Users, CallsOf
<1>5. \A u \in Users : (Strict \cap CallsOf(u)) \in SUBSET Paid
    BY <1>1
<1>6. QED
    BY <1>1, <1>2, <1>3, <1>4, <1>5

(* What is held for a call is a number between nothing and the estimate,    *)
(* and covers the bill of a strict call.                                    *)
HeldInBounds ==
    \A c \in Paid :
        /\ Held[c] \in 0..Est /\ UserHeld[c] \in 0..Est
        /\ InRow[c] \in 0..Est /\ InUserRow[c] \in 0..Est
        /\ billed[c] \in 0..Est /\ charge[c] \in 0..Est
        /\ c \in Strict => billed[c] <= Held[c] /\ billed[c] <= UserHeld[c]

(* ... which follows from the types and the course of the calls.            *)
LEMMA HeldBounds == /\ LedgerTypeOK /\ CallsCourse => HeldInBounds
                    /\ LedgerTypeOK' /\ CallsCourse' => HeldInBounds'
<1>1. LedgerTypeOK /\ CallsCourse => HeldInBounds
    BY Numbers DEF LedgerTypeOK, CallsCourse, CourseAt, Held, UserHeld, InRow, InUserRow, HeldInBounds
<1>2. LedgerTypeOK' /\ CallsCourse' => HeldInBounds'
    BY Numbers DEF LedgerTypeOK, CallsCourse, CourseAt, Held, UserHeld, InRow, InUserRow, HeldInBounds
<1>3. QED
    BY <1>1, <1>2

(* Sums of held amounts over a step of one call.                            *)
LEMMA SumsMove ==
    ASSUME LedgerTypeOK, CallsCourse, LedgerTypeOK', CallsCourse', NEW c \in Paid, Single(c),
           NEW S \in SUBSET Paid
    PROVE  /\ SumFunctionOnSet(Held, S) \in Int /\ SumFunctionOnSet(UserHeld, S) \in Int
           /\ SumFunctionOnSet(InRow, S) \in Int /\ SumFunctionOnSet(InUserRow, S) \in Int
           /\ SumFunctionOnSet(Held', S) =
                  SumFunctionOnSet(Held, S) + (IF c \in S THEN Held'[c] - Held[c] ELSE 0)
           /\ SumFunctionOnSet(UserHeld', S) =
                  SumFunctionOnSet(UserHeld, S) + (IF c \in S THEN UserHeld'[c] - UserHeld[c] ELSE 0)
           /\ SumFunctionOnSet(InRow', S) =
                  SumFunctionOnSet(InRow, S) + (IF c \in S THEN InRow'[c] - InRow[c] ELSE 0)
           /\ SumFunctionOnSet(InUserRow', S) =
                  SumFunctionOnSet(InUserRow, S) + (IF c \in S THEN InUserRow'[c] - InUserRow[c] ELSE 0)
<1>1. HeldInBounds /\ HeldInBounds'
    BY HeldBounds
<1>2. /\ \A x \in S : Held[x] \in Int /\ UserHeld[x] \in Int /\ InRow[x] \in Int /\ InUserRow[x] \in Int
      /\ \A x \in S : Held'[x] \in Int /\ UserHeld'[x] \in Int /\ InRow'[x] \in Int /\ InUserRow'[x] \in Int
    BY <1>1, Numbers DEF HeldInBounds
<1>3. IsFiniteSet(S)
    BY Numbers, FS_Subset
<1>4. \A x \in S \ {c} : /\ Held'[x] = Held[x] /\ UserHeld'[x] = UserHeld[x]
                         /\ InRow'[x] = InRow[x] /\ InUserRow'[x] = InUserRow[x]
    BY DEF Single, Held, UserHeld, InRow, InUserRow
<1>5. /\ SumFunctionOnSet(Held, S) \in Int /\ SumFunctionOnSet(UserHeld, S) \in Int
      /\ SumFunctionOnSet(InRow, S) \in Int /\ SumFunctionOnSet(InUserRow, S) \in Int
    BY <1>2, <1>3, SumByOne, Zenon
<1>6. SumFunctionOnSet(Held', S) =
          SumFunctionOnSet(Held, S) + (IF c \in S THEN Held'[c] - Held[c] ELSE 0)
    BY <1>2, <1>3, <1>4, SumMoves, Zenon
<1>7. SumFunctionOnSet(UserHeld', S) =
          SumFunctionOnSet(UserHeld, S) + (IF c \in S THEN UserHeld'[c] - UserHeld[c] ELSE 0)
    BY <1>2, <1>3, <1>4, SumMoves, Zenon
<1>8. SumFunctionOnSet(InRow', S) =
          SumFunctionOnSet(InRow, S) + (IF c \in S THEN InRow'[c] - InRow[c] ELSE 0)
    BY <1>2, <1>3, <1>4, SumMoves, Zenon
<1>9. SumFunctionOnSet(InUserRow', S) =
          SumFunctionOnSet(InUserRow, S) + (IF c \in S THEN InUserRow'[c] - InUserRow[c] ELSE 0)
    BY <1>2, <1>3, <1>4, SumMoves, Zenon
<1>10. QED
    BY <1>5, <1>6, <1>7, <1>8, <1>9, Zenon

(* The numbers of a step.                                                   *)
LEMMA StepNumbers ==
    ASSUME LedgerTypeOK, CallsCourse, LedgerTypeOK', CallsCourse', NEW c \in Paid
    PROVE  /\ \A x \in Paid : /\ Held[x] \in Int /\ UserHeld[x] \in Int /\ 0 <= Held[x] /\ 0 <= UserHeld[x]
                              /\ InRow[x] \in Int /\ InUserRow[x] \in Int
           /\ Held'[c] \in Int /\ UserHeld'[c] \in Int /\ InRow'[c] \in Int /\ InUserRow'[c] \in Int
           /\ total \in Int /\ total' \in Int /\ Est * repeated \in Int /\ Est * repeated' \in Int
           /\ \A u \in Users : spent[u] \in Int /\ spent'[u] \in Int
           /\ Est \in Nat /\ Limit \in Nat /\ UserLimit \in Nat
<1>1. HeldInBounds /\ HeldInBounds'
    BY HeldBounds
<1>2. \A m, n \in Nat : m * n \in Int
    OBVIOUS
<1>3. Est * repeated \in Int /\ Est * repeated' \in Int
    BY <1>2, Numbers DEF LedgerTypeOK
<1>4. QED
    BY <1>1, <1>3, Numbers DEF HeldInBounds, LedgerTypeOK

(* The budget over a step of one call.                                      *)
LEMMA BudgetKept ==
    ASSUME LedgerTypeOK, CallsCourse, LedgerTypeOK', CallsCourse', BudgetInv,
           NEW c \in Paid, Single(c), Covered(c)
    PROVE  BudgetInv'
<1> DEFINE slack == Est * repeated
           slackNext == Est * repeated'
<1>1. /\ Strict \in SUBSET Paid /\ Paid \in SUBSET Paid /\ IsFiniteSet(Paid)
      /\ \A u \in Users : /\ CallsOf(u) \in SUBSET Paid /\ Strict \cap CallsOf(u) \in SUBSET Paid
                          /\ Strict \cap CallsOf(u) \in SUBSET CallsOf(u) /\ IsFiniteSet(CallsOf(u))
                          /\ c \in CallsOf(u) <=> u = UserOf[c]
    BY Numbers
<1>2. slack \in Int /\ slackNext \in Int
    BY StepNumbers, Zenon
<1>3. SumFunctionOnSet(Held', Paid) <= total' + slackNext
    <2>1. SumFunctionOnSet(Held, Paid) <= total + slack
        BY DEF BudgetInv
    <2>2. Held'[c] <= Held[c] + (total' - total) + (slackNext - slack)
        BY DEF Covered, Added, Slack
    <2>3. SumFunctionOnSet(Held', Paid) = SumFunctionOnSet(Held, Paid) + (Held'[c] - Held[c])
        BY <1>1, SumsMove
    <2>4. /\ SumFunctionOnSet(Held, Paid) \in Int /\ Held[c] \in Int /\ Held'[c] \in Int
          /\ total \in Int /\ total' \in Int
        BY <1>1, SumsMove, StepNumbers, Zenon
    <2> HIDE DEF slack, slackNext
    <2>5. QED
        BY <1>2, <2>1, <2>2, <2>3, <2>4
<1>4. SumFunctionOnSet(Held', Strict) <= Limit + slackNext
    <2>1. SumFunctionOnSet(Held, Paid) <= total + slack /\ SumFunctionOnSet(Held, Strict) <= Limit + slack
        BY DEF BudgetInv
    <2>2. \/ Held'[c] <= Held[c] + (slackNext - slack)
          \/ Held'[c] <= Held[c] + Est /\ total <= Limit - Est
        BY DEF Covered, Slack
    <2>3. 0 <= slackNext - slack
        BY DEF Covered, Slack
    <2>4. SumFunctionOnSet(Held, Strict) <= SumFunctionOnSet(Held, Paid)
        BY <1>1, StepNumbers, SumGrows
    <2>5. SumFunctionOnSet(Held', Strict) =
              SumFunctionOnSet(Held, Strict) + (IF c \in Strict THEN Held'[c] - Held[c] ELSE 0)
        BY <1>1, SumsMove, Zenon
    <2>6. /\ SumFunctionOnSet(Held, Paid) \in Int /\ SumFunctionOnSet(Held, Strict) \in Int
          /\ Held[c] \in Int /\ Held'[c] \in Int
          /\ total \in Int /\ Est \in Nat /\ Limit \in Nat
        BY <1>1, SumsMove, StepNumbers, Zenon
    <2> HIDE DEF slack, slackNext
    <2>7. QED
        BY <1>2, <2>1, <2>2, <2>3, <2>4, <2>5, <2>6
<1>5. ASSUME NEW u \in Users
      PROVE  /\ SumFunctionOnSet(UserHeld', CallsOf(u)) <= spent'[u] + slackNext
             /\ SumFunctionOnSet(UserHeld', Strict \cap CallsOf(u)) <= UserLimit + slackNext
    <2>1. /\ SumFunctionOnSet(UserHeld, CallsOf(u)) <= spent[u] + slack
          /\ SumFunctionOnSet(UserHeld, Strict \cap CallsOf(u)) <= UserLimit + slack
        BY DEF BudgetInv
    <2>2. /\ UserHeld'[c] <= UserHeld[c] + (spent'[UserOf[c]] - spent[UserOf[c]]) + (slackNext - slack)
          /\ \/ UserHeld'[c] <= UserHeld[c] + (slackNext - slack)
             \/ UserHeld'[c] <= UserHeld[c] + Est /\ spent[UserOf[c]] <= UserLimit - Est
        BY DEF Covered, AddedFor, Slack
    <2>3. 0 <= slackNext - slack
        BY DEF Covered, Slack
    <2>4. SumFunctionOnSet(UserHeld, Strict \cap CallsOf(u)) <= SumFunctionOnSet(UserHeld, CallsOf(u))
        <3>1. /\ \A x \in CallsOf(u) : UserHeld[x] \in Int /\ 0 <= UserHeld[x]
              /\ \A x \in Strict \cap CallsOf(u) : UserHeld[x] <= UserHeld[x]
            BY <1>1, StepNumbers
        <3>2. QED
            BY <1>1, <3>1, SumGrows
    <2>5. /\ SumFunctionOnSet(UserHeld', CallsOf(u)) =
              SumFunctionOnSet(UserHeld, CallsOf(u)) + (IF c \in CallsOf(u) THEN UserHeld'[c] - UserHeld[c] ELSE 0)
          /\ SumFunctionOnSet(UserHeld', Strict \cap CallsOf(u)) =
              SumFunctionOnSet(UserHeld, Strict \cap CallsOf(u))
                + (IF c \in Strict \cap CallsOf(u) THEN UserHeld'[c] - UserHeld[c] ELSE 0)
        <3>1. CallsOf(u) \in SUBSET Paid /\ Strict \cap CallsOf(u) \in SUBSET Paid
            BY <1>1
        <3>2. ASSUME NEW V \in SUBSET Paid
              PROVE  SumFunctionOnSet(UserHeld', V) =
                        SumFunctionOnSet(UserHeld, V) + (IF c \in V THEN UserHeld'[c] - UserHeld[c] ELSE 0)
            BY SumsMove, Zenon
        <3>3. QED
            BY <3>1, <3>2
    <2>6. /\ SumFunctionOnSet(UserHeld, CallsOf(u)) \in Int
          /\ SumFunctionOnSet(UserHeld, Strict \cap CallsOf(u)) \in Int
          /\ UserHeld[c] \in Int /\ UserHeld'[c] \in Int
          /\ spent[u] \in Int /\ spent'[u] \in Int /\ Est \in Nat /\ UserLimit \in Nat
        BY <1>1, SumsMove, StepNumbers, Zenon
    <2>7. u # UserOf[c] => spent'[u] = spent[u]
        BY DEF Single
    <2> HIDE DEF slack, slackNext
    <2>8. CASE u = UserOf[c]
        BY <1>1, <1>2, <2>1, <2>2, <2>3, <2>4, <2>5, <2>6, <2>8
    <2>9. CASE u # UserOf[c]
        BY <1>1, <1>2, <2>1, <2>3, <2>5, <2>6, <2>7, <2>9
    <2>10. QED
        BY <2>8, <2>9
<1>6. QED
    BY <1>3, <1>4, <1>5 DEF BudgetInv, CallsOf, Users

(* The rows over a step of one call that meets no fault.                    *)
LEMMA RowsKept ==
    ASSUME LedgerTypeOK, CallsCourse, LedgerTypeOK', CallsCourse', RowsInv,
           NEW c \in Paid, Single(c), Exact(c)
    PROVE  RowsInv'
<1> SUFFICES ASSUME repeated' + failed' = 0
             PROVE  /\ total' = SumFunctionOnSet(InRow', Paid)
                    /\ \A u \in Users : spent'[u] = SumFunctionOnSet(InUserRow', CallsOf(u))
    BY DEF RowsInv, Users, CallsOf
<1>1. /\ total = SumFunctionOnSet(InRow, Paid)
      /\ \A u \in Users : spent[u] = SumFunctionOnSet(InUserRow, CallsOf(u))
      /\ InRow'[c] = InRow[c] + (total' - total)
      /\ InUserRow'[c] = InUserRow[c] + (spent'[UserOf[c]] - spent[UserOf[c]])
    BY DEF RowsInv, Exact, Added, AddedFor
<1>2. /\ InRow[c] \in Int /\ InUserRow[c] \in Int /\ total \in Int /\ total' \in Int
      /\ \A u \in Users : spent[u] \in Int /\ spent'[u] \in Int
    BY StepNumbers
<1>3. total' = SumFunctionOnSet(InRow', Paid)
    <2>1. SumFunctionOnSet(InRow', Paid) = SumFunctionOnSet(InRow, Paid) + (InRow'[c] - InRow[c])
        BY SumsMove, Paid \in SUBSET Paid
    <2>2. QED
        BY <1>1, <1>2, <2>1
<1>4. ASSUME NEW u \in Users PROVE spent'[u] = SumFunctionOnSet(InUserRow', CallsOf(u))
    <2>1. CallsOf(u) \in SUBSET Paid /\ (c \in CallsOf(u) <=> u = UserOf[c])
        BY Numbers
    <2>2. SumFunctionOnSet(InUserRow', CallsOf(u)) =
              SumFunctionOnSet(InUserRow, CallsOf(u)) + (IF c \in CallsOf(u) THEN InUserRow'[c] - InUserRow[c] ELSE 0)
        BY <2>1, SumsMove, Zenon
    <2>3. CASE u = UserOf[c]
        BY <1>1, <1>2, <2>1, <2>2, <2>3
    <2>4. CASE u # UserOf[c]
        BY <1>1, <1>2, <2>1, <2>2, <2>4 DEF Single
    <2>5. QED
        BY <2>3, <2>4
<1>5. QED
    BY <1>3, <1>4

(* A repetition adds one estimate to what the budget allows for.            *)
LEMMA SlackRises ==
    ASSUME LedgerTypeOK, NEW d \in {0, 1}, repeated' = repeated + d
    PROVE  Slack = Est * d
<1>1. \A m, n \in Nat : m * (n + 1) - m * n = m /\ m * n - m * n = 0 /\ m * 1 = m /\ m * 0 = 0
    OBVIOUS
<1>2. Est \in Nat /\ repeated \in Nat
    BY Numbers DEF LedgerTypeOK
<1>3. QED
    BY <1>1, <1>2 DEF Slack

(* What a step of c keeps.                                                  *)
StepOf(c) == LedgerTypeOK' /\ Single(c) /\ CourseAt(c)' /\ Covered(c) /\ Exact(c)

(* The provider's row is asked for the estimate, ...                        *)
LEMMA ReserveTotalSteps ==
    ASSUME LedgerTypeOK, CallsCourse, NEW c \in Paid,
           ReserveTotal(c) \/ ReserveTotalRaises(c) \/ ReserveTotalRepeats(c)
    PROVE  StepOf(c)
<1> USE Numbers DEF LedgerTypeOK, CourseAt
<1>1. CourseAt(c)
    BY DEF CallsCourse
<1>2. CASE ReserveTotal(c)
    <2>1. LedgerTypeOK' /\ Single(c) /\ CourseAt(c)'
        BY <1>1, <1>2 DEF ReserveTotal, Goto, Fits, faultVars, Single
    <2>2. Slack = 0
        BY <1>2, SlackRises DEF ReserveTotal, faultVars
    <2>3. Covered(c) /\ Exact(c)
        BY <1>1, <1>2, <2>2 DEF ReserveTotal, Goto, Fits, faultVars, Covered, Exact, Held, UserHeld, InRow,
              InUserRow, Added, AddedFor
    <2>4. QED
        BY <2>1, <2>3 DEF StepOf
<1>3. CASE ReserveTotalRaises(c)
    <2>1. LedgerTypeOK' /\ Single(c) /\ CourseAt(c)'
        BY <1>1, <1>3 DEF ReserveTotalRaises, Goto, Raises, Fault, Unreserved, Fits, Single
    <2>2. Slack = 0
        BY <1>3, SlackRises DEF ReserveTotalRaises, Raises
    <2>3. /\ pc' = [pc EXCEPT ![c] = Unreserved(c)] /\ failed' = failed + 1
          /\ UNCHANGED <<spent, reserved, charge, billed, repeated>>
          /\ total' = total \/ total' = total + Est
        BY <1>3 DEF ReserveTotalRaises, Goto, Raises
    <2>4. Exact(c)
        BY <2>3 DEF Exact
    <2>5. /\ Held[c] = 0 /\ UserHeld[c] = 0 /\ Held'[c] = 0 /\ UserHeld'[c] = 0
        BY <1>1, <1>3, <2>3 DEF ReserveTotalRaises, Unreserved, Held, UserHeld
    <2>6. Added \in Nat /\ AddedFor(UserOf[c]) = 0
        BY <2>3 DEF Added, AddedFor
    <2>7. Covered(c)
        BY <2>2, <2>5, <2>6 DEF Covered
    <2>8. QED
        BY <2>1, <2>4, <2>7 DEF StepOf
<1>4. CASE ReserveTotalRepeats(c)
    <2>1. LedgerTypeOK' /\ Single(c) /\ CourseAt(c)'
        BY <1>1, <1>4 DEF ReserveTotalRepeats, Goto, Repeats, Fault, Fits, Single
    <2>2. Slack = Est
        BY <1>4, SlackRises DEF ReserveTotalRepeats, Repeats
    <2>3. Covered(c) /\ Exact(c)
        BY <1>1, <1>4, <2>2 DEF ReserveTotalRepeats, Goto, Repeats, Fault, Fits, Covered, Exact, Held,
              UserHeld, InRow, InUserRow, Added, AddedFor
    <2>4. QED
        BY <2>1, <2>3 DEF StepOf
<1>5. QED
    BY <1>2, <1>3, <1>4

(* ... the user's row is, ...                                               *)
LEMMA ReserveUserSteps ==
    ASSUME LedgerTypeOK, CallsCourse, NEW c \in Paid,
           ReserveUser(c) \/ ReserveUserRaises(c) \/ ReserveUserRepeats(c)
    PROVE  StepOf(c)
<1> USE Numbers DEF LedgerTypeOK, CourseAt
<1>1. CourseAt(c)
    BY DEF CallsCourse
<1>2. CASE ReserveUser(c)
    <2>1. LedgerTypeOK' /\ Single(c) /\ CourseAt(c)'
        BY <1>1, <1>2 DEF ReserveUser, Goto, Spend, Fits, faultVars, Single
    <2>2. Slack = 0
        BY <1>2, SlackRises DEF ReserveUser, faultVars
    <2>3. Covered(c) /\ Exact(c)
        BY <1>1, <1>2, <2>2 DEF ReserveUser, Goto, Spend, Fits, faultVars, Covered, Exact, Held, UserHeld,
              InRow, InUserRow, Added, AddedFor
    <2>4. QED
        BY <2>1, <2>3 DEF StepOf
<1>3. CASE ReserveUserRaises(c)
    <2>1. LedgerTypeOK' /\ Single(c) /\ CourseAt(c)'
        BY <1>1, <1>3 DEF ReserveUserRaises, Goto, Raises, Fault, Spend, Fits, Single
    <2>2. Slack = 0
        BY <1>3, SlackRises DEF ReserveUserRaises, Raises
    <2>3. Covered(c) /\ Exact(c)
        BY <1>1, <1>3, <2>2 DEF ReserveUserRaises, Goto, Raises, Fault, Spend, Fits, Covered, Exact, Held,
              UserHeld, InRow, InUserRow, Added, AddedFor
    <2>4. QED
        BY <2>1, <2>3 DEF StepOf
<1>4. CASE ReserveUserRepeats(c)
    <2>1. LedgerTypeOK' /\ Single(c) /\ CourseAt(c)'
        BY <1>1, <1>4 DEF ReserveUserRepeats, Goto, Repeats, Fault, Spend, Fits, Single
    <2>2. Slack = Est
        BY <1>4, SlackRises DEF ReserveUserRepeats, Repeats
    <2>3. Covered(c) /\ Exact(c)
        BY <1>1, <1>4, <2>2 DEF ReserveUserRepeats, Goto, Repeats, Fault, Spend, Fits, Covered, Exact, Held,
              UserHeld, InRow, InUserRow, Added, AddedFor
    <2>4. QED
        BY <2>1, <2>3 DEF StepOf
<1>5. QED
    BY <1>2, <1>3, <1>4

(* ... the provider's row is given back, ...                                *)
LEMMA RollbackSteps ==
    ASSUME LedgerTypeOK, CallsCourse, NEW c \in Paid,
           Rollback(c) \/ RollbackRaises(c) \/ RollbackRepeats(c)
    PROVE  StepOf(c)
<1> USE Numbers DEF LedgerTypeOK, CourseAt
<1>1. CourseAt(c)
    BY DEF CallsCourse
<1>2. CASE Rollback(c)
    <2>1. LedgerTypeOK' /\ Single(c) /\ CourseAt(c)'
        BY <1>1, <1>2 DEF Rollback, Goto, Unreserved, AfterRollback, faultVars, Single
    <2>2. Slack = 0
        BY <1>2, SlackRises DEF Rollback, faultVars
    <2>3. Covered(c) /\ Exact(c)
        BY <1>1, <1>2, <2>2 DEF Rollback, Goto, Unreserved, AfterRollback, faultVars, Covered, Exact, Held,
              UserHeld, InRow, InUserRow, Added, AddedFor
    <2>4. QED
        BY <2>1, <2>3 DEF StepOf
<1>3. CASE RollbackRaises(c)
    <2>1. LedgerTypeOK' /\ Single(c) /\ CourseAt(c)'
        BY <1>1, <1>3 DEF RollbackRaises, Goto, Raises, Fault, Unreserved, AfterRollback, Single
    <2>2. Slack = 0
        BY <1>3, SlackRises DEF RollbackRaises, Raises
    <2>3. Covered(c) /\ Exact(c)
        BY <1>1, <1>3, <2>2 DEF RollbackRaises, Goto, Raises, Fault, Unreserved, AfterRollback, Covered,
              Exact, Held, UserHeld, InRow, InUserRow, Added, AddedFor
    <2>4. QED
        BY <2>1, <2>3 DEF StepOf
<1>4. CASE RollbackRepeats(c)
    <2>1. LedgerTypeOK' /\ Single(c) /\ CourseAt(c)'
        BY <1>1, <1>4 DEF RollbackRepeats, Goto, Repeats, Fault, Unreserved, AfterRollback, Single
    <2>2. Slack = Est
        BY <1>4, SlackRises DEF RollbackRepeats, Repeats
    <2>3. Covered(c) /\ Exact(c)
        BY <1>1, <1>4, <2>2 DEF RollbackRepeats, Goto, Repeats, Fault, Unreserved, AfterRollback, Covered,
              Exact, Held, UserHeld, InRow, InUserRow, Added, AddedFor
    <2>4. QED
        BY <2>1, <2>3 DEF StepOf
<1>5. QED
    BY <1>2, <1>3, <1>4

(* ... the call is made, ...                                                *)
LEMMA RunSteps ==
    ASSUME LedgerTypeOK, CallsCourse, NEW c \in Paid,
           Run(c)
    PROVE  StepOf(c)
<1> USE Numbers DEF LedgerTypeOK, CourseAt
<1>1. CourseAt(c)
    BY DEF CallsCourse
<1>2. CASE Run(c)
    <2>1. LedgerTypeOK' /\ Single(c) /\ CourseAt(c)'
        BY <1>1, <1>2 DEF Run, Goto, Charges, rows, faultVars, Single
    <2>2. Slack = 0
        BY <1>2, SlackRises DEF Run, faultVars
    <2>3. Covered(c) /\ Exact(c)
        BY <1>1, <1>2, <2>2 DEF Run, Goto, Charges, rows, faultVars, Covered, Exact, Held, UserHeld, InRow,
              InUserRow, Added, AddedFor
    <2>4. QED
        BY <2>1, <2>3 DEF StepOf
<1>3. QED
    BY <1>2

(* ... the provider's row is settled, ...                                   *)
LEMMA SettleTotalSteps ==
    ASSUME LedgerTypeOK, CallsCourse, NEW c \in Paid,
           SettleTotal(c) \/ SettleTotalRaises(c) \/ SettleTotalRepeats(c)
    PROVE  StepOf(c)
<1> USE Numbers DEF LedgerTypeOK, CourseAt
<1>1. CourseAt(c)
    BY DEF CallsCourse
<1>2. CASE SettleTotal(c)
    <2>1. LedgerTypeOK' /\ Single(c) /\ CourseAt(c)'
        BY <1>1, <1>2 DEF SettleTotal, Goto, Delta, faultVars, Single
    <2>2. Slack = 0
        BY <1>2, SlackRises DEF SettleTotal, faultVars
    <2>3. Covered(c) /\ Exact(c)
        BY <1>1, <1>2, <2>2 DEF SettleTotal, Goto, Delta, faultVars, Covered, Exact, Held, UserHeld, InRow,
              InUserRow, Added, AddedFor
    <2>4. QED
        BY <2>1, <2>3 DEF StepOf
<1>3. CASE SettleTotalRaises(c)
    <2>1. LedgerTypeOK' /\ Single(c) /\ CourseAt(c)'
        BY <1>1, <1>3 DEF SettleTotalRaises, Goto, Raises, Fault, Delta, Single
    <2>2. Slack = 0
        BY <1>3, SlackRises DEF SettleTotalRaises, Raises
    <2>3. Covered(c) /\ Exact(c)
        BY <1>1, <1>3, <2>2 DEF SettleTotalRaises, Goto, Raises, Fault, Delta, Covered, Exact, Held, UserHeld,
              InRow, InUserRow, Added, AddedFor
    <2>4. QED
        BY <2>1, <2>3 DEF StepOf
<1>4. CASE SettleTotalRepeats(c)
    <2>1. LedgerTypeOK' /\ Single(c) /\ CourseAt(c)'
        BY <1>1, <1>4 DEF SettleTotalRepeats, Goto, Repeats, Fault, Delta, Single
    <2>2. Slack = Est
        BY <1>4, SlackRises DEF SettleTotalRepeats, Repeats
    <2>3. Covered(c) /\ Exact(c)
        BY <1>1, <1>4, <2>2 DEF SettleTotalRepeats, Goto, Repeats, Fault, Delta, Covered, Exact, Held,
              UserHeld, InRow, InUserRow, Added, AddedFor
    <2>4. QED
        BY <2>1, <2>3 DEF StepOf
<1>5. QED
    BY <1>2, <1>3, <1>4

(* ... and the user's.                                                      *)
LEMMA SettleUserSteps ==
    ASSUME LedgerTypeOK, CallsCourse, NEW c \in Paid,
           SettleUser(c) \/ SettleUserRaises(c) \/ SettleUserRepeats(c)
    PROVE  StepOf(c)
<1> USE Numbers DEF LedgerTypeOK, CourseAt
<1>1. CourseAt(c)
    BY DEF CallsCourse
<1>2. CASE SettleUser(c)
    <2>1. LedgerTypeOK' /\ Single(c) /\ CourseAt(c)'
        BY <1>1, <1>2 DEF SettleUser, Goto, Spend, Delta, faultVars, Single
    <2>2. Slack = 0
        BY <1>2, SlackRises DEF SettleUser, faultVars
    <2>3. Covered(c) /\ Exact(c)
        BY <1>1, <1>2, <2>2 DEF SettleUser, Goto, Spend, Delta, faultVars, Covered, Exact, Held, UserHeld,
              InRow, InUserRow, Added, AddedFor
    <2>4. QED
        BY <2>1, <2>3 DEF StepOf
<1>3. CASE SettleUserRaises(c)
    <2>1. LedgerTypeOK' /\ Single(c) /\ CourseAt(c)'
        BY <1>1, <1>3 DEF SettleUserRaises, Goto, Raises, Fault, Spend, Delta, Single
    <2>2. Slack = 0
        BY <1>3, SlackRises DEF SettleUserRaises, Raises
    <2>3. Covered(c) /\ Exact(c)
        BY <1>1, <1>3, <2>2 DEF SettleUserRaises, Goto, Raises, Fault, Spend, Delta, Covered, Exact, Held,
              UserHeld, InRow, InUserRow, Added, AddedFor
    <2>4. QED
        BY <2>1, <2>3 DEF StepOf
<1>4. CASE SettleUserRepeats(c)
    <2>1. LedgerTypeOK' /\ Single(c) /\ CourseAt(c)'
        BY <1>1, <1>4 DEF SettleUserRepeats, Goto, Repeats, Fault, Spend, Delta, Single
    <2>2. Slack = Est
        BY <1>4, SlackRises DEF SettleUserRepeats, Repeats
    <2>3. Covered(c) /\ Exact(c)
        BY <1>1, <1>4, <2>2 DEF SettleUserRepeats, Goto, Repeats, Fault, Spend, Delta, Covered, Exact, Held,
              UserHeld, InRow, InUserRow, Added, AddedFor
    <2>4. QED
        BY <2>1, <2>3 DEF StepOf
<1>5. QED
    BY <1>2, <1>3, <1>4

(* Every step of a call keeps the invariant, ...                            *)
LEMMA CallKeeps ==
    ASSUME LedgerInv, NEW c \in Paid, Begin(c) \/ Proceed(c) \/ Misfortune(c)
    PROVE  LedgerInv'
<1>1. LedgerTypeOK /\ CallsCourse /\ BudgetInv /\ RowsInv
    BY DEF LedgerInv
<1>2. StepOf(c)
    BY <1>1, ReserveTotalSteps, ReserveUserSteps, RollbackSteps, RunSteps, SettleTotalSteps, SettleUserSteps
       DEF Begin, Proceed, Misfortune
<1>3. LedgerTypeOK' /\ Single(c) /\ CourseAt(c)' /\ Covered(c) /\ Exact(c)
    BY <1>2 DEF StepOf
<1>4. CallsCourse'
    BY <1>1, <1>3 DEF CallsCourse, CourseAt, Single
<1>5. BudgetInv' /\ RowsInv'
    BY <1>1, <1>3, <1>4, BudgetKept, RowsKept
<1>6. QED
    BY <1>3, <1>4, <1>5 DEF LedgerInv

(* ... and so does the end of the process: what is held for a call becomes  *)
(* at most what the provider bills.                                         *)
LEMMA LedgerDies == ASSUME LedgerInv, Dies PROVE LedgerInv'
<1>1. LedgerTypeOK /\ CallsCourse /\ BudgetInv
    BY DEF LedgerInv
<1>2. PICK bill \in [{c \in Paid : pc[c] = "run"} -> 0..Est] :
          billed' = [c \in Paid |-> IF c \in DOMAIN bill THEN bill[c] ELSE billed[c]]
    BY DEF Dies
<1>3. /\ pc' = [c \in Paid |-> IF pc[c] = "reserve" THEN "reserve" ELSE "over"]
      /\ UNCHANGED <<total, spent, reserved, charge>> /\ failed' = failed + 1 /\ repeated' = repeated
      /\ repeated + failed < MaxFaults
    BY DEF Dies, Raises, Fault, rows
<1>4. \A c \in Paid : /\ c \in DOMAIN bill <=> pc[c] = "run"
                      /\ billed'[c] \in 0..Est
                      /\ pc[c] # "run" => billed'[c] = billed[c]
    BY <1>1, <1>2 DEF LedgerTypeOK
<1>5. LedgerTypeOK'
    <2>1. billed' \in [Paid -> 0..Est]
        BY <1>2, <1>4
    <2>2. repeated' \in Nat /\ failed' \in Nat /\ repeated' + failed' <= MaxFaults
        BY <1>1, <1>3, Numbers DEF LedgerTypeOK
    <2>3. QED
        BY <1>1, <1>3, <2>1, <2>2 DEF LedgerTypeOK
<1>6. CallsCourse'
    BY <1>1, <1>3, <1>4 DEF CallsCourse, CourseAt
<1>7. HeldInBounds /\ HeldInBounds'
    BY <1>1, <1>5, <1>6, HeldBounds
<1>8. \A c \in Paid : Held'[c] <= Held[c] /\ UserHeld'[c] <= UserHeld[c]
    <2>1. ASSUME NEW c \in Paid PROVE Held'[c] <= Held[c] /\ UserHeld'[c] <= UserHeld[c]
        <3>1. CASE pc[c] = "run"
            BY <1>1, <1>3, <1>4, <3>1, Numbers DEF CallsCourse, CourseAt, Held, UserHeld
        <3>2. CASE pc[c] # "run"
            <4>1. billed'[c] = billed[c] /\ pc'[c] \in {"reserve", "over"} /\ billed[c] \in 0..Est
                BY <1>3, <1>4, <1>7, <3>2 DEF HeldInBounds
            <4>2. /\ Held'[c] = (IF c \in Strict THEN billed[c] ELSE 0)
                  /\ UserHeld'[c] = (IF c \in Strict THEN billed[c] ELSE 0)
                BY <4>1 DEF Held, UserHeld
            <4>3. QED
                BY <1>7, <4>2, Numbers DEF HeldInBounds
        <3>3. QED
            BY <3>1, <3>2
    <2>2. QED
        BY <2>1
<1>9. ASSUME NEW S \in SUBSET Paid
      PROVE  /\ SumFunctionOnSet(Held', S) <= SumFunctionOnSet(Held, S)
             /\ SumFunctionOnSet(UserHeld', S) <= SumFunctionOnSet(UserHeld, S)
             /\ SumFunctionOnSet(Held, S) \in Int /\ SumFunctionOnSet(Held', S) \in Int
             /\ SumFunctionOnSet(UserHeld, S) \in Int /\ SumFunctionOnSet(UserHeld', S) \in Int
    <2>1. IsFiniteSet(S) /\ S \in SUBSET S /\ S \ S = {}
        BY Numbers, FS_Subset
    <2>2. /\ \A x \in S : Held[x] \in Int /\ Held'[x] \in Int /\ Held'[x] <= Held[x]
          /\ \A x \in S : UserHeld[x] \in Int /\ UserHeld'[x] \in Int /\ UserHeld'[x] <= UserHeld[x]
        BY <1>7, <1>8, Numbers DEF HeldInBounds
    <2>3. SumFunctionOnSet(Held', S) <= SumFunctionOnSet(Held, S)
        BY <2>1, <2>2, SumGrows
    <2>4. SumFunctionOnSet(UserHeld', S) <= SumFunctionOnSet(UserHeld, S)
        BY <2>1, <2>2, SumGrows
    <2>5. /\ SumFunctionOnSet(Held, S) \in Int /\ SumFunctionOnSet(Held', S) \in Int
          /\ SumFunctionOnSet(UserHeld, S) \in Int /\ SumFunctionOnSet(UserHeld', S) \in Int
        BY <2>1, <2>2, SumByOne, Zenon
    <2>6. QED
        BY <2>3, <2>4, <2>5
<1>10. BudgetInv'
    <2>1. Est * repeated' = Est * repeated /\ Est * repeated \in Int
        <3>1. \A m, n \in Nat : m * n \in Int
            OBVIOUS
        <3>2. QED
            BY <1>1, <1>3, <3>1, Numbers DEF LedgerTypeOK
    <2>2. /\ Paid \in SUBSET Paid /\ Strict \in SUBSET Paid /\ total \in Int /\ Limit \in Int /\ UserLimit \in Int
          /\ \A u \in Users : spent[u] \in Int
        BY <1>1, Numbers DEF LedgerTypeOK
    <2> DEFINE slack == Est * repeated
    <2>3. /\ SumFunctionOnSet(Held, Paid) <= total + slack
          /\ SumFunctionOnSet(Held, Strict) <= Limit + slack
          /\ \A u \in Users : /\ SumFunctionOnSet(UserHeld, CallsOf(u)) <= spent[u] + slack
                              /\ SumFunctionOnSet(UserHeld, Strict \cap CallsOf(u)) <= UserLimit + slack
        BY <1>1 DEF BudgetInv
    <2>4. slack \in Int
        BY <2>1
    <2> HIDE DEF slack
    <2>5. /\ SumFunctionOnSet(Held', Paid) <= total + slack
          /\ SumFunctionOnSet(Held', Strict) <= Limit + slack
        BY <1>9, <2>2, <2>3, <2>4
    <2>6. ASSUME NEW u \in Users
          PROVE  /\ SumFunctionOnSet(UserHeld', CallsOf(u)) <= spent[u] + slack
                 /\ SumFunctionOnSet(UserHeld', Strict \cap CallsOf(u)) <= UserLimit + slack
        <3>1. CallsOf(u) \in SUBSET Paid /\ Strict \cap CallsOf(u) \in SUBSET Paid
            BY Numbers
        <3>2. /\ SumFunctionOnSet(UserHeld, CallsOf(u)) <= spent[u] + slack
              /\ SumFunctionOnSet(UserHeld, Strict \cap CallsOf(u)) <= UserLimit + slack
            BY <2>3
        <3>3. SumFunctionOnSet(UserHeld', CallsOf(u)) <= spent[u] + slack
            BY <1>9, <2>2, <2>4, <3>1, <3>2
        <3>4. SumFunctionOnSet(UserHeld', Strict \cap CallsOf(u)) <= UserLimit + slack
            BY <1>9, <2>2, <2>4, <3>1, <3>2
        <3>5. QED
            BY <3>3, <3>4
    <2>7. QED
        BY <1>3, <2>1, <2>5, <2>6 DEF BudgetInv, Users, CallsOf, slack
<1>11. RowsInv'
    BY <1>1, <1>3 DEF RowsInv, LedgerTypeOK
<1>12. QED
    BY <1>5, <1>6, <1>10, <1>11 DEF LedgerInv

(* The rows are empty at first.                                             *)
LEMMA LedgerInit_Inv == LedgerInit => LedgerInv
<1> SUFFICES ASSUME LedgerInit PROVE LedgerInv
    OBVIOUS
<1> USE DEF LedgerInit
<1>1. LedgerTypeOK
    BY Numbers DEF LedgerTypeOK
<1>2. CallsCourse
    BY Numbers DEF CallsCourse, CourseAt
<1>3. ASSUME NEW S \in SUBSET Paid
      PROVE  /\ SumFunctionOnSet(Held, S) = 0 /\ SumFunctionOnSet(UserHeld, S) = 0
             /\ SumFunctionOnSet(InRow, S) = 0 /\ SumFunctionOnSet(InUserRow, S) = 0
    <2>1. IsFiniteSet(S) /\ S \in SUBSET S /\ {} \in SUBSET S
        BY Numbers, FS_Subset
    <2>2. \A x \in S : Held[x] = 0 /\ UserHeld[x] = 0 /\ InRow[x] = 0 /\ InUserRow[x] = 0
        BY Numbers DEF Held, UserHeld, InRow, InUserRow
    <2> HIDE DEF LedgerInit
    <2>3. QED
        BY <2>1, <2>2, SumOfNothing, Zenon
<1>4. /\ total = 0 /\ Est \in Nat /\ Limit \in Nat /\ UserLimit \in Nat /\ repeated = 0
      /\ \A u \in Users : spent[u] = 0
      /\ Paid \in SUBSET Paid /\ Strict \in SUBSET Paid
      /\ \A u \in Users : CallsOf(u) \in SUBSET Paid /\ Strict \cap CallsOf(u) \in SUBSET Paid
    BY Numbers
<1>5. Est * repeated = 0
    <2>1. \A m \in Nat : m * 0 = 0
        OBVIOUS
    <2>2. QED
        BY <1>4, <2>1
<1> HIDE DEF LedgerInit
<1>6. BudgetInv
    BY <1>3, <1>4, <1>5 DEF BudgetInv
<1>7. RowsInv
    BY <1>3, <1>4 DEF RowsInv
<1>8. QED
    BY <1>1, <1>2, <1>6, <1>7 DEF LedgerInv

(* The two properties follow from the invariant.                            *)
LEMMA LedgerPromises == LedgerInv => WithinBudget /\ NoPhantom
<1> SUFFICES ASSUME LedgerInv PROVE WithinBudget /\ NoPhantom
    OBVIOUS
<1>1. LedgerTypeOK /\ CallsCourse /\ BudgetInv /\ RowsInv
    BY DEF LedgerInv
<1>2. HeldInBounds
    BY <1>1, HeldBounds
<1>3. /\ Strict \in SUBSET Paid /\ IsFiniteSet(Strict)
      /\ \A u \in Users : IsFiniteSet(Strict \cap CallsOf(u)) /\ Strict \cap CallsOf(u) \in SUBSET Paid
      /\ Est \in Nat /\ Limit \in Nat /\ UserLimit \in Nat
    BY Numbers
<1>4. ASSUME NEW S \in SUBSET Strict, IsFiniteSet(S)
      PROVE  /\ SumFunctionOnSet(billed, S) <= SumFunctionOnSet(Held, S)
             /\ SumFunctionOnSet(billed, S) <= SumFunctionOnSet(UserHeld, S)
             /\ SumFunctionOnSet(billed, S) \in Int
             /\ SumFunctionOnSet(Held, S) \in Int /\ SumFunctionOnSet(UserHeld, S) \in Int
    <2>1. /\ \A x \in S : billed[x] \in Int /\ Held[x] \in Int /\ UserHeld[x] \in Int
          /\ \A x \in S : billed[x] <= Held[x] /\ billed[x] <= UserHeld[x]
        BY <1>2, <1>3 DEF HeldInBounds
    <2>2. S \in SUBSET S /\ S \ S = {}
        OBVIOUS
    <2>3. SumFunctionOnSet(billed, S) <= SumFunctionOnSet(Held, S)
        BY <1>4, <2>1, <2>2, SumGrows
    <2>4. SumFunctionOnSet(billed, S) <= SumFunctionOnSet(UserHeld, S)
        BY <1>4, <2>1, <2>2, SumGrows
    <2>5. /\ SumFunctionOnSet(billed, S) \in Int
          /\ SumFunctionOnSet(Held, S) \in Int /\ SumFunctionOnSet(UserHeld, S) \in Int
        BY <1>4, <2>1, SumByOne, Zenon
    <2>6. QED
        BY <2>3, <2>4, <2>5
<1>5. WithinBudget
    <2> DEFINE slack == Est * repeated
    <2>1. slack \in Int
        <3>1. \A m, n \in Nat : m * n \in Int
            OBVIOUS
        <3>2. QED
            BY <1>1, <1>3, <3>1 DEF LedgerTypeOK
    <2>2. /\ SumFunctionOnSet(Held, Strict) <= Limit + slack
          /\ \A u \in Users : SumFunctionOnSet(UserHeld, Strict \cap CallsOf(u)) <= UserLimit + slack
        BY <1>1 DEF BudgetInv
    <2> HIDE DEF slack
    <2>3. SumFunctionOnSet(billed, Strict) <= Limit + slack
        BY <1>3, <1>4, <2>1, <2>2
    <2>4. ASSUME NEW u \in Users PROVE SumFunctionOnSet(billed, Strict \cap CallsOf(u)) <= UserLimit + slack
        <3>1. Strict \cap CallsOf(u) \in SUBSET Strict
            OBVIOUS
        <3>2. QED
            BY <1>3, <1>4, <2>1, <2>2, <3>1
    <2>5. QED
        BY <2>3, <2>4 DEF WithinBudget, BillOf, slack
<1>6. NoPhantom
    <2> SUFFICES ASSUME repeated + failed = 0, \A c \in Paid : pc[c] \in {"reserve", "over"}
                 PROVE  RowsHoldSettled
        BY DEF NoPhantom
    <2>1. InRow = charge /\ InUserRow = charge
        BY <1>1 DEF InRow, InUserRow, LedgerTypeOK
    <2>2. /\ total = SumFunctionOnSet(charge, Paid)
          /\ \A u \in Users : spent[u] = SumFunctionOnSet(charge, CallsOf(u))
        BY <1>1, <2>1 DEF RowsInv
    <2>3. QED
        BY <2>2 DEF RowsHoldSettled, ChargeOf
<1>7. QED
    BY <1>5, <1>6

(* Every step of gate, threads or process keeps it.                         *)
LEMMA LedgerNext == LedgerInv /\ [Next]_vars => LedgerInv'
<1> SUFFICES ASSUME LedgerInv, [Next]_vars PROVE LedgerInv'
    OBVIOUS
<1>1. ASSUME UNCHANGED ledgerVars PROVE LedgerInv'
    <2>1. UNCHANGED <<total, spent, pc, reserved, charge, billed, repeated, failed>>
        BY <1>1 DEF ledgerVars, rows, faultVars
    <2>2. Held' = Held /\ UserHeld' = UserHeld /\ InRow' = InRow /\ InUserRow' = InUserRow
        BY <2>1 DEF Held, UserHeld, InRow, InUserRow
    <2>3. LedgerTypeOK' /\ CallsCourse'
        BY <2>1 DEF LedgerInv, LedgerTypeOK, CallsCourse, CourseAt
    <2>4. BudgetInv' /\ RowsInv'
        BY <2>1, <2>2 DEF LedgerInv, BudgetInv, RowsInv, Users, CallsOf
    <2>5. QED
        BY <2>3, <2>4 DEF LedgerInv
<1>2. ASSUME NEW c \in Paid, ThreadBegins(c) \/ ThreadProceeds(c) \/ ThreadErrs(c) PROVE LedgerInv'
    BY <1>2, CallKeeps DEF ThreadBegins, ThreadProceeds, ThreadErrs
<1>3. ASSUME NEW c \in Call, Arrives(c) \/ GateMoves(c) \/ GivesUp(c) \/ Answered(c) \/ ClientCancels(c)
      PROVE  LedgerInv'
    BY <1>1, <1>3 DEF Arrives, GateMoves, GivesUp, Answered, ClientCancels
<1>4. CASE ProcessDies
    BY <1>4, LedgerDies DEF ProcessDies
<1>5. CASE UNCHANGED vars
    BY <1>1, <1>5 DEF vars
<1>6. QED
    BY <1>2, <1>3, <1>4, <1>5 DEF Next

(* The rows cover what is held for the calls, whatever the gate does.       *)
THEOREM LedgerInvariant == Spec => []LedgerInv
<1>1. Init => LedgerInv
    BY LedgerInit_Inv DEF Init
<1>2. QED
    BY <1>1, LedgerNext, PTL DEF Spec

(* The types of both parts.                                                 *)
THEOREM PaidTyping == Spec => []TypeOK
<1>1. GateInv /\ LedgerInv => TypeOK
    BY DEF GateInv, LedgerInv, TypeOK
<1>2. QED
    BY <1>1, GateInvariant, LedgerInvariant, PTL

(* The bills of calls that insist on a reservation stay within the monthly  *)
(* budgets of provider and user, for any number of calls at once, failed    *)
(* calls of the table and deaths; every addition that the client library    *)
(* repeats costs one estimate at most (CostGuard.reserve, settle).          *)
THEOREM BudgetHolds == Spec => []WithinBudget
<1>1. LedgerInv => WithinBudget
    BY LedgerPromises
<1>2. QED
    BY <1>1, LedgerInvariant, PTL

(* If nothing failed, no reservation outlives its call: the rows hold       *)
(* exactly what was settled when no thread is at work (CostGuard).          *)
THEOREM NoReservationStays == Spec => []NoPhantom
<1>1. LedgerInv => NoPhantom
    BY LedgerPromises
<1>2. QED
    BY <1>1, LedgerInvariant, PTL
=============================================================================
