------------------------ MODULE NoticeDeliveryProofs ------------------------
(***************************************************************************)
(* Proofs about NoticeDelivery, for any number of watchers, processes and  *)
(* failed calls: one delivery at a time, under the lock, and one notice at *)
(* most from calls that were posted or whose outcome is unknown.           *)
(***************************************************************************)
EXTENDS NoticeDelivery, TLAPS

USE NoticeAssumption DEF NoticeAssumption

(* The initial state and every step keep the types.                         *)
LEMMA TypeInit == Init => TypeOK
<1> SUFFICES ASSUME Init PROVE TypeOK
  OBVIOUS
<1>1. pc \in [Publisher -> {"watch", "run", "unborn"}]
  BY DEF Init
<1>2. host \in [Watcher -> Process \cup {None}]
  BY DEF Init
<1>3. uploads \subseteq Watcher
  BY DEF Init
<1>4. overdue \in BOOLEAN /\ stopping \in BOOLEAN /\ echoed \in BOOLEAN /\ cutShort \in BOOLEAN
  BY Zenon DEF Init
<1>5. entry \in {"unwritten", "fresh"} /\ listed \subseteq Watcher /\ faults \in 0..MaxFaults
  BY DEF Init
<1> QED
  BY <1>1, <1>2, <1>3, <1>4, <1>5 DEF Init, TypeOK, Idle

(* Every step keeps the types.                                              *)
LEMMA TypeStep == TypeOK /\ [Next]_vars => TypeOK'
<1> USE DEF Go, Runs, RunsIn, Posting, Fault, Terminal, Idle, OriginOf, ledgerVars, localVars, timeVars, outcomeVars
<1> SUFFICES ASSUME TypeOK, [Next]_vars PROVE TypeOK'
  OBVIOUS
<1> First \in Publisher /\ "job" \in Publisher /\ "interrupter" \in Publisher
  BY DEF Publisher
<1> Watcher \subseteq Publisher
  BY DEF Publisher
<1>1. CASE JobSaves
  BY <1>1 DEF JobSaves, TypeOK
<1>2. CASE WorkerEnds
  BY <1>2 DEF WorkerEnds, TypeOK
<1>3. CASE JobInterrupted
  BY <1>3 DEF JobInterrupted, TypeOK
<1>4. CASE InterrupterMarks
  BY <1>4 DEF InterrupterMarks, TypeOK
<1>5. ASSUME NEW p \in Publisher, Publish(p) PROVE TypeOK'
  <2>1. CASE ClaimNotice(p)
    BY <2>1 DEF ClaimNotice, TypeOK
  <2>2. CASE TakeLock(p)
    BY <2>2 DEF TakeLock, StartDelivery, TypeOK
  <2>3. CASE DeliverUploads(p)
    <3>1. told' \in Nat
      <4>1. told' = told + 1 \/ told' = told
        BY <2>3, Zenon DEF DeliverUploads
      <4> QED
        BY <4>1 DEF TypeOK
    <3>2. echoed' \in BOOLEAN
      BY <2>3, Zenon DEF DeliverUploads, TypeOK
    <3>3. pc' = [pc EXCEPT ![p] = "check"] \/ pc' = [pc EXCEPT ![p] = "post"]
      BY <2>3 DEF DeliverUploads
    <3> QED
      BY <2>3, <3>1, <3>2, <3>3 DEF DeliverUploads, TypeOK
  <2>8. CASE UploadsDropped(p)
    BY <2>8 DEF UploadsDropped, TypeOK
  <2>4. CASE PostText(p)
    BY <2>4 DEF PostText, TypeOK
  <2>5. CASE FreeLock(p)
    BY <2>5 DEF FreeLock, TypeOK
  <2>6. CASE ReleaseNotice(p)
    BY <2>6 DEF ReleaseNotice, TypeOK
  <2>7. CASE PublishReturns(p)
    BY <2>7 DEF PublishReturns, TypeOK
  <2> QED
    BY <1>5, <2>1, <2>2, <2>3, <2>4, <2>5, <2>6, <2>7, <2>8 DEF Publish
<1>6. ASSUME NEW p \in Publisher, Raises(p) PROVE TypeOK'
  <2>1. CASE TakeLockRaises(p)
    BY <2>1 DEF TakeLockRaises, TypeOK
  <2>2. CASE PostFails(p)
    <3>1. echoed' \in BOOLEAN
      BY <2>2, Zenon DEF PostFails, TypeOK
    <3>2. PICK to \in NextPlaces(pc[p]) : pc' = [pc EXCEPT ![p] = to]
      BY <2>2 DEF PostFails
    <3>3. to \in Posting \cup {"free"}
      BY <2>2, <3>2 DEF PostFails, NextPlaces
    <3> QED
      BY <2>2, <3>1, <3>2, <3>3 DEF PostFails, TypeOK
  <2>4. CASE PostRepeated(p)
    BY <2>4 DEF PostRepeated, TypeOK
  <2>3. CASE FreeLockRaises(p)
    BY <2>3 DEF FreeLockRaises, TypeOK
  <2> QED
    BY <1>6, <2>1, <2>2, <2>3, <2>4 DEF Raises
<1>7. ASSUME NEW w \in Watcher, Watch(w) PROVE TypeOK'
  <2>1. CASE WatcherPolls(w)
    BY <2>1 DEF WatcherPolls, TypeOK
  <2>2. CASE WatcherCancelled(w)
    BY <2>2 DEF WatcherCancelled, TypeOK
  <2>3. CASE RemoveEntry(w)
    BY <2>3 DEF RemoveEntry, TypeOK
  <2>4. CASE Enlist(w)
    BY <2>4 DEF Enlist, TypeOK
  <2> QED
    BY <1>7, <2>1, <2>2, <2>3, <2>4 DEF Watch
<1>8. ASSUME NEW w \in Watcher, RemoveEntryRaises(w) PROVE TypeOK'
  BY <1>8 DEF RemoveEntryRaises, TypeOK
<1>16. ASSUME NEW w \in Watcher, EnlistRaises(w) PROVE TypeOK'
  BY <1>16 DEF EnlistRaises, TypeOK
<1>9. ASSUME NEW q \in Process, NEW w \in Watcher, Recover(q, w) PROVE TypeOK'
  BY <1>9 DEF Recover, TypeOK
<1>10. CASE EntryAges
  BY <1>10 DEF EntryAges, TypeOK
<1>11. CASE DeadlinePasses
  BY <1>11 DEF DeadlinePasses, TypeOK
<1>12. CASE ShutdownCancels
  BY <1>12 DEF ShutdownCancels, TypeOK
<1>13. ASSUME NEW q \in Process, ProcessStarts(q) PROVE TypeOK'
  BY <1>13 DEF ProcessStarts, TypeOK
<1>14. CASE HomeDies
  BY <1>14 DEF HomeDies, TypeOK
<1>15. CASE UNCHANGED vars
  BY <1>15 DEF vars, TypeOK
<1> QED
  BY <1>1, <1>2, <1>3, <1>4, <1>5, <1>6, <1>7, <1>8, <1>9, <1>10, <1>11, <1>12, <1>13,
     <1>14, <1>15, <1>16 DEF Next

(* Every variable keeps its type.                                           *)
THEOREM Typing == Spec => []TypeOK
BY TypeInit, TypeStep, PTL DEF Spec

-----------------------------------------------------------------------------
(* A step that puts nobody at the delivery, touches neither the lock nor    *)
(* what the requester knows, keeps the invariant.                           *)
LEMMA Elsewhere ==
    ASSUME NoticeInv, Delivering' \subseteq Delivering, UNCHANGED <<lock, told>>
    PROVE  NoticeInv'
BY DEF NoticeInv, DeliveryIsLocked, ToldIsLocked, AtMostOneNotice

(* At first nobody delivers.                                                *)
LEMMA NoticeInit == Init => NoticeInv
BY DEF Init, NoticeInv, DeliveryIsLocked, ToldIsLocked, AtMostOneNotice, Delivering, Posting, Publisher

(* Every step keeps the delivery alone and under the durable lock.          *)
LEMMA NoticeStep == TypeOK /\ NoticeInv /\ [Next]_vars => NoticeInv'
<1> USE DEF Go, Runs, RunsIn, Posting, ledgerVars, localVars, timeVars, outcomeVars
<1> SUFFICES ASSUME TypeOK, NoticeInv, [Next]_vars PROVE NoticeInv'
  OBVIOUS
<1> pc \in [Publisher -> Idle \cup Posting \cup {"run", "silent", "mark", "enlist", "watch", "begin",
                                                "lock", "deliver", "free", "release", "check"}]
  BY DEF TypeOK
<1> Watcher \subseteq Publisher
  BY DEF Publisher
<1>1. CASE JobSaves
  BY <1>1, Elsewhere DEF JobSaves, Delivering
<1>2. CASE WorkerEnds
  BY <1>2, Elsewhere DEF WorkerEnds, Delivering
<1>3. CASE JobInterrupted
  BY <1>3, Elsewhere DEF JobInterrupted, Delivering
<1>4. CASE InterrupterMarks
  BY <1>4, Elsewhere DEF InterrupterMarks, Delivering
<1>5. ASSUME NEW p \in Publisher, Publish(p) PROVE NoticeInv'
  <2>1. CASE ClaimNotice(p)
    BY <2>1, Elsewhere DEF ClaimNotice, Delivering
  <2>2. CASE TakeLock(p)
    <3>1. CASE LockTakeable
      <4>1. Delivering = {} /\ ~(told > 0)
        BY <3>1 DEF LockTakeable, NoticeInv, DeliveryIsLocked, ToldIsLocked
      <4>2. Delivering' = {p} /\ lock' = "claimed" /\ UNCHANGED told
        BY <2>2, <3>1, <4>1 DEF TakeLock, StartDelivery, Delivering
      <4> QED
        BY <4>1, <4>2 DEF NoticeInv, DeliveryIsLocked, ToldIsLocked, AtMostOneNotice
    <3>2. CASE ~LockTakeable
      BY <2>2, <3>2, Elsewhere DEF TakeLock, Delivering
    <3> QED
      BY <3>1, <3>2
  <2>3. CASE DeliverUploads(p) \/ UploadsDropped(p) \/ PostText(p)
    <3>1. p \in Delivering /\ UNCHANGED lock
      BY <2>3 DEF DeliverUploads, UploadsDropped, PostText, Delivering
    <3>2. Delivering = {p} /\ lock = "claimed" /\ told = 0
      BY <3>1 DEF NoticeInv, DeliveryIsLocked, ToldIsLocked, TypeOK
    <3>3. CASE Go(p, "post") /\ UNCHANGED told
      BY <3>1, <3>3, Elsewhere DEF Delivering
    <3>4. CASE Go(p, "check") /\ told' = told + 1
      <4>1. Delivering' = {}
        BY <3>2, <3>4 DEF Delivering
      <4> QED
        BY <3>1, <3>2, <3>4, <4>1
        DEF NoticeInv, DeliveryIsLocked, ToldIsLocked, AtMostOneNotice
    <3> QED
      BY <2>3, <3>3, <3>4 DEF DeliverUploads, UploadsDropped, PostText
  <2>4. CASE FreeLock(p)
    <3>1. p \in Delivering
      BY <2>4 DEF FreeLock, Delivering
    <3>2. Delivering = {p} /\ ~(told > 0)
      BY <3>1 DEF NoticeInv, DeliveryIsLocked, ToldIsLocked
    <3>3. Delivering' = {} /\ UNCHANGED told
      BY <2>4, <3>2 DEF FreeLock, Delivering
    <3> QED
      BY <3>2, <3>3 DEF NoticeInv, DeliveryIsLocked, ToldIsLocked, AtMostOneNotice
  <2>5. CASE ReleaseNotice(p)
    BY <2>5, Elsewhere DEF ReleaseNotice, Delivering
  <2>6. CASE PublishReturns(p)
    BY <2>6, Elsewhere DEF PublishReturns, Delivering
  <2> QED
    BY <1>5, <2>1, <2>2, <2>3, <2>4, <2>5, <2>6 DEF Publish
<1>6. ASSUME NEW p \in Publisher, Raises(p) PROVE NoticeInv'
  <2>1. CASE TakeLockRaises(p)
    <3>1. Delivering' \subseteq Delivering /\ UNCHANGED told
      BY <2>1 DEF TakeLockRaises, Delivering
    <3>2. lock' = lock \/ lock' = "claimed"
      BY <2>1 DEF TakeLockRaises
    <3> QED
      BY <3>1, <3>2 DEF NoticeInv, DeliveryIsLocked, ToldIsLocked, AtMostOneNotice
  <2>2. CASE PostFails(p)
    <3>1. PICK to \in NextPlaces(pc[p]) : Go(p, to)
      BY <2>2 DEF PostFails
    <3>2. p \in Delivering /\ to \in Posting \cup {"free"}
      BY <2>2, <3>1 DEF PostFails, NextPlaces, Delivering
    <3>3. Delivering' \subseteq Delivering
      BY <3>1, <3>2 DEF Delivering
    <3> QED
      BY <2>2, <3>3, Elsewhere DEF PostFails
  <2>4. CASE PostRepeated(p)
    BY <2>4, Elsewhere DEF PostRepeated, Delivering
  <2>3. CASE FreeLockRaises(p)
    <3>1. p \in Delivering
      BY <2>3 DEF FreeLockRaises, Delivering
    <3>2. Delivering = {p} /\ ~(told > 0)
      BY <3>1 DEF NoticeInv, DeliveryIsLocked, ToldIsLocked
    <3>3. Delivering' = {} /\ UNCHANGED told
      BY <2>3, <3>2 DEF FreeLockRaises, Delivering
    <3> QED
      BY <3>2, <3>3 DEF NoticeInv, DeliveryIsLocked, ToldIsLocked, AtMostOneNotice
  <2> QED
    BY <1>6, <2>1, <2>2, <2>3, <2>4 DEF Raises
<1>7. ASSUME NEW w \in Watcher, Watch(w) PROVE NoticeInv'
  <2>1. CASE WatcherPolls(w)
    BY <2>1, Elsewhere DEF WatcherPolls, Delivering
  <2>2. CASE WatcherCancelled(w)
    BY <2>2, Elsewhere DEF WatcherCancelled, Delivering
  <2>3. CASE RemoveEntry(w)
    BY <2>3, Elsewhere DEF RemoveEntry, Delivering
  <2>4. CASE Enlist(w)
    BY <2>4, Elsewhere DEF Enlist, Delivering
  <2> QED
    BY <1>7, <2>1, <2>2, <2>3, <2>4 DEF Watch
<1>8. ASSUME NEW w \in Watcher, RemoveEntryRaises(w) PROVE NoticeInv'
  BY <1>8, Elsewhere DEF RemoveEntryRaises, Delivering
<1>16. ASSUME NEW w \in Watcher, EnlistRaises(w) PROVE NoticeInv'
  BY <1>16, Elsewhere DEF EnlistRaises, Delivering
<1>9. ASSUME NEW q \in Process, NEW w \in Watcher, Recover(q, w) PROVE NoticeInv'
  BY <1>9, Elsewhere DEF Recover, Delivering
<1>10. CASE EntryAges
  BY <1>10, Elsewhere DEF EntryAges, Delivering
<1>11. CASE DeadlinePasses
  BY <1>11, Elsewhere DEF DeadlinePasses, Delivering
<1>12. CASE ShutdownCancels
  BY <1>12, Elsewhere DEF ShutdownCancels, Delivering
<1>13. ASSUME NEW q \in Process, ProcessStarts(q) PROVE NoticeInv'
  BY <1>13, Elsewhere DEF ProcessStarts, Delivering
<1>14. CASE HomeDies
  BY <1>14, Elsewhere DEF HomeDies, Delivering
<1>15. CASE UNCHANGED vars
  BY <1>15, Elsewhere DEF vars, Delivering
<1> QED
  BY <1>1, <1>2, <1>3, <1>4, <1>5, <1>6, <1>7, <1>8, <1>9, <1>10, <1>11, <1>12, <1>13,
     <1>14, <1>15, <1>16 DEF Next

(* One publisher delivers at a time, under the lock, and nobody delivers,   *)
(* nor is the lock handed back, once a call was posted or has no known      *)
(* outcome, whatever failed calls did arrive before.                        *)
THEOREM NoticeInvariant == Spec => []NoticeInv
BY TypeInit, TypeStep, NoticeInit, NoticeStep, PTL DEF Spec

(* One call at most is posted, or may have been.                            *)
THEOREM NoticeOnce == Spec => []AtMostOneNotice
<1>1. NoticeInv => AtMostOneNotice
  BY DEF NoticeInv
<1> QED
  BY <1>1, NoticeInvariant, PTL
=============================================================================
