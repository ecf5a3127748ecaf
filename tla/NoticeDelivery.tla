--------------------------- MODULE NoticeDelivery ---------------------------
(***************************************************************************)
(* How the terminal notice of one long job reaches its requester           *)
(* (mcp_gateway/async_job_notify.py, Origin in skills/_shared/long_jobs.py)*)
(*                                                                         *)
(* Several publishers compete: the job's own thread, the thread that       *)
(* announces an interruption, and the watchers, one started with the       *)
(* request and others resumed from the outbox by any process of a rolling  *)
(* deployment.  Two locks keep them apart: the set of notices in the       *)
(* Origin object, shared by the job and the watcher of its request, and    *)
(* the durable lock row of the job table.                                  *)
(***************************************************************************)
EXTENDS Integers, FiniteSets

CONSTANTS Watcher,     \* watch sessions
          First,       \* the one started by the request itself
          Process,     \* gateway processes, of which
          Home,        \* took the request and
          Survivor,    \* outlives it
          MaxFaults,   \* bound: failed calls to the job table or to Slack
          None

ASSUME NoticeAssumption ==
    /\ First \in Watcher
    /\ Home \in Process /\ Survivor \in Process /\ Home # Survivor
    /\ MaxFaults \in Nat
    /\ None \notin Process

Publisher == Watcher \cup {"job", "interrupter"}

VARIABLES
    row,        \* status of the job's ledger row: "running", "done", "failed"
    lock,       \* the durable notice lock: "absent", "claimed", "free"
    entry,      \* the job's outbox entry: "unwritten", "fresh", "old", "removed"
    listed,     \* watchers whose write of the entry went well (outbox_key)
    alive,      \* processes that run
    host,       \* process of every watcher, or None
    pc,         \* where every publisher is
    claimed,    \* Origin objects that hold the terminal notice
    uploads,    \* Origin objects with deferred files
    cancelled,  \* Origin objects cancelled by a shutdown
    overdue,    \* _MAX_WATCH_SECONDS have passed since the request
    stopping,   \* Home was told to stop
    told,       \* calls that ended as posted or, after a timeout, as unknown:
                \* notices the requester has, or may have
    echoed,     \* a notice arrived whose call counts as failed
    cutShort,   \* history: a process died between a claim and its delivery
    faults      \* failed calls so far

ledgerVars == <<row, lock, entry>>
localVars  == <<claimed, uploads, cancelled, listed>>
timeVars == <<overdue, stopping>>
outcomeVars == <<told, echoed, cutShort>>
vars == <<ledgerVars, alive, host, pc, localVars, timeVars, outcomeVars, faults>>

Terminal == {"done", "failed"}

OriginOf(p) == IF p = "job" THEN First ELSE p

ProcessOf(p) == IF p \in Watcher THEN host[p] ELSE Home

Runs(p, at) == pc[p] = at /\ ProcessOf(p) \in alive

RunsIn(p, places) == pc[p] \in places /\ ProcessOf(p) \in alive

Go(p, to) == pc' = [pc EXCEPT ![p] = to]

Fault == faults < MaxFaults /\ faults' = faults + 1

Idle == {"unborn", "ended", "remove"}

(* The job is a thread of Home; otherwise a worker's.                       *)
Detached == pc["job"] # "unborn"

Init ==
    /\ row = "running"
    /\ lock = "absent"
    /\ \/ entry = "fresh" /\ listed = {First} /\ faults = 0
       \/ entry = "unwritten" /\ listed = {} /\ faults = 0
       \/ entry = "fresh" /\ listed = {} /\ faults \in {1} \cap (0..MaxFaults)  \* applied, but it raised
    /\ alive = {Home}
    /\ host = [w \in Watcher |-> IF w = First THEN Home ELSE None]
    /\ \E place \in {"run", "unborn"} :
         pc = [p \in Publisher |-> IF p = First THEN "watch" ELSE IF p = "job" THEN place ELSE "unborn"]
    /\ claimed = {} /\ cancelled = {}
    /\ uploads \in SUBSET {First}
    /\ overdue = FALSE /\ stopping = FALSE
    /\ told = 0 /\ echoed = FALSE /\ cutShort = FALSE

-----------------------------------------------------------------------------
(* The work itself.                                                         *)

(* run_persisted_job stores the outcome unless someone failed the row       *)
(* before, or the write raises; _complete_detached publishes next, but says *)
(* nothing for a job that was marked as interrupted.                        *)
JobSaves ==
    /\ Runs("job", "run") \/ Runs("job", "silent")
    /\ \/ /\ row' \in (IF row = "running" THEN Terminal ELSE {row})
          /\ UNCHANGED faults
       \/ Fault /\ UNCHANGED row
    /\ Go("job", IF pc["job"] = "run" THEN "begin" ELSE "ended")
    /\ UNCHANGED <<lock, entry, alive, host, localVars, timeVars, outcomeVars>>

(* A job that runs elsewhere ends by itself.                                *)
WorkerEnds ==
    /\ ~Detached /\ row = "running"
    /\ row' \in Terminal
    /\ UNCHANGED <<lock, entry, alive, host, pc, localVars, timeVars, outcomeVars, faults>>

(* mark_interrupted, by the stale sweep or by the shutdown.                 *)
JobInterrupted ==
    /\ Runs("job", "run")
    /\ pc' = [pc EXCEPT !["job"] = "silent", !["interrupter"] = "mark"]
    /\ UNCHANGED <<ledgerVars, alive, host, localVars, timeVars, outcomeVars, faults>>

(* _notify_interrupted_job: the row is failed, then the stop is announced   *)
(* through an Origin of its own; if the table raises nothing is announced.  *)
InterrupterMarks ==
    /\ Runs("interrupter", "mark")
    /\ \/ /\ row' = IF row = "running" THEN "failed" ELSE row
          /\ Go("interrupter", "begin") /\ UNCHANGED faults
       \/ Fault /\ Go("interrupter", "ended") /\ UNCHANGED row
    /\ UNCHANGED <<lock, entry, alive, host, localVars, timeVars, outcomeVars>>

-----------------------------------------------------------------------------
(* publish_notice.                                                          *)

ClaimNotice(p) ==
    /\ Runs(p, "begin")
    /\ IF OriginOf(p) \in claimed
       THEN Go(p, "check") /\ UNCHANGED claimed
       ELSE Go(p, "lock") /\ claimed' = claimed \cup {OriginOf(p)}
    /\ UNCHANGED <<ledgerVars, alive, host, uploads, cancelled, listed, timeVars, outcomeVars, faults>>

\* Mutant: the second write is unconditional.
LockOverwritten == TRUE

LockTakeable == lock \in {"absent", "free"}

(* Deferred files go first, if the Origin has any.                          *)
StartDelivery(p) == Go(p, IF OriginOf(p) \in uploads THEN "deliver" ELSE "post")

(* The two conditional writes: no lock yet, or a lock handed back.  A loser *)
(* keeps the notice of its Origin.                                          *)
\* Mutant: a loser gives the notice of its Origin back.
TakeLockReleases(p) ==
    /\ Runs(p, "lock")
    /\ IF LockTakeable THEN lock' = "claimed" /\ StartDelivery(p) /\ UNCHANGED claimed
                       ELSE UNCHANGED lock /\ Go(p, "check") /\ claimed' = claimed \ {OriginOf(p)}
    /\ UNCHANGED <<row, entry, alive, host, uploads, cancelled, listed, timeVars, outcomeVars, faults>>

TakeLock(p) ==
    /\ Runs(p, "lock")
    /\ IF LockTakeable THEN lock' = "claimed" /\ StartDelivery(p)
                       ELSE UNCHANGED lock /\ Go(p, "check")
    /\ UNCHANGED <<row, entry, alive, host, localVars, timeVars, outcomeVars, faults>>

(* The write raises, applied or not; only the Origin is released.           *)
TakeLockRaises(p) ==
    /\ Runs(p, "lock")
    /\ Fault
    /\ lock' \in {lock} \cup (IF LockTakeable THEN {"claimed"} ELSE {})
    /\ claimed' = claimed \ {OriginOf(p)}
    /\ Go(p, "check")
    /\ UNCHANGED <<row, entry, alive, host, uploads, cancelled, listed, timeVars, outcomeVars>>

Posting == {"post", "repost", "dm"}

(* Origin.deliver: the files of a finished job carry the notice (a pointer  *)
(* in the conversation, whose outcome is ignored, follows files that went   *)
(* to the DM); a timeout leaves it at that.  In every other case the text   *)
(* follows, whatever arrived: no file, a failed job's or only some of the   *)
(* files, an upload that failed, or a timeout of an upload elsewhere.       *)
DeliverUploads(p) ==
    /\ Runs(p, "deliver")
    /\ OriginOf(p) \in uploads
    /\ uploads' = uploads \ {OriginOf(p)}
    /\ \/ row = "done" /\ told' = told + 1 /\ Go(p, "check") /\ UNCHANGED echoed
       \/ echoed' \in {echoed, TRUE} /\ Go(p, "post") /\ UNCHANGED told
    /\ UNCHANGED <<ledgerVars, alive, host, claimed, cancelled, listed, timeVars, cutShort, faults>>

(* The shutdown dropped them in between.                                    *)
UploadsDropped(p) ==
    /\ Runs(p, "deliver")
    /\ OriginOf(p) \notin uploads
    /\ Go(p, "post")
    /\ UNCHANGED <<ledgerVars, alive, host, localVars, timeVars, outcomeVars, faults>>

(* post_to_origin_status: a post, a second one, then the requester's DM,    *)
(* until one is "posted" or, after a timeout, "uncertain"; after either     *)
(* nobody posts again.                                                      *)
\* Mutant: a timeout counts as a failure.
PostTextTimeoutFails(p) ==
    /\ RunsIn(p, Posting)
    /\ told' = told + 1
    /\ Go(p, "check") \/ Go(p, "free")
    /\ UNCHANGED <<ledgerVars, alive, host, localVars, timeVars, echoed, cutShort, faults>>

PostText(p) ==
    /\ RunsIn(p, Posting)
    /\ told' = told + 1
    /\ Go(p, "check")
    /\ UNCHANGED <<ledgerVars, alive, host, localVars, timeVars, echoed, cutShort, faults>>

(* Any other error, or an answer that is not ok: the next place is tried,   *)
(* although the message may have arrived.  A user without a known id has    *)
(* no DM; when everything failed the outcome is "failed".                   *)
NextPlaces(at) == CASE at = "post"   -> {"repost"}
                    [] at = "repost" -> {"dm", "free"}
                    [] at = "dm"     -> {"free"}

PostFails(p) ==
    /\ RunsIn(p, Posting)
    /\ IF pc[p] = "post" THEN Fault ELSE UNCHANGED faults
    /\ echoed' \in {echoed, TRUE}
    /\ \E to \in NextPlaces(pc[p]) : Go(p, to)
    /\ UNCHANGED <<ledgerVars, alive, host, localVars, timeVars, told, cutShort>>

(* The Slack client repeats a call whose connection broke, by itself.       *)
PostRepeated(p) ==
    /\ RunsIn(p, Posting)
    /\ Fault
    /\ echoed' = TRUE
    /\ UNCHANGED <<ledgerVars, alive, host, pc, localVars, timeVars, told, cutShort>>

(* A definite failure hands the lock back, then the notice of the Origin.   *)
FreeLock(p) ==
    /\ Runs(p, "free")
    /\ lock' = "free"
    /\ Go(p, "release")
    /\ UNCHANGED <<row, entry, alive, host, localVars, timeVars, outcomeVars, faults>>

(* This call fails as well as the post did; it needs no fault of its own.   *)
FreeLockRaises(p) ==
    /\ Runs(p, "free")
    /\ lock' \in {lock, "free"}
    /\ Go(p, "check")
    /\ UNCHANGED <<row, entry, alive, host, localVars, timeVars, outcomeVars, faults>>

ReleaseNotice(p) ==
    /\ Runs(p, "release")
    /\ claimed' = claimed \ {OriginOf(p)}
    /\ Go(p, "check")
    /\ UNCHANGED <<ledgerVars, alive, host, uploads, cancelled, listed, timeVars, outcomeVars, faults>>

-----------------------------------------------------------------------------
(* The watcher (_run_completion_notice and the thread around it).           *)

(* One round: touch the outbox entry (which may fail) and poll.  A row      *)
(* whose heartbeat has stopped is failed by the poll (fail_stale).  At the  *)
(* deadline a last notice says that the watch is given up.                  *)
HeartbeatStopped == Detached /\ (Home \notin alive \/ pc["job"] \notin {"run", "silent"})

\* Mutant: the entry is dropped as soon as the job is seen to have ended.
WatcherPollsForgets(w) ==
    /\ Runs(w, "watch")
    /\ w \notin cancelled
    /\ entry' = IF row \in Terminal /\ w \in listed THEN "removed" ELSE entry
    /\ row' = IF row = "running" /\ HeartbeatStopped THEN "failed" ELSE row
    /\ IF row' \in Terminal \/ overdue THEN Go(w, "begin") ELSE UNCHANGED pc
    /\ UNCHANGED <<lock, alive, host, localVars, timeVars, outcomeVars, faults>>

WatcherPolls(w) ==
    /\ Runs(w, "watch")
    /\ w \notin cancelled
    /\ entry' \in {entry, IF w \in listed /\ entry = "old" THEN "fresh" ELSE entry}
    /\ row' = IF row = "running" /\ HeartbeatStopped THEN "failed" ELSE row
    /\ IF row' \in Terminal \/ overdue THEN Go(w, "begin") ELSE UNCHANGED pc
    /\ UNCHANGED <<lock, alive, host, localVars, timeVars, outcomeVars, faults>>

WatcherCancelled(w) ==
    /\ Runs(w, "watch")
    /\ w \in cancelled
    /\ Go(w, "ended")
    /\ UNCHANGED <<ledgerVars, alive, host, localVars, timeVars, outcomeVars, faults>>

(* origin.has_notice("terminal") decides whether the watch is over.         *)
HasNotice(w) == w \in claimed

PublishReturns(p) ==
    /\ Runs(p, "check")
    /\ IF p \notin Watcher THEN Go(p, "ended")
       ELSE IF HasNotice(p) THEN Go(p, "remove")
       ELSE IF overdue THEN Go(p, "ended") ELSE Go(p, "watch")
    /\ UNCHANGED <<ledgerVars, alive, host, localVars, timeVars, outcomeVars, faults>>

RemoveEntry(w) ==
    /\ Runs(w, "remove")
    /\ entry' = IF w \in listed \ cancelled THEN "removed" ELSE entry
    /\ Go(w, "ended")
    /\ UNCHANGED <<row, lock, alive, host, localVars, timeVars, outcomeVars, faults>>

RemoveEntryRaises(w) ==
    /\ Runs(w, "remove")
    /\ w \in listed \ cancelled
    /\ Fault
    /\ Go(w, "ended")
    /\ UNCHANGED <<ledgerVars, alive, host, localVars, timeVars, outcomeVars>>

-----------------------------------------------------------------------------
(* Recovery, shutdown and time.                                             *)

(* recover_pending_notices: an entry nobody touched for 180 seconds is      *)
(* taken over unless this process watches it already.  Every session has an *)
(* Origin of its own; an ended or dead session's name is used again.        *)
Unused(w) == w # First /\ (pc[w] \in {"unborn", "ended"} \/ host[w] \notin alive)

Recover(p, w) ==
    /\ p \in alive
    /\ entry = "old"
    /\ \A v \in Watcher : host[v] = p => pc[v] \in Idle
    /\ Unused(w)
    /\ host' = [host EXCEPT ![w] = p]
    /\ Go(w, "enlist")
    /\ claimed' = claimed \ {w} /\ cancelled' = cancelled \ {w} /\ listed' = listed \ {w}
    /\ UNCHANGED <<ledgerVars, alive, uploads, timeVars, outcomeVars, faults>>

(* schedule_completion_notice writes the entry anew, even one that another  *)
(* watcher has removed since, and starts the thread.                        *)
Enlist(w) ==
    /\ Runs(w, "enlist")
    /\ entry' = "fresh" /\ listed' = listed \cup {w}
    /\ Go(w, "watch")
    /\ UNCHANGED <<row, lock, alive, host, claimed, uploads, cancelled, timeVars, outcomeVars, faults>>

(* The write raises, applied or not, and the watch goes on without it; or   *)
(* the thread does not start.                                               *)
EnlistRaises(w) ==
    /\ Runs(w, "enlist")
    /\ Fault
    /\ \/ entry' \in {entry, "fresh"} /\ Go(w, "watch")
       \/ entry' = "fresh" /\ Go(w, "ended")
    /\ UNCHANGED <<row, lock, alive, host, localVars, timeVars, outcomeVars>>

(* Touches may fail and a delivery may take minutes, so an entry can age    *)
(* under a live watcher.                                                    *)
EntryAges ==
    /\ entry = "fresh"
    /\ entry' = "old"
    /\ UNCHANGED <<row, lock, alive, host, pc, localVars, timeVars, outcomeVars, faults>>

DeadlinePasses ==
    /\ ~overdue
    /\ overdue' = TRUE
    /\ UNCHANGED <<ledgerVars, alive, host, pc, localVars, stopping, outcomeVars, faults>>

(* notify_interrupted: the watchers of jobs that run elsewhere are stopped  *)
(* and their files dropped, the entry stays.                                *)
ShutdownCancels ==
    /\ ~Detached /\ Home \in alive
    /\ LET stopped == {w \in Watcher : host[w] = Home /\ pc[w] \notin Idle}
       IN  /\ stopped \ cancelled # {}
           /\ cancelled' = cancelled \cup stopped
           /\ uploads' = uploads \ stopped
    /\ stopping' = TRUE
    /\ UNCHANGED <<ledgerVars, alive, host, pc, claimed, listed, overdue, outcomeVars, faults>>

ProcessStarts(p) ==
    /\ p \in Process \ (alive \cup {Home})
    /\ alive' = alive \cup {p}
    /\ UNCHANGED <<ledgerVars, host, pc, localVars, timeVars, outcomeVars, faults>>

HomeDies ==
    /\ Home \in alive
    /\ alive' = alive \ {Home}
    /\ cutShort' = \E p \in Publisher : RunsIn(p, {"lock", "deliver"} \cup Posting)
    /\ UNCHANGED <<ledgerVars, host, pc, localVars, timeVars, told, echoed, faults>>

Publish(p) ==
    \/ ClaimNotice(p) \/ TakeLock(p) \/ DeliverUploads(p) \/ UploadsDropped(p) \/ PostText(p)
    \/ FreeLock(p) \/ ReleaseNotice(p) \/ PublishReturns(p)

Raises(p) == TakeLockRaises(p) \/ PostFails(p) \/ PostRepeated(p) \/ FreeLockRaises(p)

Watch(w) == WatcherPolls(w) \/ WatcherCancelled(w) \/ RemoveEntry(w) \/ Enlist(w)

Next ==
    \/ JobSaves \/ WorkerEnds \/ JobInterrupted \/ InterrupterMarks
    \/ \E p \in Publisher : Publish(p) \/ Raises(p)
    \/ \E w \in Watcher : Watch(w) \/ RemoveEntryRaises(w) \/ EnlistRaises(w)
    \/ \E p \in Process, w \in Watcher : Recover(p, w)
    \/ EntryAges \/ DeadlinePasses \/ ShutdownCancels
    \/ \E p \in Process : ProcessStarts(p)
    \/ HomeDies

Spec == Init /\ [][Next]_vars

(* The threads of a live process run, the recovery loop comes round every   *)
(* 30 seconds, entries age, the service is restarted, and a process that is *)
(* told to stop is gone after the grace period.  Nothing forces a job to    *)
(* end, a call to fail or a process to stop.                                *)
ThreadRuns(p) ==
    \/ Publish(p)
    \/ p \in Watcher /\ Watch(p)
    \/ p = "interrupter" /\ InterrupterMarks

Fairness ==
    /\ \A p \in Publisher : WF_vars(ThreadRuns(p))
    /\ WF_vars(\E p \in Process, w \in Watcher : Recover(p, w))
    /\ WF_vars(EntryAges)
    /\ WF_vars(ProcessStarts(Survivor)) /\ WF_vars(stopping /\ HomeDies)

FairSpec == Spec /\ Fairness

-----------------------------------------------------------------------------
TypeOK ==
    /\ row \in {"running"} \cup Terminal
    /\ lock \in {"absent", "claimed", "free"}
    /\ entry \in {"unwritten", "fresh", "old", "removed"}
    /\ alive \subseteq Process
    /\ host \in [Watcher -> Process \cup {None}]
    /\ pc \in [Publisher -> Idle \cup Posting \cup {"run", "silent", "mark", "enlist", "watch", "begin",
                                                   "lock", "deliver", "free", "release", "check"}]
    /\ claimed \subseteq Publisher
    /\ uploads \subseteq Watcher /\ cancelled \subseteq Watcher /\ listed \subseteq Watcher
    /\ overdue \in BOOLEAN /\ stopping \in BOOLEAN
    /\ echoed \in BOOLEAN /\ cutShort \in BOOLEAN
    /\ told \in Nat /\ faults \in 0..MaxFaults

(* Whoever publishes, from whichever process, across failed writes,         *)
(* timeouts and restarts: no call follows one that was posted or whose      *)
(* outcome is unknown, so the requester has one notice at most from such    *)
(* calls.  Only a notice whose call failed although it arrived (echoed) is  *)
(* followed by another.                                                     *)
AtMostOneNotice == told <= 1

(* Why: one publisher at a time is at the delivery, under the durable lock, *)
(* and nobody is there, and the lock is never handed back, once a call was  *)
(* taken for done or had no known outcome.                                  *)
Delivering == {p \in Publisher : pc[p] \in {"deliver", "free"} \cup Posting}

DeliveryIsLocked ==
    /\ \A p, q \in Delivering : p = q
    /\ Delivering # {} => lock = "claimed"

ToldIsLocked == told > 0 => Delivering = {} /\ lock = "claimed"

NoticeInv == DeliveryIsLocked /\ ToldIsLocked /\ AtMostOneNotice

(* Once the requester is told, the outbox entry does not stay for ever: the *)
(* outbox is one row of bounded size, and the process that told may be gone.*)
ToldIsForgotten == (told > 0 \/ echoed) ~> (entry \in {"unwritten", "removed"})

(* A job that ended is announced, by the job, its watcher or a process that *)
(* recovers the entry after the first one died, unless a call failed or a   *)
(* process died between its claim and the end of its delivery: then the     *)
(* locks prefer silence to a second notice.                                 *)
EndIsAnnounced ==
    (row \in Terminal /\ entry # "unwritten")
        ~> (told > 0 \/ faults > 0 \/ cutShort)

(* "A definite failure, an exception or a stop for an update leaves what is *)
(* undelivered to be resumed": no delivery fails after the entry was        *)
(* removed.                                                                 *)
FailureIsResumed ==
    [][\A p \in Publisher : pc[p] # "free" /\ pc'[p] = "free" => entry # "removed"]_vars
=============================================================================
