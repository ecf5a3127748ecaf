---------------------------- MODULE DetachedJobs ----------------------------
(***************************************************************************)
(* The in-process registry of long-running tool calls of the MCP gateway   *)
(* (mcp_gateway/detached_jobs.py), the thread of each job, the gateway     *)
(* coroutine waiting for it (server.py call_tool, _wait_or_detach), the    *)
(* automatic second stage (surface_video_followup.py), the stale sweep and *)
(* the SIGTERM path.                                                       *)
(*                                                                         *)
(* Two kinds of lock exist, one per job and one for the registry; an       *)
(* action is one critical section (or one section of the event loop        *)
(* between two awaits).  A notice is recorded when a thread hands it to    *)
(* the posting layer; module NoticeDelivery follows it from there.          *)
(***************************************************************************)
EXTENDS Integers, Sequences, FiniteSets, SequencesExt

CONSTANTS Request,          \* request ids, one job each at most
          Key,              \* verified slack user + normalised query
          KeyOf,            \* the in-flight key of every request
          AutoRequest,             \* the requests of the automatic second stage
          MaxBackground,    \* policy.max_background
          MaxQueued,        \* policy.max_queued
          MaxShutdownCalls, \* bound: calls of notify_interrupted
          NoJob

ASSUME RequestAssumption ==
    /\ IsFiniteSet(Request)
    /\ KeyOf \in [Request -> Key]
    /\ AutoRequest \subseteq Request
    /\ NoJob \notin Request

\* decide() refuses to detach when max_background <= 0.
ASSUME LimitAssumption ==
    /\ MaxBackground \in Nat \ {0}
    /\ MaxQueued \in Nat
    /\ MaxShutdownCalls \in Nat

VARIABLES
    \* --- registry, under DetachedJobRegistry._lock
    jobs,        \* _jobs: key -> request or NoJob
    waiting,     \* _waiting, a deque
    running,     \* keys of _running
    closing,     \* _closing
    \* --- jobs, under DetachedJob._lock
    done, detached, interrupted, handled, wakers,
    refused,     \* _error is DetachInterruptedError; otherwise _result or
                 \* _error is what skill.run returned or raised
    \* --- threads and callers
    thread,      \* where the job's own thread is
    deliverer,   \* where the thread of deliver_in_background is
    saw,         \* the value of interrupted read by _finish_detached
    caller,      \* where the coroutine (or worker thread) of the request is
    woken,       \* waiter futures that are set
    reply,       \* what the caller was answered
    \* --- notices
    sweepers,    \* threads _notify_interrupted_job(timeout=True), not yet marked
    reporters,   \* <<request, kind>> of threads about to post an interruption
    notices,     \* notices handed to the posting layer, per request
    \* --- time and shutdown
    old,         \* running jobs that began more than STALE_AFTER_S ago
    toMark,      \* interrupt_all: snapshot still to be marked
    marked,      \* interrupt_all: jobs marked by this call
    shutdowns    \* number of calls of notify_interrupted

registryVars == <<jobs, waiting, running, closing>>
flagVars     == <<done, detached, interrupted, handled, wakers, refused>>
noticeVars   == <<sweepers, reporters, notices>>
shutdownVars == <<toMark, marked, shutdowns>>
vars == <<registryVars, flagVars, thread, deliverer, saw, caller, woken, reply,
          noticeVars, old, shutdownVars>>

ThreadState == {"unborn", "born", "slot", "refused", "target", "finish",
                "notify", "wake", "release", "ended"}
CallerState == {"idle", "prechecked", "starting", "detaching", "started", "wait",
                "answered", "gone"}
Reply == {"none", "receipt", "outcome", "interrupted", "inProgress", "busy", "dropped"}
Notice == {"outcome", "interrupted", "timeout"}

Explicit == Request \ AutoRequest

Init ==
    /\ jobs = [k \in Key |-> NoJob]
    /\ waiting = <<>>
    /\ running = {}
    /\ closing = FALSE
    /\ done = {} /\ detached = {} /\ interrupted = {} /\ handled = {} /\ wakers = {}
    /\ refused = {}
    /\ thread = [r \in Request |-> "unborn"]
    /\ deliverer = [r \in Request |-> "none"]
    /\ saw = {}
    /\ caller = [r \in Request |-> "idle"]
    /\ woken = {}
    /\ reply = [r \in Request |-> "none"]
    /\ sweepers = {} /\ reporters = {}
    /\ notices = [r \in Request |-> <<>>]
    /\ old = {}
    /\ toMark = {} /\ marked = {} /\ shutdowns = 0

-----------------------------------------------------------------------------
(* The registry's stale sweep: jobs running for longer than STALE_AFTER_S   *)
(* lose their slot and their key, and a thread is spawned to say so.        *)

StaleJobs == running \cap old

\* Mutant: the key of any job at work is freed, whatever its age.
SweptJobsOfAnyAge == [k \in Key |-> IF jobs[k] \in running THEN NoJob ELSE jobs[k]]

SweptJobs == [k \in Key |-> IF jobs[k] \in StaleJobs THEN NoJob ELSE jobs[k]]

Registered(js) == {k \in Key : js[k] # NoJob}

SweepSlots ==
    /\ running' = running \ StaleJobs
    /\ old' = old \ StaleJobs
    /\ sweepers' = sweepers \cup StaleJobs

-----------------------------------------------------------------------------
(* The caller.                                                              *)

Answer(r, what) ==
    /\ caller' = [caller EXCEPT ![r] = "answered"]
    /\ reply' = [reply EXCEPT ![r] = what]

(* call_tool looks the key up first: a live job of the same key answers the *)
(* call unless the registry is closing.  The second stage has no precheck.  *)
PrecheckAnswers(r) == r \in Explicit /\ SweptJobs[KeyOf[r]] # NoJob /\ ~closing

Precheck(r) ==
    /\ caller[r] = "idle"
    /\ IF r \in Explicit
       THEN SweepSlots /\ jobs' = SweptJobs
       ELSE UNCHANGED <<running, old, sweepers, jobs>>
    /\ IF PrecheckAnswers(r)
       THEN Answer(r, "inProgress")
       ELSE caller' = [caller EXCEPT ![r] = "prechecked"] /\ UNCHANGED reply
    /\ UNCHANGED <<waiting, closing, flagVars, thread, deliverer, saw, woken,
                   reporters, notices, shutdownVars>>

(* _enqueue_locked: before the first waiting job of lower priority.         *)
Priority(r) == IF r \in AutoRequest THEN 0 ELSE 1

EnqueuePlace(r) ==
    LET lower == {i \in DOMAIN waiting : Priority(waiting[i]) < Priority(r)}
    IN  IF lower = {} THEN Len(waiting) + 1 ELSE Min(lower)

\* Mutant: first come, first served whatever the priority.
EnqueuedLast(r) == Append(waiting, r)

Enqueued(r) == InsertAt(waiting, EnqueuePlace(r), r)

(* DetachedJobRegistry.start, the section under the registry lock.  The two *)
(* callers word the answers differently: the second stage stays silent when *)
(* the registry is closing, call_tool answers with the interrupted text.    *)
StartRefused(r) ==
    /\ caller[r] = "prechecked"
    /\ closing
    /\ Answer(r, IF r \in AutoRequest THEN "dropped" ELSE "interrupted")
    /\ UNCHANGED <<registryVars, flagVars, thread, deliverer, saw, woken,
                   noticeVars, old, shutdownVars>>

StartDuplicate(r) ==
    /\ caller[r] = "prechecked"
    /\ ~closing
    /\ SweptJobs[KeyOf[r]] # NoJob
    /\ SweepSlots /\ jobs' = SweptJobs
    /\ Answer(r, "inProgress")
    /\ UNCHANGED <<waiting, closing, flagVars, thread, deliverer, saw, woken,
                   reporters, notices, shutdownVars>>

RegistryFull == Cardinality(Registered(SweptJobs)) >= MaxBackground + MaxQueued

StartBusy(r) ==
    /\ caller[r] = "prechecked"
    /\ ~closing
    /\ SweptJobs[KeyOf[r]] = NoJob
    /\ RegistryFull
    /\ SweepSlots /\ jobs' = SweptJobs
    /\ Answer(r, "busy")
    /\ UNCHANGED <<waiting, closing, flagVars, thread, deliverer, saw, woken,
                   reporters, notices, shutdownVars>>

StartRegisters(r) ==
    /\ caller[r] = "prechecked"
    /\ ~closing
    /\ SweptJobs[KeyOf[r]] = NoJob
    /\ ~RegistryFull
    /\ SweepSlots
    /\ jobs' = [SweptJobs EXCEPT ![KeyOf[r]] = r]
    /\ waiting' = Enqueued(r)
    /\ thread' = [thread EXCEPT ![r] = "born"]
    /\ caller' = [caller EXCEPT ![r] = "starting"]
    /\ UNCHANGED <<closing, flagVars, deliverer, saw, woken, reply, reporters,
                   notices, shutdownVars>>

(* DetachedJobRegistry.release: the key is given up only by its owner.      *)
\* Mutant: the key is freed whoever holds it.
ReleasedJobsOfAnyone(r) == [jobs EXCEPT ![KeyOf[r]] = NoJob]

ReleasedJobs(r) == [k \in Key |-> IF k = KeyOf[r] /\ jobs[k] = r THEN NoJob ELSE jobs[k]]

\* Mutant: a job whose thread never started stays in the queue.
ReleaseRegistryKeepsPlace(r) ==
    /\ running' = running \ {r}
    /\ old' = old \ {r}
    /\ jobs' = ReleasedJobs(r)
    /\ UNCHANGED waiting

ReleaseRegistry(r) ==
    /\ running' = running \ {r}
    /\ old' = old \ {r}
    /\ waiting' = RemoveFirst(waiting, r)
    /\ jobs' = ReleasedJobs(r)

(* DetachedJob.start outside the lock: the thread starts, or the operating  *)
(* system refuses it and the registration is taken back.                    *)
ThreadStarts(r) ==
    /\ caller[r] = "starting"
    /\ thread' = [thread EXCEPT ![r] = "slot"]
    /\ caller' = [caller EXCEPT ![r] = IF r \in AutoRequest THEN "detaching" ELSE "started"]
    /\ UNCHANGED <<registryVars, flagVars, deliverer, saw, woken, reply,
                   noticeVars, old, shutdownVars>>

ThreadStartFails(r) ==
    /\ caller[r] = "starting"
    /\ ReleaseRegistry(r)
    /\ thread' = [thread EXCEPT ![r] = "ended"]
    /\ Answer(r, IF r \in AutoRequest THEN "dropped" ELSE "outcome")
    /\ UNCHANGED <<closing, flagVars, deliverer, saw, woken, noticeVars, shutdownVars>>

(* add_waker: a job that is already done wakes the waiter at once.          *)
AddWaker(r) ==
    /\ caller[r] = "started"
    /\ caller' = [caller EXCEPT ![r] = "wait"]
    /\ IF r \in done THEN woken' = woken \cup {r} /\ UNCHANGED wakers
                     ELSE wakers' = wakers \cup {r} /\ UNCHANGED woken
    /\ UNCHANGED <<registryVars, done, detached, interrupted, handled, refused, thread,
                   deliverer, saw, reply, noticeVars, old, shutdownVars>>

(* The three answers of DetachedJob.detach.                                 *)
DetachResult(r) ==
    IF r \in done THEN "done"
    ELSE IF closing /\ r \notin interrupted THEN "interrupted" ELSE "detached"

DetachFlags(r) ==
    /\ detached' = IF r \in done THEN detached ELSE detached \cup {r}
    /\ interrupted' = IF DetachResult(r) = "interrupted"
                      THEN interrupted \cup {r} ELSE interrupted

(* outcome(): the caller gets the result, the skill's error, or the         *)
(* interrupted text for a job that was refused its slot.                    *)
OutcomeReply(r) == IF r \in refused THEN "interrupted" ELSE "outcome"

(* _wait_or_detach returns because the job woke it.                         *)
WaiterWoken(r) ==
    /\ caller[r] = "wait"
    /\ r \in woken
    /\ Answer(r, OutcomeReply(r))
    /\ UNCHANGED <<registryVars, flagVars, thread, deliverer, saw, woken,
                   noticeVars, old, shutdownVars>>

(* detach_after_s elapsed.                                                  *)
WaitTimeout(r) ==
    /\ caller[r] = "wait"
    /\ DetachFlags(r)
    /\ Answer(r, CASE DetachResult(r) = "done"        -> OutcomeReply(r)
                   [] DetachResult(r) = "interrupted" -> "interrupted"
                   [] DetachResult(r) = "detached"    -> "receipt")
    /\ UNCHANGED <<registryVars, done, handled, wakers, refused, thread, deliverer, saw,
                   woken, noticeVars, old, shutdownVars>>

(* OpenClaw gives the call up (CancelledError): nobody receives a reply.    *)
CallerCancelled(r) ==
    /\ caller[r] = "wait"
    /\ caller' = [caller EXCEPT ![r] = "gone"]
    /\ IF DetachResult(r) = "done"
       THEN /\ detached' = detached \cup {r}
            /\ deliverer' = [deliverer EXCEPT ![r] = "finish"]
            /\ UNCHANGED interrupted
       ELSE DetachFlags(r) /\ UNCHANGED deliverer
    /\ reporters' = IF DetachResult(r) = "interrupted"
                    THEN reporters \cup {<<r, "interrupted">>} ELSE reporters
    /\ UNCHANGED <<registryVars, done, handled, wakers, refused, thread, saw, woken, reply,
                   sweepers, notices, old, shutdownVars>>

(* The second stage detaches its job as soon as it is registered; nothing   *)
(* is announced when the registry is closing.                               *)
AutoDetaches(r) ==
    /\ caller[r] = "detaching"
    /\ IF DetachResult(r) = "done"
       THEN /\ detached' = detached \cup {r}
            /\ deliverer' = [deliverer EXCEPT ![r] = "finish"]
            /\ UNCHANGED interrupted
       ELSE DetachFlags(r) /\ UNCHANGED deliverer
    /\ Answer(r, IF DetachResult(r) = "interrupted" THEN "dropped" ELSE "receipt")
    /\ UNCHANGED <<registryVars, done, handled, wakers, refused, thread, saw, woken,
                   noticeVars, old, shutdownVars>>

-----------------------------------------------------------------------------
(* The job's thread.                                                        *)

\* Mutant: off by one.
SlotFreeOffByOne == Cardinality(running) <= MaxBackground

SlotFree == Cardinality(running) < MaxBackground

AcquireSlot(r) ==
    /\ thread[r] = "slot"
    /\ ~closing
    /\ waiting # <<>> /\ Head(waiting) = r
    /\ SlotFree
    /\ waiting' = Tail(waiting)
    /\ running' = running \cup {r}
    /\ thread' = [thread EXCEPT ![r] = "target"]
    /\ UNCHANGED <<jobs, closing, flagVars, deliverer, saw, caller, woken, reply,
                   noticeVars, old, shutdownVars>>

SlotRefused(r) ==
    /\ thread[r] = "slot"
    /\ closing \/ ~Contains(waiting, r)
    /\ waiting' = RemoveFirst(waiting, r)
    /\ thread' = [thread EXCEPT ![r] = "refused"]
    /\ UNCHANGED <<jobs, running, closing, flagVars, deliverer, saw, caller, woken, reply,
                   noticeVars, old, shutdownVars>>

(* A waiting job wakes up at least every five seconds and sweeps.           *)
\* Mutant: an untimed wait, woken by notify_all only.
SlotWaitUntimed(r) == FALSE

SlotWaitTick(r) ==
    /\ thread[r] = "slot"
    /\ ~closing /\ Contains(waiting, r)
    /\ StaleJobs # {}
    /\ SweepSlots /\ jobs' = SweptJobs
    /\ UNCHANGED <<waiting, closing, flagVars, thread, deliverer, saw, caller, woken,
                   reply, reporters, notices, shutdownVars>>

(* skill.run returns, raises, or was never called: the flags are set and    *)
(* detached is read in one section.                                         *)
Completes(r) ==
    /\ done' = done \cup {r}
    /\ thread' = [thread EXCEPT ![r] = IF r \in detached THEN "finish" ELSE "wake"]
    /\ UNCHANGED <<registryVars, detached, interrupted, handled, wakers, deliverer, saw,
                   caller, woken, reply, noticeVars, old, shutdownVars>>

TargetReturns(r) == thread[r] = "target" /\ Completes(r) /\ UNCHANGED refused

RefusedCompletes(r) == thread[r] = "refused" /\ Completes(r) /\ refused' = refused \cup {r}

WakesWaiter(r) ==
    /\ thread[r] = "wake"
    /\ woken' = IF r \in wakers THEN woken \cup {r} ELSE woken
    /\ thread' = [thread EXCEPT ![r] = "release"]
    /\ UNCHANGED <<registryVars, flagVars, deliverer, saw, caller, reply,
                   noticeVars, old, shutdownVars>>

(* _finish_detached, entered by the job's thread or by the thread of        *)
(* deliver_in_background: only the first one goes on.                       *)
FinishClaims(r) ==
    /\ handled' = handled \cup {r}
    /\ saw' = IF r \in handled \/ r \notin interrupted THEN saw ELSE saw \cup {r}
    /\ UNCHANGED <<registryVars, done, detached, interrupted, wakers, refused, caller, woken,
                   reply, noticeVars, old, shutdownVars>>

JobFinishClaims(r) ==
    /\ thread[r] = "finish"
    /\ thread' = [thread EXCEPT ![r] = IF r \in handled THEN "release" ELSE "notify"]
    /\ FinishClaims(r) /\ UNCHANGED deliverer

DelivererClaims(r) ==
    /\ deliverer[r] = "finish"
    /\ deliverer' = [deliverer EXCEPT ![r] = IF r \in handled THEN "ended" ELSE "notify"]
    /\ FinishClaims(r) /\ UNCHANGED thread

(* on_detached_done (_complete_detached, _complete): nothing is posted for  *)
(* a job whose interruption was already announced.                          *)
CompletionNotice(r) == IF r \in refused THEN "interrupted" ELSE "outcome"

\* Mutant: leave the announcement of a refused job to the shutdown.
OnDetachedDoneTrustsShutdown(r) ==
    /\ notices' = IF r \in saw \cup refused THEN notices
                  ELSE [notices EXCEPT ![r] = Append(@, CompletionNotice(r))]
    /\ UNCHANGED <<registryVars, flagVars, saw, caller, woken, reply, sweepers, reporters,
                   old, shutdownVars>>

OnDetachedDone(r) ==
    /\ notices' = IF r \in saw THEN notices
                  ELSE [notices EXCEPT ![r] = Append(@, CompletionNotice(r))]
    /\ UNCHANGED <<registryVars, flagVars, saw, caller, woken, reply, sweepers, reporters,
                   old, shutdownVars>>

JobNotifies(r) ==
    /\ thread[r] = "notify"
    /\ thread' = [thread EXCEPT ![r] = "release"]
    /\ OnDetachedDone(r) /\ UNCHANGED deliverer

DelivererNotifies(r) ==
    /\ deliverer[r] = "notify"
    /\ deliverer' = [deliverer EXCEPT ![r] = "ended"]
    /\ OnDetachedDone(r) /\ UNCHANGED thread

Releases(r) ==
    /\ thread[r] = "release"
    /\ ReleaseRegistry(r)
    /\ thread' = [thread EXCEPT ![r] = "ended"]
    /\ UNCHANGED <<closing, flagVars, deliverer, saw, caller, woken, reply, noticeVars,
                   shutdownVars>>

-----------------------------------------------------------------------------
(* Interruption notices: of the sweep, of a caller given up while closing,  *)
(* and of the SIGTERM path.                                                 *)

(* DetachedJob.mark_interrupted.                                            *)
\* Mutant: a job that is already done may be marked.
MayMarkDone(r) == r \in detached /\ r \notin interrupted

MayMark(r) == r \notin done /\ r \in detached /\ r \notin interrupted

SweeperMarks(r) ==
    /\ r \in sweepers
    /\ sweepers' = sweepers \ {r}
    /\ interrupted' = IF MayMark(r) THEN interrupted \cup {r} ELSE interrupted
    /\ reporters' = IF MayMark(r) THEN reporters \cup {<<r, "timeout">>} ELSE reporters
    /\ UNCHANGED <<registryVars, done, detached, handled, wakers, refused, thread, deliverer,
                   saw, caller, woken, reply, notices, old, shutdownVars>>

ReporterPosts(r) ==
    \E kind \in Notice :
        /\ <<r, kind>> \in reporters
        /\ reporters' = reporters \ {<<r, kind>>}
        /\ notices' = [notices EXCEPT ![r] = Append(@, kind)]
        /\ UNCHANGED <<registryVars, flagVars, thread, deliverer, saw, caller, woken,
                       reply, sweepers, old, shutdownVars>>

(* interrupt_all under the registry lock: close, and take the snapshot.     *)
(* Both the server's shutdown and the lifespan call it.                     *)
InterruptAll ==
    /\ shutdowns < MaxShutdownCalls
    /\ toMark = {} /\ marked = {}
    /\ shutdowns' = shutdowns + 1
    /\ closing' = TRUE
    /\ toMark' = {jobs[k] : k \in Registered(jobs)}
    /\ UNCHANGED <<jobs, waiting, running, flagVars, thread, deliverer, saw, caller, woken,
                   reply, noticeVars, old, marked>>

ShutdownMarks(r) ==
    /\ r \in toMark
    /\ toMark' = toMark \ {r}
    /\ interrupted' = IF MayMark(r) THEN interrupted \cup {r} ELSE interrupted
    /\ marked' = IF MayMark(r) THEN marked \cup {r} ELSE marked
    /\ UNCHANGED <<registryVars, done, detached, handled, wakers, refused, thread, deliverer,
                   saw, caller, woken, reply, noticeVars, old, shutdowns>>

(* notify_interrupted starts one posting thread per marked job, after all   *)
(* of the snapshot has been marked.                                         *)
ShutdownReports ==
    /\ toMark = {} /\ marked # {}
    /\ reporters' = reporters \cup {<<r, "interrupted">> : r \in marked}
    /\ marked' = {}
    /\ UNCHANGED <<registryVars, flagVars, thread, deliverer, saw, caller, woken, reply,
                   sweepers, notices, old, toMark, shutdowns>>

-----------------------------------------------------------------------------
(* A running job passes STALE_AFTER_S (45 minutes).  detach_after_s is at   *)
(* most 240 seconds and is counted from an earlier moment, so its caller is *)
(* no longer waiting.                                                       *)
GrowsOld(r) ==
    /\ r \in running \ old
    /\ caller[r] \in {"answered", "gone"}
    /\ old' = old \cup {r}
    /\ UNCHANGED <<registryVars, flagVars, thread, deliverer, saw, caller, woken, reply,
                   noticeVars, shutdownVars>>

CallerStep(r) ==
    \/ Precheck(r) \/ StartRefused(r) \/ StartDuplicate(r) \/ StartBusy(r)
    \/ StartRegisters(r) \/ ThreadStarts(r) \/ ThreadStartFails(r)
    \/ AddWaker(r) \/ WaiterWoken(r) \/ WaitTimeout(r) \/ CallerCancelled(r)
    \/ AutoDetaches(r)

JobStep(r) ==
    \/ AcquireSlot(r) \/ SlotRefused(r) \/ SlotWaitTick(r) \/ RefusedCompletes(r)
    \/ WakesWaiter(r) \/ JobFinishClaims(r) \/ JobNotifies(r) \/ Releases(r)

DelivererStep(r) == DelivererClaims(r) \/ DelivererNotifies(r)

NoticeStep(r) == SweeperMarks(r) \/ ReporterPosts(r) \/ ShutdownMarks(r)

(* Every caller answered, every thread ended, shutdown calls used up.       *)
Finished ==
    /\ \A r \in Request : thread[r] \in {"unborn", "ended"} /\ caller[r] \in {"answered", "gone"}
    /\ \A r \in Request : deliverer[r] \in {"none", "ended"}
    /\ reporters = {} /\ sweepers = {} /\ toMark = {} /\ marked = {}
    /\ shutdowns = MaxShutdownCalls
    /\ UNCHANGED vars

Next ==
    \/ \E r \in Request : CallerStep(r) \/ JobStep(r) \/ TargetReturns(r)
                          \/ DelivererStep(r) \/ NoticeStep(r) \/ GrowsOld(r)
    \/ InterruptAll \/ ShutdownReports
    \/ Finished

Spec == Init /\ [][Next]_vars

(***************************************************************************)
(* Fairness: the threads of the process and its event loop are scheduled,  *)
(* the wait and the clock run out.  Nothing obliges skill.run to return,   *)
(* and nothing obliges OpenClaw to cancel or the operator to stop the      *)
(* process.                                                                *)
(***************************************************************************)
Fairness ==
    /\ \A r \in Request :
        /\ WF_vars(ThreadStarts(r) \/ ThreadStartFails(r)) /\ WF_vars(AddWaker(r))
        /\ WF_vars(WaitTimeout(r)) /\ WF_vars(AutoDetaches(r))
        /\ WF_vars(JobStep(r)) /\ WF_vars(DelivererStep(r))
        /\ WF_vars(SweeperMarks(r)) /\ WF_vars(ReporterPosts(r))
        /\ WF_vars(ShutdownMarks(r)) /\ WF_vars(GrowsOld(r))
    /\ WF_vars(ShutdownReports)

FairSpec == Spec /\ Fairness

-----------------------------------------------------------------------------
(* Properties.                                                              *)

TypeOK ==
    /\ jobs \in [Key -> Request \cup {NoJob}]
    /\ waiting \in Seq(Request)
    /\ running \subseteq Request /\ old \subseteq running
    /\ closing \in BOOLEAN
    /\ done \subseteq Request /\ detached \subseteq Request /\ interrupted \subseteq Request
    /\ handled \subseteq Request /\ wakers \subseteq Request /\ woken \subseteq Request
    /\ saw \subseteq Request
    /\ refused \subseteq done
    /\ thread \in [Request -> ThreadState]
    /\ deliverer \in [Request -> {"none", "finish", "notify", "ended"}]
    /\ caller \in [Request -> CallerState]
    /\ reply \in [Request -> Reply]
    /\ sweepers \subseteq Request /\ reporters \subseteq Request \X {"interrupted", "timeout"}
    /\ notices \in [Request -> Seq(Notice)]
    /\ toMark \subseteq Request /\ marked \subseteq Request
    /\ shutdowns \in 0..MaxShutdownCalls

Live(r) == thread[r] \notin {"unborn", "ended"}

(* Past its time limit: the sweep took its slot although its thread lives.  *)
Working == {"target", "finish", "notify", "wake", "release"}

Overdue(r) == thread[r] \in Working /\ r \notin running /\ r \notin refused

(* The registry refuses a second job for a key while the first one lives,   *)
(* unless the sweep gave the first one up; in particular a swept job that   *)
(* ends late never takes the key from its successor (release checks that    *)
(* the entry is the job's own).                                             *)
OneLiveJobPerKey ==
    \A r, s \in Request :
        /\ Live(r) /\ ~Overdue(r) /\ Live(s) /\ ~Overdue(s) /\ KeyOf[r] = KeyOf[s]
        => r = s

(* Why it holds: every live job that kept its time owns its key, a slot     *)
(* belongs to a thread at work, and a thread exists once start has run.     *)
KeyOwned == \A r \in Request : Live(r) /\ ~Overdue(r) => jobs[KeyOf[r]] = r

SlotsHeldByWorkers == \A r \in running : thread[r] \in Working /\ r \notin refused

RefusedAreEnding == \A r \in refused : thread[r] \in (Working \ {"target"}) \cup {"ended"}

ThreadFollowsStart ==
    \A r \in Request : /\ caller[r] \in {"idle", "prechecked"} => thread[r] = "unborn"
                       /\ caller[r] = "starting" => thread[r] = "born"

RegistryInv == KeyOwned /\ SlotsHeldByWorkers /\ RefusedAreEnding /\ ThreadFollowsStart

(* At most max_background skills run at once, those past the time limit     *)
(* not counted.                                                             *)
SkillsWithinLimit ==
    Cardinality({r \in Request : thread[r] = "target" /\ ~Overdue(r)}) <= MaxBackground

SlotBound == Cardinality(running) <= MaxBackground

(* A request is told one outcome at most, by an answer or by a notice,      *)
(* whatever the order in which the job ends, the caller times out or is     *)
(* cancelled, the sweep runs and the process is told to stop: the receipt   *)
(* is a promise and not an outcome.                                         *)
Outcomes(r) == Len(notices[r]) + (IF reply[r] \in {"none", "receipt", "dropped"} THEN 0 ELSE 1)

AtMostOneOutcome == \A r \in Request : Outcomes(r) <= 1

(* A finished thread leaves nothing behind in the registry: no slot, no     *)
(* place in the queue and no key that would answer "in progress" for ever.  *)
NothingLeaked ==
    \A r \in Request : thread[r] = "ended" =>
        /\ r \notin running /\ ~Contains(waiting, r) /\ jobs[KeyOf[r]] # r

(* The automatic second stage never takes a slot from an explicit request   *)
(* that is waiting for one.                                                 *)
ExplicitFirst ==
    [][\A r \in AutoRequest : r \in running' \ running =>
          \A s \in Explicit : ~Contains(waiting, s)]_vars

(* Skills bound their own work, so their calls return: no code of the       *)
(* registry can replace that.                                               *)
SkillsReturn == \A r \in Request : WF_vars(TargetReturns(r))

(* Whoever got the receipt, or gave the call up while the job was at work,  *)
(* is told an outcome, if the skills return.                                *)
PromiseKept ==
    SkillsReturn =>
        \A r \in Request : (reply[r] = "receipt" \/ caller[r] = "gone") ~> (notices[r] # <<>>)

(* A skill that never returns does not hold up the queue.                   *)
(* The waiting job itself sweeps the overdue one and gets its slot, or is   *)
(* released by the shutdown.                                                *)
QueueMoves == \A r \in Request : (thread[r] = "slot") ~> (thread[r] # "slot")
=============================================================================
