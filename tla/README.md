# TeamAgent: models and proofs of its job protocols

TeamAgent answers Slack requests through a gateway (`src/src/teamagent/mcp_gateway`). What it does in one call is
simple; what it does in *long* calls is not: analyses and documents that take minutes to hours, cost money, must be
made once, must be announced once, and must survive the replacement of the process that makes them. The same holds for
the deployments of the system itself. This directory holds TLA+ models of those protocols, the configurations that
check them with TLC, and proofs checked by TLAPS.

## Inventory

| Component | State | Operations | Talks to |
|---|---|---|---|
| Detached jobs (`detached_jobs.py`, `_run_detached` and `_complete_detached` in `server.py`, `surface_video_followup.py`) | registry: key -> job, queue, running slots with start times, `closing`; per job: done, detached, interrupted, handled, wakers | precheck, start, acquire_slot, sweep, detach, add_waker, finish, release, interrupt_all | the skill it runs; notices; Slack |
| Notices of long jobs (`async_job_notify.py`, `_shared/long_jobs.py`) | the Origin's claimed notices and uploads, a durable lock row per job and kind, the outbox row, active watchers | schedule, poll, publish_notice, recover, notify_interrupted | job table, Slack |
| Video cache and lease (`video_algorithm_cache.py`) | two S3 objects per key, changed by compare-and-set on their ETag | get, put, acquire, renew, release | S3 |
| Video analysis skill (`video_algorithm/skill.py`) | where a run is, its heartbeat object | run, paid waves, commits, artefacts | cache, paid models |
| Document submission (`omiyage_report/skill.py`, `dedup.py`) | dedup lock row, admission slots | claim, admit, create, launch, release; status | job table |
| Resumable 25-page document (`omiyage_report/sales25.py`) | checkpoint with the lease of its executor | execute, save, progress, heartbeat; resume | job table, stages |
| Job table (`proposal_job_store.py`) | rows: status, updated_at, checkpoint, result, deliveries | conditional transitions, heartbeat, fail_stale | DynamoDB |
| Request gate (`request_gate.py`, `capacity.py`) | asyncio's semaphore and a count of waiters | submit | event loop |
| Cost ledger (`cost_guard.py`, callers in `apify_client.py`, `distill.py`) | cost of a month per provider and per user | reserve, give back, settle | DynamoDB, paid APIs |
| Media jobs (`media_job.py`, `media/tool_worker.py`, the dispatch function, the janitor) | a row, objects under a prefix, an ECS task | submit, claim an attempt, launch, complete, reconcile, sweep, delete | SQS, ECS, S3, DynamoDB |
| Deployments (`terraform_runtime_guard.sh` apply, `release_evidence.py`, the two sagas, the finalizer) | two locks, the plan's intent, a record per saga, receipts; production | acquire, begin, apply, verify, commit, restore, release | DynamoDB, ECS, EventBridge, Lambda, terraform |
| Video quota (`quota_store.py`) | a counter per user and month | one conditional upsert | Postgres |
| Caller claims (`caller_claim.py`) | used nonces | verify, consume | DynamoDB |
| Signing keys (`hmac_keyring.py`, `hmac_durable_state.py`) | key ring, state file | rotate, load, store | file system |

The rest (retrieval, writing and report skills, ingestion, dashboards, connect web, the agent loop, evidence checks, the
infrastructure) keeps no protocol state of its own or lies behind an external system; `PROJECT.json` lists it with the
reason.

What is hard here, and what makes each part correct:

* **Threads that race inside a process.** A detached job may end at the moment its caller times out, is cancelled, is
  swept or the process is told to stop. Correct: each request is told exactly one outcome; one live job per key; the
  limit of running skills; nothing left behind in the registry.
* **Several processes.** A deployment overlaps two gateways, and both may watch a job. Correct: at most one notice, and
  one in the end unless a call failed.
* **Calls that fail after they took effect,** are repeated by the client library, or are delivered twice. Every S3,
  DynamoDB, SQS and Slack call may. Correct: no second payment, no second notice after one that was posted or may have
  been, no second task, no lost checkpoint, no budget exceeded, no commit undone. (A notice whose call *failed* although
  it arrived is repeated by the code: see findings.)
* **Leases that lapse under a live owner.** Correct: the late owner neither overwrites its successor nor goes on; two
  deployments never change production together.
* **Crashes.** Correct: accepted jobs end, slots are not lost, finished steps are kept, rows and files are cleaned up.
* **Cancellation.** A wait for a turn may time out just when its turn comes. Correct: no unit and no place is lost.

## Modules

Each module is one protocol; `MC*.tla` only gives constants values and symmetry sets, where an instance needs them.
Definitions have the names of the code where TLA+ allows it. Most modules hold *mutants*, operators commented as such:
mistakes which one of the properties must detect, used only to check that it does.

### DetachedJobs

A request goes through `Precheck`, then `StartRegisters` (or a refusal), and its thread through `AcquireSlot`,
`TargetReturns`, `JobFinishClaims` and `JobNotifies` or `WakesWaiter`, and `Releases`. The registry is `jobs` (the keys),
`waiting` (the queue), `running` (slots) and `closing`; the job's flags are the sets `done`, `detached`, `interrupted`
and `handled`. `caller` is the waiting side of `_run_detached`: `AddWaker`, `WaiterWoken`, `WaitTimeout`,
`CallerCancelled`. `AutoRequest` are second stages, started at low priority and detached at once. `GrowsOld` is the time
limit of a running skill; the sweep runs inside the actions that call it. `InterruptAll` and the `Shutdown...` actions
are `notify_interrupted`. An action is what happens under one lock, or between two.

### NoticeDelivery

One job and its terminal notice. Publishers: the job's own thread (`"job"`), the thread that announces an interruption,
and watch sessions, each in a process (`host`). `publish_notice` is split where another publisher could come between:
claim in the Origin, the durable lock, delivery of files, the text, and giving the lock back after a definite failure.
The text goes where `post_to_origin_status` sends it: the thread of the request, the same again after an error, then a
direct message (`post`, `repost`, `dm`; `NextPlaces`). `PostText` ends with a post, or with a timeout whose outcome is
unknown; `PostFails` is any other error, of a call that arrived or not, and goes to the next place, or ends as failed and
hands the lock back; `PostRepeated` is the Slack client's own repetition. `told` counts the calls that ended as posted or
with an unknown outcome, `echoed` says that a call arrived although it counts as failed. A watcher starts with the write
of its outbox entry (`Enlist`), also one that recovers.
`row` is the job's row, `entry` its outbox entry with its age. The job is a thread of the gateway or of a worker
(`Detached`), either from the beginning; `HomeDies` kills the process that took the request.

### VideoLease

One cache key and several runs of the skill for it. `lease` and `result` are the S3 objects; a reader is in `leaseSeen`
or `resultSeen` while the ETag it read is current, so a conditional write is a test for membership, and every write
empties the set. Each operation is a read and a write with anything in between; each has a failing version that may have
been applied. `beat` is the heartbeat thread, which shares a lock with `assert_owned`.

### SubmitDedup

Requests with one dedup key, from the lock (`ReadLock`, `Judge`, `Put`: four attempts of read, judge, compare-and-set)
through admission (`Admit`), `Create`, `Launch` to the background thread (`worker`). A request is the id of its job.
`lockAge` has the three ages the code tells apart: grace, window, beyond. `others` are slots that requests of other
keys hold.

### ParentJob

The row of one resumable job and its executors. A checkpoint is compared as a whole and holds the executor's lease, so an
executor is in `synced` while its local copy is the row's; it is in `seen` while the `updated_at` it read is the row's.
`point` is what the row has, `local` what the executor will save. `Close` is the finally block, during which the heartbeat
goes on. A search's step is the taking of its result: the six searches run together in a pool.

### RequestGate, CostLedger and PaidCalls

`RequestGate` is `submit` on one event loop: an action is the code between two awaits. The semaphore is asyncio's of
Python 3.12: a waiter is woken by being handed its unit (`Wake`), and may be cancelled or time out before it runs again
(`woken` to `wokenGone`), in which case `acquire` gives the unit back and wakes others. `waiting` is the metric that
decides who is refused.

`CostLedger` is the pair of rows (provider, user) of a month. `ReserveTotal`, `ReserveUser`, `Rollback`, `SettleTotal`
and `SettleUser` are one `update_item` each, and each has two misfortunes: it raises, applied or not, or the client
library repeats it after a lost answer, so that an addition counts twice. `Strict` calls refuse to go on without a
reservation; the others go on when the ledger fails.

`PaidCalls` composes them as the gateway does: a thread begins to pay only while its call is inside the gate, and the
gate's unit comes back when the call is answered. A client that cancels frees the unit at once while the thread goes on
paying: this is where the two parts disagree about how many calls are at work, and why the budget must not depend on the
gate. `ProcessDies` empties the gate and leaves the ledger as it is.

### MediaJob and MediaPromise

One media job. `dispatch` are deliveries of its message, each with the attempt and the version of the row it works with:
`Ensure`, `Read`, `PutControl`, `Claim`, `RunTask`, `Confirm`, with the early returns for too little time. `task` is the
ECS task of each attempt (an ECS client token gives the same task again), `event` a call for a stopped task, `janitor` a
call of the janitor with the time and the copy of the row it began with. Time is six phases, cut where the code compares
a clock: more than 90 s left, less, deadline passed, deadline + 60 s, `hard_cleanup_at`, and the row's `ttl` a day later,
after which the table may delete the row by itself (`RowExpires`), whatever objects there are.

`NothingLeft` is what the janitor owes: until that ttl a row is gone only with every object of the job's attempts, and none
appears later. It says nothing of two kinds of objects which the code may leave without a row: those of a row that the
table deleted, and input objects, which the client stages under the job's prefix before it sends the message
(`media_job.py:441-503`). For both, only the bucket's 30-day rule is left (`tiktok_acquire.tf:280-282`). Nor does it say that
the janitor comes to a row in time: `JanitorRounds` shows that it may not.

`MediaPromise` is the abstract specification: no tables and no functions, only an outcome and whether something was
launched. Its steps are accept, launch, succeed, fail, forget, and lapse: an open job whose row the table deleted.
`MediaJob` implements it under the mapping `Outcome` (an `INSTANCE ... WITH` at the end of `MediaJob`), which gives an
outcome its code and its attempt, so that exchanging one failure for another is a violation, too.

### JanitorRounds

The janitor over several rows, in the order of its scan, all terminal and past the guard of their readers: `kept` until
`hard_cleanup_at`, then `due`. `Begin` to `ScanEnds` is one call, a row per step. `SweepRefuses` is the sweep that raises
for the first object without attempt metadata (`media_janitor/handler.py:337`): it ends the call and leaves the sweep lease
on the row, so that the service's next try passes the row and meets the next one. A round is the scheduled call and two
retries; leases of 240 s may or may not last into the next round.

### DeployApply

The `apply` command. `Attempts` are deployments, each with its saved `plan`. `Acquire` is the transaction for the lease
lock (`gate`) and the intent; `AcquireLocal` the guard's own lock of two hours; `VerifyPlan`, `Consume`, `ReadBaseline`,
`BeginEcs`, `ReadRules` to `BeginRules` open the two sagas; `Terraform` changes one part of production at a time;
`VerifyRules`, `VerifyServices`, `Commit` (one transaction over both sagas, intent, lock and receipt), `Confirm`. `Dies`
is any error or signal that brings the script to `cleanup_apply_command`: `Recover` to `ReleaseLocal`, each of which may
fail and be passed over (`After`). `live` is production, in the three parts that different code restores: ECS services,
EventBridge rules, and functions.

### Composition

`PaidCalls` composes gate and ledger and is checked as such. Elsewhere the models meet at the job table. `SubmitDedup`
ends where the worker writes `done` or `failed`; `ParentJob` takes the place of its worker for the 25-page edition;
`NoticeDelivery` takes `row` as something that becomes terminal by the job, by a status query or by the interrupter, and
`DetachedJobs` treats "tell the requester" as one step, which `NoticeDelivery` takes apart. `VideoLease` is what the skill
inside a detached job does; `MediaJob` is what a skill that needs a browser or a renderer waits for, one row of those that
`JanitorRounds` goes through.

## Runs

| Run | Instance | Question |
|---|---|---|
| `detached` | a request, its repetition, a second stage and one turned away; 1 slot, 1 place | one live job per key, limit, priority, nothing leaked |
| `detached_live` | a request and a second stage, shutdown called twice, fair, skills may hang | one outcome, told if skills return, the queue moves |
| `notice` | 2 watchers, 2 processes, 1 fault, job in the gateway or in a worker, fair | no call after one that was posted or may have been, entry removed, end announced |
| `notice_lost` | the same | *violated*: see findings |
| `lease` | 3 runs, 1 fault | one payer, nothing paid twice, paid work stored, generations unique, no late write wins |
| `dedup` | 2 submits, 2 slots shared with others, 1 fault, restarts, fair | one worker, slots balanced, accepted jobs end |
| `dedup_refused` | 2 submits, 1 slot, no fault | *violated*: see findings |
| `parent` | 3 executors, 3 steps, 2 faults, 2 restarts, fair | superseded executors are harmless, slots balanced, the job ends |
| `media` | 2 deliveries, 2 calls for a stopped task, 1 janitor, 1 fault | one task, a readable result, no leftovers before the ttl, implements `MediaPromise` |
| `janitor` | 4 rows, 3 calls in a round, ttl after 3 rounds | *violated*: see findings |
| `paid_calls` | 3 paid calls (2 strict, of one user) and a free one; 1 unit, 2 places, limits 2 and 1 estimates; 1 fault, fair | units, places, budget, no phantom reservation, the free call gets its turn |
| `deploy` | 2 attempts, 2 faults, fair | one hand on production, baselines, covered changes, a clean end |

**Bounds.** `MaxFaults` bounds failed calls, stalls and deaths; `MaxRestarts` and `MaxShutdownCalls` what they say; they
bound the environment and never the code. `MaxVersion` bounds the version up to which the janitor starts sweeps of a media
row (sweeps would otherwise repeat for ever). Two actors show every race of a pair; the third is there where the code
compares a predecessor with a successor's successor (a swept job, its successor and a waiting one; generations 1, 2 and 3;
two resumers beside the first executor). One slot is the tightest limit; with two, `SlotsBalanced` can fail both ways.
Three steps are a search, a middle step and a last one. One fault suffices for a single lost effect, two for a fault in
the reaction to a fault, which is what a cleanup of a deployment is. In `paid_calls`, the limit of the provider leaves
room for two of three calls and that of a user for one, so reservations fail in both rows. `MaxTries` is the code's own
number of attempts. In `detached`, the action constraint `TurnedAway` lets the fourth request come only instead of the
second and keeps it from getting a job. In `NoticeDelivery`, a failure to hand back the lock follows a failed post
(`FreeLockRaises`) and is not counted as a fault of its own; the attempts of one text are its failure, whichever of them
fail, and count once. In `janitor`, `Rows` are three rows that end the three `Calls` of a round and one behind them, and
`Grace` stands for the 288 rounds of a day, all of which are alike. In `media`, races of two janitors are left to the
proofs, which hold for any number. Symmetry is used only for interchangeable model values, in runs without liveness.
Deadlock is not checked where a system comes to rest: all runs ended, all notices told, all submits answered.

**Types.** The type invariants are theorems (below), in every state machine but `JanitorRounds`; no run repeats them.

**Fairness.** Threads that can run do, and a process that was told to stop dies (the container service kills it).

* `DetachedJobs`: `FairSpec` assumes nothing of the skill, so a hanging skill shows in `QueueMoves`; `PromiseKept` has
  `SkillsReturn` as its premise, which no code can replace.
* `NoticeDelivery`: a live process runs its watchers and its recovery loop (a 30 s timer), entries age, and the service
  restarts its process.
* `SubmitDedup`, `ParentJob`: dead rows go stale, and status queries come, because the watchers poll until a job ended;
  steps end, because every stage has a deadline.
* `PaidCalls`: threads and event loop run and skills return. No wait is obliged to time out (the gate of the Slack bot
  has no limit), and no client to cancel, so `Served` is owed to the units that come back.
* `MediaJob` has none. That every row goes in the end is not claimed: a janitor's call may raise for another row in every
  round (`JanitorRounds`), and what removes the row then is the table.
* `DeployApply`: a script that lives goes on, since every command it runs has a time limit; nothing is asked of terraform.

No action that fails or kills is ever forced, except the death of a process that is stopping.

## Proofs

The proofs hold for any sets of requests, keys, watchers, processes, runs, executors, deliveries, calls and attempts, and
any limits, estimates and numbers of faults that satisfy the named assumptions. Every safety property of a passing run,
action properties and the refinement of `MediaPromise` included, is also a theorem; TLC checked each inductive invariant
on the instances of the runs before it was proved. No property is inductive by itself; the paragraphs say what had to be
added, which is where the argument lies.

* `DetachedJobsProofs`. `Typing` (the queue needs lemmas on what insertion and removal return, which are proved first).
  `KeyExclusion` (`OneLiveJobPerKey`): that a second `start` is refused follows only if the first job's entry is still
  there, so the invariant is `RegistryInv`: a live job that kept its time owns its key, slots belong to threads at work,
  a refused job is at its end, and a thread exists from `start` on. The delicate step is `Releases`, which removes only
  the job's own entry. `SkillLimit` follows from a bound on the set of slots. `NothingLeaks` (`NothingLeaked`) and
  `ExplicitGoesFirst` (`ExplicitFirst`) from `QueueInv` and `EntryInv`: the queue has nobody twice, is sorted by priority
  after any insertions, withdrawals and sweeps, and holds only threads that still wait. `OneOutcome` (`AtMostOneOutcome`)
  from `OutcomeInv`: whoever is about to tell an outcome (caller, job thread, deliverer, interrupter) has claimed the job
  under the lock, the others find the claim, and nothing was told before. Any action can disturb it, so the proof has a case for each.
* `NoticeDeliveryProofs`. `NoticeOnce` (`AtMostOneNotice`) from `NoticeInv`: whoever is at a delivery holds the durable
  lock, alone; and once a call was posted, or ended without a known outcome, the lock stays claimed and nobody is at a
  delivery. Only a failure at every place hands the lock back, and it cannot follow such a call. What the theorem does not
  exclude is the echo: calls that arrived and yet failed come before, in any number, and `echoed` records them.
* `VideoLeaseProofs`. Invariant: types and three parts. `FenceInv`: the generation of a run is at most the object's, the
  object's own belongs to its owner, and to whoever may still write it under a current ETag; so `GenerationsApart`
  (`OwnGeneration`). `ResultInv`: who may write the result under a current ETag would neither replace a newer one nor
  take a complete one back; so `CoreIsStored` (`PaidIsStored`) and `ResultsAdvance` (`ResultFenced`). `PayInv`, for
  histories without a lapse: who is at work has an active lease that nobody can take over, and who goes on to pay found
  no result; so `OnePays` (`OneBiller`) and `NoSecondPayment` (`NotPaidTwice`).
* `SubmitDedupProofs`. `SlotsNeverLost` (`SlotsBalanced`) and `DedupTypes`. Invariant: types, the balance, and *course*: a
  submit that still races has an attempt left, and a job has a thread only after its submit is over; otherwise one request
  could hold two slots and one set would count them as one. `OneDocument` (`OneWorker`) from `RivalInv`: while nothing
  fails, whoever went on with the lock is named by it for as long as its job is young or at work, and a rival that would
  write holds an outdated read. *The attempt to prove it showed that the property, as first stated, was false*: a submit
  that lost all four attempts goes on without the lock (`dedup.py:133`, which says so), so five submits can make two
  workers. TLC confirms it with five requests, which the run's two could not show; `OneWorker` now exempts such a submit.
* `ParentJobProofs`. `SlotsBalance` as above. `PointInv`: who is synced is named by the stored lease, and what it holds is
  at least as far as what is stored and claims no more; whoever is about to claim has read what is stored. Hence `StepsUnderLease`
  (`NoStepAfterTakeover`), `CheckpointAdvances` (`NothingLost`) and `DoneWhole` (`DoneIsWhole`), with failed calls and
  stalled heartbeats. `WorkInv`, without faults: while an executor lives the row is not stale, so no resumer may claim;
  hence `OneExecutor` (`OneWorker`).
* `MediaJobProofs`. `RowInv` ties the status of the row to its attempt and to what janitors are about to do, `TaskInv` its
  attempt to every task and every delivery about to start one, `ObjectInv` results and leftovers to the clock. From them
  `TaskOnce`, `ResultStays`, `NothingStays` (which ends where the table's ttl begins), and `KeepsPromise`: under
  `Outcome`, every step of `MediaJob` is a step of `MediaPromise` or changes nothing that it sees. The simulation goes
  action by action; what it needs from the invariant is that only the row's own attempt can complete it and that a final
  row is never written but by deletion, the table's included.
* `PaidCallsProofs`. The gate: `UnitsNeverLost` (`UnitsBalanced`) and `QueueCounted` (`WaitingIsTrue`). Invariant: types,
  nobody twice in the queue, the balance of units, the true count. The heart is `WakeLemma`: handing units to waiters
  keeps their sum and the members of the queue, whichever waiters are chosen. The ledger: `BudgetHolds`
  (`WithinBudget`) and `NoReservationStays` (`NoPhantom`). A bill says nothing of what the rows hold, so `LedgerInv`
  assigns to each call what each row must hold for it (`Held`, `UserHeld`: the estimate until it is settled, then the bill
  of a strict call), and says that the rows cover these sums, and that those of the strict calls keep to the limits, both
  up to one estimate per repeated addition. The two need each other: a reservation is judged by the row, which other calls
  move as well. `RowsInv` is the exact version for histories without faults. The sums are folds, which the library defines
  by recursion over subsets; that the recursion has a solution and that a sum can be taken apart at any element is proved
  first (`SumByOne`, from the well-foundedness of the numbers), then that sums grow with their terms (`SumGrows`) and
  change by one term (`SumMoves`).
* `DeployApplyProofs`. Invariant `DeployInv` in four parts, proved one after the other. (1) Types. (2) `SagaInv`: whoever
  is *within* its saga (from `BeginEcs` to commit or restoration) has an open record that the pointer names. As the pointer
  names one attempt, `OneHandAtATime` (`OneHand`) follows, *whatever locks have run out*. (3) `LockInv`: as long as nobody
  outlived the two hours, whoever needs the guard's lock holds it. (4) `BaseInv`: then the plan, the baseline and the rules'
  record agree with production or with the release committed last. From these, `ProductionIsKnown`
  (`ProductionIsRelease`) and `ProductionIsCovered` (`ChangesAreCovered`, an action property).

Only model-checked are the liveness properties (`PromiseKept` and `QueueMoves` of `DetachedJobs`, `EndIsAnnounced` and
`ToldIsForgotten`, `AcceptedEnds`, `JobEnds`, `Served`, `EndsClean`): the prover has no rule for fairness and
`ENABLED`. The three violated properties have counterexamples; `JanitorRounds`
is there for one of them and is not proved about.

## Findings

1. `notice_lost`: a watcher takes a notice under way for one delivered and removes the outbox entry; when the post then
   definitely fails, nobody resumes it, although the code's comment says that definite failures are left for resumption.
2. `dedup_refused`: a duplicate of a request that was refused for lack of a slot is told that the work was accepted.
3. `janitor`: `tiktok_acquire.tf:280` says that the table's TTL is no deletion mechanism and the scheduled janitor is
   authoritative. A sweep that is refused ends the whole call before the rows behind it, on every round for as long as the
   row is kept (up to 30 days), so a row behind three such rows can be left to its ttl, which removes it a day after its
   deletion was due and leaves its objects, which no later call of the janitor finds.

Observed while modelling, without a run of their own:

* A notice can come twice. The module's title (`async_job_notify.py:1`) says that it delivers once,
  「一度ずつ届ける」, and `detached_jobs.py:492-494` treats a timeout as a call that may have arrived. Every other error counts as
  one that has not, so a post that arrived and whose answer was lost (a reset connection) is repeated in the thread, then
  as a direct message, and, when all fail, by whoever takes the lock next. `AtMostOneNotice` shows that this is the only way.
* A repeated request can be told "in progress" in the short time between a job's outcome and the release of its key
  (`detached_jobs.py:706`), and be promised a notice that was sent already.
* `_commit_unlaunched_failure` says that the task was definitely not launched (`handler.py:2484`), but a second delivery that
  resumes an attempt with too little time left (`handler.py:2583`) calls it while the task of the first delivery runs; that
  task's result is dropped. `OneTask` and `PromiseKept` show what remains true.
* The finalizer's docstring (`deployment_apply_finalizer.py:14`) says that a commit whose answer was lost is recognised from
  its receipt. `_confirm_terminal` reads the present state, so `recover` exits with "unknown" once the next attempt holds
  the lock or has begun (`openwiki/operations/release-gates-and-deploy.md:112` describes it as conclusive). The cleanup then
  restores nothing, which is why `ChangesAreCovered` holds.
* A deployment that crashes within its saga leaves an open pointer that blocks all later ones until someone repairs it.
* The janitor's sweep asks for metadata and tags that `tool_worker` never sets, so it deletes nothing (`Sweep`); only the
  final cleanup removes files.
* SIGTERM between the write of a job's done row and the job's done flag announces an interruption of work that is done
  (`detached_jobs.py:996`); the row keeps the result, and the status query finds it.
* The request gate lets a call wait for its turn before its caller claim is verified.
* The start of an actor run is repeated by the HTTP client up to three times (`apify_client.py:718`): several runs may start
  where at most one is charged.
* Locks prefer silence to a second notice (`EndIsAnnounced` exempts failed calls and deaths in between), and a failed read
  of a result counts as a miss (`NotPaidTwice` exempts that run).
* A submit that loses the deduplication lock four times goes on without it (`dedup.py:133`): with five submits of the same
  content at once, two documents can be made.
* Dead code in the dispatch function: `_ack_expired_delivery`, `_put_expired_terminal_row`, `_terminalize_expired_row`. The
  permission for the write of a deadline in `get_result` is missing (`tiktok_acquire.tf:1021`).

## Assumptions

* DynamoDB and S3 are linearizable for the consistent reads and conditional writes the code uses; the in-memory variants
  of the job table, used in development, are not modelled.
* Apart from the explicit repetitions in `CostLedger`, a call that raised has taken effect by then or never does.
* `CostLedger`: a provider bills no more than the estimate, which the code passes to it as a maximum; botocore repeats a
  call at most once in the model.
* `MediaJob`: ECS answers a client token it knows with the task it has; the row's deadline is the message's; the SQS
  visibility of 180 s and the five receives appear as deliveries that come at any time, the 30 s of the function as
  `DispatchFails`.
* `DeployApply`: nobody repairs a saga by hand, terraform dies with its host, the pointer's stage is that of the attempt it
  names, a record of the rules that was never written is a closed record of nobody. The lease may lapse without a fault
  in the cleanup, where its heartbeat is stopped. `ProductionIsRelease` and `ChangesAreCovered` are stated for histories in
  which no live attempt outlived the guard's two hours; `OneHand` for all.

## Simplifications

* `NoticeDelivery`: the text that points to files sent by direct message is not counted as a notice; only the process that
  took the request dies without warning.
* `MediaJob`: the failed status that the client tries to write when its own wait ends (`media_job.py:672-707`) is left out:
  the permission for it is missing. The staging of input objects is left out, see above.
* `VideoLease`: `CommitRead` is one step where the code reads the lease and then the result
  (`video_algorithm_cache.py:315`, `:336`).
* `SubmitDedup`: `Reusable` leaves out the branch of the 25-page edition, whose job counts as at work also when its
  heartbeat has stopped (`dedup.py:183-186`), and `Put` the repetition of a put by the client library.
* `CostLedger`: both limits are set and every call has a user. A strict call of `distill.py:221-223` has none and so no user
  row. Strict calls look at the provider's reservation only (`apify_client.py:689`); with both limits set, the user's row is
  reserved when the provider's is.
* `DeployApply`: the record of the rules is one; the code keys it by rotation epoch.

## Not modelled

Texts, layouts and file contents; the size limits of rows; progress and stalled notices (same code, locks of their own);
other jobs' entries in the outbox; slots taken by requests with another key beyond their number; the search and prefetch
pools of the 25-page job; what a paid call returns; the `check` and `record` interface of the ledger; the tools of media
tasks and the older `media/worker.py`; validation of envelopes and of task definitions; the deployment variant for a media
cutover, the rollout of OpenClaw (one of the functions here), the making of plans, the evidence checks and the rollback
drill. `PROJECT.json` gives the reason for each component that is not modelled.

## Plan

Done, in this order: `DetachedJobs`, `NoticeDelivery`, `VideoLease`, `SubmitDedup`, `ParentJob`; then `MediaJob` with
`MediaPromise`, `RequestGate`, `CostLedger` and `PaidCalls`, `DeployApply`; then the proofs, until every safety property
of a passing run was a theorem; then `JanitorRounds`.

Next, modules: the outbox row with the entries of several jobs (compare-and-set with five attempts, 250 KB); the job
row with its delivery record, which is read, changed and written back; `CallerClaim`, with the retention of a nonce longer
than the life of a token; the key ring; the video quota.
