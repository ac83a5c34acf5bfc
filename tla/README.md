# Verification of the AI agent control plane

TLA+ modules, TLC configurations and TLAPS proofs for the control plane under
`src/src/acp`: a task queue in PostgreSQL, worker processes that lease tasks from
it, a reaper that takes tasks back from workers that stop answering, and the
HTTP API in front of them.

## The system

| Part | Code | State it keeps | Operations | Talks to the others through |
|---|---|---|---|---|
| Task state machine | `domain/states.py` | none (pure) | `is_legal`, the table `ALLOWED` | every writer of `tasks.state` |
| Transition CAS | `db/queries/transitions.py` | `tasks`, `task_events` | `transition`, `record_event` | called by claim, completion, reap and cancel, in their transaction |
| Claim | `db/queries/claim.py`, `scheduling/policy.py` | `tasks`, `task_attempts`, tenant row locks | `claim_tasks`: rounds of candidates under `SKIP LOCKED`, tenant slack | called by workers, concurrently |
| Lease renewal | `db/queries/lease.py` | `tasks.lease_expires_at` | `renew_lease` | one renewal task per attempt; brings `cancel_requested` back |
| Completion | `db/queries/completion.py` | `tasks`, `task_attempts`, `task_events` | `complete_success / retry / failed / cancelled / abandoned` | worker only, fenced on owner and token |
| Reaper | `db/queries/reap.py`, `reaper/loop.py` | none of its own | expired leases, hung tasks, silent workers | writes the same rows as workers and API |
| Worker liveness | `db/queries/workers.py` | `workers` | `register_worker`, `heartbeat`, `set_worker_status`, `mark_dead_workers` | worker and reaper write the same row |
| Worker process | `worker/loop.py` | `_inflight`, `_owned`, `_fenced`, per-attempt events | claim, run, renew, finalize, heartbeat, drain | database only |
| Cancellation | `db/queries/tasks.py` | `tasks.cancel_requested` | `cancel_task`, `cancel_agent_tasks` | flag read by the renewal |
| Retry policy | `domain/errors.py`, `domain/retry.py` | none (pure) | `classify`, `decide` | `_finalize` |
| Submission, admission | `db/queries/tasks.py`, `scheduling/admission.py`, `obs/gauges.py` | `tasks`, cached depth | idempotent insert, check-then-insert | API |
| Agent registry | `db/queries/agents.py`, `api/routes/agents.py` | agents, versions, routes | create, activate, disable, resolve | API; disabling cancels tasks |
| Tool authorization | `db/queries/tools.py`, `domain/authz.py`, `agent/tools.py` | tools, grants, audit log | grant, kill switch, snapshot at claim, decide | claim takes the snapshot |
| Timing configuration | `config.py` | settings | `validate_timing` | every timeout above |

`db/models.py` is the schema, adapters (`agent/adapters`) are user code that an
attempt runs. The last section lists what is not modelled.

### What is hard here

* **Nobody knows who is alive.** A lease that ran out says nothing about its
  holder: a paused or partitioned worker may still be running the task, while the
  reaper has requeued it and somebody else has claimed it, possibly the same
  process under a new token. Correctness rests on one predicate, the fence
  `state = RUNNING AND attempt = :a AND lease_worker_id = :w`, on every write a
  worker makes.
* **Two ways to be stuck.** A dead worker stops renewing, so its lease runs out.
  A live worker with a hung adapter renews for ever, so a second clock, the
  execution-time cap, must reach it.
* **Three tables, one history.** `tasks`, `task_attempts` and `task_events` are
  written by five kinds of completions, three of recoveries and by cancellation.
* **Three budget tests** (`decide`, `reap_task`, `reap_hung_task`) and a fourth
  path, the hand-back of a draining worker, that deliberately has none.
* **Process memory beside the row**: `_owned`, the `cancelled` event and the
  renewal task outlive the lease they are about.
* **Checks in one statement, writes in the next.** The registry's requests read
  under READ COMMITTED and write later; some hold the agent's row in between, some
  do not, and the sweep of a disabling races with claims, retries and submissions.
  Admission counts and then inserts; an attempt's tool policy is three reads.
* **Two kinds of row locks in one claim.** Task rows are skipped when locked,
  tenant rows are waited for, both are kept until the claim ends, and the count
  that a tenant's lock is to protect is taken before the wait.
* **Numbers that must fit.** Leases, renewals, heartbeats and sweeps are
  independent timers; whether a healthy worker is left alone, and how soon a dead
  one is noticed, follows from inequalities between them.

The full list, each at its line, is under `hazards` in `PROJECT.json`.

## Modules

| Module | Models | Used by |
|---|---|---|
| `TaskStates` | `domain/states.py`: states, terminal states, transition graph | `TaskLifecycle` |
| `TaskStateMachine` | the abstract promise about a task row: legal transitions, one token per claim, one result, stored by the holder of the last token | refined by `TaskLifecycle` |
| `RetryPolicy` | `domain/errors.py`, `domain/retry.py`: is a failed attempt followed by another | `TaskLifecycle` |
| `TaskLifecycle` | tasks, attempts, events and workers tables; claim, renewal, completion, reaper, liveness, cancellation; the worker process with its drain, fencing, crash and database faults | |
| `AgentRegistry` | one agent's versions, default, route and pinned tasks, and the API requests that race on them | |
| `Submission` | admission control and the idempotent insert, statement by statement | |
| `TenantQueue` | `claim_tasks` with its rounds, row locks and tenant slack, statement by statement | |
| `ToolPolicy` | tools, grants, the policy an attempt is claimed with, its calls and their records | |
| `LeaseTiming` | leases, renewals, heartbeats and the reaper's sweeps against one clock | |
| `MC*` | constants and symmetry for TLC | the runs |
| `TaskLifecycleProofs`, `AgentRegistryProofs`, `SubmissionProofs`, `TenantQueueProofs`, `ToolPolicyProofs`, `LeaseTimingProofs` | theorems about the module of that name | |

A task's row appears in several modules, each time cut down to what that part of
the code can tell apart. `TaskLifecycle` is the whole life of a row, with claims and
batches as single steps and time as something that may happen at any moment;
`TenantQueue` opens up the step *claim*, `Submission` the step that creates a row,
`LeaseTiming` the moments, and `ToolPolicy` what happens inside an attempt. The other
steps of the row occur in them in reduced form (leave the queue, come back, end).

### How `TaskLifecycle` corresponds to the code

*Steps.* An action is one database transaction, with the process memory that
changes with it and without an `await` in between. The code holds no state across
transactions except in the worker's memory, which is `proc`, `phase`, `renewal`,
`cancelled` and `owned`. Claims and reaper batches commit many rows at once, so
they take a set of tasks; `SKIP LOCKED`, batch limits and the tenant's slack mean
that it may be any set of candidates.

*Time.* The code compares timestamps only inside queries, with the database's
`now()`. A query can observe three facts: the lease is past its expiry, the
backoff is over, `first_started_at + max_execution_time_s` is past. Each is a
variable that an action of its own makes true at any moment. Every clock, pause
and network delay is then an order of actions.

*Attempts.* `phase[t][a]` follows `_run_attempt_inner`: `running` (the adapter
runs and `_renew_until_stopped` beside it), `finalizing` (between `await renewal`
and the transaction of `_finalize`), `ended`. Several attempts of a task can be in
process at once, in different workers or in one. The attempt ledger
`outcome[t][a]` is `task_attempts`; `absent` is a row that does not exist, `open`
one with a NULL outcome.

*Events* are a set of (type, attempt) pairs. `STALE_WRITE_REJECTED` is written in
a second transaction of `_finalize`; nothing reads it, so it is part of the same
action, and with faults it may be missing.

*Drain.* `drain_begins` (status write), the grace period (attempts go on, the
process is still `Alive`), `drain_grace_ends` (cancel and gather),
`abandon_owned` once per entry, `drain_ends`. An attempt that is cancelled inside
`_finalize` is rolled back and pops its entry in `_owned`, as the code's `finally`
does; an attempt cancelled earlier keeps its entry.

*Faults.* With `DbFaults`, a worker's transaction may raise: a renewal that raises
ends its attempt at `await renewal` without `_finalize` and with the entry in
`_owned`; a `_finalize` that raises pops it; the drain goes on past errors. A
crash takes the process memory and leaves all rows.

*Deferred tasks.* `Init` lets a task have an `available_at` in the future, as a
submission may ask for: it is then not claimable until `BackoffElapses`.

*Worker generations.* Every process start registers a fresh id
(`worker/__main__.py`), so a restart is a worker of `Workers` that has not
registered yet.

*Left out of this module*: which candidates a claim considers and in which order,
the tenant's slack, payloads, error texts, the length of a backoff, the rounds of
a sweep, tool calls of an adapter, the reason a rejected CAS reports (`_explain`).
`WORKER_LOST` is a failure class no adapter raises but `decide` accepts, so it is
among the results an attempt may have.

### How `AgentRegistry` corresponds to the code

*Steps.* A request is one transaction, but the engine sets no isolation level, so
it runs under READ COMMITTED and every statement has a snapshot of its own. A
request is therefore split where another commit between two of its statements can
matter: `create_version` between reading the number and the INSERT,
`activate_version` between reading the version and the UPDATE, a submission
between `resolve_route` and the INSERT, a disabling before each statement of
`cancel_agent_tasks`. `pc[r]` is the statement reached, `version_id[r]` and
`expected[r]` what the request carries. Writes appear at the last step, when the
request commits.

*Locks.* `AgentRowFree` is the row lock of the agent: `create_version` takes it
with `FOR UPDATE`, `disable` with the UPDATE of its first statement,
`activate_version` with the UPDATE of its last. The foreign-key lock that the
INSERT of a task takes on its version does not conflict with an update of the
version's status, so a submission waits for nobody. The task rows that the first
statement of a sweep has written are locked until it commits (`swept`): a claim
skips them.

*Tasks.* The lifecycle is reduced to claim, requeue (retry, hand-back, recovery),
finish and cancellation. A submission's task has the name of the request.

*History.* `late` are the tasks that became QUEUED since the last sweep's first
statement, `released` the versions that were ever set ACTIVE. The status alone does
not tell: disabling an agent makes its drafts DISABLED as well.

*Left out*: creating agents, routes to other agents, admission (a refused
submission changes nothing), the idempotency key itself (a submission may find
that another has used its key and insert nothing), events of the sweep. No code
writes DEPRECATED, so the status does not occur.

### How `Submission` corresponds to the code

*Steps.* `POST /v1/tasks` is one transaction (`api/deps.py`), split at the
statements whose order with other commits matters: `admit` (the count of the
tenant's queued rows, the cached depth, `decide`), `insert_task`
(`INSERT ... ON CONFLICT DO NOTHING`), `select_existing`, `respond`, `commit_task` or
`rollback`. `answer[t]` is the statement reached and at the end what the client is
told. A retry of a client is another submission with the same key.

*A request* is its payload (without `_trace`) and its parameters: task type or
request type, priority and the like. `select_existing` compares payloads only, as the
code does; two submissions may share key and payload and differ in parameters.

*The commit* is the exit code of the dependency `db_txn`. Whether FastAPI runs it
before or after it sends the response depends on its version, which
`pyproject.toml:7` leaves open (`fastapi>=0.115`); `commits_first` is that choice.
When the response goes first a submission is `told` its 201, and if the commit then
fails the answer is `lost`.

*The insert* waits while another transaction has an uncommitted row with the same
key. When that one commits there is a conflict, when it rolls back the insert goes
through. The row and its `TASK_CREATED` event are invisible until the commit.

*The depth* is `gauges._global_queued`, which `refresh_once` sets to the number of
runnable rows: queued, without those in backoff. A row that came back (`returned`)
may be in backoff, a new one may not (a submission with a future `available_at` is
not distinguished). The tenant's own count has all queued rows.

*The pool*: a request needs one of `db_pool_size + db_max_overflow` connections
of its API process. One process is modelled, since the depth is a variable of it;
with several, the bound of `BacklogBounded` has the sum of their pools.

### How `TenantQueue` corresponds to the code

*Steps.* `FetchCandidates` is one candidate query, `read_slack` the moment the slack
statement takes its snapshot, `lock_tenant` each row lock it then gets, `grant` the
final UPDATE with the inserts that follow it and the commit. What a claim has in
local variables (`claimed_ids`, `seen_ids`, `slack`, `slack_known`) is a function of
the worker under the same name.

*Locks.* `task_lock` is set for every row a branch of the keyed query returns, even
when the merge cuts it off afterwards; such a row is not in `seen_ids` and the same
claim can lock it again in the next round. `tenant_lock` is waited for. A tenant's
row is never written, so after the wait PostgreSQL has no reason to evaluate the
statement again: the count stays the one of its snapshot. `scan` is the order in
which a statement meets the tenants' rows, the same for all. `deadlock_detected` is
what the server does with a circular wait, to either claim.

*Order.* `rank` is the place of a row in the order by `(priority, available_at, id)`;
it is any order that agrees with the priorities. A hand-back, a recovery or a retry
sets a later `available_at`, so `requeue` moves the row back, by any number of places
within its priority.

*Capabilities* are names, any text: `normalise` is the effect of `strip().lower()`,
`Need` drops blanks, and `capability_key` is `join`, the sorted names with commas in
between. Of `join` only this is assumed: it is injective on sets of names that have
no comma and are not blank. A worker's own names never have one, because its setting
is split at commas; a task's may. The keyed query compares keys, the fallback the
names as they were written. In the runs one of the two workers has more capabilities
than `MAX_KEYED_CLAIM_CAPABILITIES`.

*Submissions* appear in the queue at their commit, and wait for a claim that has
locked their tenant's row: the foreign key of the new row needs a lock on it.

*Failure.* Nothing between `claim_tasks` and `run_forever` catches an exception, so a
claim that fails ends its worker (`stopped`). What the drain then hands back is the
subject of `TaskLifecycle`.

### How `ToolPolicy` corresponds to the code

*Operators* create, disable and enable tools, grant and revoke, activate and disable
versions. A grant or a revocation reads the version's status in one statement and
writes in a later one (`checked` holds the requests in between); the row it reads is
not locked. `MaxRequests` bounds their number.

*An attempt* takes its policy in three statements (`snapshot_versions`,
`snapshot_tools`, `snapshot_grants`), each with its own snapshot. Then every call is
`call` (the decision), `on_decision` (an event), and either `invoke` and
`on_executed`, or `record_audit_independently` and the exception. A worker may die,
or a transaction fail, between any two. An adapter may catch `PermissionDenied` and
go on. Outside an attempt no policy is bound and `call_tool` raises `PermissionDenied`
before any decision or record: such a call changes nothing, and is no step here.

*History.* `window[a]` collects every fact about tools, grants and the version that
was true at some moment of the claim of `a`; `refused` and `invoked` are what the
adapter and the world have seen. The properties compare the records with these.

### How `LeaseTiming` corresponds to the code

*The clock* is the database's, in ticks. `Tick` is not possible while something that
is on time is due. A heartbeat (named by its worker) or a renewal (named by its
lease) of `late` may be any amount late. The others start at most `pause_budget`
after they are due and finish their transaction within `transaction_time`. The timer
of a late renewal stops counting where nobody looks further (`OldestTimer`), so a
renewal that hangs inside its transaction for longer compares with a later `BEGIN`
than it had. The code's would still extend the lease, to an expiry that may be past
by then; the lease is expired before and after, so the model loses a renewal that
helps nobody. `validate_timing` is the code's test at start-up and an
assumption here; `BudgetAssumption` says what punctuality has to mean for it to be
enough: `pause_budget + 2 * transaction_time <= 2 * lease_renew_interval_s + 1` (the
end of the transaction that granted the lease, and the whole one that renews it),
and `pause_budget + transaction_time <= heartbeat_interval_s + 1`. With the defaults
(30, 7, 5, 15 seconds) that is 15 and 6 seconds.

*now()* is the time of `BEGIN` in PostgreSQL: a lease granted or renewed by a
transaction of length `d` is worth `lease_ttl_s - d` when it commits, a renewal
compares the expiry with the time it began, and a heartbeat writes that time. The
reaper's tests use it too: `rtimer` is how long ago its transaction began, a lease is
`Overdue` if it had expired by then, and a worker is `Silent` if it had been silent
for long enough by then. What happens inside the transaction is left to the next.

*Leases.* A worker executes up to `capacity` attempts, each with a lease and a renewal
task of its own. `Leases` are the leases there may be at a time; `lease_owner` says
whose they are. A worker may have more leases than attempts: an attempt that ends in an
exception (`attempt_raises`: `await renewal` raises what the renewal raised, or
`_finalize` does) frees its slot and leaves its lease to run out while the worker
claims more.

*The reaper* runs its passes in the code's order. `batch_size` and
`max_batches_per_sweep` bound a pass. Each batch is a transaction, takes the oldest
expiry first, and skips rows that somebody has locked (`SKIP LOCKED`); `MaxSkips`
bounds how often a batch finds a lease's row locked, and `skipped` counts it. Any
attempt may be found hung. The reaper itself is on time: it is the process whose
latency the bounds are about. That it dies and is started again is not modelled.

*Drain.* `drain_begins` writes the status, if it can, and ends claims and heartbeats
while the attempts go on; `drain_ends` cancels what is left, hands back any part of
the leases and writes DEAD, if it can. How long the grace period is makes no
difference to the properties, so it may be any time.

*Generations.* A place of `Workers` stands for one worker generation after the other:
`register_worker` needs the previous one to be settled.

## Runs

| Run | Instance | Question |
|---|---|---|
| `lifecycle_safety` | 1 task, 2 workers, budget 2, 3 claims, capacity 2, database faults; 459 120 states up to symmetry of workers | is the committed history consistent, is a stale worker harmless, does the lifecycle implement the state machine |
| `lifecycle_recovery` | 1 task, 2 workers, budget 2, 3 claims, capacity 1, fairness; 166 524 states | does every attempt end and every task settle, after retries, recoveries and hand-backs |
| `registry_safety` | 1 agent, 6 requests, 2 versions; 35 430 states up to symmetry of requests | do version numbers collide, can an unreleased version run, what does the sweep of a disabling miss |
| `submission` | 5 submissions of a tenant, 4 with one key, of these 1 with another payload and 1 with other parameters, response before commit, pool of 2, quota 1, threshold 2, fairness; 70 272 states | is a key used once, are answers true, how far is the quota overshot, does waiting and shedding end |
| `tenant_claims` | 4 tasks of 3 priorities, 2 tenants, 2 workers (one keyed, one on the fallback query), names with capitals, blanks and a comma, fairness; 124 976 states | are claimed rows held, what is left of the tenant's limit, is the merge the filter, does every claim end |
| `tool_policy` | 3 tools of 2 tenants, 1 version, 1 attempt, 4 requests; 934 614 states | what can an attempt reach, is every refusal recorded, with a true reason |
| `lease_timing` | 1 worker with capacity 2, 2 leases, the renewal of one of them late; ttl 4, renewal 1, heartbeat 1, dead after 3, period 1, batches of 1, 1 batch per pass, a row locked once, pauses 1, transactions 1; 1 395 297 states | does punctual work keep lease and life, how late are expiry and silence noticed |
| `v_cancel_unrequested`, `v_reaper_cancel`, `v_owned_map` | 1 task, 2 workers, 2 claims | statements of the repository about the lifecycle that the code does not keep |
| `v_reactivated` | 5 requests, 1 version | one about the registry |
| `v_claim_deadlock` | as `tenant_claims`, without fairness | one about claims |

### What the properties say

* `LedgerAgrees`: `task_attempts` and `tasks` agree. An attempt is open exactly
  while its task is RUNNING under its token; a SUCCEEDED attempt exists exactly
  when the task succeeded, and it is the last one.
* `ResultIsTheOwners`: the stored result is that of the last token handed out.
* `OwnerHoldsTheToken`: a lease exists exactly while RUNNING, and its holder is the
  worker to whom the current token was given; whatever executes, stale or not, was
  given its token by a claim and does so in a process that has not left. A worker
  that was declared DEAD and fences itself leaves nothing running behind.
* `BudgetOnlyExceededByAbandon`: no retry and no recovery exceeds `max_attempts`.
  Hand-backs may (`complete_abandoned` has no budget test).
* `LogReplaysToState`: replaying `task_events` gives `tasks.state`; a task ends
  once.
* `HandedBackMeansStopped`: a task is handed back only after its attempt stopped
  in the process that held it.
* `StaleFinishIsHarmless`: a finish that comes late changes neither the row nor
  the ledger, even when the same worker holds the task again.
* `ExpiredLeaseStaysLost`: nothing makes an expired lease live again.
* `ImplementsStateMachine`: refinement of `TaskStateMachine`; the mapping is the
  identity on the four variables of the row.
* `EveryAttemptEnds`: no attempt holds its task for ever.
* `EveryTaskSettles`: with a worker that stays up and adapters that return, every
  task reaches a terminal state.
* `AllocatedNumberIsFree`: a version number read under the agent's lock is still
  free when its version is inserted (RACE 1 of `agents.py`).
* `OnlyReleasedVersionsRun`: neither the default nor a task ever names a version
  that was never set ACTIVE, although resolution and activation read it unlocked and
  a disabling turns drafts into DISABLED versions. It does not say that a task never
  names a version that *is* disabled: see the remarks below.
* `SweepMissesOnlyLatecomers`: when a disabling commits, every live task without
  the flag was inserted or requeued after the sweep's first statement. In
  particular a claim between the two statements hides nothing, because QUEUED rows
  are swept before RUNNING ones. The exception is real: a task that is requeued
  between the two statements is missed by both and runs on under a disabled agent.
* `OneTaskPerKey`: however submissions with one key overlap, commit and roll back,
  there is one task.
* `AnswersAreTrue`: 201 means that the row is there, unless FastAPI responded first
  and the commit failed; 200 that a task with the key and the payload exists, which
  need not have the parameters of this request; 409 that another payload holds the
  key, and never that of the very same request. The code's "insert conflicted but no
  row is visible" never happens, since nothing deletes tasks.
* `BacklogBounded`: a tenant's queue, submissions under way included and rows that
  came back excluded, exceeds `max_queued_tasks` by less than the pool.
* `EverySubmissionIsAnswered`: no submission waits for ever for the other inserter.
* `SheddingEnds`: if the queue stays below the threshold, so does the cached depth.
* `ClaimedRowsAreHeld`: until the UPDATE by id, every chosen row is still QUEUED and
  locked by its claim.
* `WorkerWithinTenantCap`: no worker by itself runs more of a tenant than the
  tenant's limit. All workers together may: the count is taken before the lock.
* `MergeIsTheFilter`: the keyed merge returns exactly the first rows of the ordered,
  filtered scan that it replaced, and with them only tasks whose key collides with
  one of the worker's, which takes a comma in a required name; the fallback takes
  nothing that the worker does not satisfy.
* `EveryClaimEnds`: in a commit or an abort, under any order of locks and any crash.
* `ReachIsBoundedByClaim`: a tool that is called was at some moment of the claim
  enabled, at some moment granted, and the version at some moment not disabled. The
  moments may differ: the policy is not one snapshot.
* `DenialsAreAudited`: whoever saw `PermissionDenied` is in the audit log, and
  whoever is in the audit log is on the task's timeline.
* `CallsAreOnTheTimeline`: no tool is called without its ALLOWED event.
* `DenialReasonIsTrue`: the reason in the audit log was true during the claim.
* `NoNeedlessExpiry`, `LiveWorkerNotMarkedDead`: a lease that is renewed on time does
  not run out, and a worker that beats on time is not declared dead.
* `RecoveryIsTimely`: an expired lease is reclaimed within
  `(Sweeps + skipped) * Cycle + transaction_time`. `Cycle` is the period and the
  longest sweep, `Sweeps` how many it takes to work off all leases there may be,
  `skipped` the batches that found this lease's row locked; the last term is the
  transaction that had begun when the lease expired.
* `SilenceIsNoticed`: a silent worker does not stay ALIVE for longer than
  `worker_dead_after_s + Cycle + transaction_time`. Both bounds are tight: in the
  run TLC reaches equality.

### Bounds

`MaxClaims` bounds the claims of a task; in the code only hand-backs make it
unbounded, and every hand-back ends a worker generation. A claim past the budget
follows a hand-back, so with a budget of `b` and `n` workers a task is claimed at most
`b + n - 1` times: three times in both runs, which have a budget of two. With
`MaxClaims = 3` the bound never stops a claim that could happen. Database faults are
in `lifecycle_safety` only: what a worker's failed transaction leaves behind, a
RUNNING row that nobody finalizes, `lifecycle_recovery` has from crashes. Two workers
are enough for every race in the list: each race is between one attempt and one other
owner (the other worker, or the same one under a later token), with the reaper and the
API as actors of their own. Three claims with a budget of two give a retry, a
recovery, a claim past the budget after a hand-back, and a stale attempt beside a live
one in one process. One task suffices for the model checking because only capacity and
the batch quantifiers connect tasks; that batches of several tasks keep the invariants
is covered by the proofs, which hold for every set `Tasks`. The same goes for the
other modules: every safety property below is also a theorem for all values of the
constants, so the bounds matter for liveness only.

In `AgentRegistry` a request is used once. Six requests are the four it takes to
have a task (create, activate, route, submit), one disabling, and one more of any
kind to race with them: a second creation, activation, submission or disabling.
Two versions let an activation replace another. The proofs hold for any number of
either.

In `Submission` four submissions compete for one key (a winner, a retry, one with
other parameters, and a misuse with another payload) and one has no key. The run has
the order in which the response comes before the commit, which has all the answers of
the other and `lost`. A pool of two with a quota of one lets the quota be overshot, a
threshold of two lets both refusals happen. In `TenantQueue` two tenants and two
workers are the least for a circular wait; four tasks let a claim of two meet the
second tenant in a later round; limits of one make slack run out in the middle of a
round; three priorities let one row of each tenant compete with the other's and fall
behind it. In `ToolPolicy` attempts share nothing but the registry, which they only
read, so one is enough; three tools are two of one tenant, one of which is created on
the way, and a namesake of another tenant; four requests are a grant, an activation
and two changes during the claim. In `LeaseTiming` every interval is the least that
`validate_timing` accepts, where its inequalities are tight, and the reaper takes one
lease per sweep, so that of two leases that run out together one waits for the next
sweep, or longer when a row is locked. The worker's heartbeat is on time as long as it
lives, so it falls silent by a crash or a drain; late heartbeats, and more workers,
are covered by the proofs.

Deadlock is not checked: when every worker has stopped or crashed and every task
is terminal, the system rests; so do the registry, submissions, claims and tool
calls when their inputs are used up. In `lease_timing` it is checked: there time
never stops.

### Fairness

`ClockFairness`: time passes. A lease somebody renews need not run out, one that
nobody renews does. `ReaperFairness`: the reaper's loop sweeps for ever and takes
the oldest candidates first (`ORDER BY` in both `find_*` queries), so a task that
stays a candidate is taken. Nothing is assumed of workers or adapters in
`EveryAttemptEnds`. `EveryTaskSettles` names its further premises in the formula:
some worker never stops (`<>[](proc = "running")`), its adapters return and their
attempts are finalized (weak fairness), and a task that is runnable over and over
is claimed by it at last (strong fairness: the worker's capacity may be taken by
another attempt at some polls, and the claim query takes the oldest first).

In `Submission` the statements of an open transaction return and the refresher,
which swallows its errors, fires again and again (weak fairness); nothing is assumed
of clients and workers. In `TenantQueue` a worker's statements return (weak
fairness), a row lock is handed on in turn, so that a claim which could have it
again and again gets it (strong fairness), and the server breaks circular waits
(weak fairness of the detection, not of the choice of its victim). Nothing is
assumed of new claims, completions or crashes. The other modules have safety
properties only; in `LeaseTiming` urgency takes the place of fairness.

### Findings

The violation runs, in short; the quotations are in `PROJECT.json`.

1. `v_cancel_unrequested`: a renewal that comes after the expiry but before the
   reaper sets `cancelled`, and `complete_cancelled` is not fenced on the expiry.
   A task nobody cancelled ends CANCELLED, and a finished result is thrown away.
2. `v_reaper_cancel`: the reaper does not look at `cancel_requested`; a task whose
   cancellation was accepted is requeued, or FAILED.
3. `v_owned_map`: `_owned` is keyed by task; a late attempt removes the entry of
   the attempt that the same worker holds now, and a drain will not hand it back.
4. `v_reactivated`: an activation checks a version it has not locked, waits behind
   a disabling and writes ACTIVE over DISABLED.
5. `v_claim_deadlock`: tenant rows are locked in the order in which rounds meet the
   tenants; two claims can wait for each other, and the one PostgreSQL aborts takes
   its worker down.

None of the first three breaks the safety properties above: a lease runs out and the
fence holds in each.

Smaller disagreements between code and comments, met while modelling and kept as
remarks (the models follow the code):

* `first_started_at` is that of the first attempt (`claim.py:250`), so the
  execution-time cap is per task, not per attempt as `transitions.py:112` says.
* `set_worker_status` (`workers.py:83`) can turn DEAD into DRAINING, although
  `workers.py:57` calls death one-way.
* `set_worker_status` does not look at the heartbeat either: a late worker that was
  declared DEAD and then drains is DRAINING with an old heartbeat until the next
  worker pass. `SilenceIsNoticed` is therefore about ALIVE.
* Route resolution and INSERT of a submission have two snapshots, not one as
  `agents.py:320` says; a task can be pinned to a version disabled in between.
* `tasks.py:137` calls it "a lie with side effects" to answer a reused key with
  "different parameters" with a 200. The test above it compares the payload only, so
  another task type, priority or request type with the same payload gets that 200.
* `api/deps.py` opens the transaction in a dependency with `yield` and commits when
  it is left. With a FastAPI that sends the response first, a 201 can be followed by a
  commit that fails.
* `capability_key` joins names with commas and nothing refuses a comma in a name: a
  task that requires the one capability `a,b` has the key of a task that requires `a`
  and `b`, and a worker that claims by key and has `a` and `b` takes it.
  `domain/agents.py:82` calls the value "an equality key that groups tasks with
  identical requirements". The fallback query does not take it.
* The comment at `claim.py:202` says that the tenant's lock makes the second claim's
  count reflect the first; the count is from before the wait. The repository's
  README calls the limit soft, and `WorkerWithinTenantCap` is what is kept.
* `routes/tools.py:176` lets grants change "only while it is still DRAFT"; the test
  refuses ACTIVE only, so a DISABLED version's grants can change, and a grant can
  commit after an activation that overtook it.
* The fallback query compares `required_capabilities` as written, so a task
  that requires `GPU` is invisible to a worker with many capabilities, whatever
  `claim.py:149` ("correct for any input") and `config.py:83` say. It errs on the
  safe side, which is what `MergeIsTheFilter` states of it.
* Recovery latency is given as `lease_ttl_s + reaper_period_s` (`config.py:31`,
  `reaper/loop.py:5`); `RecoveryIsTimely` adds the length of a sweep, the sweeps that
  bounded batches may need, the transaction under way and the rows found locked.
* `config.py:97` speaks of surviving a single dropped renewal. A renewal that raises
  ends the renewal task, so the lease does run out; only a late one is survived.
* A retry with an idempotency key is refused with 429 or 503 when the queue is full,
  though its task exists: admission comes before the key is looked at.

## Proofs

Every safety invariant and every action property that a run checks is also proved,
for every value of the constants that the module's assumptions allow. The theorems
are about `Spec`; where a run has a specification with fairness, that is `Spec` and
more. In each module the properties are conjuncts, or consequences, of one inductive
invariant that is proved step by step, one case per action.

### `TaskLifecycleProofs`

For every set of tasks and workers, every budget, capacity and bound on claims, with
and without faults, from `ConstantsAssumption`:

* `TypeCorrect`;
* `LedgerCorrect`, `ResultCorrect`, `BudgetCorrect`: the committed history;
* `OwnerCorrect`: who holds a lease and who executes;
* `HandBackCorrect`, `LogCorrect`: hand-backs and the event log;
* `ExpiredLeaseCorrect`, `StaleFinishCorrect`: the two action properties;
* `Refinement`: `Spec => ImplementsStateMachine`.

The inductive invariant is `TypeOK /\ Safety`, where `Safety` is the conjunction
of the four properties of the committed history (`LeaseFollowsToken` is the part of
`OwnerHoldsTheToken` that is about the row). None of them is inductive alone. That a fenced
write closes the one open attempt needs `LedgerAgrees` (an open attempt is the
current one); that a claim opens a row that did not exist needs its `absent` part;
that `complete_success` stores the result of the last token needs
`LeaseFollowsToken`; that a requeue past the budget is a hand-back needs the
ledger's outcome of the current attempt. The argument follows the code's own
structure: every way an attempt ends goes through `EndAttempts`, so one lemma
(`EndAttemptsSafe`) says when ending a set of current attempts keeps `Safety`, and
one lemma per caller (`FinalizeSafe`, `AbandonSafe`, `ReapSafe`) shows that the
caller's guard establishes its premise. `ClaimSafe`, `CancelSafe` and `LeaseSafe`
do the other writers, and `FrameSafe` everything that only touches process memory.
The refinement reuses the invariant: `EndAttemptsMoves` maps an ended attempt to
one `Moved` step of each row of the batch.

Three properties need more, relative to `Safety`. `HandedBackMeansStopped` and the
part of `OwnerHoldsTheToken` about processes rest on `StoppedInv`: whatever executes
has a live process, every token was given to some worker, and a worker with a
hand-back to its name is past its grace period, where nothing of it executes any more.
`LogReplaysToState` rests on `LogInv`, which says exactly what the log of a row in
state `s` with token `n` holds: a claim for each token up to `n` and no other, a
closing event for each earlier token (and for the current one when the row is QUEUED),
and the one final event exactly when `s` is terminal. It is stated of a log, a state
and a token (`LogOf`), so that each way of moving a row is one lemma about adding an
event.

### `AgentRegistryProofs`

For any number of requests and versions and from `RegistryAssumption` alone:
`RegistryTypeCorrect`, `AllocationCorrect`, `ReleasedCorrect` and `SweepCorrect`.
Their inductive invariant, `RegistryInv`, adds to the properties what makes the
unlocked reads harmless: one request holds the agent's row at a time (`OneHolder`),
what a request has read of a version stays true when it is overtaken
(`ReadVersionsStay`, from the lemma `VersionsAdvance`: a version never disappears and
a release is never withdrawn), the record of releases is right (`ReleasesRecorded`:
what is ACTIVE was released, what was released is ACTIVE or DISABLED, so a route that
is checked against ACTIVE leads to a released version), a sweep's locked rows stay
QUEUED (`SweptStayQueued`), and while it runs every QUEUED task is locked by it or
late (`SweepSeesQueued`). The last step is short: a live task without the flag is not
RUNNING, or the second statement would have flagged it, so it is QUEUED and not swept,
so it is late.

### `SubmissionProofs`

For any finite number of submissions, any keys, payloads, quotas, threshold and pool
(`SubmissionAssumption`): `SubmissionTypeCorrect`, `KeysAreUnique`,
`SubmittersAreToldTheTruth`, `BacklogIsBounded`.

`OneTaskPerKey` speaks of committed rows, but an insert waits for uncommitted ones:
`KeyInv` says that of all submissions with a key at most one *holds* it, committed or
not, a submission that was told its 201 before the commit included, and that whoever
met a conflict met a row that is committed and, since nothing deletes rows
(`RowsStay`), will be there for the SELECT. Since the key has one row, the row that
made the SELECT answer "another payload" is the only one, so the very same request is
never told so. The theorems hold for both orders of commit and response. `BacklogBounded` is
inductive with the types: a submission is admitted below the quota, so what is
queued and under way exceeds it only by what the pool lets be under way at once; the
counting is done with the library's theorems about finite sets (`Counting`,
`NothingNew`).

### `TenantQueueProofs`

For any finite sets of tasks and workers, any tenants, limits, ranks and
capabilities (`QueueAssumption`): `QueueTypeCorrect`, `GrantsAreExclusive`,
`TenantCapHoldsPerWorker`, `KeyedMergeIsTheScan`.

`ClaimedRowsAreHeld` needs the same of the batch of the round (`HeldInv`) and that a
worker between two claims has nothing left of the last (`RoundInv`). The tenant's
limit needs `SlackInv`: the slack a claim remembers, what it has claimed of the
tenant, and what its worker runs of it, are together within the limit. The slack is a
number from an earlier moment, but since then only this worker could have started a
task on this worker, and it is busy with this claim; that is why the limit holds per
worker and not in all. `MergeIsTheFilter` is about definitions and the order of the
rows. `KeysTell` is where commas come in: the key of a task is one of the worker's
exactly if the worker satisfies the task or a comma in a required name makes the keys
collide, from what is assumed of `join`. The rest of its proof needs that a finite set
of rows has a last one by rank (`LastTask`), which is got without induction over data:
`LeastNumber` takes the least element of a set of numbers from the library's
well-foundedness of `<` on `Nat`.

### `ToolPolicyProofs`

For any attempts, tools, versions, tenants and requests (`ToolPolicyAssumption`):
`ToolPolicyTypeCorrect`, `ReachIsBounded`, `DenialsLeaveARecord`,
`CallsLeaveARecord`, `DenialReasonsAreTrue`.

The invariant has a part per attempt (`AttemptInv`) and one about the records
(`RecordsInv`). An attempt's part says that its window contains what is true now
while it claims, that each of the three frozen parts of its policy was true at some
moment of the window, and that its current decision is what `authorize` says of that
policy. The lemmas `AllowedReach` and `DeniedReason` then turn a decision into facts
of the window, once for every branch of `authorize`. A grant that is checked in one
statement and written in another stays within its tenant (`GrantsWithinTenant`),
which is what keeps a namesake of another tenant out of reach.

### `LeaseTimingProofs`

For any workers, any finite set of leases with any owners, any of their heartbeats
and renewals late, any configuration that `validate_timing` accepts, any capacity,
period, batch size, number of batches and number of skips, and any lateness and length
of transactions within `BudgetAssumption`: `TimingTypeCorrect`,
`LeasesOutliveRenewals`, `LiveWorkersStayAlive`, `SilenceIsNoticedInTime`,
`RecoveryInTime`.

`IInv` is `TypeOK` and four budgets. `LeaseBudget` relates what is left of a lease to
how far its renewal has come: while waiting,
`lease_left >= lease_ttl_s - transaction_time - timer`, and a full interval with its
lateness less during the transaction. `LiveBudget` bounds the age of the last
heartbeat by the heartbeat's due time. `ReaperOnTime` and `Elapsed`, the most time that
can have passed since the last worker pass given where the reaper is, make
`SilenceBudget` inductive: whoever is ALIVE has been silent for at most
`worker_dead_after_s + transaction_time + Elapsed`, where the transaction is that of
the last worker pass, which measured at its `BEGIN`.

Recovery needs a place in a queue. `Older(l)` are the leases that a batch may take
before `l`. `RecoveryBudget` says that every expired lease has numbers `x`, `a`, `c`
(`InTime`) such that fewer than `x + 1` batches of leases are older, so that its batch
is at the latest number `c` of the sweep after `a` more sweeps, and that batch ends in
time if everything takes as long as it may. A batch that began before the lease
expired does not see it (`Seen`), and counts as gone (`Pos`). No step makes this worse:
a claim or renewal gives a lease that is good for now, so nobody gets in front
(`PlaceIsKept`, `WorkerLeaves`, `AttemptLeaves`). A batch that sees `l` and passes it
over either found its row locked, which adds a cycle to the bound
(`SkippedRecovery`), or was full and took `batch_size` older leases (`FullBatch`), so
`x` falls by one as the batch goes by (`SeenRecovery`). After a batch that did not see
`l` the next one does, in this sweep or in the next (`UnseenRecovery`). The end of a
sweep lowers `a` (`SweepRecovery`); and a lease that expires at this moment has room
even with everybody else's before it (`ExpiryInTime`, where `Sweeps` comes from).

A first attempt to prove `NoNeedlessExpiry` failed, and rightly: an earlier budget
did not count the end of the transaction that granted a lease, and the model wrote
the heartbeat's commit time where the code writes `now()`. Both were corrected in
`LeaseTiming`.

### Only model-checked

The liveness properties `EveryAttemptEnds`, `EveryTaskSettles`,
`EverySubmissionIsAnswered`, `SheddingEnds` and `EveryClaimEnds`: liveness under
fairness is beyond this prover.

## Plan

Left for later: the step of a claim in `TenantQueue` as a refinement of an abstract
claim; action properties of `AgentRegistry` and `ToolPolicy` (what a disabling may
never undo) with their proofs.

## Not modelled

* Metrics, logs, spans and probes (`obs/`, `api/routes/metrics.py`, `health.py`):
  they report state and keep none that the control plane reads, except the cached
  depth, which is in `Submission`.
* Reading and listing endpoints, request parsing, error mapping, creating tenants
  and agents, process start-up: no shared state, or a single INSERT.
* Length and jitter of a backoff (`domain/retry.py`): a real-valued random delay;
  the models let a backoff end at any time.
* Indexes, except the unique one on idempotency keys; retention and triggers.
* Audit records of operators' requests: each is written in the transaction of the
  change it describes.
* Adapters and tools themselves: user code, which returns, raises or hangs.
* `scripts/` and `load/`: drivers of the system, not parts of it.
