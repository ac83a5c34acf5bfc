---------------------------- MODULE TenantQueue -----------------------------
(***************************************************************************)
(* The workers' end of the queue: claim_tasks of db/queries/claim.py,      *)
(* statement by statement, with the row locks it takes.  Submission has    *)
(* the other end; here a task just becomes visible.                        *)
(*                                                                         *)
(* A claim is one transaction of rounds: lock candidates FOR UPDATE SKIP   *)
(* LOCKED, read the slack of the tenants it has not met yet and lock their *)
(* rows, spend the slack, and at the end grant the leases.  The slack is a *)
(* count in the snapshot of the statement that then waits for the tenants' *)
(* row locks.  All locks last until the transaction ends.                  *)
(***************************************************************************)
EXTENDS Integers, FiniteSets

CONSTANTS
  Tasks,
  Tenants,
  tenant_id,
  Workers,
  NoWorker,              \* nobody: no lease, or no lock
  max_concurrent_tasks,  \* tenants.max_concurrent_tasks
  priority,              \* tasks.priority
  scan,                  \* the order in which a statement locks tenant rows
  Capabilities,          \* capabilities as they are written, any text
  Blank,                 \* the empty name
  with_comma,            \* the names that have a comma in them
  normalise,             \* c.strip().lower()
  join,                  \* ",".join(sorted(names))
  required_capabilities, \* tasks.required_capabilities, as they were written
  worker_capabilities,   \* Settings.capabilities(): split at commas, normalised
  MAX_KEYED_CLAIM_CAPABILITIES,
  claim_batch_size,
  MAX_ROUNDS

ASSUME QueueAssumption ==
  /\ IsFiniteSet(Tasks)
  /\ IsFiniteSet(Workers)
  /\ tenant_id \in [Tasks -> Tenants]
  /\ NoWorker \notin Workers
  /\ max_concurrent_tasks \in [Tenants -> Nat \ {0}]
  /\ priority \in [Tasks -> Nat]
  /\ scan \in [Tenants -> Nat]
  /\ \A m, n \in Tenants : scan[m] = scan[n] => m = n
  /\ normalise \in [Capabilities -> Capabilities]
  /\ \A c \in Capabilities : normalise[normalise[c]] = normalise[c]
  /\ required_capabilities \in [Tasks -> SUBSET Capabilities]
  /\ worker_capabilities \in [Workers -> SUBSET (Capabilities \ {Blank})]
  /\ \A w \in Workers : \A c \in worker_capabilities[w] :
       normalise[c] = c /\ c \notin with_comma
  /\ \A S, T \in SUBSET (Capabilities \ ({Blank} \cup with_comma)) :
       join[S] = join[T] => S = T
  /\ MAX_KEYED_CLAIM_CAPABILITIES \in Nat
  /\ claim_batch_size \in Nat \ {0}
  /\ MAX_ROUNDS \in Nat \ {0}

\* The orders of the tasks by (priority, available_at, id), as numbers.
PolicyOrders ==
  {r \in [Tasks -> 1 .. Cardinality(Tasks)] : \A t, u \in Tasks :
     /\ r[t] = r[u] => t = u
     /\ priority[t] < priority[u] => r[t] < r[u]}

VARIABLES
  state,            \* tasks.state; "absent": no row yet, "OVER": terminal
  rank,             \* the place of a row in the order of the policy
  lease_worker_id,  \* tasks.lease_worker_id
  task_lock,        \* the claim that holds the row lock of a queued task
  tenant_lock,      \* the claim that holds the row lock of a tenant
  pc,               \* the statement a worker's claim has reached
  limit,            \* tasks its claim may take
  round,            \* rounds its claim has begun
  batch,            \* candidates of this round
  seen_ids,
  claimed_ids,
  slack,
  slack_known

local_vars == <<limit, round, batch, seen_ids, claimed_ids, slack, slack_known>>
row_vars == <<state, rank, lease_worker_id>>
lock_vars == <<task_lock, tenant_lock>>
vars == <<row_vars, lock_vars, pc, local_vars>>

TypeOK ==
  /\ state \in [Tasks -> {"absent", "QUEUED", "RUNNING", "OVER"}]
  /\ rank \in PolicyOrders
  /\ lease_worker_id \in [Tasks -> Workers \cup {NoWorker}]
  /\ task_lock \in [Tasks -> Workers \cup {NoWorker}]
  /\ tenant_lock \in [Tenants -> Workers \cup {NoWorker}]
  /\ pc \in [Workers -> {"idle", "fetch", "slack", "lock", "grant",
                         "stopped"}]
  /\ limit \in [Workers -> 0 .. claim_batch_size]
  /\ round \in [Workers -> 0 .. MAX_ROUNDS]
  /\ batch \in [Workers -> SUBSET Tasks]
  /\ seen_ids \in [Workers -> SUBSET Tasks]
  /\ claimed_ids \in [Workers -> SUBSET Tasks]
  /\ slack \in [Workers -> [Tenants -> Int]]
  /\ slack_known \in [Workers -> SUBSET Tenants]

Init ==
  /\ state = [t \in Tasks |-> "absent"]
  /\ rank \in PolicyOrders
  /\ lease_worker_id = [t \in Tasks |-> NoWorker]
  /\ task_lock = [t \in Tasks |-> NoWorker]
  /\ tenant_lock = [n \in Tenants |-> NoWorker]
  /\ pc = [w \in Workers |-> "idle"]
  /\ limit = [w \in Workers |-> 0]
  /\ round = [w \in Workers |-> 0]
  /\ batch = [w \in Workers |-> {}]
  /\ seen_ids = [w \in Workers |-> {}]
  /\ claimed_ids = [w \in Workers |-> {}]
  /\ slack = [w \in Workers |-> [n \in Tenants |-> 0]]
  /\ slack_known = [w \in Workers |-> {}]

-----------------------------------------------------------------------------
(* Candidates.                                                             *)

\* ORDER BY priority, available_at, id LIMIT n.
FirstOf(S, n) ==
  {t \in S : Cardinality({u \in S : rank[u] < rank[t]}) < n}

\* A candidate query without SKIP LOCKED and without waiting either.
LockableIgnoringLocks(w) ==
  {t \in Tasks : state[t] = "QUEUED" /\ t \notin seen_ids[w]}

\* What a claim's SELECT may lock: queued rows nobody else has locked.
Lockable(w) ==
  {t \in Tasks : /\ state[t] = "QUEUED"
                 /\ task_lock[t] \in {NoWorker, w}
                 /\ t \notin seen_ids[w]}

\* What a task requires: names normalised, blanks dropped.
Need(t) == {normalise[c] : c \in required_capabilities[t]} \ {Blank}

\* The text that is stored with the task and compared by the keyed query.
capability_key(t) == join[Need(t)]

worker_satisfies(w, t) == Need(t) \subseteq worker_capabilities[w]

\* Only the key of all the worker's capabilities and that of none.
keys_of_whole_set(w) == {join[{}], join[worker_capabilities[w]]}

\* The keys a worker can satisfy: one for every subset of its capabilities.
satisfiable_capability_keys(w) ==
  {join[S] : S \in SUBSET worker_capabilities[w]}

\* The keyed query: per key a branch that is ordered, limited and locked.
KeyedCandidates(w, need) ==
  LET rows == Lockable(w)
  IN  UNION {FirstOf({t \in rows : capability_key(t) = key}, need) :
               key \in satisfiable_capability_keys(w)}

\* The fallback compares what the task's author wrote.
FilteredCandidates(w, need) ==
  FirstOf({t \in Lockable(w) :
             required_capabilities[t] \subseteq worker_capabilities[w]}, need)

Candidates(w, need) ==
  IF Cardinality(worker_capabilities[w]) <= MAX_KEYED_CLAIM_CAPABILITIES
    THEN KeyedCandidates(w, need) ELSE FilteredCandidates(w, need)

-----------------------------------------------------------------------------
(* claim_tasks.                                                            *)

running(n) ==
  Cardinality({t \in Tasks : tenant_id[t] = n /\ state[t] = "RUNNING"})

\* A tenant's whole allowance, whatever it has running.
slack_without_running(n) == max_concurrent_tasks[n]
current_slack(n) == max_concurrent_tasks[n] - running(n)

\* The rows that their tenant's slack is enough for, in policy order.
kept(rows, room) ==
  {t \in rows :
     LET Ahead == {u \in rows : /\ tenant_id[u] = tenant_id[t]
                                /\ rank[u] < rank[t]}
     IN  Cardinality(Ahead) < room[tenant_id[t]]}

\* for _ in range(MAX_ROUNDS)
OneRoundMore(n) == n > MAX_ROUNDS
LastRound(n) == n = MAX_ROUNDS

\* The end of a round: slack is spent row by row, and the next round begins
\* unless the limit or MAX_ROUNDS is reached.
SpendSlack(w, rows) ==
  LET taken == kept(rows, slack[w]) IN
  /\ claimed_ids' = [claimed_ids EXCEPT ![w] = @ \cup taken]
  /\ slack' = [slack EXCEPT ![w] = [n \in Tenants |->
       slack[w][n] - Cardinality({t \in taken : tenant_id[t] = n})]]
  /\ batch' = [batch EXCEPT ![w] = {}]
  /\ pc' = [pc EXCEPT ![w] =
       IF \/ Cardinality(claimed_ids[w] \cup taken) >= limit'[w]
          \/ LastRound(round'[w])
         THEN "grant" ELSE "fetch"]

\* The query is repeated until there is a row, and not counted.
poll_again(w) ==
  /\ pc' = [pc EXCEPT ![w] = "fetch"]
  /\ UNCHANGED <<row_vars, lock_vars, round, batch, seen_ids, claimed_ids,
                 slack, slack_known>>

\* if not batch: break
no_candidates(w) ==
  /\ pc' = [pc EXCEPT ![w] = "grant"]
  /\ round' = [round EXCEPT ![w] = @ + 1]
  /\ batch' = [batch EXCEPT ![w] = {}]
  /\ UNCHANGED <<row_vars, lock_vars, seen_ids, claimed_ids, slack, slack_known>>

\* The candidate query of a round.  Rows that a branch locked and the merge
\* cut off stay locked, unseen.  Without a new tenant there is no slack
\* statement.
FetchCandidates(w) ==
  LET need   == limit'[w] - Cardinality(claimed_ids[w])
      locked == Candidates(w, need)
      rows   == FirstOf(locked, need)
  IN  \/ rows = {} /\ no_candidates(w)
      \/ /\ rows # {}
         /\ task_lock' = [t \in Tasks |->
                            IF t \in locked THEN w ELSE task_lock[t]]
         /\ seen_ids' = [seen_ids EXCEPT ![w] = @ \cup rows]
         /\ round' = [round EXCEPT ![w] = @ + 1]
         /\ IF \A t \in rows : tenant_id[t] \in slack_known[w]
              THEN SpendSlack(w, rows)
              ELSE /\ batch' = [batch EXCEPT ![w] = rows]
                   /\ pc' = [pc EXCEPT ![w] = "slack"]
                   /\ UNCHANGED <<claimed_ids, slack>>
         /\ UNCHANGED <<row_vars, tenant_lock, slack_known>>

\* claim_tasks begins: at most min(free slots, claim_batch_size) tasks.
first_round(w) ==
  /\ pc[w] = "idle"
  /\ \E n \in 1 .. claim_batch_size : limit' = [limit EXCEPT ![w] = n]
  /\ FetchCandidates(w)

next_round(w) ==
  /\ pc[w] = "fetch"
  /\ UNCHANGED limit
  /\ FetchCandidates(w)

\* The slack statement takes its snapshot; the locks come after.
read_slack(w) ==
  /\ pc[w] = "slack"
  /\ LET new == {tenant_id[t] : t \in batch[w]} \ slack_known[w]
     IN  /\ slack' = [slack EXCEPT ![w] = [n \in Tenants |->
                        IF n \in new THEN current_slack(n) ELSE slack[w][n]]]
         /\ slack_known' = [slack_known EXCEPT ![w] = @ \cup new]
  /\ pc' = [pc EXCEPT ![w] = "lock"]
  /\ UNCHANGED <<row_vars, lock_vars, limit, round, batch, seen_ids,
                 claimed_ids>>

Unlocked(w) == {n \in slack_known[w] : tenant_lock[n] # w}
NextToLock(w, n) == /\ n \in Unlocked(w)
                    /\ \A m \in Unlocked(w) : scan[n] <= scan[m]

\* FOR UPDATE on a tenant's row.  The row itself never changes, so the slack
\* that was counted before the wait is the slack that is returned.  With the
\* last lock the statement returns.
lock_tenant(w) ==
  /\ pc[w] = "lock"
  /\ \E n \in Tenants :
       /\ NextToLock(w, n)
       /\ tenant_lock[n] = NoWorker
       /\ tenant_lock' = [tenant_lock EXCEPT ![n] = w]
       /\ UNCHANGED <<limit, round>>
       /\ IF Unlocked(w) = {n} THEN SpendSlack(w, batch[w])
                              ELSE UNCHANGED <<pc, batch, claimed_ids, slack>>
  /\ UNCHANGED <<row_vars, task_lock, seen_ids, slack_known>>

release_locks(w) ==
  /\ task_lock' = [t \in Tasks |->
                     IF task_lock[t] = w THEN NoWorker ELSE task_lock[t]]
  /\ tenant_lock' = [n \in Tenants |->
                       IF tenant_lock[n] = w THEN NoWorker ELSE tenant_lock[n]]

\* The transaction ends: locks are released, its variables are gone.
TransactionEnds(w) ==
  /\ release_locks(w)
  /\ limit' = [limit EXCEPT ![w] = 0]
  /\ round' = [round EXCEPT ![w] = 0]
  /\ batch' = [batch EXCEPT ![w] = {}]
  /\ seen_ids' = [seen_ids EXCEPT ![w] = {}]
  /\ claimed_ids' = [claimed_ids EXCEPT ![w] = {}]
  /\ slack' = [slack EXCEPT ![w] = [n \in Tenants |-> 0]]
  /\ slack_known' = [slack_known EXCEPT ![w] = {}]

\* The UPDATE, by id alone: its WHERE has no state.  Then the commit.
grant(w) ==
  /\ pc[w] = "grant"
  /\ state' = [t \in Tasks |->
                 IF t \in claimed_ids[w] THEN "RUNNING" ELSE state[t]]
  /\ lease_worker_id' = [t \in Tasks |->
       IF t \in claimed_ids[w] THEN w ELSE lease_worker_id[t]]
  /\ UNCHANGED rank
  /\ pc' = [pc EXCEPT ![w] = "idle"]
  /\ TransactionEnds(w)

-----------------------------------------------------------------------------
(* Waiting, deadlocks, failures.                                           *)

WaitsFor(w, v) ==
  /\ pc[w] = "lock"
  /\ v # w
  /\ \E n \in Tenants : NextToLock(w, n) /\ tenant_lock[n] = v

\* Every claim of C waits for a claim of C.
CircularWait(C) == /\ C # {}
                   /\ \A w \in C : \E v \in C : WaitsFor(w, v)

\* Nothing in run_forever catches an exception of a claim: the worker drains
\* and exits.
claim_raises(w) ==
  /\ pc' = [pc EXCEPT ![w] = "stopped"]
  /\ TransactionEnds(w)
  /\ UNCHANGED row_vars

\* PostgreSQL aborts one transaction of a circular wait.
deadlock_detected(w) ==
  /\ \E C \in SUBSET Workers : w \in C /\ CircularWait(C)
  /\ claim_raises(w)

\* A database error, or the death of the worker.
crash(w) ==
  /\ pc[w] \notin {"idle", "stopped"}
  /\ claim_raises(w)

-----------------------------------------------------------------------------
(* The rest of a task's life (TaskLifecycle), as far as the queue sees it. *)

\* A submission commits.  The foreign key of its row has to wait for a claim
\* that has locked the tenant's.
submit_task(t) ==
  /\ state[t] = "absent"
  /\ tenant_lock[tenant_id[t]] = NoWorker
  /\ state' = [state EXCEPT ![t] = "QUEUED"]
  /\ UNCHANGED <<rank, lease_worker_id, lock_vars, pc, local_vars>>

\* A row a claim has locked is out of reach of everybody who must lock it.
cancel_task(t) ==
  /\ state[t] = "QUEUED"
  /\ task_lock[t] = NoWorker
  /\ state' = [state EXCEPT ![t] = "OVER"]
  /\ UNCHANGED <<rank, lease_worker_id, lock_vars, pc, local_vars>>

Leave(t, to) ==
  /\ state[t] = "RUNNING"
  /\ state' = [state EXCEPT ![t] = to]
  /\ lease_worker_id' = [lease_worker_id EXCEPT ![t] = NoWorker]
  /\ UNCHANGED <<lock_vars, pc, local_vars>>

\* A completion.
finish(t) == Leave(t, "OVER") /\ UNCHANGED rank

\* A hand-back, a recovery or a retry, which is seen when its backoff is
\* over: available_at is later than it was, so the row may fall behind others
\* of its priority.
requeue(t) ==
  /\ Leave(t, "QUEUED")
  /\ rank' \in PolicyOrders
  /\ \A u \in Tasks \ {t} : rank[u] < rank[t] => rank'[u] < rank'[t]
  /\ \A u, v \in Tasks \ {t} : rank[u] < rank[v] => rank'[u] < rank'[v]

-----------------------------------------------------------------------------
ClaimStep(w) ==
  \/ first_round(w)
  \/ next_round(w)
  \/ read_slack(w)
  \/ lock_tenant(w)
  \/ grant(w)

Next ==
  \/ \E w \in Workers : ClaimStep(w) \/ deadlock_detected(w) \/ crash(w)
  \/ \E t \in Tasks : submit_task(t) \/ cancel_task(t)
                       \/ requeue(t) \/ finish(t)

Spec == Init /\ [][Next]_vars

\* A worker's statements return, the queue for a row lock is served in turn,
\* and a circular wait is broken.
ClaimFairness ==
  /\ \A w \in Workers :
       /\ WF_vars(next_round(w) \/ read_slack(w) \/ grant(w))
       /\ SF_vars(lock_tenant(w))
  /\ WF_vars(\E w \in Workers : deadlock_detected(w))

FairSpec == Spec /\ ClaimFairness

-----------------------------------------------------------------------------
(* Properties.                                                             *)

\* The final UPDATE has no state in its WHERE: what makes it right is that
\* every row it names is still QUEUED, locked by this claim and by no other
\* (claim.py: "no two workers ever select the same row").
ClaimedRowsAreHeld ==
  \A w \in Workers : \A t \in claimed_ids[w] :
    state[t] = "QUEUED" /\ task_lock[t] = w

RunningOn(w, n) == {t \in Tasks : /\ state[t] = "RUNNING"
                                  /\ tenant_id[t] = n
                                  /\ lease_worker_id[t] = w}

\* What is left of the tenant limit when claims overlap: the slack is read
\* before the wait for the tenant's row, so the tenant as a whole may exceed
\* max_concurrent_tasks, but never on any one worker (README: "can briefly
\* overshoot ... Bounded, but not exact").
WorkerWithinTenantCap ==
  \A w \in Workers, n \in Tenants :
    Cardinality(RunningOn(w, n)) <= max_concurrent_tasks[n]

\* A name with a comma makes the key of t the key of other names.
Collides(w, t) == /\ Need(t) \cap with_comma # {}
                  /\ capability_key(t) \in satisfiable_capability_keys(w)

\* A K-way merge of limited branches is the ordered scan it replaced: the
\* first rows in policy order among all that the worker satisfies (claim.py,
\* "a keyed merge, not a filter"), and those whose key collides with one of
\* its own, which takes a comma in a name the task requires.  The fallback
\* never takes a task the worker does not satisfy.
MergeIsTheFilter ==
  \A w \in Workers : \A n \in 1 .. claim_batch_size :
    /\ FirstOf(KeyedCandidates(w, n), n) =
         FirstOf({t \in Lockable(w) :
                    worker_satisfies(w, t) \/ Collides(w, t)}, n)
    /\ \A t \in FilteredCandidates(w, n) : worker_satisfies(w, t)

\* Every claim ends, in a commit or in an abort: no order of row locks and no
\* death of another worker leaves it waiting.
EveryClaimEnds ==
  \A w \in Workers :
    pc[w] \in {"fetch", "slack", "lock", "grant"}
      ~> pc[w] \in {"idle", "stopped"}

\* claim.py: "so no worker ever waits on another's claim"; least of all two
\* on each other.
NoCircularWait == ~ \E C \in SUBSET Workers : CircularWait(C)
=============================================================================
