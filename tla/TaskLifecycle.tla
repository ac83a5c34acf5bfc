--------------------------- MODULE TaskLifecycle ----------------------------
(***************************************************************************)
(* The life of submitted tasks under a fleet of workers and a reaper: the  *)
(* `tasks`, `task_attempts`, `task_events` and `workers` tables, the code  *)
(* that writes them (db/queries/{claim,lease,completion,reap,tasks,        *)
(* workers}.py) and the memory of the worker processes that call it        *)
(* (worker/loop.py).                                                       *)
(*                                                                         *)
(* Every action is one database transaction together with the process      *)
(* memory that changes with it.  PostgreSQL's clock is the only clock the  *)
(* code compares, so time appears as the three facts a query can observe,  *)
(* each made true by an action of its own: a lease is past its expiry, a   *)
(* backoff is over, first_started_at + max_execution_time_s is in the      *)
(* past.  A worker that is slow, paused or partitioned is a worker whose   *)
(* next action comes later than those.                                     *)
(***************************************************************************)
EXTENDS Naturals, FiniteSets, TaskStates, RetryPolicy

CONSTANTS
  Tasks,         \* the submitted tasks
  Workers,       \* worker generations: every process start has a fresh id
  NoWorker,      \* NULL in lease_worker_id
  max_attempts,  \* tasks.max_attempts of each task, pinned at submit
  capacity,      \* concurrent attempts per worker
  MaxClaims,     \* bound: claims per task
  DbFaults       \* whether a worker's transaction may raise

ASSUME ConstantsAssumption ==
  /\ NoWorker \notin Workers
  /\ max_attempts \in [Tasks -> Nat \ {0}]
  /\ capacity \in Nat \ {0}
  /\ MaxClaims \in Nat \ {0}
  /\ DbFaults \in BOOLEAN

Attempts == 1 .. MaxClaims
Outcome == {"SUCCEEDED", "FAILED", "CANCELLED", "LOST", "ABANDONED"}
EventType == {"TASK_CLAIMED", "RETRY_SCHEDULED", "TASK_RECOVERED",
              "TASK_ABANDONED", "WORKER_LOST", "STALE_WRITE_REJECTED",
              "TASK_SUCCEEDED", "TASK_FAILED", "CANCEL_REQUESTED",
              "TASK_CANCELLED"}

VARIABLES
  (* The tasks table *)
  state,            \* [Tasks -> State]
  attempt,          \* the fencing token
  lease_worker_id,  \* the owner of the lease, or NoWorker
  lease,            \* lease_expires_at: "none" (NULL), "live" or "expired"
  cancel_requested,
  deferred,         \* available_at > now()
  overtime,         \* first_started_at + max_execution_time_s < now()
  result,           \* the attempt whose result is stored, 0 for NULL
  (* The task_attempts and task_events tables *)
  attempt_worker,   \* task_attempts.worker_id
  outcome,          \* task_attempts.outcome; "absent": no row, "open": NULL
  events,           \* the (event_type, attempt) pairs recorded for a task
  (* The workers table *)
  status,           \* workers.status, "absent" before register_worker
  (* The worker processes *)
  proc,             \* where run_forever and _drain are
  phase,            \* where _run_attempt_inner is, per attempt
  renewal,          \* that attempt's _renew_until_stopped task
  cancelled,        \* that attempt's `cancelled` event
  owned             \* Worker._owned: task -> attempt, 0 for no entry

lease_vars == <<lease_worker_id, lease>>
row_vars == <<state, attempt, lease_worker_id, lease, cancel_requested,
              deferred, overtime, result>>
history_vars == <<attempt_worker, outcome, events>>
attempt_vars == <<phase, renewal, cancelled>>
vars == <<row_vars, history_vars, status, proc, attempt_vars, owned>>

TypeOK ==
  /\ state \in [Tasks -> State]
  /\ attempt \in [Tasks -> 0 .. MaxClaims]
  /\ lease_worker_id \in [Tasks -> Workers \cup {NoWorker}]
  /\ lease \in [Tasks -> {"none", "live", "expired"}]
  /\ cancel_requested \in [Tasks -> BOOLEAN]
  /\ deferred \in [Tasks -> BOOLEAN]
  /\ overtime \in [Tasks -> BOOLEAN]
  /\ result \in [Tasks -> 0 .. MaxClaims]
  /\ attempt_worker \in [Tasks -> [Attempts -> Workers \cup {NoWorker}]]
  /\ outcome \in [Tasks -> [Attempts -> Outcome \cup {"absent", "open"}]]
  /\ events \in [Tasks -> SUBSET (EventType \X (0 .. MaxClaims))]
  /\ status \in [Workers -> {"absent", "ALIVE", "DRAINING", "DEAD"}]
  /\ proc \in [Workers -> {"new", "running", "draining", "abandoning",
                           "stopped", "crashed"}]
  /\ phase \in [Tasks -> [Attempts -> {"none", "running", "finalizing",
                                       "ended"}]]
  /\ renewal \in [Tasks -> [Attempts -> {"off", "on", "raised"}]]
  /\ cancelled \in [Tasks -> [Attempts -> BOOLEAN]]
  /\ owned \in [Workers -> [Tasks -> 0 .. MaxClaims]]

Init ==
  /\ state = [t \in Tasks |-> "QUEUED"]
  /\ attempt = [t \in Tasks |-> 0]
  /\ lease_worker_id = [t \in Tasks |-> NoWorker]
  /\ lease = [t \in Tasks |-> "none"]
  /\ cancel_requested = [t \in Tasks |-> FALSE]
  /\ deferred \in [Tasks -> BOOLEAN]  \* a submission may name a later time
  /\ overtime = [t \in Tasks |-> FALSE]
  /\ result = [t \in Tasks |-> 0]
  /\ attempt_worker = [t \in Tasks |-> [a \in Attempts |-> NoWorker]]
  /\ outcome = [t \in Tasks |-> [a \in Attempts |-> "absent"]]
  /\ events = [t \in Tasks |-> {}]
  /\ status = [w \in Workers |-> "absent"]
  /\ proc = [w \in Workers |-> "new"]
  /\ phase = [t \in Tasks |-> [a \in Attempts |-> "none"]]
  /\ renewal = [t \in Tasks |-> [a \in Attempts |-> "off"]]
  /\ cancelled = [t \in Tasks |-> [a \in Attempts |-> FALSE]]
  /\ owned = [w \in Workers |-> [t \in Tasks |-> 0]]

-----------------------------------------------------------------------------
(* Time, as the database clock shows it.                                   *)

LeaseExpires(t) ==
  /\ lease[t] = "live"
  /\ lease' = [lease EXCEPT ![t] = "expired"]
  /\ UNCHANGED <<state, attempt, lease_worker_id, cancel_requested, deferred,
                 overtime, result, history_vars, status, proc,
                 attempt_vars, owned>>

BackoffElapses(t) ==
  /\ deferred[t]
  /\ deferred' = [deferred EXCEPT ![t] = FALSE]
  /\ UNCHANGED <<state, attempt, lease_vars, cancel_requested, overtime,
                 result, history_vars, status, proc, attempt_vars, owned>>

\* first_started_at is set by the first claim and never moves afterwards.
ExecutionCapElapses(t) ==
  /\ attempt[t] > 0
  /\ state[t] \notin TERMINAL
  /\ ~overtime[t]
  /\ overtime' = [overtime EXCEPT ![t] = TRUE]
  /\ UNCHANGED <<state, attempt, lease_vars, cancel_requested, deferred,
                 result, history_vars, status, proc, attempt_vars, owned>>

-----------------------------------------------------------------------------
(* transition() and the writes that end attempts.                          *)

\* The fence on the owner alone, and on the token alone.
FenceWithoutAttempt(w, t, a) == state[t] = "RUNNING" /\ lease_worker_id[t] = w
FenceOnAttemptOnly(w, t, a) == attempt[t] = a

\* transition()'s predicate for lease-scoped writes.  The lease's expiry is
\* not part of it: only the token and the owner are.
Fence(w, t, a) ==
  /\ state[t] = "RUNNING"
  /\ attempt[t] = a
  /\ lease_worker_id[t] = w

\* transition() to to[t] for the tasks t of S, then finish_attempt on the
\* attempt at[t] its caller names, all in the caller's transaction.  The
\* events of transition() carry the attempt of the row.
EndAttempts(S, at, to, out, ev) ==
  /\ state' = [t \in Tasks |-> IF t \in S THEN to[t] ELSE state[t]]
  /\ lease_worker_id' =
       [t \in Tasks |-> IF t \in S THEN NoWorker ELSE lease_worker_id[t]]
  /\ lease' = [t \in Tasks |-> IF t \in S THEN "none" ELSE lease[t]]
  /\ outcome' = [t \in Tasks |-> [a \in Attempts |->
                   IF t \in S /\ a = at[t] THEN out ELSE outcome[t][a]]]
  /\ events' = [t \in Tasks |->
                  IF t \in S THEN events[t] \cup (ev[t] \X {attempt[t]})
                             ELSE events[t]]
  /\ UNCHANGED <<attempt, cancel_requested, overtime, attempt_worker>>

\* The attempt's outcome written as the task's state and the other way round.
EndAttemptSwapped(t, a, to, out, ev) ==
  EndAttempts({t}, [x \in {t} |-> a], [x \in {t} |-> out], to,
              [x \in {t} |-> {ev}])

EndAttempt(t, a, to, out, ev) ==
  EndAttempts({t}, [x \in {t} |-> a], [x \in {t} |-> to], out,
              [x \in {t} |-> {ev}])

complete_success(t, a) ==
  /\ EndAttempt(t, a, "SUCCEEDED", "SUCCEEDED", "TASK_SUCCEEDED")
  /\ result' = [result EXCEPT ![t] = a]
  /\ UNCHANGED deferred

complete_retry(t, a) ==
  /\ EndAttempt(t, a, "QUEUED", "FAILED", "RETRY_SCHEDULED")
  /\ deferred' = [deferred EXCEPT ![t] = TRUE]
  /\ UNCHANGED result

complete_failed(t, a) ==
  /\ EndAttempt(t, a, "FAILED", "FAILED", "TASK_FAILED")
  /\ UNCHANGED <<result, deferred>>

complete_cancelled(t, a) ==
  /\ EndAttempt(t, a, "CANCELLED", "CANCELLED", "TASK_CANCELLED")
  /\ UNCHANGED <<result, deferred>>

complete_abandoned(t, a) ==
  /\ EndAttempt(t, a, "QUEUED", "ABANDONED", "TASK_ABANDONED")
  /\ UNCHANGED <<result, deferred>>

\* record_event: one row in task_events and nothing else.
record_event(t, event_type, a) ==
  /\ events' = [events EXCEPT ![t] = @ \cup {<<event_type, a>>}]
  /\ UNCHANGED <<attempt_worker, outcome>>

-----------------------------------------------------------------------------
(* The worker process: registration, claims, heartbeats.                   *)

InProcess(w, t, a) ==
  /\ attempt_worker[t][a] = w
  /\ phase[t][a] \in {"running", "finalizing"}

Inflight(w) == {p \in Tasks \X Attempts : InProcess(w, p[1], p[2])}

\* Skipping the tasks somebody asked to stop.
ClaimableUnlessCancelled ==
  {t \in Tasks : /\ state[t] = "QUEUED"
                 /\ ~deferred[t]
                 /\ ~cancel_requested[t]
                 /\ attempt[t] < MaxClaims}

\* The rows the claim query may return: queued and available.
Claimable == {t \in Tasks : /\ state[t] = "QUEUED"
                            /\ ~deferred[t]
                            /\ attempt[t] < MaxClaims}

\* The worker's loop is able to run attempts: until it exits or crashes.
Alive(w) == proc[w] \in {"running", "draining"}

register(w) ==
  /\ proc[w] = "new"
  /\ proc' = [proc EXCEPT ![w] = "running"]
  /\ status' = [status EXCEPT ![w] = "ALIVE"]
  /\ UNCHANGED <<row_vars, history_vars, attempt_vars, owned>>

\* One committed claim_tasks call and the dispatch of its rows.  SKIP LOCKED,
\* the tenant's slack and the batch limit let any set of runnable tasks be
\* the one that is claimed; cancel_requested and max_attempts are not read.
claim_and_dispatch(w, S) ==
  /\ proc[w] = "running"
  /\ S # {}
  /\ S \subseteq Claimable
  /\ Cardinality(S) + Cardinality(Inflight(w)) <= capacity
  /\ state' = [t \in Tasks |-> IF t \in S THEN "RUNNING" ELSE state[t]]
  /\ attempt' =
       [t \in Tasks |-> IF t \in S THEN attempt[t] + 1 ELSE attempt[t]]
  /\ lease_worker_id' =
       [t \in Tasks |-> IF t \in S THEN w ELSE lease_worker_id[t]]
  /\ lease' = [t \in Tasks |-> IF t \in S THEN "live" ELSE lease[t]]
  /\ events' = [t \in Tasks |->
       IF t \in S THEN events[t] \cup {<<"TASK_CLAIMED", attempt[t] + 1>>}
                  ELSE events[t]]
  /\ attempt_worker' = [t \in Tasks |-> [a \in Attempts |->
       IF t \in S /\ a = attempt[t] + 1 THEN w ELSE attempt_worker[t][a]]]
  /\ outcome' = [t \in Tasks |-> [a \in Attempts |->
       IF t \in S /\ a = attempt[t] + 1 THEN "open" ELSE outcome[t][a]]]
  /\ phase' = [t \in Tasks |-> [a \in Attempts |->
       IF t \in S /\ a = attempt[t] + 1 THEN "running" ELSE phase[t][a]]]
  /\ renewal' = [t \in Tasks |-> [a \in Attempts |->
       IF t \in S /\ a = attempt[t] + 1 THEN "on" ELSE renewal[t][a]]]
  /\ owned' = [owned EXCEPT ![w] = [t \in Tasks |->
       IF t \in S THEN attempt[t] + 1 ELSE owned[w][t]]]
  /\ UNCHANGED <<cancel_requested, deferred, overtime, result, status,
                 proc, cancelled>>

\* The process is gone, or has cancelled every attempt it was running.
AttemptsEnd(w) ==
  /\ phase' = [t \in Tasks |-> [a \in Attempts |->
                 IF InProcess(w, t, a) THEN "ended" ELSE phase[t][a]]]
  /\ renewal' = [t \in Tasks |-> [a \in Attempts |->
                   IF InProcess(w, t, a) THEN "off" ELSE renewal[t][a]]]
  /\ cancelled' = [t \in Tasks |-> [a \in Attempts |->
                     IF InProcess(w, t, a) THEN FALSE ELSE cancelled[t][a]]]

\* Leaving without cancelling what is in flight.
leave_attempts_running(w) ==
  /\ proc[w] = "running"
  /\ status[w] = "DEAD"
  /\ proc' = [proc EXCEPT ![w] = "stopped"]
  /\ UNCHANGED <<row_vars, history_vars, status, attempt_vars, owned>>

\* A heartbeat is refused once the row says DEAD: the worker fences itself,
\* cancels its attempts and exits without touching a task.  An accepted one
\* only moves last_heartbeat_at, which mark_dead_workers abstracts.
maybe_heartbeat(w) ==
  /\ proc[w] = "running"
  /\ status[w] = "DEAD"
  /\ proc' = [proc EXCEPT ![w] = "stopped"]
  /\ AttemptsEnd(w)
  /\ owned' = [owned EXCEPT ![w] = [t \in Tasks |-> 0]]
  /\ UNCHANGED <<row_vars, history_vars, status>>

-----------------------------------------------------------------------------
(* The worker process: one attempt.                                        *)

\* renew_lease's predicate: the write fence, and the lease has not run out.
RenewFenceAnyExpiry(w, t, a) == Fence(w, t, a)
RenewFence(w, t, a) == Fence(w, t, a) /\ lease[t] = "live"

\* One round of _renew_until_stopped.  renew_lease matches only a live lease
\* of this attempt; then the flag on the row is passed on.  When it matches
\* nothing the attempt is told to stop and renewing ends.
renew_lease(w, t, a) ==
  /\ Alive(w)
  /\ attempt_worker[t][a] = w
  /\ phase[t][a] = "running"
  /\ renewal[t][a] = "on"
  /\ IF RenewFence(w, t, a)
       THEN /\ lease' = [lease EXCEPT ![t] = "live"]
            /\ cancelled' = [cancelled EXCEPT
                               ![t][a] = @ \/ cancel_requested[t]]
            /\ UNCHANGED renewal
       ELSE /\ cancelled' = [cancelled EXCEPT ![t][a] = TRUE]
            /\ renewal' = [renewal EXCEPT ![t][a] = "off"]
            /\ UNCHANGED lease
  /\ UNCHANGED <<state, attempt, lease_worker_id, cancel_requested, deferred,
                 overtime, result, history_vars, status, proc, phase,
                 owned>>

\* A renewal transaction raises: the renewal task dies with the exception,
\* which stays in it until the attempt awaits it.
renewal_raises(w, t, a) ==
  /\ DbFaults
  /\ Alive(w)
  /\ attempt_worker[t][a] = w
  /\ phase[t][a] = "running"
  /\ renewal[t][a] = "on"
  /\ renewal' = [renewal EXCEPT ![t][a] = "raised"]
  /\ UNCHANGED <<row_vars, history_vars, status, proc, phase, cancelled,
                 owned>>

\* The coroutine of attempt a of t ends.
AttemptEnds(t, a) ==
  /\ phase' = [phase EXCEPT ![t][a] = "ended"]
  /\ renewal' = [renewal EXCEPT ![t][a] = "off"]
  /\ cancelled' = [cancelled EXCEPT ![t][a] = FALSE]

\* The adapter returns or raises, and the attempt awaits its renewal task.
\* A renewal that had raised raises again here: the attempt ends without
\* _finalize and its entry in _owned stays.
adapter_returns(w, t, a) ==
  /\ Alive(w)
  /\ attempt_worker[t][a] = w
  /\ phase[t][a] = "running"
  /\ IF renewal[t][a] = "raised"
       THEN AttemptEnds(t, a)
       ELSE /\ phase' = [phase EXCEPT ![t][a] = "finalizing"]
            /\ renewal' = [renewal EXCEPT ![t][a] = "off"]
            /\ UNCHANGED cancelled
  /\ UNCHANGED <<row_vars, history_vars, status, proc, owned>>

\* What _finalize writes when the fence holds: a cancelled attempt is
\* cancelled whatever its adapter returned.
Complete(t, a, res) ==
  IF cancelled[t][a] THEN complete_cancelled(t, a)
  ELSE IF res = "succeeded" THEN complete_success(t, a)
  ELSE IF decide(res, a, max_attempts[t]) THEN complete_retry(t, a)
  ELSE complete_failed(t, a)

\* The entry of the task is dropped, whichever attempt it names.
PopOwned(w, t) == owned' = [owned EXCEPT ![w][t] = 0]

\* _finalize and the end of the attempt.  res is "succeeded" or the failure
\* class of what the adapter raised.  A rejected write leaves an event, in a
\* transaction of its own whose failure is swallowed.
finalize(w, t, a, res) ==
  /\ Alive(w)
  /\ attempt_worker[t][a] = w
  /\ phase[t][a] = "finalizing"
  /\ IF Fence(w, t, a)
       THEN Complete(t, a, res)
       ELSE /\ \/ record_event(t, "STALE_WRITE_REJECTED", a)
               \/ DbFaults /\ UNCHANGED history_vars
            /\ UNCHANGED row_vars
  /\ AttemptEnds(t, a)
  /\ PopOwned(w, t)
  /\ UNCHANGED <<status, proc>>

\* _finalize's transaction raises and is rolled back; _owned is still popped.
finalize_raises(w, t, a) ==
  /\ DbFaults
  /\ Alive(w)
  /\ attempt_worker[t][a] = w
  /\ phase[t][a] = "finalizing"
  /\ AttemptEnds(t, a)
  /\ PopOwned(w, t)
  /\ UNCHANGED <<row_vars, history_vars, status, proc>>

-----------------------------------------------------------------------------
(* The worker process: graceful stop and crash.                            *)

\* _drain begins: after stop() or an exception in the loop.  The status write
\* is unconditional; when it raises the drain goes on without it.
drain_begins(w) ==
  /\ proc[w] = "running"
  /\ proc' = [proc EXCEPT ![w] = "draining"]
  /\ \/ status' = [status EXCEPT ![w] = "DRAINING"]
     \/ DbFaults /\ UNCHANGED status
  /\ UNCHANGED <<row_vars, history_vars, attempt_vars, owned>>

\* Handing back without waiting for the cancelled attempts.
drain_without_waiting(w) ==
  /\ proc[w] = "draining"
  /\ proc' = [proc EXCEPT ![w] = "abandoning"]
  /\ UNCHANGED <<row_vars, history_vars, status, attempt_vars, owned>>

\* The grace period ends, or every attempt has.  What still runs is cancelled;
\* an attempt caught inside _finalize is rolled back and pops its entry.
drain_grace_ends(w) ==
  /\ proc[w] = "draining"
  /\ proc' = [proc EXCEPT ![w] = "abandoning"]
  /\ AttemptsEnd(w)
  /\ owned' = [owned EXCEPT ![w] = [t \in Tasks |->
       IF \E a \in Attempts : attempt_worker[t][a] = w
                              /\ phase[t][a] = "finalizing"
         THEN 0 ELSE owned[w][t]]]
  /\ UNCHANGED <<row_vars, history_vars, status>>

\* One entry of _owned is handed back; a transaction that raises is skipped.
abandon_owned(w, t) ==
  /\ proc[w] = "abandoning"
  /\ owned[w][t] # 0
  /\ \/ Fence(w, t, owned[w][t]) /\ complete_abandoned(t, owned[w][t])
     \/ ~Fence(w, t, owned[w][t]) /\ UNCHANGED <<row_vars, history_vars>>
     \/ DbFaults /\ UNCHANGED <<row_vars, history_vars>>
  /\ PopOwned(w, t)
  /\ UNCHANGED <<status, proc, attempt_vars>>

drain_ends(w) ==
  /\ proc[w] = "abandoning"
  /\ \A t \in Tasks : owned[w][t] = 0
  /\ proc' = [proc EXCEPT ![w] = "stopped"]
  /\ \/ status' = [status EXCEPT ![w] = "DEAD"]
     \/ DbFaults /\ UNCHANGED status
  /\ UNCHANGED <<row_vars, history_vars, attempt_vars, owned>>

\* SIGKILL, OOM, power: the process and its memory are gone, its rows stay.
crash(w) ==
  /\ proc[w] \in {"running", "draining", "abandoning"}
  /\ proc' = [proc EXCEPT ![w] = "crashed"]
  /\ AttemptsEnd(w)
  /\ owned' = [owned EXCEPT ![w] = [t \in Tasks |-> 0]]
  /\ UNCHANGED <<row_vars, history_vars, status>>

-----------------------------------------------------------------------------
(* The reaper.                                                             *)

ExpiredLeases == {t \in Tasks : state[t] = "RUNNING" /\ lease[t] = "expired"}

HungTasksOnExpiredLease ==
  {t \in Tasks : state[t] = "RUNNING" /\ overtime[t] /\ lease[t] = "expired"}
HungTasks == {t \in Tasks : state[t] = "RUNNING" /\ overtime[t]}

\* The budget test of reap_task and reap_hung_task.
HasBudgetOffByOne(t) == attempt[t] <= max_attempts[t]
HasBudget(t) == attempt[t] < max_attempts[t]

\* The event of the transition; an exhausted task FAILED, nobody abandoned it.
ReapEventAbandoned(t) ==
  IF HasBudget(t) THEN "TASK_RECOVERED" ELSE "TASK_ABANDONED"
ReapEvent(t) == IF HasBudget(t) THEN "TASK_RECOVERED" ELSE "TASK_FAILED"

\* reap_task and reap_hung_task: back to the queue while the budget lasts.
Reap(S) ==
  /\ S # {}
  /\ EndAttempts(S,
       [t \in S |-> attempt[t]],
       [t \in S |-> IF HasBudget(t) THEN "QUEUED" ELSE "FAILED"],
       "LOST",
       [t \in S |-> {ReapEvent(t), "WORKER_LOST"}])
  /\ UNCHANGED <<result, deferred, status, proc, attempt_vars, owned>>

\* One committed batch.  SKIP LOCKED and the batch size let it be any part of
\* the candidates.
reap_expired_leases == \E S \in SUBSET ExpiredLeases : Reap(S)
reap_hung_tasks == \E S \in SUBSET HungTasks : Reap(S)

\* One UPDATE of the workers in W, those whose last heartbeat is older than
\* dead_after_s.  They need not be dead: a paused or draining worker does not
\* heartbeat either.
mark_dead_workers(W) ==
  /\ W # {}
  /\ \A w \in W : status[w] \in {"ALIVE", "DRAINING"}
  /\ status' = [w \in Workers |-> IF w \in W THEN "DEAD" ELSE status[w]]
  /\ UNCHANGED <<row_vars, history_vars, proc, attempt_vars, owned>>

-----------------------------------------------------------------------------
(* The API.                                                                *)

\* A queued task is cancelled outright, a running one is asked to stop; a
\* terminal task, or one already asked, is left alone.
cancel_task(t) ==
  /\ \/ /\ state[t] = "QUEUED"
        /\ state' = [state EXCEPT ![t] = "CANCELLED"]
        /\ record_event(t, "TASK_CANCELLED", attempt[t])
     \/ /\ state[t] = "RUNNING"
        /\ ~cancel_requested[t]
        /\ record_event(t, "CANCEL_REQUESTED", attempt[t])
        /\ UNCHANGED state
  /\ cancel_requested' = [cancel_requested EXCEPT ![t] = TRUE]
  /\ UNCHANGED <<attempt, lease_vars, deferred, overtime, result, status,
                 proc, attempt_vars, owned>>

-----------------------------------------------------------------------------
Results == {"succeeded"} \cup FailureClass

TimePasses ==
  \E t \in Tasks : \/ LeaseExpires(t)
                   \/ BackoffElapses(t)
                   \/ ExecutionCapElapses(t)

AttemptStep(w, t, a) ==
  \/ renew_lease(w, t, a)
  \/ renewal_raises(w, t, a)
  \/ adapter_returns(w, t, a)
  \/ \E res \in Results : finalize(w, t, a, res)
  \/ finalize_raises(w, t, a)

WorkerStep(w) ==
  \/ register(w)
  \/ \E S \in SUBSET Tasks : claim_and_dispatch(w, S)
  \/ maybe_heartbeat(w)
  \/ \E t \in Tasks, a \in Attempts : AttemptStep(w, t, a)
  \/ drain_begins(w)
  \/ drain_grace_ends(w)
  \/ \E t \in Tasks : abandon_owned(w, t)
  \/ drain_ends(w)
  \/ crash(w)

ReaperStep ==
  \/ reap_expired_leases
  \/ reap_hung_tasks
  \/ \E W \in SUBSET Workers : mark_dead_workers(W)

Next ==
  \/ TimePasses
  \/ \E w \in Workers : WorkerStep(w)
  \/ ReaperStep
  \/ \E t \in Tasks : cancel_task(t)

Spec == Init /\ [][Next]_vars

\* Some process still renews the lease on t.
Renewing(t) ==
  \E a \in Attempts : /\ attempt[t] = a
                      /\ Alive(attempt_worker[t][a])
                      /\ phase[t][a] = "running"
                      /\ renewal[t][a] = "on"

\* The clock moves: a lease nobody renews runs out (one that is renewed may
\* run out, but need not), backoffs and execution caps pass.
ClockFairness ==
  \A t \in Tasks : /\ WF_vars(~Renewing(t) /\ LeaseExpires(t))
                   /\ WF_vars(BackoffElapses(t))
                   /\ WF_vars(ExecutionCapElapses(t))

\* The reaper keeps sweeping, oldest candidates first, so a task that stays a
\* candidate is in some batch.
ReaperFairness ==
  \A t \in Tasks :
    /\ WF_vars(\E S \in SUBSET ExpiredLeases : t \in S /\ Reap(S))
    /\ WF_vars(\E S \in SUBSET HungTasks : t \in S /\ Reap(S))

\* A worker whose loop runs polls for ever, its adapters return and their
\* attempts are finalized.
WorkerFairness ==
  \A w \in Workers, t \in Tasks :
    /\ SF_vars(\E S \in SUBSET Tasks : t \in S /\ claim_and_dispatch(w, S))
    /\ \A a \in Attempts :
         /\ WF_vars(adapter_returns(w, t, a))
         /\ WF_vars(\E res \in Results : finalize(w, t, a, res))

\* No fairness of workers or adapters: any of them may hang for ever.
FairSpec == Spec /\ ClockFairness /\ ReaperFairness

-----------------------------------------------------------------------------
(* Properties.                                                             *)

\* task_attempts agrees with tasks: rows exist for exactly the tokens handed
\* out, an attempt is open exactly while its task is RUNNING on it, and a
\* success or a cancellation in the history is the one the task ended with
\* (completion.py: "a completed attempt and its outcome can never disagree").
LedgerAgrees ==
  \A t \in Tasks, a \in Attempts :
    /\ outcome[t][a] = "absent" <=> a > attempt[t]
    /\ outcome[t][a] = "open" <=> state[t] = "RUNNING" /\ a = attempt[t]
    /\ outcome[t][a] = "SUCCEEDED" <=> state[t] = "SUCCEEDED"
                                       /\ a = attempt[t]
    /\ outcome[t][a] = "CANCELLED" => state[t] = "CANCELLED"
                                      /\ a = attempt[t]
    /\ state[t] = "FAILED" /\ a = attempt[t]
         => outcome[t][a] \in {"FAILED", "LOST"}

\* The stored result is that of the last token handed out, and only a
\* SUCCEEDED task has one (README: "the stored result is the live owner's").
ResultIsTheOwners ==
  \A t \in Tasks :
    result[t] = IF state[t] = "SUCCEEDED" THEN attempt[t] ELSE 0

LeaseFollowsToken ==
  \A t \in Tasks :
    /\ state[t] = "RUNNING" <=> lease[t] # "none"
    /\ state[t] = "RUNNING"
         => /\ attempt[t] \in Attempts
            /\ lease_worker_id[t] \in Workers
            /\ lease_worker_id[t] = attempt_worker[t][attempt[t]]
    /\ state[t] # "RUNNING" => lease_worker_id[t] = NoWorker

\* A lease is held exactly while RUNNING (ck_tasks_lease_coherence), by the
\* worker that task_attempts names for the current token; and whatever still
\* executes, stale or not, was handed to its process by a claim, and that
\* process has not left: a worker that was declared DEAD and fences itself
\* leaves nothing running behind (loop.py, _drain: "a worker the control plane
\* has declared DEAD must not write to tasks at all").
OwnerHoldsTheToken ==
  /\ LeaseFollowsToken
  /\ \A t \in Tasks, a \in Attempts :
       phase[t][a] \in {"running", "finalizing"}
         => /\ a <= attempt[t]
            /\ attempt_worker[t][a] \in Workers
            /\ Alive(attempt_worker[t][a])

\* A task goes past its attempt budget only through hand-backs: an attempt at
\* or over max_attempts that is over while the task goes on was ABANDONED.
BudgetOnlyExceededByAbandon ==
  \A t \in Tasks, a \in Attempts :
    /\ a >= max_attempts[t]
    /\ a < attempt[t] \/ (a = attempt[t] /\ state[t] = "QUEUED")
    => outcome[t][a] = "ABANDONED"

\* The events an attempt ends with, and those a task ends with.
ClosingEvents == {"RETRY_SCHEDULED", "TASK_RECOVERED", "TASK_ABANDONED"}
TerminalEvents == {"TASK_SUCCEEDED", "TASK_FAILED", "TASK_CANCELLED"}

StateFromLog(t) ==
  LET Logged(E) == {e \in events[t] : e[1] \in E}
  IN  CASE Logged({"TASK_SUCCEEDED"}) # {} -> "SUCCEEDED"
        [] Logged({"TASK_FAILED"})    # {} -> "FAILED"
        [] Logged({"TASK_CANCELLED"}) # {} -> "CANCELLED"
        [] OTHER ->
             IF \E a \in Attempts :
                  /\ <<"TASK_CLAIMED", a>> \in events[t]
                  /\ \A e \in ClosingEvents : <<e, a>> \notin events[t]
               THEN "RUNNING" ELSE "QUEUED"

\* The event log never disagrees with tasks.state (states.py, EventType):
\* replaying it gives the row's state, and a task ends at most once.
LogReplaysToState ==
  \A t \in Tasks :
    /\ StateFromLog(t) = state[t]
    /\ \A e, f \in events[t] :
         e[1] \in TerminalEvents /\ f[1] \in TerminalEvents => e = f

\* A worker whose attempt is no longer the current one changes nothing in the
\* row when it finishes, even when it is itself the new owner (transitions.py:
\* "the predicate will match zero rows, and its result is discarded").
StaleFinishStep ==
  \A t \in Tasks, a \in Attempts :
    /\ phase[t][a] = "finalizing" /\ phase'[t][a] = "ended"
    /\ a # attempt[t] \/ state[t] # "RUNNING"
    => UNCHANGED <<state[t], result[t], lease_worker_id[t], outcome[t]>>
StaleFinishIsHarmless == [][StaleFinishStep]_vars

\* Expired means lost: an expired lease never becomes live again, its attempt
\* can only end (lease.py: "You cannot renew a lease you have already lost").
ExpiredLeaseStep ==
  \A t \in Tasks :
    lease[t] = "expired" /\ lease'[t] # "expired"
      => lease'[t] = "none" /\ state'[t] # "RUNNING"
ExpiredLeaseStaysLost == [][ExpiredLeaseStep]_vars

\* A task is handed back only by a worker that is past its grace period and
\* has stopped executing that attempt: the next owner never runs beside the
\* one that gave the task up.
HandedBackMeansStopped ==
  \A t \in Tasks, a \in Attempts :
    outcome[t][a] = "ABANDONED"
      => /\ proc[attempt_worker[t][a]] \in {"abandoning", "stopped", "crashed"}
         /\ phase[t][a] = "ended"

\* states.py: "RUNNING -> CANCELLED   worker (or reaper) honoured
\* cancel_requested".
CancelledOnlyIfRequested ==
  \A t \in Tasks : state[t] = "CANCELLED" => cancel_requested[t]

\* tasks.py, cancel_task: "If the worker is already dead, the reaper honours
\* the flag when the lease expires".
ReaperHonoursCancel ==
  [][\A t \in Tasks :
       (state[t] = "RUNNING" /\ outcome'[t][attempt[t]] = "LOST")
         /\ cancel_requested[t] => state'[t] = "CANCELLED"]_vars

\* loop.py: _owned is "task_id -> attempt for everything this worker
\* currently owns, so graceful shutdown can hand back work".
OwnedCoversHeldWork ==
  \A w \in Workers, t \in Tasks, a \in Attempts :
    InProcess(w, t, a) /\ Fence(w, t, a) => owned[w][t] = a

\* The lifecycle implements the promise of the state machine.
Machine == INSTANCE TaskStateMachine
             WITH Tasks <- Tasks, Workers <- Workers, NoWorker <- NoWorker,
                  state <- state, attempt <- attempt,
                  lease_worker_id <- lease_worker_id, result <- result
ImplementsStateMachine == Machine!Spec

\* No attempt holds its task for ever, whatever its worker does: crashed,
\* wedged, or hung inside the adapter while it faithfully renews.
EveryAttemptEnds ==
  \A t \in Tasks, a \in Attempts :
    (state[t] = "RUNNING" /\ attempt[t] = a)
      ~> ~(state[t] = "RUNNING" /\ attempt[t] = a)

\* While one worker stays up and adapters return, every task settles: retries,
\* recoveries and hand-backs end, and no task is stranded on the queue.
EveryTaskSettles ==
  WorkerFairness /\ (\E w \in Workers : <>[](proc[w] = "running"))
    => \A t \in Tasks : <>(state[t] \in TERMINAL)
=============================================================================
