----------------------------- MODULE Submission -----------------------------
(***************************************************************************)
(* POST /v1/tasks: admission control (scheduling/admission.py, with the    *)
(* depth that obs/gauges.py caches) and the idempotent insert of           *)
(* db/queries/tasks.submit_task.  A submission is one transaction under    *)
(* READ COMMITTED, split at its statements: the count that admission       *)
(* decides on, the INSERT ... ON CONFLICT DO NOTHING, the SELECT of the    *)
(* existing row, the commit.  Its row is invisible until the commit.       *)
(*                                                                         *)
(* The commit is the exit code of the dependency db_txn.  Which comes      *)
(* first, that or the response, depends on the version of FastAPI, which   *)
(* the project leaves open (fastapi>=0.115): both are modelled.            *)
(*                                                                         *)
(* Tasks are named after the submissions that create them; a client's      *)
(* retry is another submission with the same key.  Which version the task  *)
(* is pinned to is the subject of AgentRegistry; the workers at the other  *)
(* end of the queue, reduced here to rows that leave and come back, that   *)
(* of TenantQueue.                                                         *)
(***************************************************************************)
EXTENDS Integers, FiniteSets

CONSTANTS
  Tasks,                        \* submissions, and the tasks they create
  Tenants,
  tenant_id,                    \* the tenant of a submission
  idempotency_key,              \* its key, or NoKey
  NoKey,
  payload,                      \* its payload, _trace left out
  parameters,                   \* task_type or request type, priority, ...
  max_queued_tasks,             \* tenants.max_queued_tasks
  global_queue_shed_threshold,  \* 0 disables shedding
  pool_size,                    \* db_pool_size + db_max_overflow
  commits_first                 \* this FastAPI leaves db_txn, then responds

ASSUME SubmissionAssumption ==
  /\ IsFiniteSet(Tasks)
  /\ tenant_id \in [Tasks -> Tenants]
  /\ max_queued_tasks \in [Tenants -> Nat \ {0}]
  /\ global_queue_shed_threshold \in Nat
  /\ pool_size \in Nat \ {0}
  /\ commits_first \in BOOLEAN

VARIABLES
  state,          \* tasks.state; "absent": no committed row, "OVER": terminal
  returned,       \* queued rows that were claimed before
  answer,         \* where the submission is, and then what it answered
  global_queued   \* gauges._global_queued

queue_vars == <<state, returned>>
vars == <<state, returned, answer, global_queued>>

\* 201, 200, 409 (other payload), 409 (retry), 429, 503 or a failure, and a
\* 201 that no commit followed.
Answers == {"created", "deduplicated", "mismatch", "retry", "refused", "lost"}
InTransaction == {"admitted", "inserted", "told", "conflicted"}

TypeOK ==
  /\ state \in [Tasks -> {"absent", "QUEUED", "RUNNING", "OVER"}]
  /\ returned \in SUBSET Tasks
  /\ \A t \in returned : state[t] = "QUEUED"
  /\ answer \in [Tasks -> {"none"} \cup InTransaction \cup Answers]
  /\ global_queued \in 0 .. Cardinality(Tasks)

Init ==
  /\ state = [t \in Tasks |-> "absent"]
  /\ returned = {}
  /\ answer = [t \in Tasks |-> "none"]
  /\ global_queued = 0

Move(t, from, to) == answer[t] = from /\ answer' = [answer EXCEPT ![t] = to]

Queued(n) == {t \in Tasks : tenant_id[t] = n /\ state[t] = "QUEUED"}

-----------------------------------------------------------------------------
(* Admission.                                                              *)

\* Every queued row, backoff or not.
queued_count_for_tenant(n) == Cardinality(Queued(n))

\* A tenant at its bound still admitted.
decide_off_by_one(tenant_queued, tenant_max, depth, threshold) ==
  IF tenant_queued > tenant_max \/ (threshold > 0 /\ depth >= threshold)
    THEN "refused" ELSE "admitted"

\* The tenant's own quota (429) or the state of the system (503).
decide(tenant_queued, tenant_max, depth, threshold) ==
  IF tenant_queued >= tenant_max \/ (threshold > 0 /\ depth >= threshold)
    THEN "refused" ELSE "admitted"

\* A depth that only grows.
refresh_upwards ==
  /\ \E waiting \in SUBSET returned :
       LET depth == Cardinality({t \in Tasks : state[t] = "QUEUED"} \ waiting)
       IN  global_queued' = IF depth > global_queued THEN depth
                                                     ELSE global_queued
  /\ UNCHANGED <<queue_vars, answer>>

\* refresh_once: the runnable rows.  A row that came back may wait out a
\* backoff, which this count leaves out.
refresh_once ==
  /\ \E waiting \in SUBSET returned :
       global_queued' =
         Cardinality({t \in Tasks : state[t] = "QUEUED"} \ waiting)
  /\ UNCHANGED <<queue_vars, answer>>

Open == {t \in Tasks : answer[t] \in InTransaction}

\* _submit up to the insert.  The count and the cached depth are the last it
\* sees of the queue.  A transaction needs a connection of the pool.
admit(t) ==
  /\ Cardinality(Open) < pool_size
  /\ Move(t, "none", decide(queued_count_for_tenant(tenant_id[t]),
                            max_queued_tasks[tenant_id[t]],
                            global_queued, global_queue_shed_threshold))
  /\ UNCHANGED <<queue_vars, global_queued>>

-----------------------------------------------------------------------------
(* The insert.                                                             *)

\* Submissions that collide on the unique index (tenant_id, idempotency_key).
SameKey(t, u) == /\ t # u
                 /\ tenant_id[t] = tenant_id[u]
                 /\ idempotency_key[t] = idempotency_key[u]
                 /\ idempotency_key[t] # NoKey

\* A retry: the same request with the same key.
SameRequest(t, u) == /\ SameKey(t, u)
                     /\ payload[t] = payload[u]
                     /\ parameters[t] = parameters[u]

\* A row with t's key that t can see, and one that nobody can see yet.
Existing(t) == {u \in Tasks : SameKey(t, u) /\ state[u] # "absent"}
Uncommitted(t) ==
  {u \in Tasks : SameKey(t, u) /\ answer[u] \in {"inserted", "told"}}

\* A lock on the key taken before the insert, by every admitted submission.
insert_after_every_rival(t) ==
  /\ \A u \in Tasks :
       SameKey(t, u) => answer[u] \notin {"admitted", "inserted", "told"}
  /\ Move(t, "admitted", IF Existing(t) = {} THEN "inserted" ELSE "conflicted")
  /\ UNCHANGED <<queue_vars, global_queued>>

\* A select-then-insert in place of ON CONFLICT: nothing stops two of them.
insert_unchecked(t) ==
  /\ Move(t, "admitted", IF Existing(t) = {} THEN "inserted" ELSE "conflicted")
  /\ UNCHANGED <<queue_vars, global_queued>>

\* INSERT ... ON CONFLICT DO NOTHING waits for an uncommitted row with its key.
insert_task(t) ==
  /\ Uncommitted(t) = {}
  /\ Move(t, "admitted", IF Existing(t) = {} THEN "inserted" ELSE "conflicted")
  /\ UNCHANGED <<queue_vars, global_queued>>

\* The row found is answered whatever it asks for.
select_any_payload(t) ==
  /\ Move(t, "conflicted", IF Existing(t) = {} THEN "retry" ELSE "deduplicated")
  /\ UNCHANGED <<queue_vars, global_queued>>

\* The SELECT of the existing row, in a snapshot of its own, and the answer
\* that depends on what it finds.  Payloads are compared, parameters are not.
select_existing(t) ==
  /\ Move(t, "conflicted",
          IF Existing(t) = {} THEN "retry"
          ELSE IF \E u \in Existing(t) : payload[u] = payload[t]
                 THEN "deduplicated" ELSE "mismatch")
  /\ UNCHANGED <<queue_vars, global_queued>>

\* The 201 is sent before the dependency's exit code runs.
respond(t) ==
  /\ ~commits_first
  /\ Move(t, "inserted", "told")
  /\ UNCHANGED <<queue_vars, global_queued>>

\* db_txn exits: the task and its TASK_CREATED event are committed.
commit_task(t) ==
  /\ Move(t, IF commits_first THEN "inserted" ELSE "told", "created")
  /\ state' = [state EXCEPT ![t] = "QUEUED"]
  /\ UNCHANGED <<returned, global_queued>>

\* The request fails, its commit fails or its API process dies: nothing is left
\* of the row.
rollback(t) ==
  /\ Move(t, "inserted", "refused") \/ Move(t, "told", "lost")
  /\ UNCHANGED <<queue_vars, global_queued>>

-----------------------------------------------------------------------------
(* The other end of the queue.                                             *)

Row(t, from, to) ==
  /\ state[t] \in from
  /\ state' = [state EXCEPT ![t] = to]
  /\ UNCHANGED <<answer, global_queued>>

\* A claim that does not count as an attempt.
claim_uncounted(t) == Row(t, {"QUEUED"}, "RUNNING") /\ UNCHANGED returned
claim(t) == Row(t, {"QUEUED"}, "RUNNING") /\ returned' = returned \ {t}

\* A retry, a hand-back or a recovery.
requeue(t) == Row(t, {"RUNNING"}, "QUEUED") /\ returned' = returned \cup {t}

\* A completion, or the cancellation of a queued task.
finish(t) == Row(t, {"QUEUED", "RUNNING"}, "OVER") /\ returned' = returned \ {t}

-----------------------------------------------------------------------------
Submit(t) ==
  \/ insert_task(t)
  \/ select_existing(t)
  \/ respond(t)
  \/ commit_task(t)
  \/ rollback(t)

Next ==
  \/ \E t \in Tasks : admit(t) \/ Submit(t)
  \/ \E t \in Tasks : claim(t) \/ requeue(t) \/ finish(t)
  \/ refresh_once

\* The statements of an open transaction return, and the refresher's timer
\* fires; nothing is assumed of clients and workers.
Fairness == (\A t \in Tasks : WF_vars(Submit(t))) /\ WF_vars(refresh_once)

Spec == Init /\ [][Next]_vars /\ Fairness

-----------------------------------------------------------------------------
(* Properties.                                                             *)

\* submit_task: "exactly one task exists when both calls return", whatever
\* submissions with the same key overlap, commit or roll back.
OneTaskPerKey ==
  \A t, u \in Tasks :
    SameKey(t, u) => state[t] = "absent" \/ state[u] = "absent"

\* What a submitter is told is true and stays true.  201: its row is there,
\* unless FastAPI answered first and the commit failed.  200: a task with its
\* key and its payload exists, which need not have its parameters; a retry of
\* the very same request is never told that its payload differs.  409: another
\* payload holds the key.  Nobody is told to retry because of a row that
\* vanished.
AnswersAreTrue ==
  \A t \in Tasks :
    /\ answer[t] = "created" <=> state[t] # "absent"
    /\ answer[t] \in {"told", "lost"} => ~commits_first
    /\ answer[t] = "deduplicated"
         => \E u \in Existing(t) : payload[u] = payload[t]
    /\ answer[t] = "mismatch"
         => \A u \in Tasks : SameRequest(t, u) => state[u] = "absent"
    /\ answer[t] = "mismatch"
         => \E u \in Existing(t) : payload[u] # payload[t]
    /\ answer[t] # "retry"

\* Admission counts, then inserts, so submissions overshoot the quota; but
\* never by more than the pool lets overlap.  Only work that was claimed and
\* came back, which nobody admits again, can make the backlog longer.
BacklogBounded ==
  \A n \in Tenants :
    Cardinality(Queued(n) \ returned)
      + Cardinality({t \in Open : tenant_id[t] = n})
      <= max_queued_tasks[n] - 1 + pool_size

\* A submission that waits for the other inserter of its key is answered:
\* two of them never wait for each other, and the loser of a rollback inserts.
EverySubmissionIsAnswered ==
  \A t \in Tasks : answer[t] = "admitted" ~> answer[t] \in Answers

\* Load shedding ends: once the queue stays below the threshold the cached
\* depth follows it (gauges.py: "A gauge that never goes back down is worse
\* than no gauge").
Overloaded == Cardinality({t \in Tasks : state[t] = "QUEUED"})
                >= global_queue_shed_threshold
SheddingEnds ==
  <>[]~Overloaded => <>[](global_queued < global_queue_shed_threshold)
=============================================================================
