---------------------------- MODULE RetryPolicy -----------------------------
(***************************************************************************)
(* domain/errors.py and domain/retry.py: the failure classes, the policy   *)
(* of each, and the decision whether a failed attempt earns another one.   *)
(* How long the backoff lasts is left to BackoffElapses of TaskLifecycle.  *)
(***************************************************************************)
EXTENDS Naturals

FailureClass == {"TRANSIENT", "RATE_LIMITED", "TIMEOUT",
                 "DEPENDENCY_UNAVAILABLE", "WORKER_LOST", "PERMANENT",
                 "USER_ERROR", "PERMISSION_DENIED", "UNKNOWN"}

NoCap == 0   \* attempt_cap is None

Policy(retryable, attempt_cap) ==
  [retryable |-> retryable, attempt_cap |-> attempt_cap]

POLICIES == [ c \in FailureClass |->
  CASE c \in {"PERMANENT", "USER_ERROR", "PERMISSION_DENIED"}
                     -> Policy(FALSE, NoCap)
    [] c = "UNKNOWN" -> Policy(TRUE, 2)
    [] OTHER         -> Policy(TRUE, NoCap) ]

\* Whether attempt number `attempt` of a task with budget max_attempts is
\* followed by another: the class first, the task's budget second, the
\* class's own cap last.
decide(failure_class, attempt, max_attempts) ==
  LET policy == POLICIES[failure_class] IN
  /\ policy.retryable
  /\ attempt < max_attempts
  /\ (policy.attempt_cap = NoCap \/ attempt < policy.attempt_cap)
=============================================================================
