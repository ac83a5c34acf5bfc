------------------------ MODULE TaskLifecycleProofs -------------------------
(***************************************************************************)
(* Theorems about TaskLifecycle for every set of tasks and workers, every  *)
(* budget and capacity and every bound on claims, checked by TLAPS.        *)
(***************************************************************************)
EXTENDS TaskLifecycle, TLAPS

\* A batch of transitions to states, with outcomes and events of their
\* types, keeps the types of the rows it writes.
LEMMA EndAttemptsType ==
  ASSUME TypeOK,
         NEW S \in SUBSET Tasks,
         NEW at \in [S -> 0 .. MaxClaims],
         NEW to \in [S -> State],
         NEW out \in Outcome,
         NEW ev \in [S -> SUBSET EventType],
         EndAttempts(S, at, to, out, ev)
  PROVE  /\ state' \in [Tasks -> State]
         /\ attempt' \in [Tasks -> 0 .. MaxClaims]
         /\ lease_worker_id' \in [Tasks -> Workers \cup {NoWorker}]
         /\ lease' \in [Tasks -> {"none", "live", "expired"}]
         /\ cancel_requested' \in [Tasks -> BOOLEAN]
         /\ overtime' \in [Tasks -> BOOLEAN]
         /\ attempt_worker' \in [Tasks -> [Attempts -> Workers \cup {NoWorker}]]
         /\ outcome' \in [Tasks -> [Attempts -> Outcome \cup {"absent", "open"}]]
         /\ events' \in [Tasks -> SUBSET (EventType \X (0 .. MaxClaims))]
  <1>1. \A t \in Tasks : events'[t] \in SUBSET (EventType \X (0 .. MaxClaims))
    BY DEF TypeOK, EndAttempts
  <1>2. events' \in [Tasks -> SUBSET (EventType \X (0 .. MaxClaims))]
    BY <1>1 DEF EndAttempts
  <1>3. QED
    BY <1>2 DEF TypeOK, EndAttempts

\* Ending every attempt of a process keeps the types of its memory.
LEMMA AttemptsEndType ==
  ASSUME TypeOK, NEW w \in Workers, AttemptsEnd(w)
  PROVE  /\ phase' \in [Tasks -> [Attempts -> {"none", "running",
                                               "finalizing", "ended"}]]
         /\ renewal' \in [Tasks -> [Attempts -> {"off", "on", "raised"}]]
         /\ cancelled' \in [Tasks -> [Attempts -> BOOLEAN]]
  <1>1. phase' \in [Tasks -> [Attempts -> {"none", "running", "finalizing",
                                           "ended"}]]
    BY DEF TypeOK, AttemptsEnd
  <1>2. renewal' \in [Tasks -> [Attempts -> {"off", "on", "raised"}]]
    BY DEF TypeOK, AttemptsEnd
  <1>3. cancelled' \in [Tasks -> [Attempts -> BOOLEAN]]
    BY DEF TypeOK, AttemptsEnd
  <1>4. QED
    BY <1>1, <1>2, <1>3

\* Ending one attempt keeps the types of the process memory.
LEMMA AttemptEndsType ==
  ASSUME TypeOK, NEW t \in Tasks, NEW a \in Attempts, AttemptEnds(t, a)
  PROVE  /\ phase' \in [Tasks -> [Attempts -> {"none", "running",
                                               "finalizing", "ended"}]]
         /\ renewal' \in [Tasks -> [Attempts -> {"off", "on", "raised"}]]
         /\ cancelled' \in [Tasks -> [Attempts -> BOOLEAN]]
  BY DEF AttemptEnds, TypeOK

\* A committed claim keeps the types: the new token is a token because
\* Claimable stops at MaxClaims.
LEMMA ClaimType ==
  ASSUME TypeOK, NEW w \in Workers, NEW S \in SUBSET Tasks,
         claim_and_dispatch(w, S)
  PROVE  TypeOK'
  <1>1. \A t \in S : attempt[t] + 1 \in 1 .. MaxClaims
    BY ConstantsAssumption DEF TypeOK, claim_and_dispatch, Claimable
  <1>2. /\ state' \in [Tasks -> State]
        /\ lease_worker_id' \in [Tasks -> Workers \cup {NoWorker}]
        /\ lease' \in [Tasks -> {"none", "live", "expired"}]
    BY DEF TypeOK, claim_and_dispatch, State
  <1>3. attempt' \in [Tasks -> 0 .. MaxClaims]
    BY <1>1, ConstantsAssumption DEF TypeOK, claim_and_dispatch
  <1>4. \A t \in Tasks : events'[t] \in SUBSET (EventType \X (0 .. MaxClaims))
    BY <1>1, ConstantsAssumption DEF TypeOK, claim_and_dispatch, EventType
  <1>5. events' \in [Tasks -> SUBSET (EventType \X (0 .. MaxClaims))]
    BY <1>4 DEF claim_and_dispatch
  <1>6. attempt_worker' \in [Tasks -> [Attempts -> Workers \cup {NoWorker}]]
    BY DEF TypeOK, claim_and_dispatch
  <1>7. outcome' \in [Tasks -> [Attempts -> Outcome \cup {"absent", "open"}]]
    BY DEF TypeOK, claim_and_dispatch
  <1>8. phase' \in [Tasks -> [Attempts -> {"none", "running", "finalizing",
                                           "ended"}]]
    BY DEF TypeOK, claim_and_dispatch
  <1>9. renewal' \in [Tasks -> [Attempts -> {"off", "on", "raised"}]]
    BY DEF TypeOK, claim_and_dispatch
  <1>10. owned' \in [Workers -> [Tasks -> 0 .. MaxClaims]]
    BY <1>1, ConstantsAssumption DEF TypeOK, claim_and_dispatch
  <1>11. QED
    BY <1>2, <1>3, <1>5, <1>6, <1>7, <1>8, <1>9, <1>10
       DEF TypeOK, claim_and_dispatch

\* The one-row case of EndAttemptsType, as the completion path uses it.
LEMMA EndAttemptType ==
  ASSUME TypeOK, NEW t \in Tasks, NEW a \in 0 .. MaxClaims,
         NEW to \in State, NEW out \in Outcome, NEW ev \in EventType,
         EndAttempt(t, a, to, out, ev)
  PROVE  /\ state' \in [Tasks -> State]
         /\ attempt' \in [Tasks -> 0 .. MaxClaims]
         /\ lease_worker_id' \in [Tasks -> Workers \cup {NoWorker}]
         /\ lease' \in [Tasks -> {"none", "live", "expired"}]
         /\ cancel_requested' \in [Tasks -> BOOLEAN]
         /\ overtime' \in [Tasks -> BOOLEAN]
         /\ attempt_worker' \in [Tasks -> [Attempts -> Workers \cup {NoWorker}]]
         /\ outcome' \in [Tasks -> [Attempts -> Outcome \cup {"absent", "open"}]]
         /\ events' \in [Tasks -> SUBSET (EventType \X (0 .. MaxClaims))]
  <1> DEFINE S == {t}
             at == [x \in {t} |-> a]
             tos == [x \in {t} |-> to]
             evs == [x \in {t} |-> {ev}]
  <1>1. /\ S \in SUBSET Tasks
        /\ at \in [S -> 0 .. MaxClaims]
        /\ tos \in [S -> State]
        /\ evs \in [S -> SUBSET EventType]
    OBVIOUS
  <1>2. EndAttempts(S, at, tos, out, evs)
    BY DEF EndAttempt
  <1> HIDE DEF S, at, tos, evs
  <1>3. QED
    BY <1>1, <1>2, EndAttemptsType

\* Types are kept by every write of the completion path, abandonment included.
LEMMA CompletionType ==
  ASSUME TypeOK, NEW t \in Tasks, NEW a \in 0 .. MaxClaims,
         \/ complete_success(t, a)
         \/ complete_retry(t, a)
         \/ complete_failed(t, a)
         \/ complete_cancelled(t, a)
         \/ complete_abandoned(t, a)
  PROVE  /\ state' \in [Tasks -> State]
         /\ attempt' \in [Tasks -> 0 .. MaxClaims]
         /\ lease_worker_id' \in [Tasks -> Workers \cup {NoWorker}]
         /\ lease' \in [Tasks -> {"none", "live", "expired"}]
         /\ cancel_requested' \in [Tasks -> BOOLEAN]
         /\ overtime' \in [Tasks -> BOOLEAN]
         /\ attempt_worker' \in [Tasks -> [Attempts -> Workers \cup {NoWorker}]]
         /\ outcome' \in [Tasks -> [Attempts -> Outcome \cup {"absent", "open"}]]
         /\ events' \in [Tasks -> SUBSET (EventType \X (0 .. MaxClaims))]
         /\ deferred' \in [Tasks -> BOOLEAN]
         /\ result' \in [Tasks -> 0 .. MaxClaims]
  <1>0. /\ {"SUCCEEDED", "FAILED", "CANCELLED", "QUEUED"} \subseteq State
        /\ {"SUCCEEDED", "FAILED", "CANCELLED", "ABANDONED"} \subseteq Outcome
        /\ {"TASK_SUCCEEDED", "RETRY_SCHEDULED", "TASK_FAILED",
            "TASK_CANCELLED", "TASK_ABANDONED"} \subseteq EventType
    BY DEF State, Outcome, EventType
  <1>1. deferred' \in [Tasks -> BOOLEAN] /\ result' \in [Tasks -> 0 .. MaxClaims]
    BY DEF TypeOK, complete_success, complete_retry, complete_failed,
           complete_cancelled, complete_abandoned
  <1>2. \E to \in State, out \in Outcome, ev \in EventType :
          EndAttempt(t, a, to, out, ev)
    BY <1>0 DEF complete_success, complete_retry, complete_failed,
                complete_cancelled, complete_abandoned
  <1>3. PICK to \in State, out \in Outcome, ev \in EventType :
          EndAttempt(t, a, to, out, ev)
    BY <1>2
  <1>4. QED
    BY <1>1, <1>3, EndAttemptType

\* Every table and every process keeps its type, whatever the workers, the
\* reaper and the API do.
THEOREM TypeCorrect == Spec => []TypeOK
  <1>1. Init => TypeOK
    BY ConstantsAssumption DEF Init, TypeOK, State
  <1>2. TypeOK /\ [Next]_vars => TypeOK'
    <2> SUFFICES ASSUME TypeOK, [Next]_vars PROVE TypeOK'
      OBVIOUS
    <2> USE DEF row_vars, history_vars, attempt_vars, lease_vars
    <2>1. ASSUME NEW t \in Tasks, LeaseExpires(t) PROVE TypeOK'
      BY <2>1 DEF LeaseExpires, TypeOK
    <2>2. ASSUME NEW t \in Tasks, BackoffElapses(t) PROVE TypeOK'
      BY <2>2 DEF BackoffElapses, TypeOK
    <2>3. ASSUME NEW t \in Tasks, ExecutionCapElapses(t) PROVE TypeOK'
      BY <2>3 DEF ExecutionCapElapses, TypeOK
    <2>4. ASSUME NEW w \in Workers, register(w) PROVE TypeOK'
      BY <2>4 DEF register, TypeOK
    <2>5. ASSUME NEW w \in Workers, NEW S \in SUBSET Tasks,
                 claim_and_dispatch(w, S)
          PROVE  TypeOK'
      BY <2>5, ClaimType
    <2>6. ASSUME NEW w \in Workers, maybe_heartbeat(w) PROVE TypeOK'
      <3>1. AttemptsEnd(w)
        BY <2>6 DEF maybe_heartbeat
      <3>2. QED
        BY <2>6, <3>1, AttemptsEndType, ConstantsAssumption
           DEF maybe_heartbeat, TypeOK
    <2>7. ASSUME NEW w \in Workers, NEW t \in Tasks, NEW a \in Attempts,
                 renew_lease(w, t, a)
          PROVE  TypeOK'
      <3>1. CASE RenewFence(w, t, a)
        <4>1. cancelled' = [cancelled EXCEPT
                              ![t][a] = @ \/ cancel_requested[t]]
          BY <2>7, <3>1 DEF renew_lease
        <4>2. cancelled' \in [Tasks -> [Attempts -> BOOLEAN]]
          BY <4>1 DEF TypeOK
        <4>3. QED
          BY <2>7, <3>1, <4>2 DEF renew_lease, TypeOK
      <3>2. CASE ~RenewFence(w, t, a)
        <4>1. /\ cancelled' = [cancelled EXCEPT ![t][a] = TRUE]
              /\ renewal' = [renewal EXCEPT ![t][a] = "off"]
              /\ UNCHANGED lease
          BY <2>7, <3>2 DEF renew_lease
        <4>2. cancelled' \in [Tasks -> [Attempts -> BOOLEAN]]
          BY <4>1 DEF TypeOK
        <4>3. renewal' \in [Tasks -> [Attempts -> {"off", "on", "raised"}]]
          BY <4>1 DEF TypeOK
        <4>4. QED
          BY <2>7, <4>1, <4>2, <4>3 DEF renew_lease, TypeOK
      <3>3. QED
        BY <3>1, <3>2
    <2>8. ASSUME NEW w \in Workers, NEW t \in Tasks, NEW a \in Attempts,
                 renewal_raises(w, t, a)
          PROVE  TypeOK'
      BY <2>8 DEF renewal_raises, TypeOK
    <2>9. ASSUME NEW w \in Workers, NEW t \in Tasks, NEW a \in Attempts,
                 adapter_returns(w, t, a)
          PROVE  TypeOK'
      <3>1. CASE renewal[t][a] = "raised"
        <4>1. AttemptEnds(t, a)
          BY <2>9, <3>1 DEF adapter_returns
        <4>2. QED
          BY <2>9, <4>1, AttemptEndsType DEF adapter_returns, TypeOK
      <3>2. CASE renewal[t][a] # "raised"
        <4>1. /\ phase' = [phase EXCEPT ![t][a] = "finalizing"]
              /\ renewal' = [renewal EXCEPT ![t][a] = "off"]
              /\ UNCHANGED cancelled
          BY <2>9, <3>2 DEF adapter_returns
        <4>2. phase' \in [Tasks -> [Attempts -> {"none", "running",
                                                "finalizing", "ended"}]]
          BY <4>1 DEF TypeOK
        <4>3. renewal' \in [Tasks -> [Attempts -> {"off", "on", "raised"}]]
          BY <4>1 DEF TypeOK
        <4>4. QED
          BY <2>9, <4>1, <4>2, <4>3 DEF adapter_returns, TypeOK
      <3>3. QED
        BY <3>1, <3>2
    <2>10. ASSUME NEW w \in Workers, NEW t \in Tasks, NEW a \in Attempts,
                  NEW res \in Results, finalize(w, t, a, res)
           PROVE  TypeOK'
      <3>0. a \in 0 .. MaxClaims
        BY ConstantsAssumption DEF Attempts
      <3>1. /\ phase' \in [Tasks -> [Attempts -> {"none", "running",
                                                  "finalizing", "ended"}]]
            /\ renewal' \in [Tasks -> [Attempts -> {"off", "on", "raised"}]]
            /\ cancelled' \in [Tasks -> [Attempts -> BOOLEAN]]
        BY <2>10 DEF finalize, AttemptEnds, TypeOK
      <3>2. /\ owned' \in [Workers -> [Tasks -> 0 .. MaxClaims]]
            /\ UNCHANGED <<status, proc>>
        BY <2>10, ConstantsAssumption DEF finalize, PopOwned, TypeOK
      <3>3. CASE Fence(w, t, a)
        <4>1. \/ complete_success(t, a) \/ complete_retry(t, a)
              \/ complete_failed(t, a) \/ complete_cancelled(t, a)
              \/ complete_abandoned(t, a)
          BY <2>10, <3>3 DEF finalize, Complete
        <4>2. QED
          BY <3>0, <3>1, <3>2, <4>1, CompletionType DEF TypeOK
      <3>4. CASE ~Fence(w, t, a)
        <4>1. /\ \/ record_event(t, "STALE_WRITE_REJECTED", a)
                 \/ UNCHANGED history_vars
              /\ UNCHANGED row_vars
          BY <2>10, <3>4 DEF finalize
        <4>2. <<"STALE_WRITE_REJECTED", a>> \in EventType \X (0 .. MaxClaims)
          BY <3>0 DEF EventType
        <4>3. events' \in [Tasks -> SUBSET (EventType \X (0 .. MaxClaims))]
          <5>1. CASE record_event(t, "STALE_WRITE_REJECTED", a)
            BY <4>2, <5>1 DEF record_event, TypeOK
          <5>2. CASE UNCHANGED history_vars
            BY <5>2 DEF history_vars, TypeOK
          <5>3. QED
            BY <4>1, <5>1, <5>2
        <4>4. UNCHANGED <<attempt_worker, outcome>>
          BY <4>1 DEF record_event, history_vars
        <4>5. QED
          BY <3>1, <3>2, <4>1, <4>3, <4>4 DEF row_vars, TypeOK
      <3>5. QED
        BY <3>3, <3>4
    <2>11. ASSUME NEW w \in Workers, NEW t \in Tasks, NEW a \in Attempts,
                  finalize_raises(w, t, a)
           PROVE  TypeOK'
      BY <2>11, ConstantsAssumption
         DEF finalize_raises, AttemptEnds, PopOwned, TypeOK
    <2>12. ASSUME NEW w \in Workers, drain_begins(w) PROVE TypeOK'
      BY <2>12 DEF drain_begins, TypeOK
    <2>13. ASSUME NEW w \in Workers, drain_grace_ends(w) PROVE TypeOK'
      <3>1. AttemptsEnd(w)
        BY <2>13 DEF drain_grace_ends
      <3>2. owned' \in [Workers -> [Tasks -> 0 .. MaxClaims]]
        BY <2>13, ConstantsAssumption DEF drain_grace_ends, TypeOK
      <3>3. QED
        BY <2>13, <3>1, <3>2, AttemptsEndType DEF drain_grace_ends, TypeOK
    <2>14. ASSUME NEW w \in Workers, NEW t \in Tasks, abandon_owned(w, t)
           PROVE  TypeOK'
      <3>1. owned' \in [Workers -> [Tasks -> 0 .. MaxClaims]]
        BY <2>14, ConstantsAssumption DEF abandon_owned, PopOwned, TypeOK
      <3>2. owned[w][t] \in 0 .. MaxClaims
        BY DEF TypeOK
      <3>3. CASE complete_abandoned(t, owned[w][t])
        BY <2>14, <3>1, <3>2, <3>3, CompletionType DEF abandon_owned, TypeOK
      <3>4. CASE UNCHANGED <<row_vars, history_vars>>
        BY <2>14, <3>1, <3>4 DEF abandon_owned, TypeOK
      <3>5. QED
        BY <2>14, <3>3, <3>4 DEF abandon_owned
    <2>15. ASSUME NEW w \in Workers, drain_ends(w) PROVE TypeOK'
      BY <2>15 DEF drain_ends, TypeOK
    <2>16. ASSUME NEW w \in Workers, crash(w) PROVE TypeOK'
      <3>1. AttemptsEnd(w)
        BY <2>16 DEF crash
      <3>2. QED
        BY <2>16, <3>1, AttemptsEndType, ConstantsAssumption DEF crash, TypeOK
    <2>17. ASSUME NEW S \in SUBSET Tasks, Reap(S) PROVE TypeOK'
      <3> DEFINE at == [t \in S |-> attempt[t]]
                 to == [t \in S |-> IF HasBudget(t) THEN "QUEUED" ELSE "FAILED"]
                 ev == [t \in S |-> {ReapEvent(t), "WORKER_LOST"}]
      <3>1. at \in [S -> 0 .. MaxClaims] /\ to \in [S -> State]
        BY DEF TypeOK, State
      <3>2. ev \in [S -> SUBSET EventType]
        BY DEF ReapEvent, EventType
      <3>3. "LOST" \in Outcome
        BY DEF Outcome
      <3>4. EndAttempts(S, at, to, "LOST", ev)
        BY <2>17 DEF Reap
      <3> HIDE DEF at, to, ev
      <3>5. QED
        BY <2>17, <3>1, <3>2, <3>3, <3>4, EndAttemptsType DEF Reap, TypeOK
    <2>18. ASSUME NEW W \in SUBSET Workers, mark_dead_workers(W) PROVE TypeOK'
      BY <2>18 DEF mark_dead_workers, TypeOK
    <2>19. ASSUME NEW t \in Tasks, cancel_task(t) PROVE TypeOK'
      <3>1. \A e \in {"TASK_CANCELLED", "CANCEL_REQUESTED"} :
              <<e, attempt[t]>> \in EventType \X (0 .. MaxClaims)
        BY DEF TypeOK, EventType
      <3>2. PICK e \in {"TASK_CANCELLED", "CANCEL_REQUESTED"} :
              record_event(t, e, attempt[t])
        BY <2>19 DEF cancel_task
      <3>3. events' \in [Tasks -> SUBSET (EventType \X (0 .. MaxClaims))]
        BY <3>1, <3>2 DEF record_event, TypeOK
      <3>4. QED
        BY <2>19, <3>3 DEF cancel_task, record_event, TypeOK, State
    <2>20. CASE UNCHANGED vars
      BY <2>20 DEF vars, TypeOK
    <2>21. QED
      BY <2>1, <2>2, <2>3, <2>4, <2>5, <2>6, <2>7, <2>8, <2>9, <2>10, <2>11,
         <2>12, <2>13, <2>14, <2>15, <2>16, <2>17, <2>18, <2>19, <2>20
         DEF Next, TimePasses, WorkerStep, AttemptStep, ReaperStep,
             reap_expired_leases, reap_hung_tasks, ExpiredLeases, HungTasks
  <1>3. QED
    BY <1>1, <1>2, PTL DEF Spec

-----------------------------------------------------------------------------
(* The committed history of a task.  The four properties carry each other: *)
(* that a fenced write ends the one open attempt needs the ledger, that a  *)
(* claim opens a fresh row needs the ledger's "absent" part, and that a    *)
(* claim past the budget follows a hand-back needs both.                   *)

Safety == /\ LedgerAgrees
          /\ ResultIsTheOwners
          /\ LeaseFollowsToken
          /\ BudgetOnlyExceededByAbandon

\* The outcome `out` fits the state `to` a task leaves RUNNING for.
Fits(t, to, out) ==
  /\ to \in State \ {"RUNNING"}
  /\ to = "SUCCEEDED" <=> out = "SUCCEEDED"
  /\ out = "CANCELLED" => to = "CANCELLED"
  /\ to = "FAILED" => out \in {"FAILED", "LOST"}
  /\ to = "QUEUED" /\ attempt[t] >= max_attempts[t] => out = "ABANDONED"

\* Ending current attempts of RUNNING tasks, each in a way LegalEnd allows,
\* keeps the committed history consistent.
LEMMA EndAttemptsSafe ==
  ASSUME TypeOK, Safety,
         NEW S \in SUBSET Tasks, NEW at, NEW to, NEW out \in Outcome, NEW ev,
         \A t \in S : state[t] = "RUNNING" /\ at[t] = attempt[t],
         \A t \in S : Fits(t, to[t], out),
         EndAttempts(S, at, to, out, ev),
         \A t \in Tasks : result'[t] = IF t \in S /\ to[t] = "SUCCEEDED"
                                         THEN attempt[t] ELSE result[t]
  PROVE  Safety'
  <1>1. LedgerAgrees'
    BY DEF TypeOK, Safety, LedgerAgrees, LeaseFollowsToken, EndAttempts, Fits,
           Outcome, Attempts
  <1>2. ResultIsTheOwners'
    BY DEF TypeOK, Safety, ResultIsTheOwners, EndAttempts, Fits
  <1>3. LeaseFollowsToken'
    BY DEF TypeOK, Safety, LeaseFollowsToken, EndAttempts, Fits
  <1>4. BudgetOnlyExceededByAbandon'
    BY ConstantsAssumption
       DEF TypeOK, Safety, BudgetOnlyExceededByAbandon, EndAttempts, Fits,
           Attempts
  <1>5. QED
    BY <1>1, <1>2, <1>3, <1>4 DEF Safety

\* A claim keeps the committed history consistent: it opens the one
\* attempt that was still absent.
LEMMA ClaimSafe ==
  ASSUME TypeOK, Safety, NEW w \in Workers, NEW S \in SUBSET Tasks,
         claim_and_dispatch(w, S)
  PROVE  Safety'
  <1>0. \A t \in S : /\ state[t] = "QUEUED"
                     /\ attempt[t] \in 0 .. MaxClaims
                     /\ attempt[t] + 1 \in Attempts
    BY ConstantsAssumption DEF TypeOK, claim_and_dispatch, Claimable, Attempts
  <1>1. LedgerAgrees'
    BY <1>0, ConstantsAssumption
       DEF TypeOK, Safety, LedgerAgrees, claim_and_dispatch, Attempts
  <1>2. ResultIsTheOwners'
    BY <1>0 DEF TypeOK, Safety, ResultIsTheOwners, claim_and_dispatch
  <1>3. LeaseFollowsToken'
    BY <1>0 DEF TypeOK, Safety, LeaseFollowsToken, claim_and_dispatch
  <1>4. BudgetOnlyExceededByAbandon'
    BY <1>0, ConstantsAssumption
       DEF TypeOK, Safety, BudgetOnlyExceededByAbandon, claim_and_dispatch,
           Attempts
  <1>5. QED
    BY <1>1, <1>2, <1>3, <1>4 DEF Safety

\* A fenced completion, by the current attempt of a RUNNING task.
LEMMA EndAttemptSafe ==
  ASSUME TypeOK, Safety, NEW t \in Tasks, NEW a \in Nat,
         NEW to, NEW out \in Outcome, NEW ev,
         state[t] = "RUNNING", attempt[t] = a, Fits(t, to, out),
         EndAttempt(t, a, to, out, ev),
         \A x \in Tasks : result'[x] = IF x = t /\ to = "SUCCEEDED"
                                         THEN a ELSE result[x]
  PROVE  Safety'
  <1> DEFINE S == {t}
             at == [x \in {t} |-> a]
             tos == [x \in {t} |-> to]
             evs == [x \in {t} |-> {ev}]
  <1>1. /\ S \in SUBSET Tasks
        /\ \A x \in S : state[x] = "RUNNING" /\ at[x] = attempt[x]
        /\ \A x \in S : Fits(x, tos[x], out)
        /\ \A x \in Tasks : result'[x] = IF x \in S /\ tos[x] = "SUCCEEDED"
                                            THEN attempt[x] ELSE result[x]
    OBVIOUS
  <1>2. EndAttempts(S, at, tos, out, evs)
    BY DEF EndAttempt
  <1> HIDE DEF S, at, tos, evs
  <1>3. QED
    BY <1>1, <1>2, EndAttemptsSafe

\* A _finalize that passes its fence keeps the committed history
\* consistent, and its retry stays within the budget.
LEMMA FinalizeSafe ==
  ASSUME TypeOK, Safety,
         NEW w \in Workers, NEW t \in Tasks, NEW a \in Attempts,
         NEW res \in Results, finalize(w, t, a, res), Fence(w, t, a)
  PROVE  Safety'
  <1>0. Complete(t, a, res) /\ state[t] = "RUNNING" /\ attempt[t] = a /\ a \in Nat
    BY ConstantsAssumption DEF finalize, Fence, Attempts
  <1>1. CASE complete_success(t, a)
    <2>1. EndAttempt(t, a, "SUCCEEDED", "SUCCEEDED", "TASK_SUCCEEDED")
      BY <1>1 DEF complete_success
    <2>2. Fits(t, "SUCCEEDED", "SUCCEEDED") /\ "SUCCEEDED" \in Outcome
      BY DEF Fits, State, Outcome
    <2>3. \A x \in Tasks : result'[x] = IF x = t /\ "SUCCEEDED" = "SUCCEEDED"
                                         THEN a ELSE result[x]
      BY <1>1 DEF complete_success, TypeOK
    <2>4. QED
      BY <1>0, <2>1, <2>2, <2>3, EndAttemptSafe
  <1>2. CASE complete_cancelled(t, a)
    <2>1. EndAttempt(t, a, "CANCELLED", "CANCELLED", "TASK_CANCELLED")
      BY <1>2 DEF complete_cancelled
    <2>2. Fits(t, "CANCELLED", "CANCELLED") /\ "CANCELLED" \in Outcome
      BY DEF Fits, State, Outcome
    <2>3. \A x \in Tasks : result'[x] = IF x = t /\ "CANCELLED" = "SUCCEEDED"
                                         THEN a ELSE result[x]
      BY <1>2 DEF complete_cancelled, TypeOK
    <2>4. QED
      BY <1>0, <2>1, <2>2, <2>3, EndAttemptSafe
  <1>3. CASE complete_failed(t, a)
    <2>1. EndAttempt(t, a, "FAILED", "FAILED", "TASK_FAILED")
      BY <1>3 DEF complete_failed
    <2>2. Fits(t, "FAILED", "FAILED") /\ "FAILED" \in Outcome
      BY DEF Fits, State, Outcome
    <2>3. \A x \in Tasks : result'[x] = IF x = t /\ "FAILED" = "SUCCEEDED"
                                         THEN a ELSE result[x]
      BY <1>3 DEF complete_failed, TypeOK
    <2>4. QED
      BY <1>0, <2>1, <2>2, <2>3, EndAttemptSafe
  <1>4. CASE complete_retry(t, a) /\ decide(res, a, max_attempts[t])
    <2>0. ~(attempt[t] >= max_attempts[t])
      BY <1>0, <1>4, ConstantsAssumption DEF decide
    <2>1. EndAttempt(t, a, "QUEUED", "FAILED", "RETRY_SCHEDULED")
      BY <1>4 DEF complete_retry
    <2>2. Fits(t, "QUEUED", "FAILED") /\ "FAILED" \in Outcome
      BY <2>0 DEF Fits, State, Outcome
    <2>3. \A x \in Tasks : result'[x] = IF x = t /\ "QUEUED" = "SUCCEEDED"
                                         THEN a ELSE result[x]
      BY <1>4 DEF complete_retry, TypeOK
    <2>4. QED
      BY <1>0, <2>1, <2>2, <2>3, EndAttemptSafe
  <1>5. QED
    BY <1>0, <1>1, <1>2, <1>3, <1>4 DEF Complete

\* A hand-back that passes its fence keeps the committed history consistent.
LEMMA AbandonSafe ==
  ASSUME TypeOK, Safety, NEW w \in Workers, NEW t \in Tasks, NEW a \in Nat,
         Fence(w, t, a), complete_abandoned(t, a)
  PROVE  Safety'
  <1>0. state[t] = "RUNNING" /\ attempt[t] = a
    BY DEF Fence
  <1>1. EndAttempt(t, a, "QUEUED", "ABANDONED", "TASK_ABANDONED")
    BY DEF complete_abandoned
  <1>2. Fits(t, "QUEUED", "ABANDONED") /\ "ABANDONED" \in Outcome
    BY DEF Fits, State, Outcome
  <1>3. \A x \in Tasks : result'[x] = IF x = t /\ "QUEUED" = "SUCCEEDED"
                                         THEN a ELSE result[x]
    BY DEF complete_abandoned, TypeOK
  <1>4. QED
    BY <1>0, <1>1, <1>2, <1>3, EndAttemptSafe

\* A batch of the reaper keeps the committed history consistent, and what it
\* requeues is within the budget.
LEMMA ReapSafe ==
  ASSUME TypeOK, Safety, NEW S \in SUBSET Tasks,
         \A t \in S : state[t] = "RUNNING", Reap(S)
  PROVE  Safety'
  <1> DEFINE at == [t \in S |-> attempt[t]]
             to == [t \in S |-> IF HasBudget(t) THEN "QUEUED" ELSE "FAILED"]
             ev == [t \in S |-> {ReapEvent(t), "WORKER_LOST"}]
  <1>1. \A t \in S : at[t] = attempt[t]
    OBVIOUS
  <1>2. "LOST" \in Outcome /\ EndAttempts(S, at, to, "LOST", ev)
    BY DEF Reap, Outcome
  <1>3. \A t \in S : Fits(t, to[t], "LOST")
    BY ConstantsAssumption DEF Fits, State, HasBudget, TypeOK
  <1>4. \A t \in Tasks : result'[t] = IF t \in S /\ to[t] = "SUCCEEDED"
                                        THEN attempt[t] ELSE result[t]
    BY DEF Reap
  <1> HIDE DEF at, to, ev
  <1>5. QED
    BY <1>1, <1>2, <1>3, <1>4, EndAttemptsSafe

\* A cancellation through the API keeps the committed history consistent.
LEMMA CancelSafe ==
  ASSUME TypeOK, Safety, NEW t \in Tasks, cancel_task(t)
  PROVE  Safety'
  <1>1. /\ UNCHANGED <<attempt, lease_worker_id, lease, result, attempt_worker,
                       outcome>>
        /\ \/ UNCHANGED state
           \/ state[t] = "QUEUED" /\ state' = [state EXCEPT ![t] = "CANCELLED"]
    BY DEF cancel_task, record_event, lease_vars
  <1>2. LedgerAgrees'
    BY <1>1 DEF TypeOK, Safety, LedgerAgrees
  <1>3. ResultIsTheOwners'
    BY <1>1 DEF TypeOK, Safety, ResultIsTheOwners
  <1>4. LeaseFollowsToken'
    BY <1>1 DEF TypeOK, Safety, LeaseFollowsToken
  <1>5. BudgetOnlyExceededByAbandon'
    BY <1>1 DEF TypeOK, Safety, BudgetOnlyExceededByAbandon
  <1>6. QED
    BY <1>2, <1>3, <1>4, <1>5 DEF Safety

\* Safety looks at these variables only.
committed_vars == <<state, attempt, lease_worker_id, lease, result,
                    attempt_worker, outcome>>

\* Safety depends on committed rows only: a step of a process's memory, or of
\* the workers table, keeps it.
LEMMA FrameSafe ==
  ASSUME Safety, UNCHANGED committed_vars
  PROVE  Safety'
  BY DEF Safety, LedgerAgrees, ResultIsTheOwners, LeaseFollowsToken,
         BudgetOnlyExceededByAbandon, committed_vars

\* Renewing a lease, or its running out, keeps Safety.
LEMMA LeaseSafe ==
  ASSUME TypeOK, Safety, NEW t \in Tasks, lease[t] # "none",
         lease' = [lease EXCEPT ![t] = "expired"]
           \/ lease' = [lease EXCEPT ![t] = "live"],
         UNCHANGED <<state, attempt, lease_worker_id, result, attempt_worker,
                     outcome>>
  PROVE  Safety'
  <1>1. LeaseFollowsToken'
    BY DEF TypeOK, Safety, LeaseFollowsToken
  <1>2. QED
    BY <1>1 DEF Safety, LedgerAgrees, ResultIsTheOwners,
                BudgetOnlyExceededByAbandon

\* One step of the system keeps the committed history consistent.
LEMMA SafetyStep ==
  ASSUME TypeOK, Safety, [Next]_vars
  PROVE  Safety'
  <1> USE DEF row_vars, history_vars, attempt_vars, lease_vars
  <1>1. ASSUME NEW t \in Tasks, LeaseExpires(t) PROVE Safety'
    BY <1>1, LeaseSafe DEF LeaseExpires
  <1>2. ASSUME NEW t \in Tasks, BackoffElapses(t) \/ ExecutionCapElapses(t)
        PROVE  Safety'
    BY <1>2, FrameSafe DEF BackoffElapses, ExecutionCapElapses, committed_vars
  <1>3. ASSUME NEW w \in Workers,
               \/ register(w) \/ maybe_heartbeat(w) \/ drain_begins(w)
               \/ drain_grace_ends(w) \/ drain_ends(w) \/ crash(w)
        PROVE  Safety'
    BY <1>3, FrameSafe DEF register, maybe_heartbeat, drain_begins,
                           drain_grace_ends, drain_ends, crash, committed_vars
  <1>4. ASSUME NEW w \in Workers, NEW S \in SUBSET Tasks,
               claim_and_dispatch(w, S)
        PROVE  Safety'
    BY <1>4, ClaimSafe
  <1>5. ASSUME NEW w \in Workers, NEW t \in Tasks, NEW a \in Attempts,
               renew_lease(w, t, a)
        PROVE  Safety'
    <2>1. CASE RenewFence(w, t, a)
      <3>1. lease[t] # "none" /\ lease' = [lease EXCEPT ![t] = "live"]
        BY <1>5, <2>1 DEF renew_lease, RenewFence
      <3>2. QED
        BY <1>5, <3>1, LeaseSafe DEF renew_lease
    <2>2. CASE ~RenewFence(w, t, a)
      BY <1>5, <2>2, FrameSafe DEF renew_lease, committed_vars
    <2>3. QED
      BY <2>1, <2>2
  <1>6. ASSUME NEW w \in Workers, NEW t \in Tasks, NEW a \in Attempts,
               \/ renewal_raises(w, t, a) \/ adapter_returns(w, t, a)
               \/ finalize_raises(w, t, a)
        PROVE  Safety'
    BY <1>6, FrameSafe
       DEF renewal_raises, adapter_returns, finalize_raises, committed_vars
  <1>7. ASSUME NEW w \in Workers, NEW t \in Tasks, NEW a \in Attempts,
               NEW res \in Results, finalize(w, t, a, res)
        PROVE  Safety'
    <2>1. CASE Fence(w, t, a)
      BY <1>7, <2>1, FinalizeSafe
    <2>2. CASE ~Fence(w, t, a)
      BY <1>7, <2>2, FrameSafe DEF finalize, record_event, committed_vars
    <2>3. QED
      BY <2>1, <2>2
  <1>8. ASSUME NEW w \in Workers, NEW t \in Tasks, abandon_owned(w, t)
        PROVE  Safety'
    <2>1. CASE Fence(w, t, owned[w][t]) /\ complete_abandoned(t, owned[w][t])
      <3>1. owned[w][t] \in Nat
        BY DEF TypeOK
      <3>2. QED
        BY <2>1, <3>1, AbandonSafe
    <2>2. CASE UNCHANGED <<row_vars, history_vars>>
      BY <2>2, FrameSafe DEF committed_vars
    <2>3. QED
      BY <1>8, <2>1, <2>2 DEF abandon_owned
  <1>9. ASSUME NEW S \in SUBSET Tasks, Reap(S), \A t \in S : state[t] = "RUNNING"
        PROVE  Safety'
    BY <1>9, ReapSafe
  <1>10. ASSUME NEW W \in SUBSET Workers, mark_dead_workers(W) PROVE Safety'
    BY <1>10, FrameSafe DEF mark_dead_workers, committed_vars
  <1>11. ASSUME NEW t \in Tasks, cancel_task(t) PROVE Safety'
    BY <1>11, CancelSafe
  <1>12. CASE UNCHANGED vars
    BY <1>12, FrameSafe DEF vars, committed_vars
  <1>13. CASE reap_expired_leases \/ reap_hung_tasks
    <2>1. PICK S \in SUBSET Tasks : Reap(S) /\ \A t \in S : state[t] = "RUNNING"
      BY <1>13 DEF reap_expired_leases, reap_hung_tasks, ExpiredLeases,
                   HungTasks
    <2>2. QED
      BY <2>1, <1>9
  <1>14. QED
    BY <1>1, <1>2, <1>3, <1>4, <1>5, <1>6, <1>7, <1>8, <1>10, <1>11, <1>12,
       <1>13
       DEF Next, TimePasses, WorkerStep, AttemptStep, ReaperStep

\* Spec => []Safety, with the type invariant it rests on.
LEMMA SafetyAlways == Spec => [](TypeOK /\ Safety)
  <1>1. Init => Safety
    BY ConstantsAssumption
       DEF Init, Safety, LedgerAgrees, ResultIsTheOwners, LeaseFollowsToken,
           BudgetOnlyExceededByAbandon, Attempts
  <1>2. TypeOK /\ Safety /\ [Next]_vars => Safety'
    BY SafetyStep
  <1>3. QED
    BY <1>1, <1>2, TypeCorrect, PTL DEF Spec

\* The ledger of attempts never disagrees with the task row.
THEOREM LedgerCorrect == Spec => []LedgerAgrees
  BY SafetyAlways, PTL DEF Safety

\* Only the live owner's result is ever stored.
THEOREM ResultCorrect == Spec => []ResultIsTheOwners
  BY SafetyAlways, PTL DEF Safety

\* No retry and no recovery goes past the attempt budget.
THEOREM BudgetCorrect == Spec => []BudgetOnlyExceededByAbandon
  BY SafetyAlways, PTL DEF Safety

-----------------------------------------------------------------------------
(* What a step may never do, and the refinement of TaskStateMachine.       *)

\* An expired lease is never revived, by a renewal or by anything else.
THEOREM ExpiredLeaseCorrect == Spec => ExpiredLeaseStaysLost
  <1>1. TypeOK /\ Safety /\ [Next]_vars => [ExpiredLeaseStep]_vars
    <2> SUFFICES ASSUME TypeOK, Safety, [Next]_vars,
                        NEW t \in Tasks,
                        lease[t] = "expired", lease'[t] # "expired"
                 PROVE  lease'[t] = "none" /\ state'[t] # "RUNNING"
      BY DEF ExpiredLeaseStep
    <2> USE DEF row_vars, history_vars, attempt_vars, lease_vars
    <2>0. state[t] = "RUNNING"
      BY DEF Safety, LeaseFollowsToken
    <2>1. ASSUME NEW S \in SUBSET Tasks, NEW at, NEW to, NEW out, NEW ev,
                 EndAttempts(S, at, to, out, ev), \A x \in S : to[x] # "RUNNING"
          PROVE  lease'[t] = "none" /\ state'[t] # "RUNNING"
      BY <2>1 DEF EndAttempts, TypeOK
    <2>2. ASSUME NEW x \in Tasks, NEW a, NEW to, NEW out, NEW ev,
                 EndAttempt(x, a, to, out, ev), to # "RUNNING"
          PROVE  lease'[t] = "none" /\ state'[t] # "RUNNING"
      BY <2>1, <2>2 DEF EndAttempt
    <2>3. ASSUME NEW x \in Tasks,
                 LeaseExpires(x) \/ BackoffElapses(x) \/ ExecutionCapElapses(x)
                 \/ cancel_task(x)
          PROVE  FALSE
      BY <2>3 DEF LeaseExpires, BackoffElapses, ExecutionCapElapses,
                  cancel_task, TypeOK
    <2>4. ASSUME NEW w \in Workers, NEW S \in SUBSET Tasks,
                 claim_and_dispatch(w, S)
          PROVE  FALSE
      BY <2>0, <2>4 DEF claim_and_dispatch, Claimable, TypeOK
    <2>5. ASSUME NEW w \in Workers, NEW x \in Tasks, NEW a \in Attempts,
                 renew_lease(w, x, a)
          PROVE  FALSE
      <3>1. CASE RenewFence(w, x, a)
        BY <2>5, <3>1 DEF renew_lease, RenewFence, TypeOK
      <3>2. CASE ~RenewFence(w, x, a)
        BY <2>5, <3>2 DEF renew_lease
      <3>3. QED
        BY <3>1, <3>2
    <2>6. ASSUME NEW w \in Workers, NEW x \in Tasks, NEW a \in Attempts,
                 NEW res \in Results, finalize(w, x, a, res)
          PROVE  lease'[t] = "none" /\ state'[t] # "RUNNING"
      <3>1. CASE Fence(w, x, a)
        BY <2>2, <2>6, <3>1 DEF finalize, Complete, complete_success,
             complete_cancelled, complete_retry, complete_failed
      <3>2. CASE ~Fence(w, x, a)
        BY <2>6, <3>2 DEF finalize
      <3>3. QED
        BY <3>1, <3>2
    <2>7. ASSUME NEW w \in Workers, NEW x \in Tasks, abandon_owned(w, x)
          PROVE  lease'[t] = "none" /\ state'[t] # "RUNNING"
      BY <2>2, <2>7 DEF abandon_owned, complete_abandoned
    <2>8. ASSUME NEW S \in SUBSET Tasks, Reap(S)
          PROVE  lease'[t] = "none" /\ state'[t] # "RUNNING"
      BY <2>1, <2>8 DEF Reap
    <2>9. CASE UNCHANGED lease
      BY <2>9
    <2>10. ASSUME NEW w \in Workers, NEW x \in Tasks, NEW a \in Attempts,
                  \/ renewal_raises(w, x, a) \/ adapter_returns(w, x, a)
                  \/ finalize_raises(w, x, a)
           PROVE  UNCHANGED lease
      BY <2>10 DEF renewal_raises, adapter_returns, finalize_raises
    <2>11. ASSUME NEW w \in Workers,
                  \/ register(w) \/ maybe_heartbeat(w) \/ drain_begins(w)
                  \/ drain_grace_ends(w) \/ drain_ends(w) \/ crash(w)
           PROVE  UNCHANGED lease
      BY <2>11 DEF register, maybe_heartbeat, drain_begins, drain_grace_ends,
                   drain_ends, crash
    <2>12. ASSUME NEW W \in SUBSET Workers, mark_dead_workers(W)
           PROVE  UNCHANGED lease
      BY <2>12 DEF mark_dead_workers
    <2>13. CASE UNCHANGED vars
      BY <2>13 DEF vars
    <2>14. QED
      BY <2>3, <2>4, <2>5, <2>6, <2>7, <2>8, <2>9, <2>10, <2>11, <2>12, <2>13
         DEF Next, TimePasses, WorkerStep, AttemptStep, ReaperStep,
             reap_expired_leases, reap_hung_tasks, ExpiredLeases, HungTasks
  <1>2. QED
    BY <1>1, SafetyAlways, PTL DEF Spec, ExpiredLeaseStaysLost

\* The edges of the transition graph that the lifecycle takes.
LEMMA LegalMoves ==
  /\ Machine!is_legal("QUEUED", "RUNNING")
  /\ Machine!is_legal("QUEUED", "CANCELLED")
  /\ \A to \in State \ {"RUNNING"} : Machine!is_legal("RUNNING", to)
  BY DEF Machine!is_legal, Machine!ALLOWED, Machine!State, State

\* Tasks that leave RUNNING move as the state machine allows.
LEMMA EndAttemptsMoves ==
  ASSUME TypeOK, Safety,
         NEW S \in SUBSET Tasks, NEW at, NEW to, NEW out, NEW ev,
         \A t \in S : state[t] = "RUNNING" /\ to[t] \in State \ {"RUNNING"},
         EndAttempts(S, at, to, out, ev),
         \A t \in Tasks : result'[t] = IF t \in S /\ to[t] = "SUCCEEDED"
                                         THEN attempt[t] ELSE result[t]
  PROVE  Machine!Next
  <1> SUFFICES ASSUME NEW t \in Tasks PROVE Machine!Kept(t) \/ Machine!Moved(t)
    BY DEF Machine!Next
  <1>1. CASE t \in S
    BY <1>1, LegalMoves DEF Machine!Moved, EndAttempts, TypeOK, State
  <1>2. CASE t \notin S
    BY <1>2 DEF Machine!Kept, EndAttempts, TypeOK
  <1>3. QED
    BY <1>1, <1>2

\* One fenced completion is one legal move of its row.
LEMMA EndAttemptMoves ==
  ASSUME TypeOK, Safety, NEW t \in Tasks, NEW a, NEW to, NEW out, NEW ev,
         state[t] = "RUNNING", attempt[t] = a, to \in State \ {"RUNNING"},
         EndAttempt(t, a, to, out, ev),
         \A x \in Tasks : result'[x] = IF x = t /\ to = "SUCCEEDED"
                                         THEN a ELSE result[x]
  PROVE  Machine!Next
  <1> DEFINE S == {t}
             at == [x \in {t} |-> a]
             tos == [x \in {t} |-> to]
             evs == [x \in {t} |-> {ev}]
  <1>1. /\ S \in SUBSET Tasks
        /\ \A x \in S : state[x] = "RUNNING" /\ tos[x] \in State \ {"RUNNING"}
        /\ \A x \in Tasks : result'[x] = IF x \in S /\ tos[x] = "SUCCEEDED"
                                            THEN attempt[x] ELSE result[x]
    OBVIOUS
  <1>2. EndAttempts(S, at, tos, out, evs)
    BY DEF EndAttempt
  <1> HIDE DEF S, at, tos, evs
  <1>3. QED
    BY <1>1, <1>2, EndAttemptsMoves

\* Every complete_* that passes the fence is one legal move of its row.
LEMMA CompletionMoves ==
  ASSUME TypeOK, Safety, NEW w \in Workers, NEW t \in Tasks, NEW a,
         Fence(w, t, a),
         \/ complete_success(t, a)
         \/ complete_retry(t, a)
         \/ complete_failed(t, a)
         \/ complete_cancelled(t, a)
         \/ complete_abandoned(t, a)
  PROVE  Machine!Next
  <1>0. state[t] = "RUNNING" /\ attempt[t] = a
    BY DEF Fence
  <1>1. PICK to \in {"SUCCEEDED", "QUEUED", "FAILED", "CANCELLED"},
             out \in Outcome, ev \in EventType :
          /\ EndAttempt(t, a, to, out, ev)
          /\ result' = IF to = "SUCCEEDED" THEN [result EXCEPT ![t] = a]
                                           ELSE result
    BY DEF complete_success, complete_retry, complete_failed,
           complete_cancelled, complete_abandoned, Outcome, EventType
  <1>2. to \in State \ {"RUNNING"}
    BY DEF State
  <1>3. \A x \in Tasks : result'[x] = IF x = t /\ to = "SUCCEEDED"
                                       THEN a ELSE result[x]
    BY <1>1 DEF TypeOK
  <1>4. QED
    BY <1>0, <1>1, <1>2, <1>3, EndAttemptMoves

\* Every step of the lifecycle is a step of the state machine or leaves its
\* rows alone.
LEMMA MachineStep ==
  ASSUME TypeOK, Safety, [Next]_vars
  PROVE  [Machine!Next]_(Machine!vars)
  <1> USE DEF row_vars, history_vars, attempt_vars, lease_vars, Machine!vars
  <1>1. ASSUME NEW t \in Tasks,
               LeaseExpires(t) \/ BackoffElapses(t) \/ ExecutionCapElapses(t)
        PROVE  UNCHANGED Machine!vars
    BY <1>1 DEF LeaseExpires, BackoffElapses, ExecutionCapElapses
  <1>2. ASSUME NEW w \in Workers,
               \/ register(w) \/ maybe_heartbeat(w) \/ drain_begins(w)
               \/ drain_grace_ends(w) \/ drain_ends(w) \/ crash(w)
        PROVE  UNCHANGED Machine!vars
    BY <1>2 DEF register, maybe_heartbeat, drain_begins, drain_grace_ends,
                drain_ends, crash
  <1>3. ASSUME NEW w \in Workers, NEW S \in SUBSET Tasks,
               claim_and_dispatch(w, S)
        PROVE  Machine!Next
    <2> SUFFICES ASSUME NEW t \in Tasks
                 PROVE  Machine!Kept(t) \/ Machine!Moved(t)
      BY DEF Machine!Next
    <2>1. CASE t \in S
      BY <1>3, <2>1, LegalMoves
         DEF claim_and_dispatch, Claimable, Machine!Moved, TypeOK
    <2>2. CASE t \notin S
      BY <1>3, <2>2 DEF claim_and_dispatch, Machine!Kept, TypeOK
    <2>3. QED
      BY <2>1, <2>2
  <1>4. ASSUME NEW w \in Workers, NEW t \in Tasks, NEW a \in Attempts,
               \/ renew_lease(w, t, a) \/ renewal_raises(w, t, a)
               \/ adapter_returns(w, t, a) \/ finalize_raises(w, t, a)
        PROVE  UNCHANGED Machine!vars
    BY <1>4 DEF renew_lease, renewal_raises, adapter_returns, finalize_raises
  <1>5. ASSUME NEW w \in Workers, NEW t \in Tasks, NEW a \in Attempts,
               NEW res \in Results, finalize(w, t, a, res)
        PROVE  Machine!Next \/ UNCHANGED Machine!vars
    <2>1. CASE Fence(w, t, a)
      BY <1>5, <2>1, CompletionMoves DEF finalize, Complete
    <2>2. CASE ~Fence(w, t, a)
      BY <1>5, <2>2 DEF finalize
    <2>3. QED
      BY <2>1, <2>2
  <1>6. ASSUME NEW w \in Workers, NEW t \in Tasks, abandon_owned(w, t)
        PROVE  Machine!Next \/ UNCHANGED Machine!vars
    BY <1>6, CompletionMoves DEF abandon_owned
  <1>7. ASSUME NEW S \in SUBSET Tasks, Reap(S),
               \A t \in S : state[t] = "RUNNING"
        PROVE  Machine!Next
    <2> DEFINE at == [t \in S |-> attempt[t]]
               to == [t \in S |-> IF HasBudget(t) THEN "QUEUED" ELSE "FAILED"]
               ev == [t \in S |-> {ReapEvent(t), "WORKER_LOST"}]
    <2>1. EndAttempts(S, at, to, "LOST", ev)
      BY <1>7 DEF Reap
    <2>2. \A t \in S : state[t] = "RUNNING" /\ to[t] \in State \ {"RUNNING"}
      BY <1>7 DEF State
    <2>3. \A t \in Tasks : result'[t] = IF t \in S /\ to[t] = "SUCCEEDED"
                                         THEN attempt[t] ELSE result[t]
      BY <1>7 DEF Reap
    <2> HIDE DEF at, to, ev
    <2>4. QED
      BY <2>1, <2>2, <2>3, EndAttemptsMoves
  <1>8. ASSUME NEW W \in SUBSET Workers, mark_dead_workers(W)
        PROVE  UNCHANGED Machine!vars
    BY <1>8 DEF mark_dead_workers
  <1>9. ASSUME NEW t \in Tasks, cancel_task(t)
        PROVE  Machine!Next
    <2> SUFFICES ASSUME NEW x \in Tasks
                 PROVE  Machine!Kept(x) \/ Machine!Moved(x)
      BY DEF Machine!Next
    <2>1. /\ UNCHANGED <<attempt, lease_worker_id, result>>
          /\ \/ UNCHANGED state
             \/ state[t] = "QUEUED" /\ state' = [state EXCEPT ![t] = "CANCELLED"]
      BY <1>9 DEF cancel_task
    <2>2. CASE x = t /\ state'[x] # state[x]
      BY <2>1, <2>2, LegalMoves DEF Machine!Moved, TypeOK, Safety,
                                    LeaseFollowsToken
    <2>3. CASE ~(x = t /\ state'[x] # state[x])
      BY <2>1, <2>3 DEF Machine!Kept, TypeOK
    <2>4. QED
      BY <2>2, <2>3
  <1>10. CASE UNCHANGED vars
    BY <1>10 DEF vars
  <1>11. QED
    BY <1>1, <1>2, <1>3, <1>4, <1>5, <1>6, <1>7, <1>8, <1>9, <1>10
       DEF Next, TimePasses, WorkerStep, AttemptStep, ReaperStep,
           reap_expired_leases, reap_hung_tasks, ExpiredLeases, HungTasks

\* Every behaviour of the workers, the reaper and the API is, on each task
\* row, a behaviour of the fenced state machine.
THEOREM Refinement == Spec => ImplementsStateMachine
  <1>1. Init => Machine!Init
    BY DEF Init, Machine!Init
  <1>2. TypeOK /\ Safety /\ [Next]_vars => [Machine!Next]_(Machine!vars)
    BY MachineStep
  <1>3. QED
    BY <1>1, <1>2, SafetyAlways, PTL
       DEF Spec, ImplementsStateMachine, Machine!Spec

\* A finish that comes late writes nothing to the row.
THEOREM StaleFinishCorrect == Spec => StaleFinishIsHarmless
  <1>1. TypeOK /\ Safety /\ [Next]_vars => [StaleFinishStep]_vars
    <2> SUFFICES ASSUME TypeOK, Safety, [Next]_vars,
                        NEW t \in Tasks, NEW a \in Attempts,
                        phase[t][a] = "finalizing", phase'[t][a] = "ended",
                        a # attempt[t] \/ state[t] # "RUNNING"
                 PROVE  UNCHANGED <<state[t], result[t], lease_worker_id[t],
                                    outcome[t]>>
      BY DEF StaleFinishStep
    <2> USE DEF row_vars, history_vars, attempt_vars, lease_vars
    <2>1. ASSUME NEW x \in Tasks,
                 LeaseExpires(x) \/ BackoffElapses(x) \/ ExecutionCapElapses(x)
                 \/ cancel_task(x)
          PROVE  FALSE
      BY <2>1 DEF LeaseExpires, BackoffElapses, ExecutionCapElapses, cancel_task
    <2>2. ASSUME NEW w \in Workers, NEW S \in SUBSET Tasks,
                 claim_and_dispatch(w, S)
          PROVE  FALSE
      BY <2>2 DEF claim_and_dispatch, TypeOK
    <2>3. ASSUME NEW w \in Workers,
                 \/ register(w) \/ maybe_heartbeat(w) \/ drain_begins(w)
                 \/ drain_grace_ends(w) \/ drain_ends(w) \/ crash(w)
          PROVE  UNCHANGED <<row_vars, history_vars>>
      BY <2>3 DEF register, maybe_heartbeat, drain_begins, drain_grace_ends,
                  drain_ends, crash
    <2>4. ASSUME NEW w \in Workers, NEW x \in Tasks, NEW b \in Attempts,
                 \/ renew_lease(w, x, b) \/ renewal_raises(w, x, b)
                 \/ adapter_returns(w, x, b) \/ finalize_raises(w, x, b)
          PROVE  UNCHANGED <<state, result, lease_worker_id, outcome>>
      BY <2>4 DEF renew_lease, renewal_raises, adapter_returns, finalize_raises
    <2>5. ASSUME NEW w \in Workers, NEW x \in Tasks, NEW b \in Attempts,
                 NEW res \in Results, finalize(w, x, b, res)
          PROVE  UNCHANGED <<state, result, lease_worker_id, outcome>>
      <3>1. phase' = [phase EXCEPT ![x][b] = "ended"]
        BY <2>5 DEF finalize, AttemptEnds
      <3>2. x = t /\ b = a
        BY <3>1 DEF TypeOK
      <3>3. ~Fence(w, x, b)
        BY <3>2 DEF Fence
      <3>4. QED
        BY <2>5, <3>3 DEF finalize, record_event
    <2>6. ASSUME NEW w \in Workers, NEW x \in Tasks, abandon_owned(w, x)
          PROVE  FALSE
      BY <2>6 DEF abandon_owned
    <2>7. ASSUME NEW S \in SUBSET Tasks, Reap(S) PROVE FALSE
      BY <2>7 DEF Reap
    <2>8. ASSUME NEW W \in SUBSET Workers, mark_dead_workers(W) PROVE FALSE
      BY <2>8 DEF mark_dead_workers
    <2>9. CASE UNCHANGED vars
      BY <2>9 DEF vars
    <2>10. QED
      BY <2>1, <2>2, <2>3, <2>4, <2>5, <2>6, <2>7, <2>8, <2>9
         DEF Next, TimePasses, WorkerStep, AttemptStep, ReaperStep,
             reap_expired_leases, reap_hung_tasks, ExpiredLeases, HungTasks
  <1>2. QED
    BY <1>1, SafetyAlways, PTL DEF Spec, StaleFinishIsHarmless

-----------------------------------------------------------------------------
(* Hand-backs.  That a worker which hands a task back has stopped running  *)
(* it needs to be known of every attempt of a process past its grace       *)
(* period, and of every token that it was given to some process.           *)

\* Where a process no longer executes anything.
Past == {"abandoning", "stopped", "crashed"}

\* A token in use was given to a worker, what executes has a live process,
\* and nothing executes at a worker that has handed back.
StoppedInv ==
  \A t \in Tasks, a \in Attempts :
    /\ a <= attempt[t] => /\ attempt_worker[t][a] \in Workers
                          /\ phase[t][a] # "none"
    /\ phase[t][a] \in {"running", "finalizing"}
         => a <= attempt[t] /\ Alive(attempt_worker[t][a])
    /\ outcome[t][a] = "ABANDONED"
         => /\ proc[attempt_worker[t][a]] \in Past
            /\ phase[t][a] = "ended"

\* A process past its grace period stays so, an attempt only goes on to its
\* end, no hand-back is added, and what executes has a live process.
Onward ==
  /\ UNCHANGED <<attempt, attempt_worker>>
  /\ \A w \in Workers : proc[w] \in Past => proc'[w] \in Past
  /\ \A t \in Tasks, a \in Attempts :
       /\ outcome'[t][a] = "ABANDONED" => outcome[t][a] = "ABANDONED"
       /\ \/ phase'[t][a] = phase[t][a]
          \/ /\ phase[t][a] \in {"running", "finalizing"}
             /\ phase'[t][a] \in {"finalizing", "ended"}
       /\ phase'[t][a] \in {"running", "finalizing"}
            => proc'[attempt_worker[t][a]] \in {"running", "draining"}

\* Such a step keeps the invariant.
LEMMA OnwardStopped ==
  ASSUME TypeOK, Safety, StoppedInv, Onward
  PROVE  StoppedInv'
  <1> SUFFICES ASSUME NEW t \in Tasks, NEW a \in Attempts
               PROVE  /\ a <= attempt'[t] => /\ attempt_worker'[t][a] \in Workers
                                             /\ phase'[t][a] # "none"
                      /\ phase'[t][a] \in {"running", "finalizing"}
                           => /\ a <= attempt'[t]
                              /\ proc'[attempt_worker'[t][a]]
                                   \in {"running", "draining"}
                      /\ outcome'[t][a] = "ABANDONED"
                           => /\ proc'[attempt_worker'[t][a]] \in Past
                              /\ phase'[t][a] = "ended"
    BY DEF StoppedInv, Alive
  <1>1. a <= attempt[t] => /\ attempt_worker[t][a] \in Workers
                           /\ phase[t][a] # "none"
    BY DEF StoppedInv
  <1>2. phase[t][a] \in {"running", "finalizing"} => a <= attempt[t]
    BY DEF StoppedInv
  <1>3. outcome[t][a] = "ABANDONED" => /\ proc[attempt_worker[t][a]] \in Past
                                       /\ phase[t][a] = "ended"
    BY DEF StoppedInv
  <1>4. outcome[t][a] = "ABANDONED" => attempt_worker[t][a] \in Workers
    <2>1. outcome[t][a] = "ABANDONED" => ~(a > attempt[t])
      BY DEF Safety, LedgerAgrees
    <2>2. a \in Nat /\ attempt[t] \in Nat
      BY ConstantsAssumption DEF TypeOK, Attempts
    <2> QED
      BY <1>1, <2>1, <2>2
  <1> QED
    BY <1>1, <1>2, <1>3, <1>4 DEF Onward

\* A claim gives a token to a process whose loop runs.
LEMMA ClaimStopped ==
  ASSUME TypeOK, Safety, StoppedInv, NEW w \in Workers,
         NEW S \in SUBSET Tasks, claim_and_dispatch(w, S)
  PROVE  StoppedInv'
  <1> SUFFICES ASSUME NEW t \in Tasks, NEW a \in Attempts
               PROVE  /\ a <= attempt'[t] => /\ attempt_worker'[t][a] \in Workers
                                             /\ phase'[t][a] # "none"
                      /\ phase'[t][a] \in {"running", "finalizing"}
                           => /\ a <= attempt'[t]
                              /\ proc'[attempt_worker'[t][a]]
                                   \in {"running", "draining"}
                      /\ outcome'[t][a] = "ABANDONED"
                           => /\ proc'[attempt_worker'[t][a]] \in Past
                              /\ phase'[t][a] = "ended"
    BY DEF StoppedInv, Alive
  <1>0. a \in Nat /\ attempt[t] \in Nat /\ proc' = proc /\ proc[w] = "running"
    BY ConstantsAssumption DEF TypeOK, Attempts, claim_and_dispatch
  <1>1. CASE t \in S /\ a = attempt[t] + 1
    <2>1. /\ attempt'[t] = attempt[t] + 1 /\ attempt_worker'[t][a] = w
          /\ phase'[t][a] = "running" /\ outcome'[t][a] = "open"
      BY <1>1 DEF claim_and_dispatch
    <2> QED
      BY <1>0, <1>1, <2>1
  <1>2. CASE ~(t \in S /\ a = attempt[t] + 1)
    <2>1. /\ attempt_worker'[t][a] = attempt_worker[t][a]
          /\ phase'[t][a] = phase[t][a] /\ outcome'[t][a] = outcome[t][a]
          /\ attempt'[t] = IF t \in S THEN attempt[t] + 1 ELSE attempt[t]
      BY <1>2 DEF claim_and_dispatch
    <2>2. a <= attempt'[t] <=> a <= attempt[t]
      BY <1>0, <1>2, <2>1
    <2>3. /\ a <= attempt[t] => /\ attempt_worker[t][a] \in Workers
                                /\ phase[t][a] # "none"
          /\ phase[t][a] \in {"running", "finalizing"}
               => /\ a <= attempt[t]
                  /\ proc[attempt_worker[t][a]] \in {"running", "draining"}
          /\ outcome[t][a] = "ABANDONED"
               => /\ proc[attempt_worker[t][a]] \in Past
                  /\ phase[t][a] = "ended"
      BY DEF StoppedInv, Alive
    <2> QED
      BY <1>0, <2>1, <2>2, <2>3
  <1> QED
    BY <1>1, <1>2

\* A process that ends with all its attempts goes onward.
LEMMA ProcessEnds ==
  ASSUME TypeOK, Safety, StoppedInv, NEW w \in Workers, NEW p \in Past,
         AttemptsEnd(w), proc' = [proc EXCEPT ![w] = p],
         UNCHANGED <<row_vars, history_vars>>
  PROVE  Onward
  <1>1. UNCHANGED <<attempt, attempt_worker, outcome>>
    BY DEF row_vars, history_vars
  <1>2. \A v \in Workers : proc[v] \in Past => proc'[v] \in Past
    BY DEF TypeOK
  <1>3. ASSUME NEW t \in Tasks, NEW a \in Attempts
        PROVE  /\ \/ phase'[t][a] = phase[t][a]
                  \/ /\ phase[t][a] \in {"running", "finalizing"}
                     /\ phase'[t][a] \in {"finalizing", "ended"}
               /\ phase'[t][a] \in {"running", "finalizing"}
                    => proc'[attempt_worker[t][a]] \in {"running", "draining"}
    <2>1. phase'[t][a] = IF InProcess(w, t, a) THEN "ended" ELSE phase[t][a]
      BY DEF AttemptsEnd
    <2>2. CASE InProcess(w, t, a)
      BY <2>1, <2>2 DEF InProcess
    <2>3. CASE ~InProcess(w, t, a)
      <3>1. phase'[t][a] = phase[t][a]
        BY <2>1, <2>3
      <3>2. ASSUME phase[t][a] \in {"running", "finalizing"}
            PROVE  proc'[attempt_worker[t][a]] \in {"running", "draining"}
        <4>1. attempt_worker[t][a] # w
          BY <2>3, <3>2 DEF InProcess
        <4>2. /\ attempt_worker[t][a] \in Workers
              /\ proc[attempt_worker[t][a]] \in {"running", "draining"}
          BY <3>2 DEF StoppedInv, Alive
        <4> QED
          BY <4>1, <4>2 DEF TypeOK
      <3> QED
        BY <3>1, <3>2
    <2> QED
      BY <2>2, <2>3
  <1> QED
    BY <1>1, <1>2, <1>3 DEF Onward

\* A hand-back is the worker's own, of an attempt that has ended.
LEMMA AbandonStopped ==
  ASSUME TypeOK, Safety, StoppedInv, NEW w \in Workers, NEW t \in Tasks,
         NEW a \in Attempts, proc[w] = "abandoning", Fence(w, t, a),
         complete_abandoned(t, a), UNCHANGED <<proc, phase>>
  PROVE  StoppedInv'
  <1>1. /\ attempt_worker[t][a] = w /\ a <= attempt[t]
        /\ attempt[t] = a
    BY ConstantsAssumption DEF Fence, Safety, LeaseFollowsToken, Attempts
  <1>2. phase[t][a] = "ended"
    <2>1. phase[t][a] \notin {"running", "finalizing"}
      BY <1>1 DEF StoppedInv, Alive
    <2>2. phase[t][a] # "none"
      BY <1>1 DEF StoppedInv
    <2> QED
      BY <2>1, <2>2 DEF TypeOK
  <1>3. /\ UNCHANGED <<attempt, attempt_worker>>
        /\ \A x \in Tasks, b \in Attempts :
             outcome'[x][b] = IF x = t /\ b = a THEN "ABANDONED"
                              ELSE outcome[x][b]
    BY DEF complete_abandoned, EndAttempt, EndAttempts
  <1> QED
    BY <1>1, <1>2, <1>3 DEF StoppedInv, Past, Alive

\* A step of one attempt goes onward.
LEMMA AttemptOnward ==
  ASSUME TypeOK, Safety, StoppedInv,
         NEW w \in Workers, NEW t \in Tasks, NEW a \in Attempts,
         phase[t][a] \in {"running", "finalizing"},
         NEW p \in {"finalizing", "ended"},
         phase' = [phase EXCEPT ![t][a] = p] \/ UNCHANGED phase,
         UNCHANGED <<attempt, attempt_worker, proc>>,
         \A x \in Tasks, b \in Attempts :
           outcome'[x][b] = "ABANDONED" => outcome[x][b] = "ABANDONED"
  PROVE  Onward
  <1>1. ASSUME NEW x \in Tasks, NEW b \in Attempts
        PROVE  /\ \/ phase'[x][b] = phase[x][b]
                  \/ /\ phase[x][b] \in {"running", "finalizing"}
                     /\ phase'[x][b] \in {"finalizing", "ended"}
               /\ phase'[x][b] \in {"running", "finalizing"}
                    => phase[x][b] \in {"running", "finalizing"}
    <2>1. phase'[x][b] = phase[x][b] \/ (x = t /\ b = a /\ phase'[x][b] = p)
      BY DEF TypeOK
    <2> QED
      BY <2>1
  <1>2. \A x \in Tasks, b \in Attempts :
          phase[x][b] \in {"running", "finalizing"}
            => proc'[attempt_worker[x][b]] \in {"running", "draining"}
    BY DEF StoppedInv, Alive
  <1> QED
    BY <1>1, <1>2 DEF Onward

\* A step that no attempt takes part in goes onward.
LEMMA IdleOnward ==
  ASSUME TypeOK, Safety, StoppedInv,
         UNCHANGED <<attempt, attempt_worker, phase>>,
         \A w \in Workers : /\ proc[w] \in Past => proc'[w] \in Past
                            /\ proc[w] \in {"running", "draining"} =>
                                 proc'[w] \in {"running", "draining"},
         \A x \in Tasks, b \in Attempts :
           outcome'[x][b] = "ABANDONED" => outcome[x][b] = "ABANDONED"
  PROVE  Onward
  <1>1. \A x \in Tasks, b \in Attempts :
          phase[x][b] \in {"running", "finalizing"}
            => /\ attempt_worker[x][b] \in Workers
               /\ proc[attempt_worker[x][b]] \in {"running", "draining"}
    BY DEF StoppedInv, Alive
  <1> QED
    BY <1>1 DEF Onward

\* What a finalize adds to the ledger is no hand-back.
LEMMA CompleteNoHandBack ==
  ASSUME NEW t \in Tasks, NEW a \in Attempts, NEW res \in Results,
         Complete(t, a, res)
  PROVE  /\ UNCHANGED <<attempt, attempt_worker>>
         /\ \A x \in Tasks, b \in Attempts :
              outcome'[x][b] = "ABANDONED" => outcome[x][b] = "ABANDONED"
  <1>1. PICK to \in State, out \in {"SUCCEEDED", "FAILED", "CANCELLED"},
             ev \in EventType : EndAttempt(t, a, to, out, ev)
    BY DEF Complete, complete_success, complete_retry, complete_failed,
           complete_cancelled, State, EventType
  <1> QED
    BY <1>1 DEF EndAttempt, EndAttempts

\* Every step keeps the invariant.
LEMMA StoppedStep ==
  ASSUME TypeOK, Safety, StoppedInv, [Next]_vars
  PROVE  StoppedInv'
  <1> USE DEF row_vars, history_vars, attempt_vars, lease_vars
  <1>1. ASSUME NEW t \in Tasks,
               \/ LeaseExpires(t) \/ BackoffElapses(t)
               \/ ExecutionCapElapses(t) \/ cancel_task(t)
        PROVE  StoppedInv'
    <2>1. UNCHANGED <<attempt, attempt_worker, phase, proc, outcome>>
      BY <1>1 DEF LeaseExpires, BackoffElapses, ExecutionCapElapses,
                  cancel_task, record_event
    <2> QED
      BY <2>1, IdleOnward, OnwardStopped
  <1>2. ASSUME NEW w \in Workers,
               register(w) \/ drain_begins(w) \/ drain_ends(w)
        PROVE  StoppedInv'
    <2>1. /\ UNCHANGED <<attempt, attempt_worker, phase, outcome>>
          /\ \/ proc[w] = "new" /\ proc' = [proc EXCEPT ![w] = "running"]
             \/ proc[w] = "running" /\ proc' = [proc EXCEPT ![w] = "draining"]
             \/ proc[w] = "abandoning" /\ proc' = [proc EXCEPT ![w] = "stopped"]
      BY <1>2 DEF register, drain_begins, drain_ends
    <2>2. \A v \in Workers : /\ proc[v] \in Past => proc'[v] \in Past
                             /\ proc[v] \in {"running", "draining"} =>
                                  proc'[v] \in {"running", "draining"}
      BY <2>1 DEF TypeOK, Past
    <2> QED
      BY <2>1, <2>2, IdleOnward, OnwardStopped
  <1>3. ASSUME NEW w \in Workers, NEW S \in SUBSET Tasks,
               claim_and_dispatch(w, S)
        PROVE  StoppedInv'
    BY <1>3, ClaimStopped
  <1>4. ASSUME NEW w \in Workers,
               maybe_heartbeat(w) \/ drain_grace_ends(w) \/ crash(w)
        PROVE  StoppedInv'
    <2>1. PICK p \in Past : proc' = [proc EXCEPT ![w] = p]
      BY <1>4 DEF maybe_heartbeat, drain_grace_ends, crash, Past
    <2>2. AttemptsEnd(w) /\ UNCHANGED <<row_vars, history_vars>>
      BY <1>4 DEF maybe_heartbeat, drain_grace_ends, crash
    <2> QED
      BY <2>1, <2>2, ProcessEnds, OnwardStopped
  <1>5. ASSUME NEW w \in Workers, NEW t \in Tasks, NEW a \in Attempts,
               AttemptStep(w, t, a)
        PROVE  StoppedInv'
    <2>1. phase[t][a] \in {"running", "finalizing"} /\ UNCHANGED proc
      BY <1>5 DEF AttemptStep, renew_lease, renewal_raises, adapter_returns,
                  finalize, finalize_raises
    <2>2. /\ UNCHANGED <<attempt, attempt_worker>>
          /\ \A x \in Tasks, b \in Attempts :
               outcome'[x][b] = "ABANDONED" => outcome[x][b] = "ABANDONED"
      <3>1. CASE \/ renew_lease(w, t, a) \/ renewal_raises(w, t, a)
                 \/ adapter_returns(w, t, a) \/ finalize_raises(w, t, a)
        BY <3>1 DEF renew_lease, renewal_raises, adapter_returns,
                    finalize_raises
      <3>2. ASSUME NEW res \in Results, finalize(w, t, a, res)
            PROVE  /\ UNCHANGED <<attempt, attempt_worker>>
                   /\ \A x \in Tasks, b \in Attempts :
                        outcome'[x][b] = "ABANDONED"
                          => outcome[x][b] = "ABANDONED"
        <4>1. CASE Fence(w, t, a)
          BY <3>2, <4>1, CompleteNoHandBack DEF finalize
        <4>2. CASE ~Fence(w, t, a)
          BY <3>2, <4>2 DEF finalize, record_event
        <4> QED
          BY <4>1, <4>2
      <3> QED
        BY <1>5, <3>1, <3>2 DEF AttemptStep
    <2>3. PICK p \in {"finalizing", "ended"} :
            phase' = [phase EXCEPT ![t][a] = p] \/ UNCHANGED phase
      BY <1>5 DEF AttemptStep, renew_lease, renewal_raises, adapter_returns,
                  finalize, finalize_raises, AttemptEnds
    <2> QED
      BY <2>1, <2>2, <2>3, AttemptOnward, OnwardStopped
  <1>6. ASSUME NEW w \in Workers, NEW t \in Tasks, abandon_owned(w, t)
        PROVE  StoppedInv'
    <2>1. CASE Fence(w, t, owned[w][t]) /\ complete_abandoned(t, owned[w][t])
      <3>1. owned[w][t] \in Attempts
        BY <1>6 DEF abandon_owned, TypeOK, Attempts
      <3>2. proc[w] = "abandoning" /\ UNCHANGED <<proc, phase>>
        BY <1>6 DEF abandon_owned
      <3> QED
        BY <2>1, <3>1, <3>2, AbandonStopped
    <2>2. CASE UNCHANGED <<row_vars, history_vars>>
      <3>1. UNCHANGED <<attempt, attempt_worker, phase, proc, outcome>>
        BY <1>6, <2>2 DEF abandon_owned
      <3> QED
        BY <3>1, IdleOnward, OnwardStopped
    <2> QED
      BY <1>6, <2>1, <2>2 DEF abandon_owned
  <1>7. ASSUME NEW S \in SUBSET Tasks, Reap(S) PROVE StoppedInv'
    <2>1. /\ UNCHANGED <<attempt, attempt_worker, phase, proc>>
          /\ \A x \in Tasks, b \in Attempts :
               outcome'[x][b] = "ABANDONED" => outcome[x][b] = "ABANDONED"
      BY <1>7 DEF Reap, EndAttempts
    <2> QED
      BY <2>1, IdleOnward, OnwardStopped
  <1>8. CASE \/ UNCHANGED vars
             \/ \E W \in SUBSET Workers : mark_dead_workers(W)
    <2>1. UNCHANGED <<attempt, attempt_worker, phase, proc, outcome>>
      BY <1>8 DEF vars, mark_dead_workers
    <2> QED
      BY <2>1, IdleOnward, OnwardStopped
  <1> QED
    BY <1>1, <1>2, <1>3, <1>4, <1>5, <1>6, <1>7, <1>8
       DEF Next, TimePasses, WorkerStep, ReaperStep, reap_expired_leases,
           reap_hung_tasks, ExpiredLeases, HungTasks

\* Spec => []StoppedInv, with Safety.
LEMMA StoppedAlways == Spec => [](Safety /\ StoppedInv)
  <1>1. Init => StoppedInv
    BY ConstantsAssumption DEF Init, StoppedInv, Attempts
  <1>2. TypeOK /\ Safety /\ StoppedInv /\ [Next]_vars => StoppedInv'
    BY StoppedStep
  <1> QED
    BY <1>1, <1>2, SafetyAlways, PTL DEF Spec

\* A task is handed back only when the worker that gives it up is past its
\* grace period and no longer executes the attempt.
THEOREM HandBackCorrect == Spec => []HandedBackMeansStopped
  <1>1. StoppedInv => HandedBackMeansStopped
    BY DEF StoppedInv, HandedBackMeansStopped, Past
  <1> QED
    BY <1>1, StoppedAlways, PTL

\* A RUNNING row is leased by the worker its current token was given to, and
\* whatever executes does so in a live process that was given its token.
THEOREM OwnerCorrect == Spec => []OwnerHoldsTheToken
  <1>1. Safety /\ StoppedInv => OwnerHoldsTheToken
    BY DEF Safety, StoppedInv, OwnerHoldsTheToken
  <1> QED
    BY <1>1, StoppedAlways, PTL

-----------------------------------------------------------------------------
(* The event log.  Replaying it needs to know which attempts the log opens *)
(* and closes, and that it ends exactly when the task does.                *)

\* The event a task ends with, by the state it ends in.
FinalEvent(s) == CASE s = "SUCCEEDED" -> "TASK_SUCCEEDED"
                   [] s = "FAILED"    -> "TASK_FAILED"
                   [] s = "CANCELLED" -> "TASK_CANCELLED"

\* A claim opens an attempt, whatever ends it closes it.
Opened(log, a) == <<"TASK_CLAIMED", a>> \in log
Closed(log, a) == \E e \in ClosingEvents : <<e, a>> \in log

\* The log of a task in state s with n tokens handed out: it opens the
\* attempts up to n, closes those that are over while the task goes on, and
\* has one final event once the task has ended, that of the last attempt.
LogOf(log, s, n) ==
  /\ \A a \in Attempts :
       /\ Opened(log, a) <=> a <= n
       /\ a < n \/ (a = n /\ s = "QUEUED") => Closed(log, a)
       /\ Closed(log, a) => a < n \/ (a = n /\ s # "RUNNING")
  /\ \A e \in TerminalEvents, a \in 0 .. MaxClaims :
       <<e, a>> \in log => s \in TERMINAL /\ e = FinalEvent(s) /\ a = n
  /\ s \in TERMINAL => <<FinalEvent(s), n>> \in log

\* That is so of every task.
LogInv == \A t \in Tasks : LogOf(events[t], state[t], attempt[t])

\* The events that replaying looks at.
Replayed == {"TASK_CLAIMED"} \cup ClosingEvents \cup TerminalEvents

\* Events that replaying does not look at change nothing.
LEMMA LogFrame ==
  ASSUME TypeOK, LogInv, UNCHANGED <<state, attempt>>,
         \A t \in Tasks : \A e \in Replayed, a \in 0 .. MaxClaims :
           <<e, a>> \in events'[t] <=> <<e, a>> \in events[t]
  PROVE  LogInv'
  <1> SUFFICES ASSUME NEW t \in Tasks
               PROVE  LogOf(events'[t], state[t], attempt[t])
    BY DEF LogInv
  <1>1. LogOf(events[t], state[t], attempt[t])
    BY DEF LogInv
  <1>2. \A a \in Attempts : a \in 0 .. MaxClaims
    BY ConstantsAssumption DEF Attempts
  <1>3. \A a \in Attempts :
          /\ Opened(events'[t], a) <=> Opened(events[t], a)
          /\ Closed(events'[t], a) <=> Closed(events[t], a)
    BY <1>2 DEF Opened, Closed, Replayed
  <1>4. \A e \in TerminalEvents, a \in 0 .. MaxClaims :
          <<e, a>> \in events'[t] <=> <<e, a>> \in events[t]
    BY DEF Replayed
  <1>5. state[t] \in TERMINAL => <<FinalEvent(state[t]), attempt[t]>> \in events'[t]
    <2>1. state[t] \in TERMINAL => FinalEvent(state[t]) \in TerminalEvents
      BY DEF TERMINAL, FinalEvent, TerminalEvents
    <2>2. attempt[t] \in 0 .. MaxClaims
      BY DEF TypeOK
    <2> QED
      BY <1>1, <1>4, <2>1, <2>2 DEF LogOf
  <1> QED
    BY <1>1, <1>3, <1>4, <1>5 DEF LogOf

\* The events ev fit the end of an attempt in state to: they close it or they
\* end the task.
EventsFit(to, ev) ==
  /\ to \in State \ {"RUNNING"}
  /\ ev \subseteq EventType \ {"TASK_CLAIMED"}
  /\ to = "QUEUED" => /\ ev \cap ClosingEvents # {}
                      /\ ev \cap TerminalEvents = {}
  /\ to \in TERMINAL => ev \cap TerminalEvents = {FinalEvent(to)}

\* One log after the end of its attempt.
LEMMA LogEnds ==
  ASSUME NEW log \in SUBSET (EventType \X (0 .. MaxClaims)),
         NEW n \in Attempts, LogOf(log, "RUNNING", n),
         NEW to, NEW ev, EventsFit(to, ev)
  PROVE  LogOf(log \cup (ev \X {n}), to, n)
  <1> DEFINE new == log \cup (ev \X {n})
  <1>0. n \in 0 .. MaxClaims /\ n \in Nat /\ \A a \in Attempts : a \in Nat
    BY ConstantsAssumption DEF Attempts
  <1>1. \A e, a : <<e, a>> \in new <=> <<e, a>> \in log \/ (e \in ev /\ a = n)
    OBVIOUS
  <1>2. \A a \in Attempts : Opened(new, a) <=> a <= n
    BY <1>1 DEF Opened, LogOf, EventsFit
  <1>3. \A a \in Attempts : Closed(new, a) <=>
          Closed(log, a) \/ (a = n /\ ev \cap ClosingEvents # {})
    BY <1>1 DEF Closed
  <1>4. ASSUME NEW e \in TerminalEvents, NEW a \in 0 .. MaxClaims,
               <<e, a>> \in new
        PROVE  to \in TERMINAL /\ e = FinalEvent(to) /\ a = n
    <2>1. <<e, a>> \notin log
      BY DEF LogOf, TERMINAL
    <2>2. e \in ev /\ a = n
      BY <1>1, <1>4, <2>1
    <2>3. to \in TERMINAL
      BY <2>2 DEF EventsFit, State, TERMINAL
    <2> QED
      BY <2>2, <2>3 DEF EventsFit
  <1>5. to \in TERMINAL => <<FinalEvent(to), n>> \in new
    <2>1. to \in TERMINAL => FinalEvent(to) \in ev
      BY DEF EventsFit
    <2> QED
      BY <1>1, <2>1
  <1>6. ASSUME NEW a \in Attempts
        PROVE  /\ a < n \/ (a = n /\ to = "QUEUED") => Closed(new, a)
               /\ Closed(new, a) => a < n \/ (a = n /\ to # "RUNNING")
    <2>1. /\ a < n => Closed(log, a)
          /\ Closed(log, a) => a < n
      BY DEF LogOf
    <2> QED
      BY <1>3, <2>1 DEF EventsFit
  <1> HIDE DEF new
  <1>7. LogOf(new, to, n)
    BY <1>2, <1>4, <1>5, <1>6 DEF LogOf
  <1> QED
    BY <1>7 DEF new

\* A batch of ends of attempts keeps the log in step with the rows.
LEMMA EndAttemptsLog ==
  ASSUME TypeOK, Safety, LogInv,
         NEW S \in SUBSET Tasks, NEW at, NEW to, NEW out, NEW ev,
         \A t \in S : state[t] = "RUNNING",
         \A t \in S : EventsFit(to[t], ev[t]),
         EndAttempts(S, at, to, out, ev)
  PROVE  LogInv'
  <1> SUFFICES ASSUME NEW t \in Tasks
               PROVE  LogOf(events'[t], state'[t], attempt'[t])
    BY DEF LogInv
  <1>1. LogOf(events[t], state[t], attempt[t]) /\ attempt' = attempt
    BY DEF LogInv, EndAttempts
  <1>2. CASE t \in S
    <2>1. /\ state'[t] = to[t]
          /\ events'[t] = events[t] \cup (ev[t] \X {attempt[t]})
      BY <1>2 DEF EndAttempts
    <2>2. attempt[t] \in Attempts /\ LogOf(events[t], "RUNNING", attempt[t])
      BY <1>1, <1>2 DEF Safety, LeaseFollowsToken
    <2>3. events[t] \in SUBSET (EventType \X (0 .. MaxClaims))
      BY DEF TypeOK
    <2>4. LogOf(events[t] \cup (ev[t] \X {attempt[t]}), to[t], attempt[t])
      BY <1>2, <2>2, <2>3, LogEnds
    <2> QED
      BY <1>1, <2>1, <2>4
  <1>3. CASE t \notin S
    <2>1. state'[t] = state[t] /\ events'[t] = events[t]
      BY <1>3 DEF EndAttempts
    <2> QED
      BY <1>1, <2>1
  <1> QED
    BY <1>2, <1>3

\* So does the end of one attempt.
LEMMA EndAttemptLog ==
  ASSUME TypeOK, Safety, LogInv, NEW t \in Tasks, NEW a, NEW to, NEW out,
         NEW ev, state[t] = "RUNNING", EventsFit(to, {ev}),
         EndAttempt(t, a, to, out, ev)
  PROVE  LogInv'
  <1> DEFINE S == {t}
             at == [x \in {t} |-> a]
             tos == [x \in {t} |-> to]
             evs == [x \in {t} |-> {ev}]
  <1>1. /\ S \in SUBSET Tasks
        /\ \A x \in S : state[x] = "RUNNING"
        /\ \A x \in S : EventsFit(tos[x], evs[x])
    OBVIOUS
  <1>2. EndAttempts(S, at, tos, out, evs)
    BY DEF EndAttempt
  <1> HIDE DEF S, at, tos, evs
  <1> QED
    BY <1>1, <1>2, EndAttemptsLog

\* A recorded event that replaying does not look at.
LEMMA NoteLog ==
  ASSUME TypeOK, LogInv, UNCHANGED <<state, attempt>>, NEW t \in Tasks,
         NEW e \in {"CANCEL_REQUESTED", "STALE_WRITE_REJECTED"}, NEW a,
         record_event(t, e, a)
  PROVE  LogInv'
  <1>1. ASSUME NEW x \in Tasks, NEW f \in Replayed, NEW b \in 0 .. MaxClaims
        PROVE  <<f, b>> \in events'[x] <=> <<f, b>> \in events[x]
    <2>1. events'[x] = events[x] \/ events'[x] = events[x] \cup {<<e, a>>}
      BY DEF record_event, TypeOK
    <2>2. f # e
      BY DEF Replayed, ClosingEvents, TerminalEvents
    <2> QED
      BY <2>1, <2>2
  <1> QED
    BY <1>1, LogFrame

\* A claim opens the next attempt.
LEMMA ClaimLog ==
  ASSUME TypeOK, LogInv, NEW w \in Workers, NEW S \in SUBSET Tasks,
         claim_and_dispatch(w, S)
  PROVE  LogInv'
  <1> SUFFICES ASSUME NEW t \in Tasks
               PROVE  LogOf(events'[t], state'[t], attempt'[t])
    BY DEF LogInv
  <1>1. LogOf(events[t], state[t], attempt[t])
    BY DEF LogInv
  <1>2. CASE t \in S
    <2> DEFINE n == attempt[t]
               new == events[t] \cup {<<"TASK_CLAIMED", n + 1>>}
    <2>1. /\ state'[t] = "RUNNING" /\ events'[t] = new /\ attempt'[t] = n + 1
          /\ state[t] = "QUEUED"
      BY <1>2 DEF claim_and_dispatch, Claimable
    <2>2. n \in Nat /\ \A a \in Attempts : a \in Nat
      BY ConstantsAssumption DEF TypeOK, Attempts
    <2>3. \A e, a : <<e, a>> \in new <=>
            <<e, a>> \in events[t] \/ (e = "TASK_CLAIMED" /\ a = n + 1)
      OBVIOUS
    <2>4. \A a \in Attempts : Opened(new, a) <=> a <= n + 1
      <3>1. \A a \in Attempts : Opened(events[t], a) <=> a <= n
        BY <1>1 DEF LogOf
      <3>2. \A a \in Attempts : Opened(new, a) <=> Opened(events[t], a) \/ a = n + 1
        BY <2>3 DEF Opened
      <3>3. \A a \in Attempts : a <= n + 1 <=> a <= n \/ a = n + 1
        BY <2>2
      <3> QED
        BY <3>1, <3>2, <3>3
    <2>5. \A a \in Attempts : Closed(new, a) <=> Closed(events[t], a)
      BY <2>3 DEF Closed, ClosingEvents
    <2>6. \A a \in Attempts : Closed(events[t], a) <=> a < n + 1
      <3>1. \A a \in Attempts : Closed(events[t], a) <=> a < n \/ a = n
        BY <1>1, <2>1 DEF LogOf
      <3>2. \A a \in Attempts : a < n + 1 <=> a < n \/ a = n
        BY <2>2
      <3> QED
        BY <3>1, <3>2
    <2>7. \A e \in TerminalEvents, a \in 0 .. MaxClaims : <<e, a>> \notin new
      BY <1>1, <2>1, <2>3 DEF LogOf, TERMINAL, TerminalEvents
    <2> HIDE DEF new, n
    <2>8. LogOf(new, "RUNNING", n + 1)
      BY <2>4, <2>5, <2>6, <2>7 DEF LogOf, TERMINAL
    <2> QED
      BY <2>1, <2>8
  <1>3. CASE t \notin S
    <2>1. /\ state'[t] = state[t] /\ events'[t] = events[t]
          /\ attempt'[t] = attempt[t]
      BY <1>3 DEF claim_and_dispatch
    <2> QED
      BY <1>1, <2>1
  <1> QED
    BY <1>2, <1>3

\* A cancellation through the API ends a queued task in the log too; of a
\* running one it only leaves a note.
LEMMA CancelLog ==
  ASSUME TypeOK, LogInv, NEW t \in Tasks, cancel_task(t)
  PROVE  LogInv'
  <1>1. attempt' = attempt
    BY DEF cancel_task
  <1>2. CASE /\ state[t] = "QUEUED"
             /\ state' = [state EXCEPT ![t] = "CANCELLED"]
             /\ record_event(t, "TASK_CANCELLED", attempt[t])
    <2> SUFFICES ASSUME NEW x \in Tasks
                 PROVE  LogOf(events'[x], state'[x], attempt[x])
      BY <1>1 DEF LogInv
    <2>1. LogOf(events[x], state[x], attempt[x])
      BY DEF LogInv
    <2>2. CASE x = t
      <3> DEFINE n == attempt[t]
                 new == events[t] \cup {<<"TASK_CANCELLED", n>>}
      <3>1. events'[t] = new /\ state'[t] = "CANCELLED"
        BY <1>2 DEF record_event, TypeOK
      <3>2. \A e, a : <<e, a>> \in new <=>
              <<e, a>> \in events[t] \/ (e = "TASK_CANCELLED" /\ a = n)
        OBVIOUS
      <3>3. \A a \in Attempts : /\ Opened(new, a) <=> Opened(events[t], a)
                                /\ Closed(new, a) <=> Closed(events[t], a)
        BY <3>2 DEF Opened, Closed, ClosingEvents
      <3>4. \A e \in TerminalEvents, a \in 0 .. MaxClaims :
              <<e, a>> \in new => e = "TASK_CANCELLED" /\ a = n
        BY <1>2, <2>1, <2>2, <3>2 DEF LogOf, TERMINAL
      <3>5. FinalEvent("CANCELLED") = "TASK_CANCELLED" /\ "CANCELLED" \in TERMINAL
        BY DEF FinalEvent, TERMINAL
      <3>6. <<"TASK_CANCELLED", n>> \in new
        OBVIOUS
      <3> HIDE DEF new
      <3>7. LogOf(new, "CANCELLED", n)
        BY <1>2, <2>1, <2>2, <3>3, <3>4, <3>5, <3>6 DEF LogOf
      <3> QED
        BY <2>2, <3>1, <3>7
    <2>3. CASE x # t
      <3>1. events'[x] = events[x] /\ state'[x] = state[x]
        BY <1>2, <2>3 DEF record_event, TypeOK
      <3> QED
        BY <2>1, <3>1
    <2> QED
      BY <2>2, <2>3
  <1>3. CASE record_event(t, "CANCEL_REQUESTED", attempt[t]) /\ UNCHANGED state
    BY <1>1, <1>3, NoteLog
  <1> QED
    BY <1>2, <1>3 DEF cancel_task

\* What a finalize that passes its fence writes in the log.
LEMMA CompleteLog ==
  ASSUME TypeOK, Safety, LogInv, NEW t \in Tasks, NEW a \in Nat,
         state[t] = "RUNNING",
         \/ complete_success(t, a) \/ complete_retry(t, a)
         \/ complete_failed(t, a) \/ complete_cancelled(t, a)
         \/ complete_abandoned(t, a)
  PROVE  LogInv'
  <1> USE DEF EventsFit, State, EventType, ClosingEvents, TerminalEvents,
              TERMINAL, FinalEvent
  <1>1. CASE complete_success(t, a)
    <2>1. EventsFit("SUCCEEDED", {"TASK_SUCCEEDED"})
      OBVIOUS
    <2> QED
      BY <1>1, <2>1, EndAttemptLog DEF complete_success
  <1>2. CASE complete_retry(t, a)
    <2>1. EventsFit("QUEUED", {"RETRY_SCHEDULED"})
      OBVIOUS
    <2> QED
      BY <1>2, <2>1, EndAttemptLog DEF complete_retry
  <1>3. CASE complete_failed(t, a)
    <2>1. EventsFit("FAILED", {"TASK_FAILED"})
      OBVIOUS
    <2> QED
      BY <1>3, <2>1, EndAttemptLog DEF complete_failed
  <1>4. CASE complete_cancelled(t, a)
    <2>1. EventsFit("CANCELLED", {"TASK_CANCELLED"})
      OBVIOUS
    <2> QED
      BY <1>4, <2>1, EndAttemptLog DEF complete_cancelled
  <1>5. CASE complete_abandoned(t, a)
    <2>1. EventsFit("QUEUED", {"TASK_ABANDONED"})
      OBVIOUS
    <2> QED
      BY <1>5, <2>1, EndAttemptLog DEF complete_abandoned
  <1> QED
    BY <1>1, <1>2, <1>3, <1>4, <1>5

\* What a batch of the reaper writes in the log.
LEMMA ReapLog ==
  ASSUME TypeOK, Safety, LogInv, NEW S \in SUBSET Tasks,
         \A t \in S : state[t] = "RUNNING", Reap(S)
  PROVE  LogInv'
  <1> DEFINE at == [t \in S |-> attempt[t]]
             to == [t \in S |-> IF HasBudget(t) THEN "QUEUED" ELSE "FAILED"]
             ev == [t \in S |-> {ReapEvent(t), "WORKER_LOST"}]
  <1>1. EndAttempts(S, at, to, "LOST", ev)
    BY DEF Reap
  <1>2. ASSUME NEW t \in S PROVE EventsFit(to[t], ev[t])
    <2>1. CASE HasBudget(t)
      <3>1. to[t] = "QUEUED" /\ ev[t] = {"TASK_RECOVERED", "WORKER_LOST"}
        BY <2>1 DEF ReapEvent
      <3>2. EventsFit("QUEUED", {"TASK_RECOVERED", "WORKER_LOST"})
        BY DEF EventsFit, State, EventType, ClosingEvents, TerminalEvents,
               TERMINAL
      <3> QED
        BY <3>1, <3>2
    <2>2. CASE ~HasBudget(t)
      <3>1. to[t] = "FAILED" /\ ev[t] = {"TASK_FAILED", "WORKER_LOST"}
        BY <2>2 DEF ReapEvent
      <3>2. EventsFit("FAILED", {"TASK_FAILED", "WORKER_LOST"})
        BY DEF EventsFit, State, EventType, ClosingEvents, TerminalEvents,
               TERMINAL, FinalEvent
      <3> QED
        BY <3>1, <3>2
    <2> QED
      BY <2>1, <2>2
  <1> HIDE DEF at, to, ev
  <1> QED
    BY <1>1, <1>2, EndAttemptsLog

\* Every step keeps the log in step with the rows.
LEMMA LogStep ==
  ASSUME TypeOK, Safety, LogInv, [Next]_vars
  PROVE  LogInv'
  <1> USE DEF row_vars, history_vars, attempt_vars, lease_vars
  <1>0. ASSUME UNCHANGED <<state, attempt, events>> PROVE LogInv'
    BY <1>0, LogFrame
  <1>1. ASSUME NEW t \in Tasks,
               LeaseExpires(t) \/ BackoffElapses(t) \/ ExecutionCapElapses(t)
        PROVE  LogInv'
    BY <1>0, <1>1 DEF LeaseExpires, BackoffElapses, ExecutionCapElapses
  <1>2. ASSUME NEW w \in Workers,
               \/ register(w) \/ maybe_heartbeat(w) \/ drain_begins(w)
               \/ drain_grace_ends(w) \/ drain_ends(w) \/ crash(w)
        PROVE  LogInv'
    BY <1>0, <1>2 DEF register, maybe_heartbeat, drain_begins,
                      drain_grace_ends, drain_ends, crash
  <1>3. ASSUME NEW w \in Workers, NEW S \in SUBSET Tasks,
               claim_and_dispatch(w, S)
        PROVE  LogInv'
    BY <1>3, ClaimLog
  <1>4. ASSUME NEW w \in Workers, NEW t \in Tasks, NEW a \in Attempts,
               \/ renew_lease(w, t, a) \/ renewal_raises(w, t, a)
               \/ adapter_returns(w, t, a) \/ finalize_raises(w, t, a)
        PROVE  LogInv'
    BY <1>0, <1>4 DEF renew_lease, renewal_raises, adapter_returns,
                      finalize_raises
  <1>5. ASSUME NEW w \in Workers, NEW t \in Tasks, NEW a \in Attempts,
               NEW res \in Results, finalize(w, t, a, res)
        PROVE  LogInv'
    <2>1. CASE Fence(w, t, a)
      <3>1. \/ complete_success(t, a) \/ complete_retry(t, a)
            \/ complete_failed(t, a) \/ complete_cancelled(t, a)
        BY <1>5, <2>1 DEF finalize, Complete
      <3>2. state[t] = "RUNNING" /\ a \in Nat
        BY <2>1, ConstantsAssumption DEF Fence, Attempts
      <3> QED
        BY <3>1, <3>2, CompleteLog
    <2>2. CASE ~Fence(w, t, a)
      <3>1. /\ UNCHANGED <<state, attempt>>
            /\ \/ record_event(t, "STALE_WRITE_REJECTED", a)
               \/ UNCHANGED events
        BY <1>5, <2>2 DEF finalize
      <3> QED
        BY <1>0, <3>1, NoteLog
    <2> QED
      BY <2>1, <2>2
  <1>6. ASSUME NEW w \in Workers, NEW t \in Tasks, abandon_owned(w, t)
        PROVE  LogInv'
    <2>1. CASE Fence(w, t, owned[w][t]) /\ complete_abandoned(t, owned[w][t])
      <3>1. owned[w][t] \in Nat /\ state[t] = "RUNNING"
        BY <2>1 DEF TypeOK, Fence
      <3> QED
        BY <2>1, <3>1, CompleteLog
    <2>2. CASE UNCHANGED <<row_vars, history_vars>>
      BY <1>0, <2>2
    <2> QED
      BY <1>6, <2>1, <2>2 DEF abandon_owned
  <1>7. CASE reap_expired_leases \/ reap_hung_tasks
    <2>1. PICK S \in SUBSET Tasks : Reap(S) /\ \A t \in S : state[t] = "RUNNING"
      BY <1>7 DEF reap_expired_leases, reap_hung_tasks, ExpiredLeases,
                  HungTasks
    <2> QED
      BY <2>1, ReapLog
  <1>8. ASSUME NEW t \in Tasks, cancel_task(t) PROVE LogInv'
    BY <1>8, CancelLog
  <1>9. CASE \/ UNCHANGED vars
             \/ \E W \in SUBSET Workers : mark_dead_workers(W)
    BY <1>0, <1>9 DEF vars, mark_dead_workers
  <1> QED
    BY <1>1, <1>2, <1>3, <1>4, <1>5, <1>6, <1>7, <1>8, <1>9
       DEF Next, TimePasses, WorkerStep, AttemptStep, ReaperStep

\* A log in step with its row replays to the row's state and ends once.
LEMMA LogReplays ==
  ASSUME TypeOK, Safety, LogInv
  PROVE  LogReplaysToState
  <1> SUFFICES ASSUME NEW t \in Tasks
               PROVE  /\ StateFromLog(t) = state[t]
                      /\ \A e, f \in events[t] :
                           e[1] \in TerminalEvents /\ f[1] \in TerminalEvents
                             => e = f
    BY DEF LogReplaysToState
  <1> DEFINE Logged(E) == {e \in events[t] : e[1] \in E}
  <1>1. /\ LogOf(events[t], state[t], attempt[t]) /\ state[t] \in State
        /\ attempt[t] \in 0 .. MaxClaims
    BY DEF LogInv, TypeOK
  <1>2. \A e \in events[t] : /\ e = <<e[1], e[2]>>
                             /\ e[2] \in 0 .. MaxClaims
    BY DEF TypeOK
  <1>3. \A e \in events[t] : e[1] \in TerminalEvents =>
          /\ state[t] \in TERMINAL
          /\ e[1] = FinalEvent(state[t]) /\ e[2] = attempt[t]
    BY <1>1, <1>2 DEF LogOf
  <1>4. \A e, f \in events[t] :
          e[1] \in TerminalEvents /\ f[1] \in TerminalEvents => e = f
    BY <1>2, <1>3
  <1>5. \A x \in TerminalEvents : Logged({x}) # {} <=>
          state[t] \in TERMINAL /\ x = FinalEvent(state[t])
    <2> SUFFICES ASSUME NEW x \in TerminalEvents
                 PROVE  Logged({x}) # {} <=>
                          state[t] \in TERMINAL /\ x = FinalEvent(state[t])
      OBVIOUS
    <2>1. Logged({x}) # {} => state[t] \in TERMINAL /\ x = FinalEvent(state[t])
      BY <1>3
    <2>2. ASSUME state[t] \in TERMINAL, x = FinalEvent(state[t])
          PROVE  Logged({x}) # {}
      <3>1. <<x, attempt[t]>> \in events[t]
        BY <1>1, <2>2 DEF LogOf
      <3>2. <<x, attempt[t]>> \in Logged({x})
        BY <3>1
      <3> QED
        BY <3>2
    <2> QED
      BY <2>1, <2>2
  <1>6. /\ Logged({"TASK_SUCCEEDED"}) # {} <=> state[t] = "SUCCEEDED"
        /\ Logged({"TASK_FAILED"}) # {} <=> state[t] = "FAILED"
        /\ Logged({"TASK_CANCELLED"}) # {} <=> state[t] = "CANCELLED"
    <2> HIDE DEF Logged
    <2> QED
      BY <1>5 DEF TerminalEvents, TERMINAL, FinalEvent
  <1>7. state[t] \in {"QUEUED", "RUNNING"} =>
          ((\E a \in Attempts : /\ <<"TASK_CLAIMED", a>> \in events[t]
                                /\ \A e \in ClosingEvents :
                                     <<e, a>> \notin events[t])
             <=> state[t] = "RUNNING")
    <2>1. ASSUME state[t] = "RUNNING"
          PROVE  \E a \in Attempts : /\ <<"TASK_CLAIMED", a>> \in events[t]
                                     /\ \A e \in ClosingEvents :
                                          <<e, a>> \notin events[t]
      <3>1. attempt[t] \in Attempts
        BY <2>1 DEF Safety, LeaseFollowsToken
      <3>2. attempt[t] \in Nat
        BY <1>1
      <3>3. Opened(events[t], attempt[t]) /\ ~Closed(events[t], attempt[t])
        BY <1>1, <2>1, <3>1, <3>2 DEF LogOf
      <3> QED
        BY <3>1, <3>3 DEF Opened, Closed
    <2>2. ASSUME state[t] = "QUEUED", NEW a \in Attempts,
                 <<"TASK_CLAIMED", a>> \in events[t],
                 \A e \in ClosingEvents : <<e, a>> \notin events[t]
          PROVE  FALSE
      <3>1. Opened(events[t], a) /\ ~Closed(events[t], a)
        BY <2>2 DEF Opened, Closed
      <3>2. a <= attempt[t] /\ ~(a < attempt[t]) /\ ~(a = attempt[t])
        BY <1>1, <2>2, <3>1 DEF LogOf
      <3>3. a \in Nat /\ attempt[t] \in Nat
        BY <1>1, ConstantsAssumption DEF Attempts
      <3> QED
        BY <3>2, <3>3
    <2> QED
      BY <2>1, <2>2
  <1>8. StateFromLog(t) = state[t]
    <2>1. StateFromLog(t) =
            CASE Logged({"TASK_SUCCEEDED"}) # {} -> "SUCCEEDED"
              [] Logged({"TASK_FAILED"}) # {} -> "FAILED"
              [] Logged({"TASK_CANCELLED"}) # {} -> "CANCELLED"
              [] OTHER ->
                   IF \E a \in Attempts :
                        /\ <<"TASK_CLAIMED", a>> \in events[t]
                        /\ \A e \in ClosingEvents : <<e, a>> \notin events[t]
                     THEN "RUNNING" ELSE "QUEUED"
      BY DEF StateFromLog
    <2> HIDE DEF Logged
    <2> QED
      BY <1>1, <1>6, <1>7, <2>1 DEF State
  <1> QED
    BY <1>4, <1>8

\* The event log never disagrees with the task row: replaying it gives the
\* row's state, and it ends at most once.
THEOREM LogCorrect == Spec => []LogReplaysToState
  <1>1. Init => LogInv
    <2> SUFFICES ASSUME Init, NEW t \in Tasks
                 PROVE  LogOf(events[t], state[t], attempt[t])
      BY DEF LogInv
    <2>1. events[t] = {} /\ state[t] = "QUEUED" /\ attempt[t] = 0
      BY DEF Init
    <2>2. \A a \in Attempts : a \in Nat /\ a >= 1
      BY ConstantsAssumption DEF Attempts
    <2>3. \A a \in Attempts : ~(a <= 0) /\ ~(a < 0) /\ a # 0
      BY <2>2
    <2> QED
      BY <2>1, <2>3 DEF LogOf, Opened, Closed, TERMINAL
  <1>2. TypeOK /\ Safety /\ LogInv /\ [Next]_vars => LogInv'
    BY LogStep
  <1>3. TypeOK /\ Safety /\ LogInv => LogReplaysToState
    BY LogReplays
  <1> QED
    BY <1>1, <1>2, <1>3, SafetyAlways, PTL DEF Spec
=============================================================================
