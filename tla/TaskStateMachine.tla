-------------------------- MODULE TaskStateMachine --------------------------
(***************************************************************************)
(* What the control plane promises about one task row, whoever touches it: *)
(* the legal transition graph of domain/states.py, plus the fencing token  *)
(* (README, "the stale-worker race"): `attempt` is allocated by the same   *)
(* UPDATE that grants the lease, recovery never bumps it, and a result is  *)
(* stored once, by the attempt that holds the token.                       *)
(*                                                                         *)
(* One step moves any number of rows, because a claim, a reaper batch and  *)
(* an agent's cancellation sweep each commit many rows in one transaction. *)
(***************************************************************************)
EXTENDS Naturals, TaskStates

CONSTANTS
  Tasks,     \* the submitted tasks
  Workers,   \* the worker generations (ids are fresh per process start)
  NoWorker   \* lease_worker_id IS NULL

VARIABLES
  state,            \* tasks.state
  attempt,          \* tasks.attempt, the fencing token
  lease_worker_id,  \* tasks.lease_worker_id
  result            \* the attempt whose result is in tasks.result, 0 for NULL

vars == <<state, attempt, lease_worker_id, result>>

-----------------------------------------------------------------------------
Init ==
  /\ state = [t \in Tasks |-> "QUEUED"]
  /\ attempt = [t \in Tasks |-> 0]
  /\ lease_worker_id = [t \in Tasks |-> NoWorker]
  /\ result = [t \in Tasks |-> 0]

\* Row t is not written.
Kept(t) ==
  /\ state'[t] = state[t]
  /\ attempt'[t] = attempt[t]
  /\ lease_worker_id'[t] = lease_worker_id[t]
  /\ result'[t] = result[t]

\* Row t makes one legal transition: a claim takes the next token and an
\* owner, every other move keeps the token and leaves the row unowned, and
\* only success stores a result, that of the current token.
Moved(t) ==
  /\ is_legal(state[t], state'[t])
  /\ IF state'[t] = "RUNNING"
       THEN attempt'[t] = attempt[t] + 1 /\ lease_worker_id'[t] \in Workers
       ELSE attempt'[t] = attempt[t] /\ lease_worker_id'[t] = NoWorker
  /\ result'[t] = IF state'[t] = "SUCCEEDED" THEN attempt[t] ELSE result[t]

Next == \A t \in Tasks : Kept(t) \/ Moved(t)

Spec == Init /\ [][Next]_vars
=============================================================================
