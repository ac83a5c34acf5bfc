--------------------------- MODULE AgentRegistry ----------------------------
(***************************************************************************)
(* One agent of the registry: its versions, its route, the tasks pinned to *)
(* its versions, and the API requests that race on them (db/queries/       *)
(* agents.py, api/routes/agents.py, and submit_task and cancel_agent_tasks *)
(* of db/queries/tasks.py).                                                *)
(*                                                                         *)
(* A request is one transaction under READ COMMITTED: every statement sees *)
(* what is committed when it starts, so a request is split at the          *)
(* statements between which other commits matter.  Its writes appear at    *)
(* its last step.  This loses nothing: whoever writes the agent or a       *)
(* version holds the agent's row lock, and the task rows a request has     *)
(* written are locked until it commits (`swept`).                          *)
(***************************************************************************)
EXTENDS Naturals, TaskStates

CONSTANTS
  Requests,     \* API requests; the task of a submission has its name
  MaxVersions   \* bound: versions of the agent

ASSUME RegistryAssumption == MaxVersions \in Nat \ {0}

Versions == 1 .. MaxVersions
AnyDefault == MaxVersions + 1   \* require_expected is false

VARIABLES
  agent_status,        \* agents.status
  default_version_id,  \* agents.default_version_id, 0 for NULL
  version_status,      \* agent_versions.status, "absent": no row
  routed,              \* agent_routes has a row for this agent
  released,            \* history: versions that were ever set ACTIVE
  task_state,          \* tasks.state, "absent": no row
  agent_version_id,    \* tasks.agent_version_id
  cancel_requested,    \* tasks.cancel_requested
  pc,                  \* the statement a request has reached
  version_id,          \* the version a request has read or allocated
  expected,            \* expected_current_version_id of an activation
  swept,               \* rows written by a sweep that has not committed
  late                 \* tasks queued since the last sweep of queued rows

registry_vars == <<agent_status, default_version_id, version_status, routed,
                   released>>
task_vars == <<task_state, agent_version_id, cancel_requested>>
sweep_vars == <<swept, late>>
vars == <<registry_vars, task_vars, pc, version_id, expected, sweep_vars>>

TypeOK ==
  /\ agent_status \in {"ACTIVE", "DISABLED"}
  /\ default_version_id \in 0 .. MaxVersions
  /\ version_status \in [Versions -> {"absent", "DRAFT", "ACTIVE", "DISABLED"}]
  /\ routed \in BOOLEAN
  /\ released \in SUBSET Versions
  /\ task_state \in [Requests -> State \cup {"absent"}]
  /\ agent_version_id \in [Requests -> 0 .. MaxVersions]
  /\ cancel_requested \in [Requests -> BOOLEAN]
  /\ pc \in [Requests -> {"idle", "creating", "activating", "disabling",
                          "sweeping", "submitting", "done"}]
  /\ version_id \in [Requests -> 0 .. MaxVersions]
  /\ expected \in [Requests -> 0 .. AnyDefault]
  /\ swept \in SUBSET Requests
  /\ late \in SUBSET Requests

Init ==
  /\ agent_status = "ACTIVE"
  /\ default_version_id = 0
  /\ version_status = [v \in Versions |-> "absent"]
  /\ routed = FALSE
  /\ released = {}
  /\ task_state = [r \in Requests |-> "absent"]
  /\ agent_version_id = [r \in Requests |-> 0]
  /\ cancel_requested = [r \in Requests |-> FALSE]
  /\ pc = [r \in Requests |-> "idle"]
  /\ version_id = [r \in Requests |-> 0]
  /\ expected = [r \in Requests |-> AnyDefault]
  /\ swept = {}
  /\ late = {}

Goto(r, from, to) == pc[r] = from /\ pc' = [pc EXCEPT ![r] = to]

\* Nobody holds the row lock of the agent.  Creating locks the row FOR
\* UPDATE, disabling updates it first of all.
AgentRowFree ==
  \A r \in Requests : pc[r] \notin {"creating", "disabling", "sweeping"}

-----------------------------------------------------------------------------
(* Versions and routes.                                                    *)

\* coalesce(max(version), 0) + 1
IsNextVersion(n) ==
  LET taken == {v \in Versions : version_status[v] # "absent"}
  IN  (\A v \in taken : v < n) /\ n - 1 \in taken \cup {0}

\* Allocating the number without the lock.
allocate_unlocked(r, n) ==
  /\ Goto(r, "idle", "creating")
  /\ IsNextVersion(n)
  /\ version_id' = [version_id EXCEPT ![r] = n]
  /\ UNCHANGED <<registry_vars, task_vars, expected, sweep_vars>>

\* create_version up to its INSERT: the parent is locked, the number read.
create_version_allocate(r, n) ==
  /\ AgentRowFree
  /\ Goto(r, "idle", "creating")
  /\ IsNextVersion(n)
  /\ version_id' = [version_id EXCEPT ![r] = n]
  /\ UNCHANGED <<registry_vars, task_vars, expected, sweep_vars>>

create_version_insert(r) ==
  /\ Goto(r, "creating", "done")
  /\ version_status' = [version_status EXCEPT ![version_id[r]] = "DRAFT"]
  /\ UNCHANGED <<agent_status, default_version_id, routed, released, task_vars,
                 version_id, expected, sweep_vars>>

\* activate_version up to its UPDATE: the version is read without a lock, and
\* refused if it is DISABLED.
activate_version_read(r, v, e) ==
  /\ version_status[v] # "absent"
  /\ IF version_status[v] = "DISABLED" THEN Goto(r, "idle", "done")
                                       ELSE Goto(r, "idle", "activating")
  /\ version_id' = [version_id EXCEPT ![r] = v]
  /\ expected' = [expected EXCEPT ![r] = e]
  /\ UNCHANGED <<registry_vars, task_vars, sweep_vars>>

\* The history of releases follows the column.
RecordReleases ==
  released' = released \cup {v \in Versions : version_status'[v] = "ACTIVE"}

\* Pointing the default at the version without releasing it.
activate_default_only(r) ==
  /\ AgentRowFree
  /\ Goto(r, "activating", "done")
  /\ expected[r] \in {AnyDefault, default_version_id}
  /\ default_version_id' = version_id[r]
  /\ UNCHANGED <<agent_status, version_status, routed, task_vars, version_id,
                 expected, sweep_vars>>
  /\ RecordReleases

\* The expected version stored in place of the new one.
activate_expected_version(r) ==
  /\ AgentRowFree
  /\ Goto(r, "activating", "done")
  /\ default_version_id' = expected[r]
  /\ UNCHANGED <<agent_status, version_status, routed, released, task_vars,
                 version_id, expected, sweep_vars>>

\* The UPDATE of the agent, a compare-and-set when a value is expected, and of
\* the version; or a refusal.
activate_version_write(r) ==
  /\ AgentRowFree
  /\ Goto(r, "activating", "done")
  /\ \/ /\ expected[r] \in {AnyDefault, default_version_id}
        /\ default_version_id' = version_id[r]
        /\ version_status' = [version_status EXCEPT ![version_id[r]] = "ACTIVE"]
     \/ /\ expected[r] \notin {AnyDefault, default_version_id}
        /\ UNCHANGED <<default_version_id, version_status>>
  /\ RecordReleases
  /\ UNCHANGED <<agent_status, routed, task_vars, version_id, expected,
                 sweep_vars>>

set_route(r) ==
  /\ Goto(r, "idle", "done")
  /\ routed' = TRUE
  /\ UNCHANGED <<agent_status, default_version_id, version_status, released,
                 task_vars, version_id, expected, sweep_vars>>

-----------------------------------------------------------------------------
(* Disabling the agent.                                                    *)

disable_agent(r) ==
  /\ AgentRowFree
  /\ Goto(r, "idle", "disabling")
  /\ UNCHANGED <<registry_vars, task_vars, version_id, expected, sweep_vars>>

\* A live task with a version of the agent; the sweep's WHERE names them all.
Pinned(t) == version_status[agent_version_id[t]] # "absent"

\* First statement of cancel_agent_tasks: QUEUED rows.  They are cancelled when
\* the request commits, and locked until then.
cancel_agent_tasks_queued(r) ==
  /\ Goto(r, "disabling", "sweeping")
  /\ swept' = {t \in Requests : task_state[t] = "QUEUED" /\ Pinned(t)}
  /\ late' = {}
  /\ UNCHANGED <<registry_vars, task_vars, version_id, expected>>

\* Committing after the first statement only.
cancel_queued_tasks_only(r) ==
  /\ Goto(r, "sweeping", "done")
  /\ agent_status' = "DISABLED"
  /\ version_status' = [v \in Versions |->
       IF version_status[v] = "absent" THEN "absent" ELSE "DISABLED"]
  /\ task_state' = [t \in Requests |->
       IF t \in swept THEN "CANCELLED" ELSE task_state[t]]
  /\ cancel_requested' = [t \in Requests |->
       cancel_requested[t] \/ t \in swept]
  /\ swept' = {}
  /\ UNCHANGED <<default_version_id, routed, released, agent_version_id,
                 version_id, expected, late>>

\* Second statement, RUNNING rows, and the commit of the whole request.
cancel_agent_tasks_running(r) ==
  /\ Goto(r, "sweeping", "done")
  /\ agent_status' = "DISABLED"
  /\ version_status' = [v \in Versions |->
       IF version_status[v] = "absent" THEN "absent" ELSE "DISABLED"]
  /\ task_state' = [t \in Requests |->
       IF t \in swept THEN "CANCELLED" ELSE task_state[t]]
  /\ cancel_requested' = [t \in Requests |->
       \/ cancel_requested[t]
       \/ t \in swept
       \/ task_state[t] = "RUNNING" /\ Pinned(t)]
  /\ swept' = {}
  /\ UNCHANGED <<default_version_id, routed, released, agent_version_id,
                 version_id, expected, late>>

-----------------------------------------------------------------------------
(* Submissions by request type, and the life of their tasks.               *)

\* What resolve_route asks of the row it joins.
Routable ==
  /\ routed
  /\ agent_status = "ACTIVE"
  /\ default_version_id # 0
  /\ version_status[default_version_id] = "ACTIVE"

\* A submission that admission refuses never gets here and changes nothing.
resolve_route(r) ==
  /\ IF Routable THEN Goto(r, "idle", "submitting") ELSE Goto(r, "idle", "done")
  /\ version_id' = [version_id EXCEPT ![r] = default_version_id]
  /\ UNCHANGED <<registry_vars, task_vars, expected, sweep_vars>>

\* The INSERT: a statement of its own, with a snapshot of its own; or nothing,
\* when the idempotency key is that of another submission.
submit_task(r) ==
  /\ Goto(r, "submitting", "done")
  /\ \/ /\ task_state' = [task_state EXCEPT ![r] = "QUEUED"]
        /\ agent_version_id' = [agent_version_id EXCEPT ![r] = version_id[r]]
        /\ late' = late \cup {r}
     \/ /\ \E q \in Requests : task_state[q] # "absent"
        /\ UNCHANGED <<task_state, agent_version_id, late>>
  /\ UNCHANGED <<registry_vars, cancel_requested, version_id, expected, swept>>

\* TaskLifecycle in four moves.  A claim skips locked rows and reads nothing
\* of the registry.
claim(t) ==
  /\ task_state[t] = "QUEUED"
  /\ t \notin swept
  /\ task_state' = [task_state EXCEPT ![t] = "RUNNING"]
  /\ UNCHANGED <<registry_vars, agent_version_id, cancel_requested, pc,
                 version_id, expected, sweep_vars>>

\* A retry, a hand-back or a recovery.
requeue(t) ==
  /\ task_state[t] = "RUNNING"
  /\ task_state' = [task_state EXCEPT ![t] = "QUEUED"]
  /\ late' = late \cup {t}
  /\ UNCHANGED <<registry_vars, agent_version_id, cancel_requested, pc,
                 version_id, expected, swept>>

finish(t, to) ==
  /\ task_state[t] = "RUNNING"
  /\ task_state' = [task_state EXCEPT ![t] = to]
  /\ UNCHANGED <<registry_vars, agent_version_id, cancel_requested, pc,
                 version_id, expected, sweep_vars>>

\* The owner of the task cancels it.
cancel_task(t) ==
  /\ task_state[t] \in {"QUEUED", "RUNNING"}
  /\ t \notin swept
  /\ task_state' = [task_state EXCEPT
       ![t] = IF task_state[t] = "QUEUED" THEN "CANCELLED" ELSE "RUNNING"]
  /\ cancel_requested' = [cancel_requested EXCEPT ![t] = TRUE]
  /\ UNCHANGED <<registry_vars, agent_version_id, pc, version_id, expected,
                 sweep_vars>>

-----------------------------------------------------------------------------
RegistryStep(r) ==
  \/ \E n \in Versions : create_version_allocate(r, n)
  \/ create_version_insert(r)
  \/ \E v \in Versions, e \in 0 .. AnyDefault : activate_version_read(r, v, e)
  \/ activate_version_write(r)
  \/ set_route(r)
  \/ disable_agent(r)
  \/ cancel_agent_tasks_queued(r)
  \/ cancel_agent_tasks_running(r)
  \/ resolve_route(r)
  \/ submit_task(r)

TaskStep(t) ==
  \/ claim(t)
  \/ requeue(t)
  \/ \E to \in TERMINAL : finish(t, to)
  \/ cancel_task(t)

Next == \E r \in Requests : RegistryStep(r) \/ TaskStep(r)

Spec == Init /\ [][Next]_vars

-----------------------------------------------------------------------------
(* Properties.                                                             *)

\* RACE 1 of agents.py: an allocated number is still free when its version is
\* inserted, so the unique constraint is never what decides.
AllocatedNumberIsFree ==
  \A r \in Requests :
    pc[r] = "creating" => version_status[version_id[r]] = "absent"

\* Cutting a version is not releasing it: neither the default nor a task ever
\* names a version that was never set ACTIVE, whatever creations, activations,
\* disablings and submissions overlap.  Disabling turns drafts into DISABLED
\* versions too; those were never released and are told apart by `released`.
OnlyReleasedVersionsRun ==
  /\ default_version_id # 0 => default_version_id \in released
  /\ \A t \in Requests :
       task_state[t] # "absent" => agent_version_id[t] \in released

\* The sweep's two statements, in their order, miss no task by a claim: when
\* disabling commits, a live task without the flag was inserted or requeued
\* after the first of them.
SweepStep ==
  \A r, t \in Requests :
    /\ pc[r] = "sweeping" /\ pc'[r] = "done"
    /\ task_state'[t] \in {"QUEUED", "RUNNING"}
    /\ ~cancel_requested'[t]
    => t \in late
SweepMissesOnlyLatecomers == [][SweepStep]_vars

\* tests/integration/test_agent_registry.py: "a disabled version cannot be
\* activated".
DisabledIsNeverActivated ==
  [][\A v \in Versions :
       version_status[v] = "DISABLED" => version_status'[v] # "ACTIVE"]_vars
=============================================================================
