------------------------ MODULE AgentRegistryProofs -------------------------
(***************************************************************************)
(* Theorems about AgentRegistry, for any number of requests and versions.  *)
(***************************************************************************)
EXTENDS AgentRegistry, TLAPS

\* The registry's rows, its tasks and its requests keep their types.
THEOREM RegistryTypeCorrect == Spec => []TypeOK
  <1>1. Init => TypeOK
    <2> SUFFICES ASSUME Init PROVE TypeOK
      OBVIOUS
    <2>1. AnyDefault \in 0 .. AnyDefault /\ 0 \in 0 .. MaxVersions
      BY RegistryAssumption DEF AnyDefault
    <2>2. expected \in [Requests -> 0 .. AnyDefault]
      BY <2>1 DEF Init
    <2>3. QED
      BY <2>1, <2>2 DEF Init, TypeOK
  <1>2. TypeOK /\ [Next]_vars => TypeOK'
    <2> SUFFICES ASSUME TypeOK, [Next]_vars PROVE TypeOK'
      OBVIOUS
    <2> USE RegistryAssumption DEF Goto, Versions
    <2>1. ASSUME NEW r \in Requests, NEW n \in Versions,
                 create_version_allocate(r, n)
          PROVE  TypeOK'
      BY <2>1 DEF create_version_allocate, TypeOK, registry_vars, task_vars,
                  sweep_vars
    <2>2. ASSUME NEW r \in Requests, create_version_insert(r) PROVE TypeOK'
      BY <2>2 DEF create_version_insert, TypeOK, task_vars, sweep_vars
    <2>3. ASSUME NEW r \in Requests, NEW v \in Versions,
                 NEW e \in 0 .. AnyDefault, activate_version_read(r, v, e)
          PROVE  TypeOK'
      <3>1. pc' \in [Requests -> {"idle", "creating", "activating", "disabling",
                                  "sweeping", "submitting", "done"}]
        <4>1. \E to \in {"done", "activating"} : pc' = [pc EXCEPT ![r] = to]
          BY <2>3 DEF activate_version_read
        <4>2. QED
          BY <4>1 DEF TypeOK
      <3>2. v \in 0 .. MaxVersions
        OBVIOUS
      <3>3. /\ version_id' \in [Requests -> 0 .. MaxVersions]
            /\ expected' \in [Requests -> 0 .. AnyDefault]
        BY <2>3, <3>2 DEF activate_version_read, TypeOK
      <3>4. QED
        BY <2>3, <3>1, <3>3 DEF activate_version_read, TypeOK, registry_vars,
                                task_vars, sweep_vars
    <2>4. ASSUME NEW r \in Requests, activate_version_write(r) PROVE TypeOK'
      <3>1. default_version_id' \in {version_id[r], default_version_id}
        BY <2>4 DEF activate_version_write
      <3>2. default_version_id' \in 0 .. MaxVersions
        BY <3>1 DEF TypeOK
      <3>3. \/ version_status' = version_status
            \/ version_status' =
                 [version_status EXCEPT ![version_id[r]] = "ACTIVE"]
        BY <2>4 DEF activate_version_write
      <3>4. version_status' \in [Versions -> {"absent", "DRAFT", "ACTIVE",
                                              "DISABLED"}]
        BY <3>3 DEF TypeOK
      <3>5. released' \in SUBSET Versions
        BY <2>4 DEF activate_version_write, RecordReleases, TypeOK
      <3>6. QED
        BY <2>4, <3>2, <3>4, <3>5 DEF activate_version_write, TypeOK, task_vars,
                                      sweep_vars
    <2>5. ASSUME NEW r \in Requests, set_route(r) PROVE TypeOK'
      BY <2>5 DEF set_route, TypeOK, task_vars, sweep_vars
    <2>6. ASSUME NEW r \in Requests, disable_agent(r) PROVE TypeOK'
      BY <2>6 DEF disable_agent, TypeOK, registry_vars, task_vars, sweep_vars
    <2>7. ASSUME NEW r \in Requests, cancel_agent_tasks_queued(r)
          PROVE  TypeOK'
      BY <2>7 DEF cancel_agent_tasks_queued, TypeOK, registry_vars, task_vars
    <2>8. ASSUME NEW r \in Requests, cancel_agent_tasks_running(r)
          PROVE  TypeOK'
      <3>1. task_state' \in [Requests -> State \cup {"absent"}]
        BY <2>8 DEF cancel_agent_tasks_running, TypeOK, State
      <3>2. cancel_requested' \in [Requests -> BOOLEAN]
        BY <2>8 DEF cancel_agent_tasks_running, TypeOK
      <3>3. QED
        BY <2>8, <3>1, <3>2 DEF cancel_agent_tasks_running, TypeOK
    <2>9. ASSUME NEW r \in Requests, resolve_route(r) PROVE TypeOK'
      BY <2>9 DEF resolve_route, TypeOK, registry_vars, task_vars, sweep_vars
    <2>10. ASSUME NEW r \in Requests, submit_task(r) PROVE TypeOK'
      <3>1. /\ pc' = [pc EXCEPT ![r] = "done"]
            /\ UNCHANGED <<agent_status, default_version_id, version_status,
                           routed, released, cancel_requested, version_id,
                           expected, swept>>
            /\ \/ /\ task_state' = [task_state EXCEPT ![r] = "QUEUED"]
                  /\ agent_version_id' =
                       [agent_version_id EXCEPT ![r] = version_id[r]]
                  /\ late' = late \cup {r}
               \/ UNCHANGED <<task_state, agent_version_id, late>>
        BY <2>10 DEF submit_task, registry_vars
      <3>2. task_state' \in [Requests -> State \cup {"absent"}]
        BY <3>1 DEF TypeOK, State
      <3>3. agent_version_id' \in [Requests -> 0 .. MaxVersions]
        <4>1. version_id[r] \in 0 .. MaxVersions
          BY DEF TypeOK
        <4>2. agent_version_id \in [Requests -> 0 .. MaxVersions]
          BY DEF TypeOK
        <4>3. QED
          BY <3>1, <4>1, <4>2
      <3>4. late' \in SUBSET Requests
        BY <3>1 DEF TypeOK
      <3>5. pc' \in [Requests -> {"idle", "creating", "activating", "disabling",
                                  "sweeping", "submitting", "done"}]
        BY <3>1 DEF TypeOK
      <3>6. QED
        BY <3>1, <3>2, <3>3, <3>4, <3>5 DEF TypeOK
    <2>11. ASSUME NEW t \in Requests, TaskStep(t) PROVE TypeOK'
      <3>1. \E to \in State : task_state' = [task_state EXCEPT ![t] = to]
        BY <2>11 DEF TaskStep, claim, requeue, finish, cancel_task, State,
                     TERMINAL
      <3>2. task_state' \in [Requests -> State \cup {"absent"}]
        BY <3>1 DEF TypeOK
      <3>3. /\ UNCHANGED <<registry_vars, agent_version_id, pc, version_id,
                           expected, swept>>
            /\ late' \in {late, late \cup {t}}
            /\ \/ UNCHANGED cancel_requested
               \/ cancel_requested' = [cancel_requested EXCEPT ![t] = TRUE]
        BY <2>11 DEF TaskStep, claim, requeue, finish, cancel_task, sweep_vars
      <3>4. cancel_requested' \in [Requests -> BOOLEAN]
        BY <3>3 DEF TypeOK
      <3>5. QED
        BY <3>2, <3>3, <3>4 DEF TypeOK, registry_vars
    <2>12. CASE UNCHANGED vars
      BY <2>12 DEF vars, registry_vars, task_vars, sweep_vars, TypeOK
    <2>13. QED
      BY <2>1, <2>2, <2>3, <2>4, <2>5, <2>6, <2>7, <2>8, <2>9, <2>10, <2>11,
         <2>12 DEF Next, RegistryStep
  <1>3. QED
    BY <1>1, <1>2, PTL DEF Spec

-----------------------------------------------------------------------------
(* The invariant that carries the three properties.  At most one request   *)
(* holds the agent's row, and what a request has read of a version without *)
(* a lock is only ever overtaken forwards: a version that exists stays, a  *)
(* version that was released never becomes a draft again.  The record of   *)
(* releases contains what is ACTIVE, which is what resolve_route asks for. *)

Holding == {"creating", "disabling", "sweeping"}
Existing == {v \in Versions : version_status[v] # "absent"}

OneHolder ==
  \A r, q \in Requests : pc[r] \in Holding /\ pc[q] \in Holding => r = q

ReadVersionsStay ==
  \A r \in Requests :
    /\ pc[r] = "creating" => version_id[r] \in Versions
    /\ pc[r] = "activating" => version_id[r] \in Existing
    /\ pc[r] = "submitting" => version_id[r] \in released

\* The record of releases holds every ACTIVE version and no draft.
ReleasesRecorded ==
  \A v \in Versions :
    /\ version_status[v] = "ACTIVE" => v \in released
    /\ v \in released => version_status[v] \in {"ACTIVE", "DISABLED"}

\* While a sweep has not committed, every queued task is one it has locked or
\* one that was queued after its first statement.
SweepSeesQueued ==
  \A r, t \in Requests :
    pc[r] = "sweeping" /\ task_state[t] = "QUEUED" => t \in swept \cup late

\* The rows a sweep has locked stay as it found them.
SweptStayQueued == \A t \in swept : task_state[t] = "QUEUED"

RegistryInv ==
  /\ OneHolder
  /\ AllocatedNumberIsFree
  /\ ReadVersionsStay
  /\ ReleasesRecorded
  /\ OnlyReleasedVersionsRun
  /\ SweepSeesQueued
  /\ SweptStayQueued

\* No step takes a version away, or its release.
LEMMA VersionsAdvance ==
  ASSUME TypeOK, [Next]_vars
  PROVE  Existing \subseteq Existing' /\ released \subseteq released'
  <1>1. ASSUME NEW r \in Requests, create_version_insert(r)
        PROVE  Existing \subseteq Existing' /\ released \subseteq released'
    BY <1>1 DEF create_version_insert, Existing, TypeOK
  <1>2. ASSUME NEW r \in Requests, activate_version_write(r)
        PROVE  Existing \subseteq Existing' /\ released \subseteq released'
    <2>1. \/ version_status' = version_status
          \/ version_status' =
               [version_status EXCEPT ![version_id[r]] = "ACTIVE"]
      BY <1>2 DEF activate_version_write
    <2>2. released \subseteq released'
      BY <1>2 DEF activate_version_write, RecordReleases
    <2>3. QED
      BY <2>1, <2>2 DEF Existing, TypeOK
  <1>3. ASSUME NEW r \in Requests, cancel_agent_tasks_running(r)
        PROVE  Existing \subseteq Existing' /\ released \subseteq released'
    BY <1>3 DEF cancel_agent_tasks_running, Existing, TypeOK
  <1>4. ASSUME UNCHANGED <<version_status, released>>
        PROVE  Existing \subseteq Existing' /\ released \subseteq released'
    BY <1>4 DEF Existing
  <1>5. QED
    BY <1>1, <1>2, <1>3, <1>4
       DEF Next, RegistryStep, TaskStep, create_version_allocate,
           activate_version_read, set_route, disable_agent,
           cancel_agent_tasks_queued, resolve_route, submit_task, claim,
           requeue, finish, cancel_task, vars, registry_vars

\* The record of releases follows the status of the versions: a number that is
\* inserted as a draft was free, and disabling withdraws no release.
LEMMA RecordStep ==
  ASSUME TypeOK, AllocatedNumberIsFree, ReleasesRecorded, [Next]_vars
  PROVE  ReleasesRecorded'
  <1>1. ASSUME NEW r \in Requests, create_version_insert(r)
        PROVE  ReleasesRecorded'
    BY <1>1 DEF create_version_insert, Goto, AllocatedNumberIsFree,
                ReleasesRecorded, TypeOK
  <1>2. ASSUME NEW r \in Requests, activate_version_write(r)
        PROVE  ReleasesRecorded'
    <2>1. \/ version_status' = version_status
          \/ version_status' =
               [version_status EXCEPT ![version_id[r]] = "ACTIVE"]
      BY <1>2 DEF activate_version_write
    <2>2. released' = released \cup {v \in Versions :
                                      version_status'[v] = "ACTIVE"}
      BY <1>2 DEF activate_version_write, RecordReleases
    <2>3. QED
      BY <2>1, <2>2 DEF ReleasesRecorded, TypeOK
  <1>3. ASSUME NEW r \in Requests, cancel_agent_tasks_running(r)
        PROVE  ReleasesRecorded'
    BY <1>3 DEF cancel_agent_tasks_running, ReleasesRecorded, TypeOK
  <1>4. ASSUME UNCHANGED <<version_status, released>> PROVE ReleasesRecorded'
    BY <1>4 DEF ReleasesRecorded
  <1>5. QED
    BY <1>1, <1>2, <1>3, <1>4
       DEF Next, RegistryStep, TaskStep, create_version_allocate,
           activate_version_read, set_route, disable_agent,
           cancel_agent_tasks_queued, resolve_route, submit_task, claim,
           requeue, finish, cancel_task, vars, registry_vars

\* The row lock of the agent is exclusive.
LEMMA HolderStep ==
  ASSUME TypeOK, OneHolder, [Next]_vars
  PROVE  OneHolder'
  <1>1. \/ UNCHANGED pc
        \/ \E r \in Requests : \E to \in {"activating", "submitting", "done"} :
             pc' = [pc EXCEPT ![r] = to]
        \/ AgentRowFree /\ \E r \in Requests : \E to \in Holding :
             pc' = [pc EXCEPT ![r] = to]
        \/ \E r \in Requests :
             pc[r] = "disabling" /\ pc' = [pc EXCEPT ![r] = "sweeping"]
    BY DEF Next, RegistryStep, TaskStep, create_version_allocate,
           create_version_insert, activate_version_read, activate_version_write,
           set_route, disable_agent, cancel_agent_tasks_queued,
           cancel_agent_tasks_running, resolve_route, submit_task, claim,
           requeue, finish, cancel_task, vars, Goto, Holding
  <1>2. QED
    BY <1>1 DEF OneHolder, AgentRowFree, Holding, TypeOK

\* Numbers are allocated and inserted by the holder of the row only, so an
\* allocated one stays free.
LEMMA NumberStep ==
  ASSUME TypeOK, RegistryInv, [Next]_vars
  PROVE  AllocatedNumberIsFree'
  <1> USE DEF RegistryInv
  <1> SUFFICES ASSUME NEW q \in Requests, pc'[q] = "creating"
               PROVE  version_status'[version_id'[q]] = "absent"
    BY DEF AllocatedNumberIsFree
  <1>1. ASSUME NEW r \in Requests, NEW n \in Versions,
               create_version_allocate(r, n)
        PROVE  version_status'[version_id'[q]] = "absent"
    <2>1. q = r
      BY <1>1 DEF create_version_allocate, Goto, AgentRowFree, TypeOK
    <2>2. version_id'[q] = n
      BY <1>1, <2>1 DEF create_version_allocate, TypeOK
    <2>3. version_status[n] = "absent"
      BY <1>1, RegistryAssumption
         DEF create_version_allocate, IsNextVersion, Versions
    <2>4. QED
      BY <1>1, <2>2, <2>3 DEF create_version_allocate, registry_vars
  <1>2. ASSUME NEW r \in Requests, create_version_insert(r)
        PROVE  FALSE
    BY <1>2 DEF create_version_insert, Goto, OneHolder, Holding, TypeOK
  <1>3. ASSUME NEW r \in Requests,
               activate_version_write(r) \/ cancel_agent_tasks_running(r)
        PROVE  version_status'[version_id'[q]] = "absent"
    <2>1. pc[q] = "creating" /\ q # r
      BY <1>3 DEF activate_version_write, cancel_agent_tasks_running, Goto,
                  TypeOK
    <2>2. cancel_agent_tasks_running(r) => FALSE
      BY <2>1 DEF cancel_agent_tasks_running, Goto, OneHolder, Holding
    <2>3. activate_version_write(r) => FALSE
      BY <2>1 DEF activate_version_write, AgentRowFree
    <2>4. QED
      BY <1>3, <2>2, <2>3
  <1>4. ASSUME NEW r \in Requests,
               \/ \E v \in Versions, e \in 0 .. AnyDefault :
                    activate_version_read(r, v, e)
               \/ set_route(r) \/ disable_agent(r)
               \/ cancel_agent_tasks_queued(r) \/ resolve_route(r)
               \/ submit_task(r) \/ TaskStep(r) \/ UNCHANGED vars
        PROVE  version_status'[version_id'[q]] = "absent"
    <2>1. UNCHANGED version_status
      BY <1>4 DEF activate_version_read, set_route, disable_agent,
           cancel_agent_tasks_queued, resolve_route, submit_task, TaskStep,
           claim, requeue, finish, cancel_task, vars, registry_vars
    <2>2. pc[q] = "creating" /\ version_id'[q] = version_id[q]
      BY <1>4 DEF activate_version_read, set_route, disable_agent,
           cancel_agent_tasks_queued, resolve_route, submit_task, TaskStep,
           claim, requeue, finish, cancel_task, vars, Goto, TypeOK
    <2>3. QED
      BY <2>1, <2>2 DEF AllocatedNumberIsFree
  <1>5. QED
    BY <1>1, <1>2, <1>3, <1>4 DEF Next, RegistryStep

\* What a request read of a version without a lock still holds when it is used.
LEMMA ReadStep ==
  ASSUME TypeOK, RegistryInv, [Next]_vars
  PROVE  ReadVersionsStay'
  <1> USE DEF RegistryInv
  <1>1. Existing \subseteq Existing' /\ released \subseteq released'
    BY VersionsAdvance
  <1> SUFFICES ASSUME NEW q \in Requests
               PROVE  /\ pc'[q] = "creating" => version_id'[q] \in Versions
                      /\ pc'[q] = "activating" => version_id'[q] \in Existing'
                      /\ pc'[q] = "submitting" => version_id'[q] \in released'
    BY DEF ReadVersionsStay
  <1> DEFINE Reads == /\ pc'[q] = "creating" => version_id'[q] \in Versions
                      /\ pc'[q] = "activating" => version_id'[q] \in Existing
                      /\ pc'[q] = "submitting" => version_id'[q] \in released
  <1>2. ASSUME pc'[q] = pc[q], version_id'[q] = version_id[q]
        PROVE  Reads
    BY <1>2 DEF ReadVersionsStay
  <1>3. ASSUME NEW r \in Requests, NEW n \in Versions,
               create_version_allocate(r, n)
        PROVE  Reads
    <2>1. q = r => pc'[q] = "creating" /\ version_id'[q] = n
      BY <1>3 DEF create_version_allocate, Goto, TypeOK
    <2>2. q # r => pc'[q] = pc[q] /\ version_id'[q] = version_id[q]
      BY <1>3 DEF create_version_allocate, Goto, TypeOK
    <2>3. QED
      BY <2>1, <2>2, <1>2
  <1>4. ASSUME NEW r \in Requests, NEW v \in Versions,
               NEW e \in 0 .. AnyDefault, activate_version_read(r, v, e)
        PROVE  Reads
    <2>1. q = r => pc'[q] \in {"activating", "done"} /\ version_id'[q] = v
      BY <1>4 DEF activate_version_read, Goto, TypeOK
    <2>2. q # r => pc'[q] = pc[q] /\ version_id'[q] = version_id[q]
      BY <1>4 DEF activate_version_read, Goto, TypeOK
    <2>3. v \in Existing
      BY <1>4 DEF activate_version_read, Existing
    <2>4. QED
      BY <2>1, <2>2, <2>3, <1>2
  <1>5. ASSUME NEW r \in Requests, resolve_route(r)
        PROVE  Reads
    <2>1. q = r => /\ pc'[q] \in {"submitting", "done"}
                   /\ pc'[q] = "submitting" => Routable
                   /\ version_id'[q] = default_version_id
      BY <1>5 DEF resolve_route, Goto, TypeOK
    <2>2. q # r => pc'[q] = pc[q] /\ version_id'[q] = version_id[q]
      BY <1>5 DEF resolve_route, Goto, TypeOK
    <2>3. Routable => default_version_id \in released
      BY RegistryAssumption DEF Routable, ReleasesRecorded, TypeOK, Versions
    <2>4. QED
      BY <2>1, <2>2, <2>3, <1>2
  <1>6. ASSUME NEW r \in Requests,
               \/ create_version_insert(r) \/ activate_version_write(r)
               \/ set_route(r) \/ disable_agent(r)
               \/ cancel_agent_tasks_queued(r) \/ cancel_agent_tasks_running(r)
               \/ submit_task(r) \/ TaskStep(r)
        PROVE  Reads
    <2>1. /\ version_id' = version_id
          /\ pc'[q] \in {pc[q], "disabling", "sweeping", "done"}
      BY <1>6 DEF create_version_insert, activate_version_write, set_route,
           disable_agent, cancel_agent_tasks_queued, cancel_agent_tasks_running,
           submit_task, TaskStep, claim, requeue, finish, cancel_task, Goto,
           TypeOK
    <2>2. QED
      BY <2>1 DEF ReadVersionsStay
  <1>7. Reads
    <2>1. CASE UNCHANGED vars
      BY <2>1, <1>2 DEF vars
    <2>2. QED
      BY <2>1, <1>3, <1>4, <1>5, <1>6 DEF Next, RegistryStep
  <1>8. QED
    BY <1>1, <1>7

\* Neither a new default nor a new task names an unreleased version, and a
\* release is never withdrawn.
LEMMA ReleasedStep ==
  ASSUME TypeOK, RegistryInv, [Next]_vars
  PROVE  OnlyReleasedVersionsRun'
  <1> USE DEF RegistryInv
  <1>1. released \subseteq released'
    BY VersionsAdvance
  <1>2. default_version_id' = 0 \/ default_version_id' \in released'
    <2>1. ASSUME NEW r \in Requests, activate_version_write(r),
                 default_version_id' # default_version_id
          PROVE  default_version_id' \in released'
      <3>1. /\ default_version_id' = version_id[r]
            /\ version_status' =
                 [version_status EXCEPT ![version_id[r]] = "ACTIVE"]
        BY <2>1 DEF activate_version_write
      <3>2. version_id[r] \in Versions
        BY <2>1 DEF activate_version_write, Goto, ReadVersionsStay, Existing
      <3>3. released' = released \cup {x \in Versions :
                                        version_status'[x] = "ACTIVE"}
        BY <2>1 DEF activate_version_write, RecordReleases
      <3>4. QED
        BY <3>1, <3>2, <3>3 DEF TypeOK
    <2>2. default_version_id = 0 \/ default_version_id \in released
      BY DEF OnlyReleasedVersionsRun
    <2>3. CASE default_version_id' = default_version_id
      BY <2>2, <2>3, <1>1
    <2>4. CASE default_version_id' # default_version_id
      BY <2>1, <2>4
         DEF Next, RegistryStep, TaskStep, create_version_allocate,
             create_version_insert, activate_version_read, set_route,
             disable_agent, cancel_agent_tasks_queued,
             cancel_agent_tasks_running, resolve_route, submit_task, claim,
             requeue, finish, cancel_task, vars, registry_vars
    <2>5. QED
      BY <2>3, <2>4
  <1>3. ASSUME NEW t \in Requests, task_state'[t] # "absent"
        PROVE  agent_version_id'[t] \in released'
    <2>1. \/ task_state[t] # "absent" /\ agent_version_id'[t] = agent_version_id[t]
          \/ pc[t] = "submitting" /\ agent_version_id'[t] = version_id[t]
      <3>1. ASSUME NEW r \in Requests, submit_task(r)
            PROVE  \/ /\ task_state[t] # "absent"
                      /\ agent_version_id'[t] = agent_version_id[t]
                   \/ pc[t] = "submitting" /\ agent_version_id'[t] = version_id[t]
        BY <3>1, <1>3 DEF submit_task, Goto, TypeOK
      <3>2. ASSUME NEW r \in Requests, cancel_agent_tasks_running(r)
            PROVE  task_state[t] # "absent" /\ agent_version_id' = agent_version_id
        BY <3>2, <1>3 DEF cancel_agent_tasks_running, SweptStayQueued
      <3>3. ASSUME NEW r \in Requests, TaskStep(r)
            PROVE  task_state[t] # "absent" /\ agent_version_id' = agent_version_id
        BY <3>3, <1>3 DEF TaskStep, claim, requeue, finish, cancel_task, TypeOK
      <3>4. QED
        BY <3>1, <3>2, <3>3, <1>3
           DEF Next, RegistryStep, create_version_allocate,
               create_version_insert, activate_version_read,
               activate_version_write, set_route, disable_agent,
               cancel_agent_tasks_queued, resolve_route, vars, task_vars
    <2>2. QED
      BY <2>1, <1>1 DEF OnlyReleasedVersionsRun, ReadVersionsStay
  <1>4. QED
    BY <1>2, <1>3 DEF OnlyReleasedVersionsRun

\* A sweep and the tasks around it: swept rows are locked, and a row that
\* becomes QUEUED during a sweep is a latecomer.
LEMMA SweepInvStep ==
  ASSUME TypeOK, RegistryInv, [Next]_vars
  PROVE  SweepSeesQueued' /\ SweptStayQueued'
  <1> USE DEF RegistryInv
  <1>1. ASSUME NEW r \in Requests, cancel_agent_tasks_queued(r)
        PROVE  SweepSeesQueued' /\ SweptStayQueued'
    <2>1. task_state' = task_state
      BY <1>1 DEF cancel_agent_tasks_queued, task_vars
    <2>2. \A t \in Requests : task_state[t] = "QUEUED" => Pinned(t)
      BY DEF OnlyReleasedVersionsRun, ReleasesRecorded, Pinned, TypeOK
    <2>3. swept' = {t \in Requests : task_state[t] = "QUEUED"}
      BY <1>1, <2>2 DEF cancel_agent_tasks_queued
    <2>4. QED
      BY <2>1, <2>3 DEF SweepSeesQueued, SweptStayQueued
  <1>2. ASSUME NEW r \in Requests, cancel_agent_tasks_running(r)
        PROVE  SweepSeesQueued' /\ SweptStayQueued'
    <2>1. swept' = {}
      BY <1>2 DEF cancel_agent_tasks_running
    <2>2. \A q \in Requests : pc'[q] # "sweeping"
      BY <1>2 DEF cancel_agent_tasks_running, Goto, OneHolder, Holding, TypeOK
    <2>3. QED
      BY <2>1, <2>2 DEF SweepSeesQueued, SweptStayQueued
  <1>3. ASSUME NEW r \in Requests, submit_task(r)
        PROVE  SweepSeesQueued' /\ SweptStayQueued'
    BY <1>3 DEF submit_task, Goto, SweepSeesQueued, SweptStayQueued, TypeOK
  <1>4. ASSUME NEW r \in Requests, TaskStep(r)
        PROVE  SweepSeesQueued' /\ SweptStayQueued'
    <2>1. CASE requeue(r)
      BY <2>1 DEF requeue, SweepSeesQueued, SweptStayQueued, TypeOK
    <2>2. CASE claim(r)
      BY <2>2 DEF claim, SweepSeesQueued, SweptStayQueued, TypeOK, sweep_vars
    <2>3. ASSUME NEW to \in TERMINAL, finish(r, to)
          PROVE  SweepSeesQueued' /\ SweptStayQueued'
      BY <2>3 DEF finish, TERMINAL, SweepSeesQueued, SweptStayQueued, TypeOK,
                  sweep_vars
    <2>4. CASE cancel_task(r)
      BY <2>4 DEF cancel_task, SweepSeesQueued, SweptStayQueued, TypeOK,
                  sweep_vars
    <2>5. QED
      BY <1>4, <2>1, <2>2, <2>3, <2>4 DEF TaskStep
  <1>5. ASSUME UNCHANGED <<task_state, swept, late>>,
               \A q \in Requests : pc'[q] = "sweeping" => pc[q] = "sweeping"
        PROVE  SweepSeesQueued' /\ SweptStayQueued'
    BY <1>5 DEF SweepSeesQueued, SweptStayQueued
  <1>6. ASSUME NEW r \in Requests,
               \/ \E n \in Versions : create_version_allocate(r, n)
               \/ create_version_insert(r)
               \/ \E v \in Versions, e \in 0 .. AnyDefault :
                    activate_version_read(r, v, e)
               \/ activate_version_write(r)
               \/ set_route(r) \/ disable_agent(r) \/ resolve_route(r)
        PROVE  SweepSeesQueued' /\ SweptStayQueued'
    <2>1. UNCHANGED <<task_state, swept, late>>
      BY <1>6 DEF create_version_allocate, create_version_insert,
           activate_version_read, activate_version_write, set_route,
           disable_agent, resolve_route, task_vars, sweep_vars
    <2>2. \A q \in Requests : pc'[q] = "sweeping" => pc[q] = "sweeping"
      BY <1>6 DEF create_version_allocate, create_version_insert,
           activate_version_read, activate_version_write, set_route,
           disable_agent, resolve_route, Goto, TypeOK
    <2>3. QED
      BY <2>1, <2>2, <1>5
  <1>7. CASE UNCHANGED vars
    BY <1>7, <1>5 DEF vars, task_vars, sweep_vars
  <1>8. QED
    BY <1>1, <1>2, <1>3, <1>4, <1>6, <1>7 DEF Next, RegistryStep

\* The registry's invariant holds in every reachable state.
THEOREM RegistryInvariant == Spec => [](TypeOK /\ RegistryInv)
  <1>1. Init => RegistryInv
    BY DEF Init, RegistryInv, OneHolder, Holding, AllocatedNumberIsFree,
           ReadVersionsStay, ReleasesRecorded, OnlyReleasedVersionsRun,
           SweepSeesQueued, SweptStayQueued
  <1>2. TypeOK /\ RegistryInv /\ [Next]_vars => RegistryInv'
    <2> SUFFICES ASSUME TypeOK, RegistryInv, [Next]_vars
                 PROVE  RegistryInv'
      OBVIOUS
    <2>1. OneHolder'
      BY HolderStep DEF RegistryInv
    <2>2. QED
      BY <2>1, NumberStep, ReadStep, RecordStep, ReleasedStep, SweepInvStep
         DEF RegistryInv
  <1>3. QED
    BY <1>1, <1>2, RegistryTypeCorrect, PTL DEF Spec

-----------------------------------------------------------------------------
(* The properties the runs check, for every number of requests.            *)

\* RACE 1: a number allocated under the agent's row lock is free when the
\* version is inserted.
THEOREM AllocationCorrect == Spec => []AllocatedNumberIsFree
  <1>1. RegistryInv => AllocatedNumberIsFree
    BY DEF RegistryInv
  <1>2. QED
    BY <1>1, RegistryInvariant, PTL

\* Only versions that were set ACTIVE at some time are ever defaults or run
\* tasks; a draft that was disabled is not one of them.
THEOREM ReleasedCorrect == Spec => []OnlyReleasedVersionsRun
  <1>1. RegistryInv => OnlyReleasedVersionsRun
    BY DEF RegistryInv
  <1>2. QED
    BY <1>1, RegistryInvariant, PTL

\* Disabling an agent leaves alive and unflagged only tasks that were queued
\* after the first statement of its sweep.
THEOREM SweepCorrect == Spec => SweepMissesOnlyLatecomers
  <1>1. TypeOK /\ RegistryInv /\ [Next]_vars => [SweepStep]_vars
    <2> SUFFICES ASSUME TypeOK, RegistryInv, Next,
                        NEW r \in Requests, NEW t \in Requests,
                        pc[r] = "sweeping", pc'[r] = "done",
                        task_state'[t] \in {"QUEUED", "RUNNING"},
                        ~cancel_requested'[t]
                 PROVE  t \in late
      BY DEF SweepStep
    <2>1. cancel_agent_tasks_running(r)
      BY DEF Next, RegistryStep, TaskStep, create_version_allocate,
           create_version_insert, activate_version_read,
           activate_version_write, set_route, disable_agent,
           cancel_agent_tasks_queued, cancel_agent_tasks_running,
           resolve_route, submit_task, claim, requeue, finish, cancel_task,
           Goto, TypeOK
    <2>2. t \notin swept /\ task_state'[t] = task_state[t]
      BY <2>1 DEF cancel_agent_tasks_running
    <2>3. task_state[t] # "RUNNING" \/ ~Pinned(t)
      BY <2>1 DEF cancel_agent_tasks_running
    <2>4. Pinned(t)
      BY <2>2 DEF RegistryInv, OnlyReleasedVersionsRun, ReleasesRecorded, Pinned,
                  TypeOK
    <2>5. QED
      BY <2>2, <2>3, <2>4 DEF RegistryInv, SweepSeesQueued
  <1>2. QED
    BY <1>1, RegistryInvariant, PTL DEF Spec, SweepMissesOnlyLatecomers
=============================================================================
