-------------------------- MODULE ToolPolicyProofs --------------------------
(***************************************************************************)
(* Theorems about ToolPolicy for every set of tools, versions, tenants and *)
(* attempts and any number of operators' requests.                         *)
(***************************************************************************)
EXTENDS ToolPolicy, TLAPS

-----------------------------------------------------------------------------
(* The decision.                                                           *)

\* authorize, as the cases a reader would argue about: what each answer
\* implies of the policy, and that there is no other.
LEMMA AuthorizeCases ==
  ASSUME NEW p \in Policies, NEW name
  PROVE  \/ /\ authorize(p, name) = Deny("version_disabled")
            /\ p.version_disabled = TRUE
         \/ /\ authorize(p, name) = Deny("no_policy")
            /\ p.agent_version_id = NoVersion
         \/ /\ authorize(p, name) = Deny("unknown_tool")
            /\ NamedBy(p, name) = {}
            /\ p.agent_version_id # NoVersion
         \/ \E t \in NamedBy(p, name) :
              /\ authorize(p, name) = Deny("tool_disabled")
              /\ p.tools[t] = "DISABLED"
              /\ p.agent_version_id # NoVersion
         \/ \E t \in NamedBy(p, name) :
              /\ authorize(p, name) = Deny("not_granted")
              /\ t \notin p.granted_tool_ids
              /\ p.agent_version_id # NoVersion
         \/ \E t \in NamedBy(p, name) :
              /\ authorize(p, name) = Allow(t)
              /\ p.tools[t] = "ACTIVE"
              /\ t \in p.granted_tool_ids
              /\ p.version_disabled = FALSE
              /\ p.agent_version_id # NoVersion
  <1> DEFINE tool == CHOOSE t \in NamedBy(p, name) : TRUE
  <1>1. p.version_disabled \in BOOLEAN
    BY DEF Policies
  <1>2. NamedBy(p, name) # {} => tool \in NamedBy(p, name)
    OBVIOUS
  <1>3. \A t \in NamedBy(p, name) : p.tools[t] \in {"ACTIVE", "DISABLED"}
    BY DEF NamedBy, Policies, ToolStatus
  <1> HIDE DEF tool
  <1>4. authorize(p, name) =
          IF p.version_disabled THEN Deny("version_disabled")
          ELSE IF p.agent_version_id = NoVersion THEN Deny("no_policy")
          ELSE IF NamedBy(p, name) = {} THEN Deny("unknown_tool")
          ELSE IF p.tools[tool] = "DISABLED" THEN Deny("tool_disabled")
          ELSE IF tool \notin p.granted_tool_ids THEN Deny("not_granted")
          ELSE Allow(tool)
    BY DEF authorize, tool
  <1>5. CASE p.version_disabled = TRUE
    BY <1>4, <1>5
  <1>6. CASE p.version_disabled = FALSE /\ p.agent_version_id = NoVersion
    BY <1>4, <1>6
  <1>7. CASE /\ p.version_disabled = FALSE /\ p.agent_version_id # NoVersion
             /\ NamedBy(p, name) = {}
    BY <1>4, <1>7
  <1>8. CASE /\ p.version_disabled = FALSE /\ p.agent_version_id # NoVersion
             /\ NamedBy(p, name) # {}
    <2>1. tool \in NamedBy(p, name) /\ p.tools[tool] \in {"ACTIVE", "DISABLED"}
      BY <1>2, <1>3, <1>8
    <2>2. CASE p.tools[tool] = "DISABLED"
      BY <1>4, <1>8, <2>1, <2>2
    <2>3. CASE p.tools[tool] # "DISABLED" /\ tool \notin p.granted_tool_ids
      BY <1>4, <1>8, <2>1, <2>3
    <2>4. CASE p.tools[tool] # "DISABLED" /\ tool \in p.granted_tool_ids
      BY <1>4, <1>8, <2>1, <2>4
    <2> QED
      BY <2>2, <2>3, <2>4
  <1> QED
    BY <1>1, <1>5, <1>6, <1>7, <1>8

\* A decision is one of Decisions.
LEMMA AuthorizeType ==
  ASSUME NEW p \in Policies, NEW name
  PROVE  authorize(p, name) \in Decisions
  <1>1. \A r \in DenyReason : Deny(r) \in Decisions
    BY DEF Deny, Decisions
  <1>2. \A t \in Tools : Allow(t) \in Decisions
    BY DEF Allow, Decisions
  <1>3. NamedBy(p, name) \subseteq Tools
    BY DEF NamedBy
  <1> QED
    BY <1>1, <1>2, <1>3, AuthorizeCases DEF DenyReason

-----------------------------------------------------------------------------
(* Types.                                                                  *)

\* Everything a claim can see.
AllFacts == ({"tool"} \X Tools \X ToolStatus)
              \cup ({"granted"} \X Tools \X {"yes", "no"})
              \cup ({"version"} \X Versions \X VersionStatus)

\* Grants are of a version and a tool of one tenant, and so are those that a
\* request has checked and will write.
GrantsWithinTenant ==
  /\ grants \in SUBSET (Versions \X Tools)
  /\ \A g \in grants : tool_tenant[g[2]] = version_tenant[g[1]]
  /\ checked \in SUBSET ({"grant", "revoke"} \X Versions \X Tools)
  /\ \A v \in Versions, t \in Tools :
       <<"grant", v, t>> \in checked => version_tenant[v] = tool_tenant[t]

\* TypeOK, and the types of the variables it leaves out.
TypeInv ==
  /\ TypeOK
  /\ policy \in [Attempts -> Policies]
  /\ calling \in [Attempts -> Calls \cup {NoCall}]
  /\ window \in [Attempts -> SUBSET AllFacts]
  /\ GrantsWithinTenant

\* What a claim sees are facts.
LEMMA FactsType ==
  ASSUME TypeOK, NEW a \in Attempts
  PROVE  Facts(a) \in SUBSET AllFacts
  <1> DEFINE v == agent_version_id[a]
  <1>1. \A t \in Tools :
          /\ <<"tool", t, tool_status[t]>> \in AllFacts
          /\ <<"granted", t, "yes">> \in AllFacts
          /\ <<"granted", t, "no">> \in AllFacts
    BY DEF AllFacts, TypeOK
  <1>2. v # NoVersion => <<"version", v, version_status[v]>> \in AllFacts
    BY DEF AllFacts, TypeOK
  <1> QED
    BY <1>1, <1>2 DEF Facts

\* The requests of operators leave the attempts alone, and add to what a
\* claim in progress may have seen.
LEMMA OperatorStep ==
  ASSUME TypeInv, Operator
  PROVE  /\ UNCHANGED attempt_vars
         /\ \A a \in Attempts :
              /\ window[a] \subseteq window'[a]
              /\ pc[a] \in Claiming /\ Facts(a) \subseteq window[a]
                   => Facts(a)' \subseteq window'[a]
  <1>1. CASE Changed
    BY <1>1 DEF Changed, TypeInv
  <1>2. CASE UNCHANGED <<tool_status, version_status, grants, attempt_vars,
                         window>>
    BY <1>2 DEF Facts, attempt_vars
  <1> QED
    BY <1>1, <1>2
       DEF Operator, create_tool, disable_tool, enable_tool, set_tool_status,
           grant_check, revoke_check, grant_tool, revoke_grant,
           activate_version, disable_agent

\* A step of an attempt leaves the registry and every other attempt alone,
\* and takes nothing back from the records.
LEMMA AttemptStep ==
  ASSUME TypeInv, NEW a \in Attempts, Attempt(a)
  PROVE  /\ UNCHANGED <<registry_vars, agent_version_id>>
         /\ \A b \in Attempts \ {a} :
              /\ pc'[b] = pc[b] /\ policy'[b] = policy[b]
              /\ calling'[b] = calling[b] /\ window'[b] = window[b]
         /\ events \subseteq events'
  <1> USE DEF TypeInv, TypeOK, Step, record_vars
  <1>1. CASE snapshot_versions(a)
    BY <1>1 DEF snapshot_versions
  <1>2. CASE snapshot_tools(a) \/ snapshot_grants(a)
    BY <1>2 DEF snapshot_tools, snapshot_grants
  <1>3. CASE \E name \in Names : call(a, name)
    BY <1>3 DEF call
  <1>4. CASE on_decision(a)
    BY <1>4 DEF on_decision
  <1>5. CASE record_audit_independently(a)
    BY <1>5 DEF record_audit_independently
  <1>6. CASE invoke(a) \/ on_executed(a)
    BY <1>6 DEF invoke, on_executed
  <1>7. CASE record_fails(a) \/ attempt_ends(a)
    BY <1>7 DEF record_fails, attempt_ends
  <1> QED
    BY <1>1, <1>2, <1>3, <1>4, <1>5, <1>6, <1>7 DEF Attempt

\* The requests of operators keep the types: a grant is written only after
\* its check.
LEMMA OperatorType ==
  ASSUME TypeInv, Operator
  PROVE  TypeInv'
  <1>1. /\ tool_status' \in [Tools -> ToolStatus]
        /\ version_status' \in [Versions -> VersionStatus]
        /\ requests' \in 0 .. MaxRequests
    <2> USE ToolPolicyAssumption DEF TypeInv, TypeOK, Request
    <2>1. ASSUME NEW t \in Tools,
                 create_tool(t) \/ disable_tool(t) \/ enable_tool(t)
          PROVE  /\ tool_status' \in [Tools -> ToolStatus]
                 /\ UNCHANGED version_status
                 /\ requests' \in 0 .. MaxRequests
      BY <2>1 DEF ToolStatus, create_tool, disable_tool, enable_tool,
                  set_tool_status
    <2>2. ASSUME NEW v \in Versions, NEW t \in Tools,
                 \/ grant_check(v, t) \/ grant_tool(v, t)
                 \/ revoke_check(v, t) \/ revoke_grant(v, t)
          PROVE  /\ UNCHANGED <<tool_status, version_status>>
                 /\ requests' \in 0 .. MaxRequests
      BY <2>2 DEF grant_check, grant_tool, revoke_check, revoke_grant
    <2>3. ASSUME NEW v \in Versions, activate_version(v) \/ disable_agent(v)
          PROVE  /\ version_status' \in [Versions -> VersionStatus]
                 /\ UNCHANGED tool_status
                 /\ requests' \in 0 .. MaxRequests
      BY <2>3 DEF VersionStatus, activate_version, disable_agent
    <2> QED
      BY <2>1, <2>2, <2>3 DEF Operator
  <1>2. GrantsWithinTenant'
    <2> USE DEF TypeInv, GrantsWithinTenant
    <2>1. CASE UNCHANGED <<grants, checked>>
      BY <2>1
    <2>2. ASSUME NEW v \in Versions, NEW t \in Tools,
                 grant_check(v, t) \/ revoke_check(v, t)
          PROVE  GrantsWithinTenant'
      BY <2>2 DEF grant_check, revoke_check
    <2>3. ASSUME NEW v \in Versions, NEW t \in Tools,
                 grant_tool(v, t) \/ revoke_grant(v, t)
          PROVE  GrantsWithinTenant'
      BY <2>3 DEF grant_tool, revoke_grant
    <2> QED
      BY <2>1, <2>2, <2>3
         DEF Operator, create_tool, disable_tool, enable_tool,
             set_tool_status, activate_version, disable_agent
  <1>3. TypeOK'
    BY <1>1, <1>2, OperatorStep
       DEF TypeInv, TypeOK, GrantsWithinTenant, attempt_vars
  <1>4. window' \in [Attempts -> SUBSET AllFacts]
    <2>1. CASE UNCHANGED window
      BY <2>1 DEF TypeInv
    <2>2. CASE Changed
      <3>1. ASSUME NEW a \in Attempts
            PROVE  Facts(a)' \in SUBSET AllFacts
        <4> DEFINE v == agent_version_id'[a]
        <4>1. \A t \in Tools :
                /\ <<"tool", t, tool_status'[t]>> \in AllFacts
                /\ <<"granted", t, "yes">> \in AllFacts
                /\ <<"granted", t, "no">> \in AllFacts
          BY <1>1 DEF AllFacts
        <4>2. v # NoVersion => <<"version", v, version_status'[v]>> \in AllFacts
          BY <1>1, <1>3 DEF AllFacts, TypeOK
        <4> QED
          BY <4>1, <4>2 DEF Facts
      <3> QED
        BY <2>2, <3>1 DEF Changed, TypeInv
    <2> QED
      BY <2>1, <2>2
         DEF Operator, create_tool, disable_tool, enable_tool,
             set_tool_status, grant_check, revoke_check, grant_tool,
             revoke_grant, activate_version, disable_agent
  <1> QED
    BY <1>2, <1>3, <1>4, OperatorStep DEF TypeInv, attempt_vars, record_vars

\* Each statement of a snapshot writes its fields of the policy and leaves the
\* others, and what is written is a policy again.
LEMMA SnapshotWrites ==
  ASSUME TypeInv, NEW a \in Attempts
  PROVE  LET p == policy[a]
             q == policy'[a]
             v == agent_version_id[a]
         IN
         /\ snapshot_versions(a) =>
              /\ policy' \in [Attempts -> Policies]
              /\ q.agent_version_id = v
              /\ q.version_disabled =
                   (v # NoVersion /\ version_status[v] = "DISABLED")
         /\ snapshot_tools(a) =>
              /\ policy' \in [Attempts -> Policies]
              /\ q.agent_version_id = p.agent_version_id
              /\ q.version_disabled = p.version_disabled
              /\ q.tools = [t \in Tools |->
                   IF t \in Namespace(v) THEN tool_status[t] ELSE "absent"]
         /\ snapshot_grants(a) =>
              /\ policy' \in [Attempts -> Policies]
              /\ q.agent_version_id = p.agent_version_id
              /\ q.version_disabled = p.version_disabled
              /\ q.tools = p.tools
              /\ q.granted_tool_ids = {t \in Tools : <<v, t>> \in grants}
  <1> DEFINE p == policy[a]
             v == agent_version_id[a]
  <1>0. p \in Policies /\ policy \in [Attempts -> Policies]
    BY DEF TypeInv
  <1>1. ASSUME NEW q \in Policies, policy' = [policy EXCEPT ![a] = q]
        PROVE  policy' \in [Attempts -> Policies] /\ policy'[a] = q
    BY <1>0, <1>1
  <1>2. ASSUME snapshot_versions(a)
        PROVE  /\ policy' \in [Attempts -> Policies]
               /\ policy'[a].agent_version_id = v
               /\ policy'[a].version_disabled =
                    (v # NoVersion /\ version_status[v] = "DISABLED")
    <2> DEFINE d == v # NoVersion /\ version_status[v] = "DISABLED"
               q == [p EXCEPT !.agent_version_id = v, !.version_disabled = d]
    <2>1. v \in Versions \cup {NoVersion} /\ d \in BOOLEAN
      BY DEF TypeInv, TypeOK
    <2> HIDE DEF d, v
    <2>2. q \in Policies /\ q.agent_version_id = v /\ q.version_disabled = d
      BY <1>0, <2>1 DEF Policies
    <2>3. policy' = [policy EXCEPT ![a] = q]
      BY <1>2 DEF snapshot_versions, d, v
    <2> QED
      BY <1>1, <2>2, <2>3 DEF d, v
  <1>3. ASSUME snapshot_tools(a)
        PROVE  /\ policy' \in [Attempts -> Policies]
               /\ policy'[a].agent_version_id = p.agent_version_id
               /\ policy'[a].version_disabled = p.version_disabled
               /\ policy'[a].tools = [t \in Tools |->
                    IF t \in Namespace(v) THEN tool_status[t] ELSE "absent"]
    <2> DEFINE T == [t \in Tools |->
                 IF t \in Namespace(v) THEN tool_status[t] ELSE "absent"]
               q == [p EXCEPT !.tools = T]
    <2>1. T \in [Tools -> ToolStatus]
      BY DEF TypeInv, TypeOK, ToolStatus
    <2> HIDE DEF T
    <2>2. /\ q \in Policies /\ q.tools = T
          /\ q.agent_version_id = p.agent_version_id
          /\ q.version_disabled = p.version_disabled
      BY <1>0, <2>1 DEF Policies
    <2>3. policy' = [policy EXCEPT ![a] = q]
      BY <1>3 DEF snapshot_tools, T
    <2> QED
      BY <1>1, <2>2, <2>3 DEF T
  <1>4. ASSUME snapshot_grants(a)
        PROVE  /\ policy' \in [Attempts -> Policies]
               /\ policy'[a].agent_version_id = p.agent_version_id
               /\ policy'[a].version_disabled = p.version_disabled
               /\ policy'[a].tools = p.tools
               /\ policy'[a].granted_tool_ids =
                    {t \in Tools : <<v, t>> \in grants}
    <2> DEFINE G == {t \in Tools : <<v, t>> \in grants}
               q == [p EXCEPT !.granted_tool_ids = G]
    <2>1. G \in SUBSET Tools
      OBVIOUS
    <2> HIDE DEF G
    <2>2. /\ q \in Policies /\ q.granted_tool_ids = G
          /\ q.agent_version_id = p.agent_version_id
          /\ q.version_disabled = p.version_disabled
          /\ q.tools = p.tools
      BY <1>0, <2>1 DEF Policies
    <2>3. policy' = [policy EXCEPT ![a] = q]
      BY <1>4 DEF snapshot_grants, G
    <2> QED
      BY <1>1, <2>2, <2>3 DEF G
  <1> QED
    BY <1>2, <1>3, <1>4

\* A step of an attempt keeps the types of policy, call and records.
LEMMA AttemptType ==
  ASSUME TypeInv, NEW a \in Attempts, Attempt(a)
  PROVE  TypeInv'
  <1>1. UNCHANGED <<tool_status, version_status, grants, checked, requests,
                    agent_version_id>>
    BY AttemptStep DEF registry_vars
  <1>2. pc' \in [Attempts -> {"QUEUED", "tools", "grants", "running",
                  "decided", "allowed", "executed", "denied", "over"}]
    BY DEF TypeInv, TypeOK, Attempt, Step, snapshot_versions, snapshot_tools,
           snapshot_grants, call, on_decision, record_audit_independently,
           invoke, on_executed, record_fails, attempt_ends
  <1>3. policy' \in [Attempts -> Policies]
    <2>1. CASE \/ snapshot_versions(a) \/ snapshot_tools(a)
               \/ snapshot_grants(a)
      BY <2>1, SnapshotWrites DEF TypeInv
    <2>2. CASE UNCHANGED policy
      BY <2>2 DEF TypeInv
    <2> QED
      BY <2>1, <2>2
         DEF Attempt, call, on_decision, record_audit_independently, invoke,
             on_executed, record_fails, attempt_ends
  <1>4. calling' \in [Attempts -> Calls \cup {NoCall}]
    <2>1. ASSUME NEW name \in Names, call(a, name)
          PROVE  calling' \in [Attempts -> Calls \cup {NoCall}]
      <3>1. [name |-> name, decision |-> authorize(policy[a], name)] \in Calls
        BY AuthorizeType DEF Calls, TypeInv
      <3> QED
        BY <2>1, <3>1 DEF call, TypeInv
    <2> QED
      BY <2>1 DEF TypeInv, Attempt, snapshot_versions, snapshot_tools,
                  snapshot_grants, on_decision, record_audit_independently,
                  invoke, on_executed, record_fails, attempt_ends
  <1>5. window' \in [Attempts -> SUBSET AllFacts]
    <2>1. Facts(a) \in SUBSET AllFacts
      BY FactsType DEF TypeInv
    <2> QED
      BY <2>1 DEF TypeInv, Attempt, snapshot_versions, snapshot_tools,
                  snapshot_grants, call, on_decision,
                  record_audit_independently, invoke, on_executed,
                  record_fails, attempt_ends
  <1>6. \A b \in Attempts :
          pc'[b] \in {"decided", "allowed", "executed", "denied"}
            => calling'[b] \in Calls
    <2> SUFFICES ASSUME NEW b \in Attempts,
                        pc'[b] \in {"decided", "allowed", "executed", "denied"}
                 PROVE  calling'[b] \in Calls
      OBVIOUS
    <2>1. CASE b # a
      BY <2>1, AttemptStep DEF TypeInv, TypeOK
    <2>2. CASE b = a
      <3>1. CASE \E name \in Names : call(a, name)
        <4>1. PICK name \in Names : call(a, name)
          BY <3>1
        <4>2. calling'[a] =
                [name |-> name, decision |-> authorize(policy[a], name)]
          BY <4>1 DEF call, TypeInv
        <4>3. authorize(policy[a], name) \in Decisions
          BY AuthorizeType DEF TypeInv
        <4> QED
          BY <2>2, <4>2, <4>3 DEF Calls
      <3>2. CASE on_decision(a) \/ invoke(a)
        BY <2>2, <3>2 DEF on_decision, invoke, Step, TypeInv, TypeOK
      <3>3. CASE \/ snapshot_versions(a) \/ snapshot_tools(a)
                 \/ snapshot_grants(a) \/ record_audit_independently(a)
                 \/ on_executed(a) \/ record_fails(a) \/ attempt_ends(a)
        <4>1. pc'[a] \in {"running", "tools", "grants", "over"}
          BY <3>3 DEF snapshot_versions, snapshot_tools, snapshot_grants,
                      record_audit_independently, on_executed, record_fails,
                      attempt_ends, Step, TypeInv, TypeOK
        <4> QED
          BY <2>2, <4>1
      <3> QED
        BY <3>1, <3>2, <3>3 DEF Attempt
    <2> QED
      BY <2>1, <2>2
  <1> QED
    BY <1>1, <1>2, <1>3, <1>4, <1>5, <1>6
       DEF TypeInv, TypeOK, GrantsWithinTenant

-----------------------------------------------------------------------------
(* The inductive invariant.  The properties relate what was called or      *)
(* refused to what was true during the claim; in between lie the policy    *)
(* that was frozen, the decision that was made on it, and the records that *)
(* are written before anything happens.                                    *)

\* Where an attempt has the version of its policy, and where it has a call.
Claimed == {"tools", "grants", "running", "decided", "allowed", "executed",
            "denied"}
Calling == {"decided", "allowed", "executed", "denied"}

\* A claim in progress: its window holds all that is true now.
WindowOpen(a) ==
  pc[a] \in Claiming =>
    agent_version_id[a] # NoVersion /\ Facts(a) \subseteq window[a]

\* What the first statement wrote was true in the window.
VersionFrozen(a) ==
  pc[a] \in Claimed =>
    LET p == policy[a]
        v == agent_version_id[a]
    IN  /\ p.agent_version_id = v
        /\ p.version_disabled = TRUE =>
             v # NoVersion /\ <<"version", v, "DISABLED">> \in window[a]
        /\ p.version_disabled = FALSE /\ v # NoVersion =>
             \E s \in {"DRAFT", "ACTIVE"} : <<"version", v, s>> \in window[a]

\* So was what the second one wrote, of the tools of the version's tenant.
ToolsFrozen(a) ==
  pc[a] \in Claimed \ {"tools"} /\ agent_version_id[a] # NoVersion =>
    \A t \in Tools :
      /\ t \in Namespace(agent_version_id[a]) =>
           <<"tool", t, policy[a].tools[t]>> \in window[a]
      /\ t \notin Namespace(agent_version_id[a]) =>
           policy[a].tools[t] = "absent"

\* And what the third one wrote.
GrantsFrozen(a) ==
  pc[a] \in Claimed \ Claiming /\ agent_version_id[a] # NoVersion =>
    \A t \in Tools :
      /\ t \in policy[a].granted_tool_ids =>
           <<"granted", t, "yes">> \in window[a]
      /\ t \notin policy[a].granted_tool_ids =>
           <<"granted", t, "no">> \in window[a]

\* A call goes by the decision on the frozen policy, and is on the timeline
\* before anything else happens.
CallDecided(a) ==
  /\ pc[a] \in Calling =>
       /\ calling[a].name \in Names
       /\ calling[a].decision = authorize(policy[a], calling[a].name)
  /\ pc[a] \in {"allowed", "executed"} =>
       /\ calling[a].decision.allowed = TRUE
       /\ <<a, calling[a].name, "ALLOWED">> \in events
  /\ pc[a] = "denied" =>
       /\ calling[a].decision.allowed = FALSE
       /\ <<a, calling[a].name, "DENIED">> \in events

\* An attempt that has not begun has no records.
NoRecordsYet(a) ==
  pc[a] = "QUEUED" =>
    /\ \A t \in Tools : <<a, t>> \notin invoked
    /\ \A r \in audit : r.attempt # a

\* All of it, for one attempt.
AttemptInv(a) ==
  /\ WindowOpen(a) /\ VersionFrozen(a) /\ ToolsFrozen(a) /\ GrantsFrozen(a)
  /\ CallDecided(a)

\* A step after which the attempt is where it was, with a window and a
\* timeline that only grew, keeps it.
LEMMA GrowthKeepsAttempt ==
  ASSUME TypeInv, NEW a \in Attempts, AttemptInv(a),
         UNCHANGED agent_version_id,
         pc'[a] = pc[a], policy'[a] = policy[a], calling'[a] = calling[a],
         window[a] \subseteq window'[a], events \subseteq events',
         pc[a] \in Claiming => Facts(a)' \subseteq window'[a]
  PROVE  AttemptInv(a)'
  <1>1. WindowOpen(a)'
    BY DEF AttemptInv, WindowOpen
  <1>2. VersionFrozen(a)'
    BY DEF AttemptInv, VersionFrozen
  <1>3. ToolsFrozen(a)'
    BY DEF AttemptInv, ToolsFrozen, Namespace
  <1>4. GrantsFrozen(a)'
    BY DEF AttemptInv, GrantsFrozen
  <1>5. CallDecided(a)'
    <2>1. authorize(policy'[a], calling'[a].name)
            = authorize(policy[a], calling[a].name)
      OBVIOUS
    <2>2. (authorize(policy[a], calling[a].name))'
            = authorize(policy'[a], calling'[a].name)
      BY DEF authorize, NamedBy, Deny, Allow
    <2> QED
      BY <2>1, <2>2 DEF AttemptInv, CallDecided
  <1> QED
    BY <1>1, <1>2, <1>3, <1>4, <1>5 DEF AttemptInv

\* The three statements of the claim keep it: each reads what is true now,
\* and all that is true now is in the window.
LEMMA SnapshotKeepsAttempt ==
  ASSUME TypeInv, NEW a \in Attempts, AttemptInv(a),
         \/ snapshot_versions(a) \/ snapshot_tools(a) \/ snapshot_grants(a)
  PROVE  AttemptInv(a)'
  <1> DEFINE v == agent_version_id[a]
  <1>1. /\ UNCHANGED <<tool_status, version_status, grants, agent_version_id>>
        /\ Facts(a)' = Facts(a)
    BY DEF snapshot_versions, snapshot_tools, snapshot_grants, registry_vars,
           Facts
  <1>2. CASE snapshot_versions(a)
    <2>1. /\ pc'[a] = IF v = NoVersion THEN "running" ELSE "tools"
          /\ window'[a] = Facts(a)
      BY <1>2 DEF snapshot_versions, Step, TypeInv, TypeOK
    <2>2. WindowOpen(a)'
      BY <1>1, <2>1 DEF WindowOpen, Claiming
    <2>3. VersionFrozen(a)'
      <3>1. /\ policy'[a].agent_version_id = v
            /\ policy'[a].version_disabled =
                 (v # NoVersion /\ version_status[v] = "DISABLED")
        BY <1>2, SnapshotWrites
      <3>2. v # NoVersion =>
              /\ version_status[v] \in {"DRAFT", "ACTIVE", "DISABLED"}
              /\ <<"version", v, version_status[v]>> \in window'[a]
        BY <2>1 DEF TypeInv, TypeOK, VersionStatus, Facts
      <3> QED
        BY <1>1, <3>1, <3>2 DEF VersionFrozen
    <2>4. ToolsFrozen(a)' /\ GrantsFrozen(a)' /\ CallDecided(a)'
      BY <1>1, <2>1 DEF ToolsFrozen, GrantsFrozen, CallDecided, Claimed,
                        Claiming, Calling
    <2> QED
      BY <2>2, <2>3, <2>4 DEF AttemptInv
  <1>3. CASE snapshot_tools(a)
    <2>1. pc[a] = "tools" /\ pc'[a] = "grants" /\ UNCHANGED window
      BY <1>3 DEF snapshot_tools, Step, TypeInv, TypeOK
    <2>2. v # NoVersion /\ Facts(a) \subseteq window[a]
      BY <2>1 DEF AttemptInv, WindowOpen, Claiming
    <2>3. WindowOpen(a)'
      BY <1>1, <2>1, <2>2 DEF WindowOpen
    <2>4. VersionFrozen(a)'
      BY <1>1, <1>3, <2>1, SnapshotWrites
         DEF AttemptInv, VersionFrozen, Claimed
    <2>5. ToolsFrozen(a)'
      <3>1. policy'[a].tools = [t \in Tools |->
              IF t \in Namespace(v) THEN tool_status[t] ELSE "absent"]
        BY <1>3, SnapshotWrites
      <3>2. \A t \in Tools : <<"tool", t, tool_status[t]>> \in window[a]
        BY <2>2 DEF Facts
      <3> QED
        BY <1>1, <2>1, <3>1, <3>2 DEF ToolsFrozen, Namespace
    <2>6. GrantsFrozen(a)' /\ CallDecided(a)'
      BY <1>1, <2>1 DEF GrantsFrozen, CallDecided, Claimed, Claiming, Calling
    <2> QED
      BY <2>3, <2>4, <2>5, <2>6 DEF AttemptInv
  <1>4. CASE snapshot_grants(a)
    <2>1. pc[a] = "grants" /\ pc'[a] = "running" /\ UNCHANGED window
      BY <1>4 DEF snapshot_grants, Step, TypeInv, TypeOK
    <2>2. v # NoVersion /\ Facts(a) \subseteq window[a]
      BY <2>1 DEF AttemptInv, WindowOpen, Claiming
    <2>3. WindowOpen(a)' /\ CallDecided(a)'
      BY <1>1, <2>1 DEF WindowOpen, CallDecided, Claiming, Calling
    <2>4. VersionFrozen(a)'
      BY <1>1, <1>4, <2>1, SnapshotWrites
         DEF AttemptInv, VersionFrozen, Claimed
    <2>5. ToolsFrozen(a)'
      <3>1. policy'[a].tools = policy[a].tools
        BY <1>4, SnapshotWrites
      <3> QED
        BY <1>1, <2>1, <3>1 DEF AttemptInv, ToolsFrozen, Claimed, Namespace
    <2>6. GrantsFrozen(a)'
      <3>1. policy'[a].granted_tool_ids = {t \in Tools : <<v, t>> \in grants}
        BY <1>4, SnapshotWrites
      <3>2. \A t \in Tools :
              <<"granted", t, IF <<v, t>> \in grants THEN "yes" ELSE "no">>
                \in window[a]
        BY <2>2 DEF Facts
      <3> QED
        BY <1>1, <2>1, <3>1, <3>2 DEF GrantsFrozen
    <2> QED
      BY <2>3, <2>4, <2>5, <2>6 DEF AttemptInv
  <1> QED
    BY <1>2, <1>3, <1>4

\* The steps of a call keep it: the policy stays as it was frozen, and the
\* decision is recorded before the call.
LEMMA CallKeepsAttempt ==
  ASSUME TypeInv, NEW a \in Attempts, AttemptInv(a), Attempt(a),
         ~snapshot_versions(a), ~snapshot_tools(a), ~snapshot_grants(a)
  PROVE  AttemptInv(a)'
  <1>1. /\ UNCHANGED <<agent_version_id, policy, window>>
        /\ pc'[a] \notin Claiming /\ pc'[a] \in Claimed \cup {"over"}
        /\ pc[a] \in Claimed \ Claiming \/ pc'[a] = "over"
    BY DEF Attempt, call, on_decision, record_audit_independently, invoke,
           on_executed, record_fails, attempt_ends, Step, TypeInv, TypeOK,
           Claiming, Claimed
  <1>2. WindowOpen(a)'
    BY <1>1 DEF WindowOpen
  <1>3. VersionFrozen(a)'
    BY <1>1 DEF AttemptInv, VersionFrozen, Claimed
  <1>4. ToolsFrozen(a)'
    BY <1>1 DEF AttemptInv, ToolsFrozen, Claimed, Claiming, Namespace
  <1>5. GrantsFrozen(a)'
    BY <1>1 DEF AttemptInv, GrantsFrozen, Claimed
  <1>6. CallDecided(a)'
    <2>1. ASSUME NEW name \in Names, call(a, name)
          PROVE  CallDecided(a)'
      <3>1. /\ pc'[a] = "decided"
            /\ calling'[a] = [name |-> name,
                              decision |-> authorize(policy[a], name)]
        BY <2>1 DEF call, Step, TypeInv, TypeOK
      <3> QED
        BY <1>1, <3>1 DEF CallDecided, Calling, authorize, NamedBy, Deny, Allow
    <2>2. CASE on_decision(a)
      <3>1. /\ pc[a] = "decided" /\ UNCHANGED calling
            /\ calling[a] \in Calls
        BY <2>2 DEF on_decision, Step, TypeInv, TypeOK
      <3>2. calling[a].decision.allowed \in BOOLEAN
        BY <3>1 DEF Calls, Decisions
      <3>3. /\ pc'[a] = IF calling[a].decision.allowed THEN "allowed"
                                                        ELSE "denied"
            /\ events' = events \cup {<<a, calling[a].name,
                 IF calling[a].decision.allowed THEN "ALLOWED" ELSE "DENIED">>}
        BY <2>2 DEF on_decision, Step, TypeInv, TypeOK
      <3> QED
        BY <1>1, <3>1, <3>2, <3>3
           DEF AttemptInv, CallDecided, Calling, authorize, NamedBy, Deny, Allow
    <2>3. CASE invoke(a)
      <3>1. /\ pc[a] = "allowed" /\ pc'[a] = "executed"
            /\ UNCHANGED <<calling, events>>
        BY <2>3 DEF invoke, Step, TypeInv, TypeOK
      <3> QED
        BY <1>1, <3>1
           DEF AttemptInv, CallDecided, Calling, authorize, NamedBy, Deny, Allow
    <2>4. CASE \/ record_audit_independently(a) \/ on_executed(a)
               \/ record_fails(a) \/ attempt_ends(a)
      <3>1. pc'[a] \in {"running", "over"}
        BY <2>4 DEF record_audit_independently, on_executed, record_fails,
                    attempt_ends, Step, TypeInv, TypeOK
      <3> QED
        BY <3>1 DEF CallDecided, Calling
    <2> QED
      BY <2>1, <2>2, <2>3, <2>4 DEF Attempt
  <1> QED
    BY <1>2, <1>3, <1>4, <1>5, <1>6 DEF AttemptInv

-----------------------------------------------------------------------------
(* The records.                                                            *)

\* What a call that is allowed reaches was, during the claim, what
\* ReachIsBoundedByClaim asks for.
LEMMA AllowedReach ==
  ASSUME TypeInv, NEW a \in Attempts, AttemptInv(a), pc[a] = "allowed"
  PROVE  LET t == calling[a].decision.tool
             v == agent_version_id[a]
         IN  /\ t \in Tools /\ tool_name[t] = calling[a].name
             /\ v # NoVersion
             /\ tool_tenant[t] = version_tenant[v]
             /\ <<"tool", t, "ACTIVE">> \in window[a]
             /\ <<"granted", t, "yes">> \in window[a]
             /\ \E s \in {"DRAFT", "ACTIVE"} : <<"version", v, s>> \in window[a]
  <1> DEFINE p == policy[a]
             name == calling[a].name
             v == agent_version_id[a]
  <1>1. /\ calling[a].decision = authorize(p, name)
        /\ calling[a].decision.allowed = TRUE
        /\ p \in Policies
    BY DEF TypeInv, AttemptInv, CallDecided, Calling
  <1>2. \A r : Deny(r).allowed = FALSE
    BY DEF Deny
  <1>3. PICK t \in NamedBy(p, name) :
              /\ authorize(p, name) = Allow(t)
              /\ p.tools[t] = "ACTIVE"
              /\ t \in p.granted_tool_ids
              /\ p.version_disabled = FALSE
              /\ p.agent_version_id # NoVersion
    <2> HIDE DEF p, name
    <2>1. \A r : authorize(p, name) # Deny(r)
      BY <1>1, <1>2
    <2> QED
      BY <1>1, <2>1, AuthorizeCases
  <1>4. calling[a].decision.tool = t /\ t \in Tools /\ tool_name[t] = name
    BY <1>1, <1>3 DEF Allow, NamedBy
  <1>5. /\ v # NoVersion
        /\ \E s \in {"DRAFT", "ACTIVE"} : <<"version", v, s>> \in window[a]
    BY <1>3 DEF AttemptInv, VersionFrozen, Claimed
  <1>6. t \in Namespace(v) /\ <<"tool", t, "ACTIVE">> \in window[a]
    BY <1>3, <1>4, <1>5 DEF AttemptInv, ToolsFrozen, Claimed
  <1>7. <<"granted", t, "yes">> \in window[a]
    BY <1>3, <1>4, <1>5 DEF AttemptInv, GrantsFrozen, Claimed, Claiming
  <1> QED
    BY <1>4, <1>5, <1>6, <1>7 DEF Namespace

\* The tools of a name that the version of attempt a could have.
OfName(a, name) ==
  {t \in Tools : /\ tool_name[t] = name
                 /\ agent_version_id[a] # NoVersion
                 /\ tool_tenant[t] = version_tenant[agent_version_id[a]]}

\* The reason of a denial of name to attempt a is true.
ReasonTrue(a, name, reason) ==
  /\ reason \in DenyReason
  /\ reason = "no_policy" => agent_version_id[a] = NoVersion
  /\ reason = "version_disabled" =>
       <<"version", agent_version_id[a], "DISABLED">> \in window[a]
  /\ reason = "unknown_tool" =>
       \/ OfName(a, name) = {}
       \/ \E t \in OfName(a, name) : <<"tool", t, "absent">> \in window[a]
  /\ reason = "tool_disabled" =>
       \E t \in OfName(a, name) : <<"tool", t, "DISABLED">> \in window[a]
  /\ reason = "not_granted" =>
       \E t \in OfName(a, name) : <<"granted", t, "no">> \in window[a]

\* The reason that authorize gives is true of the claim.
LEMMA DeniedReason ==
  ASSUME TypeInv, NEW a \in Attempts, AttemptInv(a), pc[a] = "denied"
  PROVE  ReasonTrue(a, calling[a].name, calling[a].decision.reason)
  <1> DEFINE p == policy[a]
             name == calling[a].name
             d == calling[a].decision
             v == agent_version_id[a]
  <1>1. d = authorize(p, name) /\ d.allowed = FALSE /\ p \in Policies
    BY DEF TypeInv, AttemptInv, CallDecided, Calling
  <1>2. \A r : Deny(r).reason = r
    BY DEF Deny
  <1>3. \A t : Allow(t).allowed = TRUE
    BY DEF Allow
  <1>4. p.agent_version_id = v
    BY DEF AttemptInv, VersionFrozen, Claimed
  <1>5. ASSUME v # NoVersion, NEW t \in Tools
        PROVE  /\ t \in Namespace(v) =>
                    <<"tool", t, p.tools[t]>> \in window[a]
               /\ t \notin Namespace(v) => p.tools[t] = "absent"
               /\ t \notin p.granted_tool_ids =>
                    <<"granted", t, "no">> \in window[a]
    BY <1>5 DEF AttemptInv, ToolsFrozen, GrantsFrozen, Claimed, Claiming
  <1>6. ASSUME v # NoVersion, NEW t \in NamedBy(p, name)
        PROVE  t \in OfName(a, name) /\ t \in Namespace(v)
    BY <1>5, <1>6 DEF NamedBy, OfName, Namespace
  <1>7. CASE d = Deny("version_disabled") /\ p.version_disabled = TRUE
    <2>1. d.reason = "version_disabled"
      BY <1>2, <1>7
    <2>2. <<"version", v, "DISABLED">> \in window[a]
      BY <1>7 DEF AttemptInv, VersionFrozen, Claimed
    <2> QED
      BY <2>1, <2>2 DEF ReasonTrue, DenyReason
  <1>8. CASE d = Deny("no_policy") /\ p.agent_version_id = NoVersion
    <2>1. d.reason = "no_policy"
      BY <1>2, <1>8
    <2> QED
      BY <1>4, <1>8, <2>1 DEF ReasonTrue, DenyReason
  <1>9. CASE /\ d = Deny("unknown_tool") /\ NamedBy(p, name) = {}
             /\ p.agent_version_id # NoVersion
    <2>1. d.reason = "unknown_tool"
      BY <1>2, <1>9
    <2>2. ASSUME NEW t \in OfName(a, name)
          PROVE  <<"tool", t, "absent">> \in window[a]
      <3>1. t \in Namespace(v) /\ t \in Tools
        BY DEF OfName, Namespace
      <3>2. p.tools[t] = "absent"
        BY <1>9 DEF OfName, NamedBy
      <3> QED
        BY <1>4, <1>5, <1>9, <3>1, <3>2
    <2> QED
      BY <2>1, <2>2 DEF ReasonTrue, DenyReason
  <1>10. CASE \E t \in NamedBy(p, name) :
                /\ d = Deny("tool_disabled") /\ p.tools[t] = "DISABLED"
                /\ p.agent_version_id # NoVersion
    <2>1. PICK t \in NamedBy(p, name) :
             /\ d = Deny("tool_disabled") /\ p.tools[t] = "DISABLED"
             /\ p.agent_version_id # NoVersion
      BY <1>10
    <2>2. d.reason = "tool_disabled"
      BY <1>2, <2>1
    <2>3. t \in OfName(a, name) /\ t \in Namespace(v) /\ t \in Tools
      BY <1>4, <1>6, <2>1 DEF NamedBy
    <2>4. <<"tool", t, "DISABLED">> \in window[a]
      BY <1>4, <1>5, <2>1, <2>3
    <2> QED
      BY <2>2, <2>3, <2>4 DEF ReasonTrue, DenyReason
  <1>11. CASE \E t \in NamedBy(p, name) :
                /\ d = Deny("not_granted") /\ t \notin p.granted_tool_ids
                /\ p.agent_version_id # NoVersion
    <2>1. PICK t \in NamedBy(p, name) :
             /\ d = Deny("not_granted") /\ t \notin p.granted_tool_ids
             /\ p.agent_version_id # NoVersion
      BY <1>11
    <2>2. d.reason = "not_granted"
      BY <1>2, <2>1
    <2>3. t \in OfName(a, name) /\ t \in Tools
      BY <1>4, <1>6, <2>1 DEF NamedBy
    <2>4. <<"granted", t, "no">> \in window[a]
      BY <1>4, <1>5, <2>1, <2>3
    <2> QED
      BY <2>2, <2>3, <2>4 DEF ReasonTrue, DenyReason
  <1> HIDE DEF p, name, d
  <1>12. \A t : authorize(p, name) # Allow(t)
    BY <1>1, <1>3
  <1> QED
    BY <1>1, <1>7, <1>8, <1>9, <1>10, <1>11, <1>12, AuthorizeCases

\* What the log says of every denial is true, and every attempt's.
AuditTrue ==
  \A r \in audit :
    /\ r.attempt \in Attempts
    /\ ReasonTrue(r.attempt, r.name, r.reason)

\* What every record says; an attempt that has not begun has none.
RecordsInv ==
  /\ ReachIsBoundedByClaim
  /\ CallsAreOnTheTimeline
  /\ DenialsAreAudited
  /\ AuditTrue
  /\ \A a \in Attempts : NoRecordsYet(a)

\* A step that adds no call and no denial, and takes away neither an event nor
\* anything from a window that matters, keeps what the records say.
LEMMA NoNewRecord ==
  ASSUME TypeInv, RecordsInv,
         UNCHANGED <<agent_version_id, audit, refused, invoked>>,
         events \subseteq events',
         \A a \in Attempts : pc'[a] = "QUEUED" => pc[a] = "QUEUED",
         \A a \in Attempts :
           pc[a] # "QUEUED" => window[a] \subseteq window'[a]
  PROVE  RecordsInv'
  <1>1. ReachIsBoundedByClaim'
    <2> SUFFICES ASSUME NEW a \in Attempts, NEW t \in Tools,
                        <<a, t>> \in invoked
                 PROVE  LET v == agent_version_id[a] IN
                        /\ v # NoVersion
                        /\ tool_tenant[t] = version_tenant[v]
                        /\ <<"tool", t, "ACTIVE">> \in window'[a]
                        /\ <<"granted", t, "yes">> \in window'[a]
                        /\ \E s \in {"DRAFT", "ACTIVE"} :
                             <<"version", v, s>> \in window'[a]
      BY DEF ReachIsBoundedByClaim
    <2>1. window[a] \subseteq window'[a]
      BY DEF RecordsInv, NoRecordsYet
    <2> QED
      BY <2>1 DEF RecordsInv, ReachIsBoundedByClaim
  <1>2. CallsAreOnTheTimeline' /\ DenialsAreAudited'
    BY DEF RecordsInv, CallsAreOnTheTimeline, DenialsAreAudited
  <1>3. AuditTrue'
    <2> SUFFICES ASSUME NEW r \in audit
                 PROVE  /\ r.attempt \in Attempts
                        /\ ReasonTrue(r.attempt, r.name, r.reason)'
      BY DEF AuditTrue
    <2>1. /\ r.attempt \in Attempts
          /\ window[r.attempt] \subseteq window'[r.attempt]
          /\ ReasonTrue(r.attempt, r.name, r.reason)
      BY DEF RecordsInv, NoRecordsYet, AuditTrue
    <2> QED
      BY <2>1 DEF ReasonTrue, OfName
  <1>4. \A a \in Attempts : NoRecordsYet(a)'
    BY DEF RecordsInv, NoRecordsYet
  <1> QED
    BY <1>1, <1>2, <1>3, <1>4 DEF RecordsInv

\* A denial reaches the audit log after the timeline, and its exception comes
\* after both; a tool is called after its ALLOWED event.
LEMMA RecordsKept ==
  ASSUME TypeInv, RecordsInv, \A a \in Attempts : AttemptInv(a), [Next]_vars
  PROVE  RecordsInv'
  <1>1. CASE Operator
    <2>1. /\ UNCHANGED <<agent_version_id, pc, events, audit, refused, invoked>>
          /\ \A a \in Attempts : window[a] \subseteq window'[a]
      BY <1>1, OperatorStep DEF attempt_vars, record_vars
    <2> QED
      BY <2>1, NoNewRecord
  <1>2. CASE UNCHANGED vars
    BY <1>2, NoNewRecord DEF vars, attempt_vars, record_vars
  <1>3. ASSUME NEW a \in Attempts, Attempt(a)
        PROVE  RecordsInv'
    <2>1. /\ UNCHANGED agent_version_id
          /\ events \subseteq events'
      BY <1>3, AttemptStep
    <2>2. \A b \in Attempts : pc'[b] = "QUEUED" => pc[b] = "QUEUED"
      <3>1. pc'[a] # "QUEUED"
        BY <1>3 DEF TypeInv, TypeOK, Attempt, Step, snapshot_versions,
                    snapshot_tools, snapshot_grants, call, on_decision,
                    record_audit_independently, invoke, on_executed,
                    record_fails, attempt_ends
      <3> QED
        BY <1>3, <3>1, AttemptStep
    <2>3. \A b \in Attempts :
            pc[b] # "QUEUED" => window[b] \subseteq window'[b]
      <3>1. pc[a] # "QUEUED" => window'[a] = window[a]
        BY <1>3 DEF TypeInv, TypeOK, Attempt, Step, snapshot_versions,
                    snapshot_tools, snapshot_grants, call, on_decision,
                    record_audit_independently, invoke, on_executed,
                    record_fails, attempt_ends
      <3> QED
        BY <1>3, <3>1, AttemptStep
    <2>4. CASE UNCHANGED <<audit, refused, invoked>>
      BY <2>1, <2>2, <2>3, <2>4, NoNewRecord
    <2>5. CASE invoke(a)
      <3> DEFINE tool == calling[a].decision.tool
      <3>1. /\ pc[a] = "allowed" /\ pc'[a] = "executed"
            /\ invoked' = invoked \cup {<<a, tool>>}
            /\ UNCHANGED <<events, audit, refused, window, agent_version_id>>
        BY <2>5 DEF invoke, Step, TypeInv, TypeOK
      <3>2. AttemptInv(a)
        OBVIOUS
      <3>3. ReachIsBoundedByClaim'
        BY <3>1, <3>2, AllowedReach DEF RecordsInv, ReachIsBoundedByClaim
      <3>4. CallsAreOnTheTimeline'
        <4>1. <<a, tool_name[tool], "ALLOWED">> \in events
          BY <3>1, <3>2, AllowedReach DEF AttemptInv, CallDecided
        <4> QED
          BY <3>1, <4>1 DEF RecordsInv, CallsAreOnTheTimeline
      <3>5. DenialsAreAudited'
        BY <3>1 DEF RecordsInv, DenialsAreAudited
      <3>6. AuditTrue'
        BY <3>1 DEF RecordsInv, AuditTrue, ReasonTrue, OfName
      <3>7. \A b \in Attempts : NoRecordsYet(b)'
        BY <2>2, <3>1 DEF RecordsInv, NoRecordsYet
      <3> QED
        BY <3>3, <3>4, <3>5, <3>6, <3>7 DEF RecordsInv
    <2>6. CASE record_audit_independently(a)
      <3> DEFINE name == calling[a].name
      <3>1. /\ pc[a] = "denied" /\ pc'[a] # "QUEUED"
            /\ audit' = audit \cup {Record(a)}
            /\ refused' = refused \cup {<<a, name>>}
            /\ UNCHANGED <<events, invoked, window, agent_version_id>>
        BY <2>6 DEF record_audit_independently, Step, TypeInv, TypeOK
      <3>2. /\ Record(a).attempt = a /\ Record(a).name = name
            /\ Record(a).reason = calling[a].decision.reason
        BY DEF Record
      <3>3. ReachIsBoundedByClaim' /\ CallsAreOnTheTimeline'
        BY <3>1 DEF RecordsInv, ReachIsBoundedByClaim, CallsAreOnTheTimeline
      <3>4. DenialsAreAudited'
        <4>1. <<a, name, "DENIED">> \in events
          BY <3>1 DEF AttemptInv, CallDecided
        <4>2. \A r \in audit' : <<r.attempt, r.name, "DENIED">> \in events'
          BY <3>1, <3>2, <4>1 DEF RecordsInv, DenialsAreAudited
        <4>3. \A c \in refused' :
                \E r \in audit' : r.attempt = c[1] /\ r.name = c[2]
          BY <3>1, <3>2 DEF RecordsInv, DenialsAreAudited
        <4> QED
          BY <4>2, <4>3 DEF DenialsAreAudited
      <3>5. AuditTrue'
        <4>1. ReasonTrue(a, name, Record(a).reason)
          BY <3>1, <3>2, DeniedReason
        <4>2. \A r \in audit' : /\ r.attempt \in Attempts
                                /\ ReasonTrue(r.attempt, r.name, r.reason)
          BY <3>1, <3>2, <4>1 DEF RecordsInv, AuditTrue
        <4> QED
          BY <3>1, <4>2 DEF AuditTrue, ReasonTrue, OfName
      <3>6. \A b \in Attempts : NoRecordsYet(b)'
        BY <2>2, <3>1, <3>2 DEF RecordsInv, NoRecordsYet
      <3> QED
        BY <3>3, <3>4, <3>5, <3>6 DEF RecordsInv
    <2> QED
      BY <1>3, <2>4, <2>5, <2>6
         DEF Attempt, snapshot_versions, snapshot_tools, snapshot_grants,
             call, on_decision, on_executed, record_fails, attempt_ends,
             record_vars
  <1> QED
    BY <1>1, <1>2, <1>3 DEF Next

-----------------------------------------------------------------------------
(* The theorems.                                                           *)

\* Types, attempts and records.
IInv == TypeInv /\ (\A a \in Attempts : AttemptInv(a)) /\ RecordsInv

\* Every attempt keeps its part, whoever takes the step.
LEMMA AttemptsKept ==
  ASSUME TypeInv, NEW a \in Attempts, AttemptInv(a), [Next]_vars
  PROVE  AttemptInv(a)'
  <1>1. CASE Operator
    <2>1. UNCHANGED <<agent_version_id, pc, policy, calling, events>>
      BY <1>1, OperatorStep DEF attempt_vars, record_vars
    <2>2. /\ window[a] \subseteq window'[a]
          /\ pc[a] \in Claiming => Facts(a)' \subseteq window'[a]
      BY <1>1, OperatorStep DEF AttemptInv, WindowOpen
    <2> QED
      BY <2>1, <2>2, GrowthKeepsAttempt
  <1>2. CASE UNCHANGED vars
    <2>1. Facts(a)' = Facts(a)
      BY <1>2 DEF Facts, vars, registry_vars, attempt_vars
    <2> QED
      BY <1>2, <2>1, GrowthKeepsAttempt
         DEF AttemptInv, WindowOpen, vars, attempt_vars, record_vars
  <1>3. ASSUME NEW b \in Attempts, Attempt(b), b # a
        PROVE  AttemptInv(a)'
    <2>1. /\ UNCHANGED agent_version_id
          /\ Facts(a)' = Facts(a)
          /\ pc'[a] = pc[a] /\ policy'[a] = policy[a]
          /\ calling'[a] = calling[a] /\ window'[a] = window[a]
          /\ events \subseteq events'
      BY <1>3, AttemptStep DEF Facts, registry_vars
    <2> QED
      BY <2>1, GrowthKeepsAttempt DEF AttemptInv, WindowOpen
  <1>4. CASE Attempt(a)
    BY <1>4, SnapshotKeepsAttempt, CallKeepsAttempt
  <1> QED
    BY <1>1, <1>2, <1>3, <1>4 DEF Next

\* The parts hold together in every state.
LEMMA ToolPolicyInvariant == Spec => []IInv
  <1>1. Init => IInv
    <2> SUFFICES ASSUME Init PROVE IInv
      OBVIOUS
    <2>1. TypeInv
      <3>1. UNGOVERNED \in Policies
        BY DEF UNGOVERNED, Policies, ToolStatus
      <3>2. TypeOK
        BY <3>1, ToolPolicyAssumption
           DEF Init, TypeOK, ToolStatus, VersionStatus
      <3> QED
        BY <3>1, <3>2 DEF Init, TypeInv, GrantsWithinTenant
    <2>2. \A a \in Attempts : AttemptInv(a)
      BY DEF Init, AttemptInv, WindowOpen, VersionFrozen, ToolsFrozen,
             GrantsFrozen, CallDecided, Claiming, Claimed, Calling
    <2>3. RecordsInv
      BY DEF Init, RecordsInv, ReachIsBoundedByClaim, CallsAreOnTheTimeline,
             DenialsAreAudited, AuditTrue, NoRecordsYet
    <2> QED
      BY <2>1, <2>2, <2>3 DEF IInv
  <1>2. TypeInv /\ [Next]_vars => TypeInv'
    <2>1. TypeInv /\ UNCHANGED vars => TypeInv'
      BY DEF TypeInv, TypeOK, GrantsWithinTenant, vars, registry_vars,
             attempt_vars
    <2> QED
      BY <2>1, OperatorType, AttemptType DEF Next
  <1>3. IInv /\ [Next]_vars => IInv'
    BY <1>2, AttemptsKept, RecordsKept DEF IInv
  <1> QED
    BY <1>1, <1>3, PTL DEF Spec

\* Policies, calls and grants are what the code writes; a grant never crosses
\* tenants, however its check and its write are interleaved with others.
THEOREM ToolPolicyTypeCorrect == Spec => []TypeOK
  <1>1. IInv => TypeOK
    BY DEF IInv, TypeInv
  <1> QED
    BY <1>1, ToolPolicyInvariant, PTL

\* No attempt ever calls a tool beyond what was granted, enabled and of its
\* tenant during its claim (snapshot_policies, authorize), whatever operators
\* do before, during or after.
THEOREM ReachIsBounded == Spec => []ReachIsBoundedByClaim
  <1>1. IInv => ReachIsBoundedByClaim
    BY DEF IInv, RecordsInv
  <1> QED
    BY <1>1, ToolPolicyInvariant, PTL

\* Every PermissionDenied that an adapter has seen is in the audit log, and
\* every denial of the log on the timeline (_tool_access,
\* record_audit_independently), whatever fails between the transactions.
THEOREM DenialsLeaveARecord == Spec => []DenialsAreAudited
  <1>1. IInv => DenialsAreAudited
    BY DEF IInv, RecordsInv
  <1> QED
    BY <1>1, ToolPolicyInvariant, PTL

\* No tool is called before its ALLOWED event is committed.
THEOREM CallsLeaveARecord == Spec => []CallsAreOnTheTimeline
  <1>1. IInv => CallsAreOnTheTimeline
    BY DEF IInv, RecordsInv
  <1> QED
    BY <1>1, ToolPolicyInvariant, PTL

\* The reason that authorize gives for a denial was true during the claim.
THEOREM DenialReasonsAreTrue == Spec => []DenialReasonIsTrue
  <1>1. IInv => DenialReasonIsTrue
    BY DEF IInv, RecordsInv, AuditTrue, ReasonTrue, OfName, DenyReason,
           DenialReasonIsTrue
  <1> QED
    BY <1>1, ToolPolicyInvariant, PTL
=============================================================================
