----------------------------- MODULE ToolPolicy -----------------------------
(***************************************************************************)
(* Tool authorization: the tool registry and the grants of agent versions  *)
(* (api/routes/tools.py, db/queries/tools.py), the policy that a claim     *)
(* freezes for an attempt (snapshot_policies), the decision on every call  *)
(* (domain/authz.py) and the records it leaves (worker/loop._tool_access,  *)
(* db/queries/audit.py).                                                   *)
(*                                                                         *)
(* snapshot_policies is three statements under READ COMMITTED, each with a *)
(* snapshot of its own.  Requests that read a status and then write are    *)
(* two steps.  A record of the audit log about a tool, a grant or a        *)
(* version commits with the change it describes and is not kept apart from *)
(* it; the records of denials are transactions of their own.               *)
(***************************************************************************)
EXTENDS Naturals

CONSTANTS
  Tenants, Tools, Versions, Attempts,
  NoVersion,       \* the version of a task that was submitted directly
  NoTool,
  tool_tenant,     \* tools.tenant_id
  tool_name,       \* tools.name, unique in a tenant
  version_tenant,  \* the tenant of the version's agent
  Registered,      \* tools that exist from the beginning
  MaxRequests      \* bound: requests of operators

Names == {tool_name[t] : t \in Tools}

ASSUME ToolPolicyAssumption ==
  /\ NoVersion \notin Versions
  /\ NoTool \notin Tools
  /\ tool_tenant \in [Tools -> Tenants]
  /\ version_tenant \in [Versions -> Tenants]
  /\ Registered \in SUBSET Tools
  /\ \A s, t \in Tools :
       tool_tenant[s] = tool_tenant[t] /\ tool_name[s] = tool_name[t] => s = t
  /\ MaxRequests \in Nat

ToolStatus == {"absent", "ACTIVE", "DISABLED"}
VersionStatus == {"DRAFT", "ACTIVE", "DISABLED"}
DenyReason == {"unknown_tool", "not_granted", "tool_disabled",
               "version_disabled", "no_policy"}

VARIABLES
  tool_status,     \* tools.status
  version_status,  \* agent_versions.status
  grants,          \* agent_version_tool_grants
  checked,         \* requests that passed their checks and write next
  requests,        \* requests begun so far
  agent_version_id,\* the version an attempt's task is pinned to
  pc,              \* where an attempt is
  policy,          \* the policy frozen for it
  calling,         \* the name it is asking for, and the answer
  events,          \* task_events of its tool calls
  audit,           \* audit_events of denials
  refused,         \* calls that raised PermissionDenied in the adapter
  invoked,         \* tools that were really called
  window           \* what was true at some moment of its claim

registry_vars == <<tool_status, version_status, grants, checked, requests>>
record_vars == <<events, audit, refused, invoked>>
attempt_vars == <<agent_version_id, pc, policy, calling, record_vars>>
vars == <<registry_vars, attempt_vars, window>>

Policies == [agent_version_id : Versions \cup {NoVersion},
             granted_tool_ids : SUBSET Tools,
             tools            : [Tools -> ToolStatus],
             version_disabled : BOOLEAN]

Decisions == [allowed : {TRUE}, tool : Tools, reason : {"none"}]
               \cup [allowed : {FALSE}, tool : {NoTool}, reason : DenyReason]

Calls == [name : Names, decision : Decisions]

TypeOK ==
  /\ tool_status \in [Tools -> ToolStatus]
  /\ version_status \in [Versions -> VersionStatus]
  /\ grants \in SUBSET (Versions \X Tools)
  /\ \A g \in grants : tool_tenant[g[2]] = version_tenant[g[1]]
  /\ requests \in 0 .. MaxRequests
  /\ agent_version_id \in [Attempts -> Versions \cup {NoVersion}]
  /\ pc \in [Attempts -> {"QUEUED", "tools", "grants", "running", "decided",
                          "allowed", "executed", "denied", "over"}]
  /\ \A a \in Attempts :
       /\ pc[a] \notin {"QUEUED"} => policy[a] \in Policies
       /\ pc[a] \in {"decided", "allowed", "executed", "denied"}
            => calling[a] \in Calls

\* No attempt holds a policy yet.
UNGOVERNED == [agent_version_id |-> NoVersion, granted_tool_ids |-> {},
               tools |-> [t \in Tools |-> "absent"],
               version_disabled |-> FALSE]

NoCall == [name |-> NoTool, decision |-> NoTool]

Init ==
  /\ tool_status = [t \in Tools |->
       IF t \in Registered THEN "ACTIVE" ELSE "absent"]
  /\ version_status = [v \in Versions |-> "DRAFT"]
  /\ grants = {}
  /\ checked = {}
  /\ requests = 0
  /\ agent_version_id \in [Attempts -> Versions \cup {NoVersion}]
  /\ pc = [a \in Attempts |-> "QUEUED"]
  /\ policy = [a \in Attempts |-> UNGOVERNED]
  /\ calling = [a \in Attempts |-> NoCall]
  /\ events = {}
  /\ audit = {}
  /\ refused = {}
  /\ invoked = {}
  /\ window = [a \in Attempts |-> {}]

-----------------------------------------------------------------------------
(* What a claim could have seen.                                           *)

Claiming == {"tools", "grants"}

Facts(a) ==
  LET v == agent_version_id[a] IN
  {<<"tool", t, tool_status[t]>> : t \in Tools}
    \cup {<<"granted", t, IF <<v, t>> \in grants THEN "yes" ELSE "no">> :
            t \in Tools}
    \cup (IF v = NoVersion THEN {}
          ELSE {<<"version", v, version_status[v]>>})

Request == requests < MaxRequests /\ requests' = requests + 1

\* The registry changes: claims in progress may see it as it is now.
Changed ==
  /\ UNCHANGED attempt_vars
  /\ window' = [a \in Attempts |->
       IF pc[a] \in Claiming THEN window[a] \cup Facts(a)' ELSE window[a]]

-----------------------------------------------------------------------------
(* Operators' requests.                                                    *)

create_tool(t) ==
  /\ Request
  /\ tool_status[t] = "absent"
  /\ tool_status' = [tool_status EXCEPT ![t] = "ACTIVE"]
  /\ UNCHANGED <<version_status, grants, checked>>
  /\ Changed

set_tool_status(t, status) ==
  /\ Request
  /\ tool_status[t] \notin {"absent", status}
  /\ tool_status' = [tool_status EXCEPT ![t] = status]
  /\ UNCHANGED <<version_status, grants, checked>>
  /\ Changed

disable_tool(t) == set_tool_status(t, "DISABLED")
enable_tool(t) == set_tool_status(t, "ACTIVE")

\* A grant of another tenant's tool.
grant_any_tenant(v, t) ==
  /\ Request
  /\ version_status[v] # "ACTIVE"
  /\ tool_status[t] # "absent"
  /\ checked' = checked \cup {<<"grant", v, t>>}
  /\ UNCHANGED <<tool_status, version_status, grants, attempt_vars, window>>

\* grant: the version is not released, the tool exists, the tenants agree.
grant_check(v, t) ==
  /\ Request
  /\ version_status[v] # "ACTIVE"
  /\ tool_status[t] # "absent"
  /\ version_tenant[v] = tool_tenant[t]
  /\ checked' = checked \cup {<<"grant", v, t>>}
  /\ UNCHANGED <<tool_status, version_status, grants, attempt_vars, window>>

revoke_check(v, t) ==
  /\ Request
  /\ version_status[v] # "ACTIVE"
  /\ tool_status[t] # "absent"
  /\ checked' = checked \cup {<<"revoke", v, t>>}
  /\ UNCHANGED <<tool_status, version_status, grants, attempt_vars, window>>

\* grant_tool: ON CONFLICT DO NOTHING.
grant_tool(v, t) ==
  /\ <<"grant", v, t>> \in checked
  /\ checked' = checked \ {<<"grant", v, t>>}
  /\ grants' = grants \cup {<<v, t>>}
  /\ UNCHANGED <<tool_status, version_status, requests>>
  /\ Changed

\* revoke_grant: 404 and no change when there is no such grant.
revoke_grant(v, t) ==
  /\ <<"revoke", v, t>> \in checked
  /\ checked' = checked \ {<<"revoke", v, t>>}
  /\ grants' = grants \ {<<v, t>>}
  /\ UNCHANGED <<tool_status, version_status, requests>>
  /\ Changed

\* AgentRegistry has the details of an activation; here only that it may have
\* read the status before a disabling committed.
activate_version(v) ==
  /\ Request
  /\ version_status[v] # "ACTIVE"
  /\ version_status' = [version_status EXCEPT ![v] = "ACTIVE"]
  /\ UNCHANGED <<tool_status, grants, checked>>
  /\ Changed

disable_agent(v) ==
  /\ Request
  /\ version_status[v] # "DISABLED"
  /\ version_status' = [version_status EXCEPT ![v] = "DISABLED"]
  /\ UNCHANGED <<tool_status, grants, checked>>
  /\ Changed

-----------------------------------------------------------------------------
(* The claim freezes a policy: three statements.                           *)

Step(a, from, to) == pc[a] = from /\ pc' = [pc EXCEPT ![a] = to]

\* The first statement.  Without a version there is nothing to look up.
snapshot_versions(a) ==
  LET v == agent_version_id[a] IN
  /\ Step(a, "QUEUED", IF v = NoVersion THEN "running" ELSE "tools")
  /\ policy' = [policy EXCEPT ![a].agent_version_id = v,
       ![a].version_disabled = v # NoVersion /\ version_status[v] = "DISABLED"]
  /\ window' = [window EXCEPT ![a] = Facts(a)]
  /\ UNCHANGED <<registry_vars, agent_version_id, calling, record_vars>>

\* Only the granted tools.
granted_namespace(v) == {t \in Tools : <<v, t>> \in grants}

\* The tools of the version's tenant, granted or not.
Namespace(v) == {t \in Tools : tool_tenant[t] = version_tenant[v]}

snapshot_tools(a) ==
  /\ Step(a, "tools", "grants")
  /\ policy' = [policy EXCEPT ![a].tools = [t \in Tools |->
       IF t \in Namespace(agent_version_id[a]) THEN tool_status[t]
                                               ELSE "absent"]]
  /\ UNCHANGED <<registry_vars, agent_version_id, calling, record_vars,
                 window>>

snapshot_grants(a) ==
  /\ Step(a, "grants", "running")
  /\ policy' = [policy EXCEPT ![a].granted_tool_ids =
       {t \in Tools : <<agent_version_id[a], t>> \in grants}]
  /\ UNCHANGED <<registry_vars, agent_version_id, calling, record_vars,
                 window>>

-----------------------------------------------------------------------------
(* A call.                                                                 *)

Allow(t) == [allowed |-> TRUE, tool |-> t, reason |-> "none"]
Deny(reason) == [allowed |-> FALSE, tool |-> NoTool, reason |-> reason]

\* tools_by_name.get(tool_name): at most one tool.
NamedBy(p, name) ==
  {t \in Tools : tool_name[t] = name /\ p.tools[t] # "absent"}

\* A grant outranks the kill switch.
authorize_grants_first(p, name) ==
  IF p.agent_version_id = NoVersion THEN Deny("no_policy")
  ELSE IF NamedBy(p, name) = {} THEN Deny("unknown_tool")
  ELSE LET tool == CHOOSE t \in NamedBy(p, name) : TRUE IN
       IF tool \in p.granted_tool_ids THEN Allow(tool)
                                      ELSE Deny("not_granted")

authorize(p, name) ==
  IF p.version_disabled THEN Deny("version_disabled")
  ELSE IF p.agent_version_id = NoVersion THEN Deny("no_policy")
  ELSE IF NamedBy(p, name) = {} THEN Deny("unknown_tool")
  ELSE LET tool == CHOOSE t \in NamedBy(p, name) : TRUE IN
       IF p.tools[tool] = "DISABLED" THEN Deny("tool_disabled")
       ELSE IF tool \notin p.granted_tool_ids THEN Deny("not_granted")
       ELSE Allow(tool)

\* While a policy is bound, call_tool leaves it to ToolAccess.call to decide.
\* Outside an attempt it raises PermissionDenied before any decision is made or
\* recorded: a call that changes nothing.
call(a, name) ==
  /\ Step(a, "running", "decided")
  /\ calling' = [calling EXCEPT ![a] =
       [name |-> name, decision |-> authorize(policy[a], name)]]
  /\ UNCHANGED <<registry_vars, agent_version_id, policy, record_vars,
                 window>>

\* Calls that are allowed leave it to on_executed to be recorded.
on_decision_denials_only(a) ==
  LET d == calling[a].decision IN
  /\ Step(a, "decided", IF d.allowed THEN "allowed" ELSE "denied")
  /\ events' = IF d.allowed THEN events
               ELSE events \cup {<<a, calling[a].name, "DENIED">>}
  /\ UNCHANGED <<registry_vars, agent_version_id, policy, calling, audit,
                 refused, invoked, window>>

\* on_decision writes to the task's timeline first.
on_decision(a) ==
  LET d == calling[a].decision IN
  /\ Step(a, "decided", IF d.allowed THEN "allowed" ELSE "denied")
  /\ events' = events \cup
       {<<a, calling[a].name, IF d.allowed THEN "ALLOWED" ELSE "DENIED">>}
  /\ UNCHANGED <<registry_vars, agent_version_id, policy, calling, audit,
                 refused, invoked, window>>

Record(a) == [attempt |-> a, name |-> calling[a].name,
              reason |-> calling[a].decision.reason]

\* The exception is raised and the record left to a background task.
record_audit_later(a) ==
  /\ \/ Step(a, "denied", "running") /\ UNCHANGED audit
     \/ Step(a, "denied", "over") /\ audit' = audit \cup {Record(a)}
  /\ refused' = refused \cup {<<a, calling[a].name>>}
  /\ calling' = [calling EXCEPT ![a] = NoCall]
  /\ UNCHANGED <<registry_vars, agent_version_id, policy, events, invoked,
                 window>>

\* A denial goes to the audit log in a transaction of its own; then call
\* raises PermissionDenied, which ends the adapter unless it is caught.
record_audit_independently(a) ==
  /\ Step(a, "denied", "running") \/ Step(a, "denied", "over")
  /\ audit' = audit \cup {Record(a)}
  /\ refused' = refused \cup {<<a, calling[a].name>>}
  /\ calling' = [calling EXCEPT ![a] = NoCall]
  /\ UNCHANGED <<registry_vars, agent_version_id, policy, events, invoked,
                 window>>

\* The invoker.  Whether it returns or raises, it may have had its effect.
invoke(a) ==
  /\ Step(a, "allowed", "executed")
  /\ invoked' = invoked \cup {<<a, calling[a].decision.tool>>}
  /\ UNCHANGED <<registry_vars, agent_version_id, policy, calling, events,
                 audit, refused, window>>

on_executed(a) ==
  /\ Step(a, "executed", "running")
  /\ events' = events \cup {<<a, calling[a].name, "EXECUTED">>}
  /\ calling' = [calling EXCEPT ![a] = NoCall]
  /\ UNCHANGED <<registry_vars, agent_version_id, policy, audit, refused,
                 invoked, window>>

\* A database error in one of the records: call raises it, and no more.
record_fails(a) ==
  /\ \E p \in {"decided", "denied", "executed"} : Step(a, p, "running")
  /\ calling' = [calling EXCEPT ![a] = NoCall]
  /\ UNCHANGED <<registry_vars, agent_version_id, policy, record_vars,
                 window>>

\* The adapter returns and the policy is unbound, or the worker dies, before
\* or after the claim commits.
attempt_ends(a) ==
  /\ pc[a] # "over" /\ pc' = [pc EXCEPT ![a] = "over"]
  /\ calling' = [calling EXCEPT ![a] = NoCall]
  /\ UNCHANGED <<registry_vars, agent_version_id, policy, record_vars,
                 window>>

-----------------------------------------------------------------------------
Operator ==
  \/ \E t \in Tools : create_tool(t) \/ disable_tool(t) \/ enable_tool(t)
  \/ \E v \in Versions, t \in Tools :
       \/ grant_check(v, t) \/ grant_tool(v, t)
       \/ revoke_check(v, t) \/ revoke_grant(v, t)
  \/ \E v \in Versions : activate_version(v) \/ disable_agent(v)

Attempt(a) ==
  \/ snapshot_versions(a) \/ snapshot_tools(a) \/ snapshot_grants(a)
  \/ \E name \in Names : call(a, name)
  \/ on_decision(a) \/ record_audit_independently(a)
  \/ invoke(a) \/ on_executed(a) \/ record_fails(a)
  \/ attempt_ends(a)

Next == Operator \/ \E a \in Attempts : Attempt(a)

Spec == Init /\ [][Next]_vars

-----------------------------------------------------------------------------
(* Properties.                                                             *)

\* The kill switch wins and nothing widens a running attempt: a tool that is
\* really called belongs to the version's tenant, and during the claim it was
\* enabled, granted, and its version not disabled.  So neither a grant that
\* slips past an activation nor an enabling reaches an attempt that runs
\* (snapshot_policies: "an agent cannot have a tool granted halfway through
\* its own execution"; disable_tool: "regardless of any grant").
ReachIsBoundedByClaim ==
  \A a \in Attempts, t \in Tools :
    <<a, t>> \in invoked =>
      LET v == agent_version_id[a] IN
      /\ v # NoVersion
      /\ tool_tenant[t] = version_tenant[v]
      /\ <<"tool", t, "ACTIVE">> \in window[a]
      /\ <<"granted", t, "yes">> \in window[a]
      /\ \E s \in {"DRAFT", "ACTIVE"} : <<"version", v, s>> \in window[a]

\* A refusal never vanishes: an adapter that has seen PermissionDenied has its
\* record in the audit log, and whatever fails or dies between the two
\* transactions, every record is on the task's timeline too (loop.py: "DENY
\* goes to BOTH").
DenialsAreAudited ==
  /\ \A c \in refused : \E r \in audit : r.attempt = c[1] /\ r.name = c[2]
  /\ \A r \in audit : <<r.attempt, r.name, "DENIED">> \in events

\* Nothing is called that is not on the timeline: the ALLOWED event commits
\* before the call.
CallsAreOnTheTimeline ==
  \A a \in Attempts, t \in Tools :
    <<a, t>> \in invoked => <<a, tool_name[t], "ALLOWED">> \in events

\* The audit log tells a misconfiguration from an agent that reaches for what
\* it was never meant to touch: the reason of a denial was true during the
\* claim.
DenialReasonIsTrue ==
  \A r \in audit :
    LET v == agent_version_id[r.attempt]
        OfName == {t \in Tools : /\ tool_name[t] = r.name
                                 /\ v # NoVersion
                                 /\ tool_tenant[t] = version_tenant[v]}
        Was(what, value) ==
          \E t \in OfName : <<what, t, value>> \in window[r.attempt]
    IN  CASE r.reason = "no_policy"        -> v = NoVersion
          [] r.reason = "version_disabled" ->
               <<"version", v, "DISABLED">> \in window[r.attempt]
          [] r.reason = "unknown_tool"     ->
               OfName = {} \/ Was("tool", "absent")
          [] r.reason = "tool_disabled"    -> Was("tool", "DISABLED")
          [] r.reason = "not_granted"      -> Was("granted", "no")
=============================================================================
