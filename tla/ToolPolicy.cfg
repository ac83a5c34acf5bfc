CONSTANTS
  x = x
  y = y
  xB = xB
  v1 = v1
  a1 = a1
  NoVersion = NoVersion
  NoTool = NoTool
  Tools <- ThreeTools
  Versions <- OneVersion
  Tenants <- TwoTenants
  Attempts <- OneAttempt
  tool_tenant <- tenant_of
  tool_name <- name_of
  version_tenant <- version_tenant_of
  Registered <- AllButOne
  MaxRequests = 4
SPECIFICATION Spec
CHECK_DEADLOCK FALSE
INVARIANTS
  TypeOK
  ReachIsBoundedByClaim
  DenialsAreAudited
  CallsAreOnTheTimeline
  DenialReasonIsTrue
