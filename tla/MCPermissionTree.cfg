SPECIFICATION Spec
CONSTANTS
  a1 = a1
  a2 = a2
  plan = plan
  NoPlan = NoPlan
  NoAction = NoAction
  Action <- MCAction
  RuleId <- MCRuleId
  PlanId <- MCPlanId
  NewRules <- MCNewRules
  Templates <- MCTemplates
  Restorable <- MCRestorable
  Caller = {c1, c2}
  MaxTime = 1
  MaxRules = 3
INVARIANTS TypeOK OneShotOnce
PROPERTY ForbidOverridesPermit
