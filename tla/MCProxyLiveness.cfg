SPECIFICATION FairSpec
CONSTANTS
  net = net
  api = api
  bad = bad
  NoAction = NoAction
  NoPlan = NoPlan
  Action <- MCTwoActions
  RuleId <- MCRuleId
  PlanId = {}
  MaxTime = 0
  NetPattern <- MCNetPattern
  InitialRules <- MCInitialRules
  HumanIds <- MCHumanIds
  Conn = {c1, c2}
  Human = {h1}
  MaxRequests = 2
  MaxHistory = 1
  Lossy = {}
PROPERTIES CarriedOut Served
