SPECIFICATION Spec
CONSTANTS
  Action <- MCAction
  RuleId = {}
  PlanId = {}
  NoPlan = NoPlan
  MaxTime = 1
  Symbol <- MCSymbol
  Requests <- MCRequests
  Version <- MCVersion
  Opaque <- MCOpaque
  Signed <- MCSigned
  OddMatches <- MCOddMatches
  Logged <- MCLogged
  MaxLog = 2
  Bundled <- MCBundled
  Place <- MCPlace
  Names <- MCNames
  Providers <- MCProviders
  Drafts <- MCDrafts
  MaxLoads = 2
INVARIANTS TypeOK SavedFits CheckAgrees ListedIsResolved VerbKept
