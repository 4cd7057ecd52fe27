\* Every run may be over: no deadlock check.
SPECIFICATION FairSpec
CONSTANTS
  r1 = r1
  r2 = r2
  Proc <- MCProc
  Flags <- MCFlags
  Local <- MCLocal
  Home <- MCHome
  NoFile = NoFile
  MainPort = port8443
  OtherPort = {portA}
  Stuck = {r2}
INVARIANTS TypeOK  NothingLeft OwnProxy PairMatches SetupHolds
PROPERTIES EstablishedStays EndsWithAgent
CHECK_DEADLOCK FALSE
