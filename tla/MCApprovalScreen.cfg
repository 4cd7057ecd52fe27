\* The human may quit: no deadlock check.
SPECIFICATION FairSpec
CONSTANTS
  MaxEntries = 2
  MaxWaiting = 1
  MaxLines = 2
INVARIANTS TypeOK TailComplete
PROPERTIES ActsOnFrame ComesUp
CHECK_DEADLOCK FALSE
