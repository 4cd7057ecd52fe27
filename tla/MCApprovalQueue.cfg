\* The agents may stop asking, and the ticket bound stops them: no deadlock check.
SPECIFICATION Spec
CONSTANTS
  Requester = {r1, r2}
  Human = {h1, h2}
  Action = {a1, a2}
  NoAction = NoAction
  Timeout = 0
  MaxTicket = 2
  MaxTime = 1
INVARIANTS TypeOK OneSender AckStands
PROPERTY ImplementsPromise
CHECK_DEADLOCK FALSE
