SPECIFICATION Spec
CONSTANTS
  Keys = {k1, k2, k3}
  FirstKey = k1
  Foreign = "other-log"
  MaxSize = 8
  MaxTime = 4
  MaxAge = 2
  MaxHeads = 1
INVARIANTS
  TypeOK
  HeadsVerifyExactlyWhileFresh
  VerifiedLeavesAreLogged
  LoggedEntriesCanBeProved
CHECK_DEADLOCK FALSE
