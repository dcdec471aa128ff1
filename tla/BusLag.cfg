SPECIFICATION ReadingSpec
CONSTANTS
  Subscribers = {fast, slow}
  fast = fast
  slow = slow
  Requested = 2
  MaxSend = 5
  MaxClones = 2
INVARIANTS InSendOrder MissesOnlyOverwritten NoneAfterTheLast
PROPERTIES EndIsReached
