SPECIFICATION Spec
CONSTANTS
  Lines <- AllLines
  BraceDepthFlush = TRUE
  MaxInput = 6
  MaxSegmentation = 4
CONSTRAINT OneSetOfLines
INVARIANTS
  TypeOK EntriesPartitionTheLog MatchesWholeInput EntryHoldsItsJson
CHECK_DEADLOCK FALSE
