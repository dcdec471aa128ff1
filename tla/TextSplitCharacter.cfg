SPECIFICATION Spec
CONSTANTS
  MaxBytes = 4
  ReadBufferCapacity = 3
INVARIANTS OnlyInvalidReplaced
CHECK_DEADLOCK FALSE
