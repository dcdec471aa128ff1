SPECIFICATION Spec
CONSTANTS
  ReadBufferCapacity = 3
  JumpThreshold = 1
  Kind <- HeaderEnds
  MaxLines = 4
  MaxFiles = 2
  MaxClock = 2
  MaxPause = 2
  MinReplaced = 1
PROPERTIES RotationsAreReal
