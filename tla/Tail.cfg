SPECIFICATION FairSpec
CONSTANTS
  ReadBufferCapacity = 3
  JumpThreshold = 1
  Kind <- BothEnds
  MaxLines = 5
  MaxFiles = 2
  MaxClock = 2
  MaxPause = 1
  MinReplaced = 0
INVARIANTS LinesAreWhole EntriesInLogOrder RotationSeparatesFiles OffsetIsPosition NothingSkipped
PROPERTIES RotationsAreReal CatchesUp OneShotEnds
