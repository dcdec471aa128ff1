SPECIFICATION Spec
CONSTANTS
  MaxTime = 1
  MaxMoves = 2
PROPERTY LiveLogFound
