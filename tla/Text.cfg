SPECIFICATION TextSpec
CONSTANTS
  MaxText = 7
  MaxChunk = 3
  MaxBytes = 6
  ReadBufferCapacity = 3
INVARIANTS LinesOfTextSoFar AsciiOfLinesSurvives TimeAsWritten
CHECK_DEADLOCK FALSE
