SPECIFICATION Spec
CONSTANTS
  Forms <- AllForms
  MaxStates = 1
  MaxMinor = 1
  MaxGames = 2
  MaxBundle = 3
  MaxOthers = 2
INVARIANTS
  StatesInOrder GameEndTold LocalSeatTold GapsMarked EntriesAccounted
  AsDocumented
CONSTRAINT Bounded
