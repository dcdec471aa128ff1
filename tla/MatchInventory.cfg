SPECIFICATION Spec
CONSTANTS
  Forms <- AllForms
  MaxStates = 0
  MaxMinor = 0
  MaxGames = 1
  MaxBundle = 1
  MaxOthers = 1
INVARIANT StartHookTellsInventory
