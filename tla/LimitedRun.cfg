SPECIFICATION Spec
CONSTANTS
  BotEvents = {"quick"}
  PodEvents = {"premier"}
  Packs = 2
  Picks = 2
  MaxJoins = 2
  MaxSubmissions = 2
INVARIANTS RunTold DeckIdentity
