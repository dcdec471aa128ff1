SPECIFICATION Spec
CONSTANTS
  Cards = {1, 2}
  MaxState = 5
  MaxLost = 1
INVARIANTS MissedStatesNoticed BoardIsGames StoryIsGames CardsFollowed
