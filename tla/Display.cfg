SPECIFICATION FairSpec
CONSTANTS
  Mode <- Modes
  Size <- Sizes
  FirstMode = "small"
  NoMode = NoMode
  Kinds = {"key_down", "key_up", "motion", "expose", "quit"}
  MaxInput = 2
  MayExhaust = TRUE
INVARIANT DrawsOneMode
INVARIANT NothingLost
PROPERTY ScreenFollows
PROPERTY EventsArrive
