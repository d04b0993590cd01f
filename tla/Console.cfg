SPECIFICATION ConsoleSpec
CONSTANTS
  Terminals <- MCTerminals
  Sizes <- MCSizes
  DefaultSize <- MCDefaultSize
  Presses <- MCPresses
  Strings <- MCStrings
  TabWidth = 2
  EscapeSize = 3
  MaxWaiting = 2
INVARIANT KeysInOrder
INVARIANT StaysRaw
INVARIANT CursorFollows
PROPERTY KeyAfterWait
