SPECIFICATION FairSpec
CONSTANTS
  CommandLines <- TwoLines
  MaxFiles = 3
  MaxDepth = 4
  Levels = {16}
INVARIANT RunsHeld
INVARIANT HandlersKept
INVARIANT ExitDataSafe
INVARIANT ArgumentsRun
PROPERTY CrashEnds
