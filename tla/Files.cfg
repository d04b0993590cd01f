SPECIFICATION Spec
CONSTANTS
  a = a
  b = b
  NIL = NIL
  Objects = {1, 2, 3}
  Fds = {3, 4, 5}
  Asked <- Paths1
  Volumes = {TRUE, FALSE}
  Initial <- Trees
INVARIANT HandlesOwned
INVARIANT EveryEntryListed
PROPERTY ReadOnlyVolume
CONSTRAINT Bounded
CHECK_DEADLOCK FALSE
