SPECIFICATION StorageSpec
CONSTANTS
  k1 = k1
  k2 = k2
  x1 = x1
  x2 = x2
  g1 = g1
  g2 = g2
  t1 = t1
  t2 = t2
  Slots = {1, 2, 3, 4, 5, 6, 7, 8, 9}
  Others = {1, 6}
  NIL = NIL
  NONE = NONE
  Sizes = {1}
  Keys = {k1, k2}
  Values = {x1, x2}
  Guids = {g1, g2}
  Tables = {t1, t2}
  MaxHeld = 1
  MaxHurt = 1
INVARIANT NoFalseAbort
INVARIANT TablesKept
INVARIANT OwnedOnce
PROPERTY DamageStops
PROPERTY VariablesAreStored
SYMMETRY Symmetry
CONSTRAINT Bounded
CHECK_DEADLOCK FALSE
