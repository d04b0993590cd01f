SPECIFICATION Spec
CONSTANTS
  n1 = n1
  n2 = n2
  n3 = n3
  n4 = n4
  list1 = list1
  list2 = list2
  NIL = NIL
  NULL = NULL
  Nodes <- MCNodes
  Names <- MCNames
  Rank <- MCRank
  Lengths <- MCLengths
  Width = 2
  Height = 2
  Scan = 3
  Mask <- MCMask
  VideoPixels = 9
  BufferPixels = 9
  Transfers <- Rectangles
  PageSize = 3
  ImagePages = 3
  FileLength = 12
  Word = 16
  Address = 500
  PoolWords = 26
  SlLog2 = 1
  FlLog2 = 5
  NONE = NONE
  Ids = {1, 2, 3}
  Requests = {1, 5, 9, 30}
INVARIANT AnswersAgree
INVARIANT BltDraws
INVARIANT LoaderLoads
INVARIANT HeapSound
PROPERTY ListsAreSequences
SYMMETRY Symmetry
CHECK_DEADLOCK FALSE
