SPECIFICATION Spec
CONSTANTS
  e1 = e1
  e2 = e2
  e3 = e3
  Group = {"g", "exit_bs", "vac"}
  Nil = Nil
  NoGroup = NoGroup
  ExitBootServicesGuid = "exit_bs"
  VirtualAddressChangeGuid = "vac"
  Event = {e1, e2, e3}
  Request <- NestingRequests
  WaitList <- Pairs
  TplArg = {4, 33}
  MaxImages = 1
  MaxNotifies = 0
  MayExhaust = TRUE
  NestedReads = TRUE
  Balanced = FALSE
SYMMETRY Symmetry
INVARIANT NoReentry
INVARIANT NodesAlive
PROPERTY FirstComeFirstServed
