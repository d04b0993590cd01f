SPECIFICATION FairSpec
CONSTANTS
  e1 = e1
  e2 = e2
  e3 = e3
  Group = {"g", "exit_bs", "vac"}
  Nil = Nil
  NoGroup = NoGroup
  ExitBootServicesGuid = "exit_bs"
  VirtualAddressChangeGuid = "vac"
  Event = {e1, e2}
  Request <- LiveRequests
  WaitList <- Waits
  TplArg = {4, 16}
  MaxImages = 0
  MaxNotifies = 1
  MayExhaust = FALSE
  NestedReads = FALSE
  Balanced = TRUE
INVARIANT NoLostSignal
PROPERTY SignalIsNotified
PROPERTY WaitForEventReturns
