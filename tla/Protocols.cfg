SPECIFICATION FairSpec
CONSTANTS
  MaxHandles = 4
  Guid = {"io", "bind"}
  Binding = "bind"
  Interface = {"i", "j"}
  NoInterface = NoInterface
  Given <- Handles
  Installs <- OnHandles
  InstallLists <- Lists
  Registers = {"io"}
  Opens <- OpenArgs
  Connects <- ConnectArgs
  Disconnects <- DisconnectArgs
  May <- Programs
  MayGiveUp = FALSE
  MaxNotifies = 2
  MaxCount = 1
  MaxDepth = 4
INVARIANT OneOwner
INVARIANT RegistrationsComplete
INVARIANT NoLostWalk
PROPERTY ServicesReturn
