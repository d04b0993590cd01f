SPECIFICATION FairSpec
CONSTANTS
  Cfg <- Services
  Service <- Services
  ServiceOf <- Identity
  Guid <- Guids
  Provides <- Provided
  Depends <- Needed
  After <- Before
  Conditional <- Graphics
  NeedsDisplay = {"SDL2"}
  Restarts = {}
  Disabled = {"SDL2", "VNC"}
  Enabled = {"SDL2", "VNC"}
  Removed = {"UnixRoot"}
  Required <- Tables
  GraphicsGuid = "GraphicsOutput"
  CustData <- Tables
INVARIANT DependenciesRun
INVARIANT OneGraphics
INVARIANT StartsAllItCan
PROPERTY AutoStartReturns
CHECK_DEADLOCK FALSE
