SPECIFICATION Spec
CONSTANTS
  Cfg <- Services
  Service <- Services
  ServiceOf <- Identity
  Guid <- Guids
  Provides <- Provided
  Depends <- Needed
  After <- Before
  Conditional <- Graphics
  NeedsDisplay = {"SDL2"}
  Restarts = {}
  Disabled = {"SDL2", "VNC"}
  Enabled = {"SDL2"}
  Removed = {"UnixRoot"}
  Required <- Tables
  GraphicsGuid = "GraphicsOutput"
  CustData <- Tables
INVARIANT AllStopped
CHECK_DEADLOCK FALSE
