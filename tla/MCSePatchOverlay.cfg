SPECIFICATION SSpec
CONSTANTS
  Devices <- DeviceKinds
  Overlay = {"/init.rc", "/new.txt"}
  RootPaths = {"/init.rc", "/init"}
  Chunks = 3
  MaxFailures = 1
  SlowInit = FALSE
CHECK_DEADLOCK FALSE
INVARIANTS OverlayContextsRestored

