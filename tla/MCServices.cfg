SPECIFICATION Spec
CONSTANTS
  Clients <- MCClients
  Mixes <- MCMixes
  Companions = {1, 2}
  MaxCrashes = 1
  Names <- PropNames
  RoNames = {"ro.c"}
  PersistNames = {"persist.0", "persist.a", "persist.b"}
  LongValues = {"long"}
  PropLines <- PropProcs
  ServiceSets <- OtherSets
  StoredProto <- BootProto
  StoredFiles <- BootFiles
  MaxArea = 2
  Devices <- DeviceKinds
  Overlay = {"/init.rc", "/new.txt"}
  RootPaths = {"/init.rc", "/init"}
  Chunks = 3
  MaxFailures = 1
  SlowInit = FALSE
  BootDevices <- BootKinds
  MountTables <- Tables
  ByteOrder <- InByteOrder
  Daemon = {"d1"}
  Zygisk = {"z1"}
  Lengths = {3}
  PIPE_BUF = 3
  PipeSize = 5
  MaxMsgs = 2
  MaxSetups = 2
  MaxErrors = 1
  MaxBytes = 4
  SpliceSize = 2
  CopySize = 2
  ShortSplice = FALSE
CHECK_DEADLOCK FALSE
INVARIANTS SocketsAreFresh InitWaitsForPolicy MountsMoveOnce LogIsFaithful RelayIsFaithful
PROPERTIES EveryRequestIsAnswered DroppedCompanionsExit SetsAreExact WaiterWakes BothGetThrough  WritersGetOn
