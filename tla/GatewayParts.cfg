SPECIFICATION Spec
CONSTANTS
  None = None
  MaxSockets = 3
  MaxFields = 2
  BufLines = 2
  FileLines = 3
  MaxLines = 7
  MinBackoff = 1
  MaxBackoff = 30
  PipeLines = 2
  LineKinds = {"short", "long"}
  MaxWritten = 3
  Domains = {d1, d2}
  MaxKeys = 2
  MaxReports = 2
  Tags = {"id", "vin", "other"}
  Known = {"id", "vin"}
  MaxPusher = 3
INVARIANTS
  TypeOK
  SocketsAccounted
  LinesInOrder
  NoOrphan
  StepsTrue
  LidsObey
  OnePusherPerTag
PROPERTIES
  NoWriteAfterStop
  FaultIsRepaired
  LossIsReported
  CrashIsRestarted
  ShutdownCompletes
  PushersEnd
CHECK_DEADLOCK FALSE
