SPECIFICATION SinksSpec
CONSTANTS
  Stderr = TRUE
  Second = 1
  Day = 1
  MaxSize = 2
  RetainDays = 1
  MaxFiles = 1
  NameLimit = 5
  Lengths = {1, 3}
  Faults = {"stat", "close", "lookup", "rename", "write", "clock"}
  Broken = {}
  MaxFaults = 1
  MaxCrashes = 1
  MaxLines = 4
  MaxClock = 2
  NoFile = NoFile
INVARIANTS NothingLost CapHonoured TroubleReportedOnce
PROPERTIES WindowHonoured NoHoles
