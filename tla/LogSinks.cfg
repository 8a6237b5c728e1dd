SPECIFICATION SinksSpec
CONSTANTS
  Stderr = TRUE
  Second = 2
  Day = 2
  MaxSize = 2
  RetainDays = 1
  MaxFiles = 0
  NameLimit = 5
  Lengths = {1, 3}
  Faults = {"open", "rename", "write", "remove"}
  Broken = {}
  MaxFaults = 1
  MaxCrashes = 1
  MaxLines = 3
  MaxClock = 4
  NoFile = NoFile
INVARIANTS TypeOK HistoryInOrder HistorySpansTheWindow SizeBound OneDayPerFile
PROPERTIES ImplementsServiceLog LoggingGoesOn
