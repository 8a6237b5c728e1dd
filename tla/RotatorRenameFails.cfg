SPECIFICATION Spec
CONSTANTS
  Second = 1
  Day = 2
  MaxSize = 2
  RetainDays = 1
  MaxFiles = 0
  NameLimit = 5
  Lengths = {1, 3}
  Faults = {}
  Broken = {"rename"}
  MaxFaults = 0
  MaxCrashes = 0
  MaxLines = 4
  MaxClock = 4
  NoFile = NoFile
PROPERTY LoggingGoesOn
