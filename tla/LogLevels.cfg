SPECIFICATION Spec
CONSTANTS
  Operators = {o1, o2}
  Settable = {0, 3}
  Configurable = {1, 2}
  NoLogger = NoLogger
  Nobody = Nobody
INVARIANTS TypeOK LevelIsAsAsked
PROPERTY CallsReturn
