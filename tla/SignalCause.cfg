SPECIFICATION Spec
CONSTANTS
  int = int
  term = term
  r1 = r1
  r2 = r2
  NoSignal = NoSignal
  Signals = {int, term}
  Readers = {r1}
INVARIANT SignalIsTheCause
CHECK_DEADLOCK FALSE
