SPECIFICATION TeardownSpec
CONSTANTS
  Signals = {int, term}
  Readers = {main}
  Main = main
  NoSignal = NoSignal
  Steps = {listener, database}
  Nobody = Nobody
INVARIANTS TeardownTypeOK CauseIsRemembered SummaryCounts RecordInOrder AudibleAtWarn ReasonIsTheSignal
PROPERTIES SignalCancels NoLeak FailuresAreTold ImplementsStepTally
