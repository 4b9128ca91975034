CONSTANTS
  Flaky = {"als"}
  MaxHups = 2
SPECIFICATION FairSpec
INVARIANTS TypeOK StopSticks
PROPERTIES NoReloadAfterCancel ServicesComeUp InsistenceEnds
CHECK_DEADLOCK FALSE
