\* One update and one crash: what an interrupted update comes to.
SPECIFICATION FairSpec
CONSTANTS
  Jobs <- MCOne
  Versions <- MCVersions
  NoOne = NoOne
  MaxFaults = 0
  MaxCrashes = 1
INVARIANTS CompletedUpdateSurvives RecoveryCanRun
PROPERTIES LockReleased InterruptedUpdateIsResolved
