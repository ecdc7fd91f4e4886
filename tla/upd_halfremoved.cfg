\* One update and two crashes, the second one in the recovery.
SPECIFICATION Spec
CONSTANTS
  Jobs <- MCOne
  Versions <- MCVersions
  NoOne = NoOne
  MaxFaults = 0
  MaxCrashes = 2
INVARIANTS RecoveryCanRun
