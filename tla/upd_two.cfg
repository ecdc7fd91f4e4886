\* Two updates in a row, one operation that throws and one crash.
SPECIFICATION Spec
CONSTANTS
  Jobs <- MCTwo
  Versions <- MCVersions
  NoOne = NoOne
  MaxFaults = 1
  MaxCrashes = 1
INVARIANTS LockHeld CommitIsProtected
PROPERTIES SwitchIsCovered
