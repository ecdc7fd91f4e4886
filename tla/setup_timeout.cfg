\* One Setup next to an update that takes longer than the wait for the mutex.
SPECIFICATION Spec
CONSTANTS
  s1 = s1
  s2 = s2
  Setups <- MCOne
  Requests <- MCAll
  Versions <- MCVersions
  Launcher = launcher
  Updater = updater
  NoOne = noone
  MaxFaults = 0
  MaxCrashes = 0
  MaxUpdates = 1
  MaxOpen = 1
CHECK_DEADLOCK FALSE
INVARIANT FailedSetupIsUndone
