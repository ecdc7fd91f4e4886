\* One Setup, killed once.
SPECIFICATION Spec
CONSTANTS
  s1 = s1
  s2 = s2
  Setups <- MCOne
  Requests <- MCAll
  Versions <- MCVersions
  Launcher = launcher
  Updater = updater
  NoOne = noone
  MaxFaults = 0
  MaxCrashes = 1
  MaxUpdates = 0
  MaxOpen = 1
CHECK_DEADLOCK FALSE
INVARIANT InterruptedSetupIsRecoverable
