\* One Setup with a throw, a killed process and an update, or several with a killed process.
SPECIFICATION Spec
CONSTANTS
  s1 = s1
  s2 = s2
  Setups <- MCTwo
  Requests <- MCAll
  Versions <- MCVersions
  Launcher = launcher
  Updater = updater
  NoOne = noone
  MaxFaults = 1
  MaxCrashes = 1
  MaxUpdates = 1
  MaxOpen = 1
SYMMETRY MCSymmetry
CHECK_DEADLOCK FALSE
INVARIANTS TypeOK LockHeld SetupUndone RecoveryUndone CrashIsRecoverable OldRuntimeKept CompletedSetupStays
CONSTRAINT MCScope
