\* One update and one crash: the Cadence loader after a rollback.
SPECIFICATION Spec
CONSTANTS
  Jobs <- MCOne
  Versions <- MCVersions
  NoOne = NoOne
  MaxFaults = 0
  MaxCrashes = 1
INVARIANTS LoaderRestored
