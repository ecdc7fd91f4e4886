\* One update, nothing fails: the status report races the worker.
SPECIFICATION Spec
CONSTANTS
  Jobs <- MCOne
  Versions <- MCVersions
  NoOne = NoOne
  MaxFaults = 0
  MaxCrashes = 0
INVARIANTS RolledBackReportIsTrue
