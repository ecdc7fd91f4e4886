\* An abandoned job, a later update of the same installation, one crash.
SPECIFICATION Spec
CONSTANTS
  Jobs <- MCTwo
  Versions <- MCVersions
  NoOne = NoOne
  MaxFaults = 0
  MaxCrashes = 1
INVARIANTS CompletedUpdateSurvives
