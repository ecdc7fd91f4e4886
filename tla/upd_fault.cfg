\* One update, one operation that throws and two crashes.
SPECIFICATION Spec
CONSTANTS
  Jobs <- MCOne
  Versions <- MCVersions
  NoOne = NoOne
  MaxFaults = 1
  MaxCrashes = 2
INVARIANTS IInv ActiveIntact
PROPERTIES SwitchesRuntime
