\* One conflict at a time stands for 50 at a time.
SPECIFICATION ConflictSpec
CONSTANTS
  ConflictOrder <- MCConflictOrder
  MaxVariants <- MCMaxVariants
  Recommendable = {2}
  NewCodes = {"n1", "n2"}
  Limit = 1
  MaxReruns = 0
CHECK_DEADLOCK FALSE
INVARIANT DecidedIsNotAskedAgain
