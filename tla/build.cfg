SPECIFICATION FairSpec
CONSTANTS
  Versions = {1, 2, 3}
  MaxFaults = 3
  MaxChanges = 3
INVARIANTS TypeOK BindingsMatchLibrary
PROPERTIES RetriesSucceed
