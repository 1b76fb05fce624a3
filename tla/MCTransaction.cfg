\* Every mode, two kinds of calls, four identifiers.
CONSTANTS
  TidMod = 4
  Ops = {"read_registers", "write_register"}
  Modes <- MCModes
SPECIFICATION FairSpec
INVARIANTS
  OwnAnswer
  QuietAfterOk
PROPERTIES
  Resync
  ImplementsCall
