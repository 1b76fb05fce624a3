\* The slave window, with check boxes and lines, and one client.
CONSTANTS
  Tables = {"DiscreteInputs", "HoldingRegisters"}
  Rows = {0, 1}
  Numbers = {0, 1}
  Ids = {1, 2}
  Pdus <- MCPdus
  Retries = 1
  MaxInFlight = 2
  MaxErrors = 1
  TableRows = 6
  WriteLimit = 3
  FirstItem = 5
SPECIFICATION FairSpec
INVARIANTS
  WidgetsShowTables
  ConnectedIsShown
  OneRequest
  WrittenIsEditable
PROPERTIES
  EditableStaysWritten
  SendWithoutDeviceOnlyAfterAbort
  OwnAnswer
  SendComesBack
CHECK_DEADLOCK FALSE
