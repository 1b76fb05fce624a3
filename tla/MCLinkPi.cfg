\* The same, for what modbus_connect promises.
CONSTANTS
  a = a
  b = b
  Contexts = {a, b}
  Descriptors = {3, 4, 5}
  MaxClosed = 2
SPECIFICATION Spec
INVARIANT
  ConnectReports
