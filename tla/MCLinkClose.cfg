\* The same, for what modbus_close promises.
CONSTANTS
  a = a
  b = b
  Contexts = {a, b}
  Descriptors = {3, 4, 5}
  MaxClosed = 2
SPECIFICATION Spec
INVARIANT
  ClosesOwn
