\* Two contexts, of any backends, with or without link recovery.
CONSTANTS
  a = a
  b = b
  Contexts = {a, b}
  Descriptors = {3, 4, 5}
  MaxClosed = 2
SPECIFICATION FairSpec
INVARIANTS
  PlainConnectReports
  OwnDescriptor
  NoLeak
PROPERTY
  SendEnds
