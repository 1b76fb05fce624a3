\* Two clients of the server of many clients, or of that of one client;
\* requests in one or two pieces, two of them outstanding.
CONSTANTS
  a = a
  b = b
  Clients = {a, b}
  Descriptors = {3, 4, 5}
  NbConnection = 2
  MaxOutstanding = 2
  Room = 1
SPECIFICATION FairSpec
INVARIANTS
  WatchesAll
  NeverWaitsForIdle
  EachToItsOwn
PROPERTY
  Served
CHECK_DEADLOCK FALSE
