\* One slave, every request, tables of one to three cells, limits of two
\* registers and three bits, two bits to a byte.
CONSTANTS
  BitsPerByte = 2
  NbBits = 3
  NbInputBits = 1
  NbRegisters = 3
  NbInputRegisters = 1
  Values = {0, 1}
  Filters = TRUE
  Slave = 17
  Requests <- MCRequests
  Codes = {1, 11, 12}
  IdBytes <- MCIdBytes
  MaxReadBits = 3
  MaxWriteBits = 3
  MaxReadRegisters = 2
  MaxWriteRegisters = 2
  MaxRWWriteRegisters = 2
SPECIFICATION Spec
PROPERTIES
  RefusedChangesNothing
  WritesAddressedOnly
  AnswersCurrentValues
  AcknowledgedIsStored
