\* The driver on a line that disturbs three calls.
CONSTANTS
  BiasNum = 2
  Descriptors = 2
  MaxFaults = 3
  MaxSuccess = 4
SPECIFICATION FairSpec
INVARIANTS
  StreamsCalibrated
  LeaksPaidFor
  BiasReady
PROPERTY
  StartEnds
