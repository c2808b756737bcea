\* Five bytes in blocks of two: two full blocks and a last one that is short.
SPECIFICATION FairSpec
CONSTANTS
  Size = 5
  Block = 2
  Retries = 2
INVARIANTS
  CountedIsReceived
  SuccessIsComplete
PROPERTY Terminates
