\* A buffer of six bytes, enough for two commands, and a client that sends up
\* to eight.
SPECIFICATION ChannelSpec
CONSTANTS
  Size = 7
  MaxSent = 8
INVARIANTS
  LinesInOrder
  LineWaitsOnlyAfterTransfer
  LongMeansLong
