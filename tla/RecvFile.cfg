\* Files of up to three chunks; the second chunk fills the stream's buffer.
SPECIFICATION UploadFairSpec
CONSTANTS
  MaxSize = 7
  Chunk = 3
  Buf = 4
  Retries = 2
INVARIANTS
  BytesAccounted
  OneChunkIntact
PROPERTY UploadEnds
