CONSTANTS
  Value = {"a", "b"}
  Bytes <- MCBytes
  SegmentSize = 2
  SegmentCacheSize = 1
  MaxIndex = 4
  MaxBatch = 2
SPECIFICATION Spec
CHECK_DEADLOCK FALSE
INVARIANTS TypeOK Contiguous ReadsStored Durable NoStartWithEnd
PROPERTY Implements
