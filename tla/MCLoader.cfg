CONSTANTS
  Image <- MCImage
  ChunkSize = 2
  Blank = 0
  MaxSessions = 3
  MaxPolls = 3
  MaxLost = 2
  Garbage = {98}
SPECIFICATION Spec
INVARIANTS TypeOK AcknowledgedIsStored
PROPERTIES OnlyWholeFrames StartsWhatWasVerified
CHECK_DEADLOCK FALSE
