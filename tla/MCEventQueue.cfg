CONSTANTS
  Event = {e1, e2}
  None = None
  QueueSize = 5
SPECIFICATION Spec
INVARIANT TypeOK
PROPERTY ImplementsFifo
