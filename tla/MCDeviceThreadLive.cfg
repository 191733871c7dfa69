SPECIFICATION FairSpec
CONSTANTS
  Io = {io1}
  Pnp = {}
  Items = {item1}
  Thread = thread
  None = none
  MayHold = FALSE
  MaxUsage = 2
PROPERTIES
  QueuedIsProcessed
  DeletedIsGone
