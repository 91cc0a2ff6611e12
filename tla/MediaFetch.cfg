SPECIFICATION Spec
CONSTANTS
  i1 = i1
  i2 = i2
  Items = {i1, i2}
  Links <- MCLinks
  Listed <- MCListed
  Docs = {x, y}
  MaxAttempts = 2
  RenderEnabled = TRUE
  MaxParts = 2
  None = None
  Torn = Torn
CHECK_DEADLOCK FALSE
INVARIANTS TypeOK NothingAfterNo WholeMedia
PROPERTIES AttachmentsKept
