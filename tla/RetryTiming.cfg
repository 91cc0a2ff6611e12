SPECIFICATION TimedSpec
CONSTANTS
  Items = {i1, i2}
  MaxAttempts = 5
  Backoff <- Schedule
  None = None
  i1 = i1
  i2 = i2
PROPERTIES
  GiveUpTakesTime
