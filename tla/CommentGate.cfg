SPECIFICATION Spec
CONSTANTS
  p1 = p1 p2 = p2 creator = creator None = None
  NumReels = 2
  Post <- MCPost
  Creator <- MCCreator
  MaxAttempts = 2
  MaxItems = 1
  DailyWrites = 2
  DailyComments = 1
  FirstWeekComments = 1
  FirstWeekDays = 1
  MaxPresses = 1
  MaxRechecks = 1
  MaxMessages = 1
  MaxFaults = 1
  Faults = {"error", "halt", "crash"}
INVARIANTS TypeOK SentOnce OneThread BudgetKept
CHECK_DEADLOCK FALSE
