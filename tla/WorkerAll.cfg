SPECIFICATION Spec
CONSTANTS
  Items = {i1}
  Contents = {c1, c2}
  Titles = {t1, t2}
  MaxAttempts = 3
  Backoff <- ShortBackoff
  Faults <- AllFaults
  ShippedProviders = FALSE
  None = None
  i1 = i1
  c1 = c1
  c2 = c2
  t1 = t1
  t2 = t2
INVARIANTS
  TypeOK
  RetryWindow
  DoneHasNote
  GiveUpReported
  NoteMatchesText
  EmptyLeavesNoText
PROPERTIES
  ImplementsLifecycle
