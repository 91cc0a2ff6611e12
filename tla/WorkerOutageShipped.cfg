SPECIFICATION Spec
CONSTANTS
  Items = {i1}
  Contents = {c1}
  Titles = {t1}
  MaxAttempts = 2
  Backoff <- OneBackoff
  Faults = {"llm_account"}
  ShippedProviders = TRUE
  None = None
  i1 = i1
  c1 = c1
  t1 = t1
INVARIANTS
  OutageIsHarmless
