SPECIFICATION FairSpec
CONSTANTS
  t1 = t1  a1 = a1  a2 = a2  k1 = k1
  Tasks = {t1}
  Accounts = {a1, a2, k1}
  Provider <- MCProvider
  Keyed = {k1}
  Quoted = {a1}
  Order <- MCOrder
  Chains <- MCChains
  Default = "standard"
  Deep = "deep"
  None = None  Free = Free
  MaxAttempts = 2
  Overlap = FALSE
  MaxTime = 1  MaxEdits = 1  MaxCrashes = 1
 
PROPERTIES   BlockedIsRetried
CHECK_DEADLOCK FALSE
