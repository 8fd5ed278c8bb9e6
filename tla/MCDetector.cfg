SPECIFICATION FairSpec
CONSTANTS
  m = m  c = c
  Tasks = {m, c}
  Rank <- MCRank
  Parent <- MCParent
  Ceiling <- MCCeiling
  PerPass = 1
  Grace = 1  Timeout = 2
  Flaky = FALSE
  MaxEpoch = 2  MaxChanges = 2
  None = None
 
PROPERTIES  ManagerFirst HumanHears BudgetIsTold
CHECK_DEADLOCK FALSE
