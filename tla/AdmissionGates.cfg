SPECIFICATION Spec
CONSTANTS
  t1 = t1
  t2 = t2
  t3 = t3
  t4 = t4
  ka = ka
  kb = kb
  kc = kc
  Tasks <- MCTasks
  KeyOf <- MCKeyOf
  Estimate <- MCEstimate
  WorkersArg = 2
  MemBudget = 3
INVARIANTS
  SameKeyExclusive
  NothingLeftBehind
  OutcomeReported
PROPERTIES
  WaitComesBack
  PromiseKept
CHECK_DEADLOCK FALSE
