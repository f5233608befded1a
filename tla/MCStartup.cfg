CONSTANTS
  N_THREADS = 3
  Users = {0, 1, 2}
SPECIFICATION Spec
CHECK_DEADLOCK FALSE
INVARIANTS ReportIsTrue FileIsRemoved
PROPERTY FirstLearns
