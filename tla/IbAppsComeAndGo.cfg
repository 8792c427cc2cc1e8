SPECIFICATION Spec
CONSTANTS
  num_sp = 2
  conf_cp = 3
  Size <- TwoApps
INVARIANT
  ServerStaysUp
CHECK_DEADLOCK FALSE
