SPECIFICATION Spec
CONSTANTS
  num_sp = 2
  conf_cp = 3
  Size <- TwoApps
INVARIANTS
    ServersRight
    LookupRight
    ClientsRight
PROPERTIES
    AllLeave
CHECK_DEADLOCK FALSE
