SPECIFICATION FairSpec
CONSTANTS
    Master = m
    Slaves = {s1, s2}
    Clients = {c1, c2, c3}
    c1 = c1
    c2 = c2
    c3 = c3
    AppOf <- TwoApps
    None = None
INVARIANTS
    TablesRight
    NoEarlyStop
PROPERTIES
    AllStop
CHECK_DEADLOCK FALSE
