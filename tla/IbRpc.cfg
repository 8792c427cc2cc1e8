SPECIFICATION Spec
CONSTANTS
    None = None
    Ops <- MCOps
    Workloads <- MCWorkloads
    By <- MCBy
    Kind <- MCKind
    Clients = {1}
    NumBuf = 2
    Rounds = 1
INVARIANTS
    MemoryRight
    DataInPlace
    Delivery
    AnswerAfterSend
PROPERTIES
    AllComplete
CHECK_DEADLOCK FALSE
