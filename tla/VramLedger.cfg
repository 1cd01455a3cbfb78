SPECIFICATION Spec
CONSTANTS
    p1 = p1
    p2 = p2
    a1 = a1
    a2 = a2
    b1 = b1
    Procs = {p1, p2}
    Claims = {a1, a2, b1}
    Owner <- MCOwner
    Need <- MCNeed
    Priority <- MCPriority
    Total = 2
    Capacities = {2, 4}
    MaxInc = 1
CHECK_DEADLOCK FALSE
INVARIANTS PledgesCovered LedgerTells MarkersCurrent
PROPERTIES AdmittedFits PriorityRespected
