SPECIFICATION SafeSpec
CONSTANTS
    m1 = m1
    m2 = m2
    Models = {m1, m2}
    NoModel = none
    CommandLines <- OnlySwap
    MaxRequests = 1
INVARIANTS ShutdownCancelsLoad
