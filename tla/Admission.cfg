\* Four connections, two slots, a ring of two used to its last entry.
CONSTANTS
    Conns = {c1, c2, c3, c4}
    Slots = {s1, s2}
    Ring = 2
    Limit = 2
    Retries = 2
    None = None
SPECIFICATION Spec
INVARIANTS OneEnding QueueOrder
PROPERTIES QueuedIsTaken StopReachesJoin
