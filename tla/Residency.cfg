SPECIFICATION Spec
CONSTANTS
    m1 = m1
    m2 = m2
    Models = {m1, m2}
    NoModel = none
    CommandLines <- Both
    MaxRequests = 3
INVARIANTS ModelInUse LoadingAlone OwnersAgree ExpectHonoured
PROPERTIES DeferredUnloadEnds ShutdownReleases
