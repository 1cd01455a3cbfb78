\* Two holders, two workers, jobs that do and do not divide evenly.
CONSTANTS
    Callers = {a, b}
    NThreads = 3
    Sizes = {2, 4}
    GenMod = 2
    Nobody = Nobody
SPECIFICATION Spec
INVARIANTS JobWhole FreedUnused
PROPERTIES RunReturns
