\* Two runs, two stop requests, run numbers that wrap.
CONSTANTS
    NRuns = 2
    Callers = {k1, k2}
    RunMod = 6
SPECIFICATION DrainSpec
INVARIANTS ExitForOwnRun
PROPERTIES StopEnds WatchdogLeaves StopLeavesLoop
