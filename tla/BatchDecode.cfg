SPECIFICATION BatchSpec
CONSTANTS
    MaxReady = 9
    BatchMax = 2
INVARIANTS RowsHome
