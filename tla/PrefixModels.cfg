\* One slot of an attention or of a recurrent model; contexts of two names that do
\* not fit beside each other, turn marks, snapshots too long to store.
CONSTANTS
    Slots = {s1}
    Names = {n1, n2}
    Prompts <- Turns
    Contexts <- Ends
    Modes = {"share", "own", "fresh", "score"}
    Tokens = {1}
    MinTokens = 2
    MaxEntries = 3
    Budget = 8
    Folds = {0, 1}
    Expires = TRUE
    AllocFails = TRUE
    NoName = NoName
SPECIFICATION Spec
SYMMETRY NameSymmetry
INVARIANTS RowsAreTokens BytesExact
