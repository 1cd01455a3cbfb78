\* Two slots of an attention model; a budget that makes entries compete.
CONSTANTS
    Slots = {s1, s2}
    Names = {n1}
    Prompts <- Family
    Contexts <- Bases
    Modes = {"share"}
    Tokens = {}
    MinTokens = 2
    MaxEntries = 2
    Budget = 6
    Folds = {0}
    Expires = TRUE
    AllocFails = FALSE
    NoName = NoName
SPECIFICATION Spec
SYMMETRY Symmetry
INVARIANTS ReadersSafe
PROPERTIES RefusedOnlyIfGone
