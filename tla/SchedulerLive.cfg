SPECIFICATION Spec
CONSTANTS
    Slots = {s0, s1}
    Decoder = decoder
    BatchMax = 2
    NCtx = 3
PROPERTIES ForwardReturns TurnComes DrainCompletes
