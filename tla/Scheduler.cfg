SPECIFICATION SafeSpec
CONSTANTS
    Slots = {s0, s1, s2}
    Decoder = decoder
    BatchMax = 2
    NCtx = 3
SYMMETRY SlotSymmetry
INVARIANTS CountsMatch InflightOwned OwnRow RowsFilled DeviceExclusive
