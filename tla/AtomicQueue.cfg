SPECIFICATION LiveSpec
CONSTANTS
    Producers = {p1, p2}
    p1 = p1
    p2 = p2
    Size = 4
    Remap <- SwapBits
    Wrap = 12
    Capacity = 4
    MaxPushes = 7
    NIL = NIL
    Width = 8
    Sizes = {1, 2, 3, 4, 5, 9, 16, 31, 64, 65, 128}
    ElementsPerLine = {1, 2, 4, 8}
INVARIANTS
    OneCellEach
    Spread
PROPERTIES
    ImplementsCommandQueue
    EveryPushReceived
