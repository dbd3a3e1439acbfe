SPECIFICATION OrderedSpec
CONSTANTS
    a = a
    b = b
    c = c
    Ranks = {0, 1}
    Threads = {a, b, c}
    RankOf <- TwoOnFirst
    Ops = {1, 2}
    Operations <- Pairs
    MaxCalls = 4
    WindowsShareRank = FALSE
    NoOp = NoOp
INVARIANTS
    IInv
