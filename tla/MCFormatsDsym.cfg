SPECIFICATION Spec
CONSTANTS
    Width = 10
    Buckets = 2
    Bits = 4
    BloomCnt = 2
    BloomShift = 1
    AddrCap = 3
    MaxIdx = 3
    StrStep = 16
    StrMax = 32
    RecStep = 12
    RecMax = 24
    OutStep = 40
    OutMax = 80
    HookSize = 7
    UnhookSize = 4
    NameLen <- MCNameLen
    Names = {"f", "g", "h"}
    Hashes = {0, 1, 2, 3, 6, 9}
INVARIANT
    OnlyCanonical
CHECK_DEADLOCK FALSE
