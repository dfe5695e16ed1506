SPECIFICATION LuaSpec
CONSTANTS
    r1 = r1
    r2 = r2
    r3 = r3
    r4 = r4
    NoStack = NoStack
    Structs <- MCStructs
    CreateLimits <- Default
    Limits <- NewLimits
    UseLimits = {1, 2}
    MayFail = TRUE
    MaxLeaked = 1
INVARIANTS NotWedged NoOldStack IInv
PROPERTY LoopsEnd
CHECK_DEADLOCK FALSE
