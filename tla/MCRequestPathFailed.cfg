SPECIFICATION FairSpec
CONSTANTS
    Reqs = {r1, r2}
    Stacks = {s1, s2}
    GlobalCap = 1
    StackCap = 1
    LayerSets <- OnlyAll
PROPERTIES
    ErrorsBecomeResponses
