SPECIFICATION FairSpec
CONSTANTS
    Reqs = {r1, r2, r3}
    Stacks = {s1}
    GlobalCap = 1
    StackCap = 1
    LayerSets <- WithAndWithoutAuth
INVARIANTS
    WithinCapacity
    MessagesConserved
    ChargedBeforeProvider
PROPERTIES
    RequestsRouted
    RequestsAnswered
