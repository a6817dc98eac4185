SPECIFICATION Spec
CONSTANTS
    Clients = {c1, c2}
    Backends = {"redis", "moka"}
    Counts = {0, 2}
    Lives = {2}
    Directives <- MCDirectives
    MaxTime = 1
SYMMETRY Symmetry
INVARIANT
    FreshBucketServes
PROPERTY
    HitsAsAsked
