SPECIFICATION CounterSpec
CONSTANTS
    Incrs = {a1, a2}
    Readers = {r1}
    Buckets = 2
    MaxTime = 4
    MaxAdds = 3
SYMMETRY Symmetry
INVARIANTS
    FirstLapExact
    NoOldCounts
    FirstLapTotal
CHECK_DEADLOCK FALSE
