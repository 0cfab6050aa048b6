SPECIFICATION Spec
CONSTANTS
    Series = {1, 2}
    MediumWidth = 2
    LongWidth = 4
    Raw = 1
    Medium = 3
    Long = 6
    Limit = 2
    Lag = 1
    MaxTime = 9
    MaxSamples = 4
INVARIANTS
    TypeOK
    CountedOnce
    HistoryHasNoGaps
    ReadFillsLimit
