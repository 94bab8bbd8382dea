\* The same submissions, against what lower_bound_median says it returns.
CONSTANTS
    MaxSubmissions = 4
    MaxStaleness = 2
    MinSampleSize = 2
    Liars = {2, 3}
    Honest = {101, 115}
    Values <- MCValues
    I128Max = 2047
    DecimalMax = 150
    DecimalScale = 3
    Precision = 2
    Word = 16
    Ages = {0, 1, 2}
    Empty = Empty
    NoValue = NoValue
    Scales = {0, 1, 2, 3, 4, 5}
    MaxSlot = 3
SPECIFICATION Spec
INVARIANT LowerMedian
CHECK_DEADLOCK FALSE
