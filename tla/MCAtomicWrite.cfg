SPECIFICATION Spec
CONSTANTS
    Writers = {w1}
    Values = {a, b, c}
    Old = a
    Torn = torn
    None = None
    MaxWrites = 4
CHECK_DEADLOCK FALSE
INVARIANT ReadersSeeWholeWrites
PROPERTY WritesAreAllOrNothing
