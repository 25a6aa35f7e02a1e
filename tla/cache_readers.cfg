SPECIFICATION Spec
CONSTANTS
    t1 = t1  t2 = t2  a = a  b = b  c = c
    Keys = {a, b, c}  Size <- Sizes  MaxBytes = 2
    Workers = {t1, t2}  Reads <- Spanning  MaxQueue = 1
    NoValue = NoValue  Failure = Failure
INVARIANTS TypeOK BytesExact DecodedOnce FlightsOwned RightPieces
PROPERTY EveryReadEnds
CHECK_DEADLOCK FALSE
