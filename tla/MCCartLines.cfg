\* Two products, three values of a uint32, requests of up to two lines.
SPECIFICATION Spec
CONSTANTS
    Uint32 = 3
    Products = {"p1", "p2"}
    MaxIncoming = 2
    MaxLines = 3
    Int64Half = 4
INVARIANTS LinesTypeOK AmountIsExact
PROPERTIES PiecesAdd PiecesSet DuplicatesOnlyFromPut
CHECK_DEADLOCK FALSE
