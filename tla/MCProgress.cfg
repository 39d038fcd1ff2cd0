SPECIFICATION Spec
CONSTANTS
    First = {p1, p2}
    Second = {q1, q2}
    One = One
    Only = Only
    Other = Other
    Nothing = Nothing
    Pending = Pending
    Unused = Unused
PROPERTIES
    JobsSettle
    WatchersCatchUp
CHECK_DEADLOCK FALSE
