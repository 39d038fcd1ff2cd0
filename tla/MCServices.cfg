SPECIFICATION Spec
CONSTANTS
    First = {p1, p2}
    Second = {q1, q2}
    One = One
    Only = Only
    Other = Other
    Nothing = Nothing
    Pending = Pending
    NotRead = NotRead
    Refused = Refused
    Invalid = Invalid
    Unused = Unused
SYMMETRY Symmetry
CHECK_DEADLOCK FALSE
INVARIANTS
    RunReadsScannedBytes
    PreviewsAreAccountedFor
    CleanupIsEarned
    ProvisionCanBeRepeated
    VerdictsAreBacked
    GaplessReplay
    LaunchIsExact
    NoRevisionIsOverwritten
    ScopesDoNotMix
    UnlockedIsSaved
PROPERTY
    WhatIsSettledStays
