SPECIFICATION ServicesSpec
CONSTANTS
    h1 = h1
    h2 = h2
    Harnesses = {h1, h2}
    HarnessOrder <- Order
    Turns <- SmallLog
    BatchSize = 2
    ExportAttempts = 3
    MayFail = {"connect"}
    Entries <- SmallEntries
    Key <- SmallKey
    Calls <- SmallCalls
    Repos = {"a"}
    Life = 2
    Trees <- SmallTrees
    Includes <- SmallIncludes
    Sources = {"public", "private", "registry"}
    Required = {"public", "registry"}
    MaxAge = 2
INVARIANTS ServicesTypeOK BoundaryKept AcceptedIsPinned IndexIsHonest
PROPERTIES KeepsFeed SessionsMoveOn TokensKept DroppedForAWholeOne IndexHeals
CHECK_DEADLOCK FALSE
