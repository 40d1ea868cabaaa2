\* Four ids, of which any may be missing, so that the ids that the filter selects have
\* gaps; tail shows the last rows, no row, one, two or all of them, and then follows.
\* The file is bounded and tail ends: no deadlock check.
CONSTANTS
    MaxId = 4
    MaxRec = 2
    Tables <- SmallTables
    Limits <- SmallLimits
    Matching = {1}
    Counts <- SmallCounts
    Follow = TRUE
SPECIFICATION FairSpec
INVARIANTS
    TypeOK
    PrintedInOrder
    NothingSkipped
    NoMoreThanAsked
PROPERTIES
    FollowCatchesUp
CHECK_DEADLOCK FALSE
