\* Names on both sides of every threshold; two cached decisions, for the same name,
\* another spelling or another name, are there when the next query comes, and three rows
\* when the log is read;
\* processes that enforce, measure and enforce at a threshold of 0 follow one another.
CONSTANTS
    Names <- MixedNames
    Lower <- LowerTld
    AbusedTlds = {"xyz"}
    MlScores = {0, 84}
    Settings <- SomeSettings
    CacheSize = 2
    MaxRows = 3
SPECIFICATION Spec
INVARIANTS
    TypeOK
    OneStory
    ScoreMatchesReasons
    CauseFirst
    HistoryInOrder
    FiltersAgree
