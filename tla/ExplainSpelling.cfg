\* One query with a capital letter is enough.
CONSTANTS
    Names <- MixedNames
    Lower <- LowerTld
    AbusedTlds = {"xyz"}
    MlScores = {0, 84}
    Settings <- SomeSettings
    CacheSize = 2
    MaxRows = 3
SPECIFICATION Spec
INVARIANTS
    NoRecordsMeansNone
