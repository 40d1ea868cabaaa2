\* Four names compete for three places; two decisions tell a stale value
\* from a fresh one.
CONSTANTS
    Names = {n1, n2, n3, n4}
    Decisions = {allow, block}
    None = None
    Capacity = 3
    MaxGets = 3
SPECIFICATION MCSpec
INVARIANTS
    TypeOK
    KeepsExactlyTheRecent
PROPERTIES
    HitReturnsLastPut
    ImplementsLru
