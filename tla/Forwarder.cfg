\* Two queries overlap, two refreshes replace the blocklist between them, a cache of
\* one name makes every other name evict, and Ctrl-C comes at any moment.
\* The datagrams are bounded: no deadlock check.
CONSTANTS
    Queries = {1, 2}
    Spellings = {"ads", "Ads", "dga", "10.0.0.1"}
    Hosts = {"ads", "dga", "10.0.0.1"}
    Lower <- LowerFn
    Feeds <- FeedTexts
    IpLike = {"10.0.0.1"}
    Flagged = {"dga"}
    CacheCapacity = 1
    HasClassifier = TRUE
    HasBlocklist = TRUE
    HasLog = TRUE
    Enforce = TRUE
    ScoreLogging = TRUE
    MaxRefreshes = 2
SPECIFICATION FairSpec
INVARIANTS
    TypeOK
    SteadilyListedIsBlocked
    BlockedForCause
    CacheJustified
    LogMatchesReply
    HitRepeatsMiss
PROPERTIES
    EveryQueryAnswered
    RefreshGoesOn
    ShutdownEnds
CHECK_DEADLOCK FALSE
