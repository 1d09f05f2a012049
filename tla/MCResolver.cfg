CONSTANTS
    Queries <- MCQueries
    Lower <- MCLower
    Hosts <- MCHosts
    NoHost = NoHost
    Denied <- MCDenied
    CacheMaxSize = 2
    CacheTtl = 2
    MaxTime = 3
SPECIFICATION Spec
INVARIANTS
    TypeOK
    CacheIsTransparent
    AnsweredByClosestHost
    NoStaleHit
    OldestUseGoesFirst
CHECK_DEADLOCK FALSE
