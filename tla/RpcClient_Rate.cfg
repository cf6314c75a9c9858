SPECIFICATION FairSpec
CONSTANTS
    Second = 4
    Rates <- MCRates
    Backoff <- MCBackoff
    RetryAfter <- MCRetryAfter
    MaxRetryAfter = 5
INVARIANTS
    TypeOK
    OneMoreAtMost
PROPERTIES
    PausesHonoured
    RpcEnds
