SPECIFICATION Spec
CONSTANTS
    Second = 4
    Rates <- MCRates
    Backoff <- MCBackoff
    RetryAfter <- MCRetryAfter
    MaxRetryAfter = 5
INVARIANTS
    RateLimited
