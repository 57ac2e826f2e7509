\* Two concurrent requests, two sources, one without a first price.
SPECIFICATION Spec
CONSTANTS
    r1 = r1
    r2 = r2
    Requests = {r1, r2}
    NumSources = 2
    FirstPriced = {1}
    CacheTTL = 1
    RequestTicks = 1
    MaxTime = 5
SYMMETRY Interchangeable
INVARIANT TypeOK
PROPERTIES
    CacheAgeBounded
    OneGoodSourceSuffices
    CreatedAtHonest
    CacheNotFarBehind
