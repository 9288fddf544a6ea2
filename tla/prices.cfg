SPECIFICATION Spec
CONSTANTS
    NULL = NULL
    btc = btc
    usd = usd
    bad = bad
    s1 = s1
    s2 = s2
    Assets = {btc, usd}
    Prices = {p1, p2, p3}
    Sources = {s1, s2}
    Malformed = {bad}
    MaxTime = 2
    Calls = {r1, r2}
    Creates <- MCCreates
    Bulks <- MCBulks
    Filters <- MCFilters
    Faults = {}
SYMMETRY Symmetry
INVARIANTS
    TypeOK
    NothingLost
    LatestIsLatest
    DeletedIsGone
