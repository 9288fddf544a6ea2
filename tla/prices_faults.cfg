SPECIFICATION Spec
CONSTANTS
    NULL = NULL
    btc = btc
    usd = usd
    bad = bad
    s1 = s1
    s2 = s2
    Assets = {btc, usd}
    Prices = {p1, p2, p3}
    Sources = {s1, s2}
    Malformed = {bad}
    MaxTime = 1
    Calls = {r1, r2}
    Creates <- FewCreates
    Bulks <- FewBulks
    Filters <- FewFilters
    Faults = {"statement", "reply", "crash"}
INVARIANTS
    NothingLost
    CountIsEarned
    PricesRefer
PROPERTIES
    HistoryIsKept
    ImplementsLedger
