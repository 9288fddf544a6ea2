SPECIFICATION Spec
CONSTANTS
    r1 = r1
    r2 = r2
    h1 = h1
    Requests <- MCRequests
    H2C <- MCH2C
    Called <- MCCalled
    MaxConns = 1
    QuotesPerBulk = 2
INVARIANTS
    GracefulStopServesAll
\* The process ends.
CHECK_DEADLOCK FALSE
