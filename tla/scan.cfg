SPECIFICATION Spec
CONSTANTS
    Rows <- MCRows
    KeyOf <- MCKeyOf
    Lists <- AllLists
    PageSizes <- MCPageSizes
    DefaultPageSize = 2
    MaxFaults = 1
    NoToken = NoToken
    BadToken = BadToken
INVARIANTS
    TypeOK
    PagesAdvance
    CompleteUnlessBroken
PROPERTIES
    FullUntilLast
    ScanEnds
\* The client stops at the end of the list, and a list whose filter row is
\* gone has no rows to add or remove any more.
CHECK_DEADLOCK FALSE
