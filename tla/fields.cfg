SPECIFICATION Spec
CONSTANTS
    Tables <- AllTables
    Messages <- MCMessages
    Masks <- MCMasks
    Broken <- MCBroken
    Respelled <- MCRespelled
    u1 = u1
    u2 = u2
    Uuids <- MCUuids
    Calls = {c1, c2}
    NULL = NULL
INVARIANTS
    TypeOK
    RowsAsSent
    FreshAnswers
    ErrorsAreClean
SYMMETRY Interchangeable
