SPECIFICATION Spec
CONSTANTS
    c1 = c1
    c2 = c2
    a1 = a1
    a2 = a2
    a3 = a3
    Users = {u1}
    AssetIds <- MCAssetIds
    Calls <- MCCalls
    Updates <- MCUpdates
    Wanted <- MCWanted
    OldAssets <- MCOldAssets
    KnownNames <- MCKnownNames
    ShortWords <- MCShortWords
    Sources = {"binance", "coingecko"}
    MaxTime = 3
    Page = 2
    Limit = 1
    NULL = NULL
INVARIANTS
    TypeOK
    UpdatesLostToOverlapsOnly
    DuplicatesOfRacesOnly
    AnswersFit
SYMMETRY Interchangeable
