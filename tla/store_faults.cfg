SPECIFICATION Spec
CONSTANTS
    NULL = NULL
    Users = {u1}
    Assets = {a1}
    Accounts = {c1}
    Portfolios = {p1}
    Holdings = {h1}
    Transactions = {t1}
    Malformed = {}
    Emails = {e1}
    Flaws = {"unwritable", "twice", "unset"}
    Seeded = {}
    Calls = {r1, r2}
    Operations <- AllOps
    Incomplete = {}
    Statuses = {"completed"}
    Faults = {"statement", "reply", "crash"}
INVARIANTS
    ReferentialIntegrity
    AnswerMatchesEffect
    InternalMeansFault
PROPERTIES
    HoldingsSurvive
    TransactionsArePermanent
    ImplementsLedger
