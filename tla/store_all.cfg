SPECIFICATION Spec
CONSTANTS
    NULL = NULL
    Users = {u1, u2}
    Assets = {a1}
    Accounts = {c1}
    Portfolios = {p1}
    Holdings = {h1}
    Transactions = {t1}
    Malformed = {bad}
    Emails = {e1}
    Flaws = {}
    Seeded = {u1, a1}
    Calls = {r1, r2}
    Operations <- AllOps
    Incomplete = {"UpdateHolding"}
    Statuses = {"completed"}
    Faults = {}
SYMMETRY Symmetry
INVARIANTS
    TypeOK
    ErrorsAreTruthful
    AnswerMatchesEffect
