---------------------------- MODULE PortfolioStore ----------------------------
(***************************************************************************)
(* The portfolio service and its PostgreSQL store: accounts, portfolios,   *)
(* holdings and transactions, with the users and assets they refer to.     *)
(*                                                                         *)
(* A call runs as several statements, each committed by itself: one lookup *)
(* per row the request names, then the INSERT, UPDATE or DELETE, then, for *)
(* an update, a read of the row for the answer.  Statements of different   *)
(* calls interleave, so what a lookup found may be gone when the write     *)
(* runs; what keeps the tables consistent is the foreign keys of the       *)
(* schema, and what the client learns is how each statement's outcome is   *)
(* mapped to a status code.                                                *)
(*                                                                         *)
(* A row is its uuid; the internal id that a lookup returns stands for the *)
(* same row.  Names, descriptions, amounts and data are left out, but that *)
(* a request may carry what no statement can write is not.                 *)
(***************************************************************************)
EXTENDS Integers, FiniteSets, Sequences

CONSTANTS
    Users, Assets, Accounts, Portfolios, Holdings, Transactions, \* uuids
    Malformed,        \* ids in requests that are not uuids
    Emails,           \* the emails that requests carry
    Seeded,           \* the users and assets that exist to begin with
    Calls,            \* the calls the server can have in progress
    Operations,       \* the operations that clients call
    Incomplete,       \* those of which requests lack something, or have an id
                      \* that is no uuid
    Flaws,            \* what can be wrong with requests: see Flaw
    Statuses,         \* the transaction statuses that requests carry
    Faults,           \* what may fail: see the actions of that name
    NULL              \* no row: an empty optional id, a NULL column

Rows == Users \cup Assets \cup Accounts \cup Portfolios \cup Holdings
              \cup Transactions

TransactionStatus == {"unspecified", "pending", "processing", "completed",
                      "failed", "cancelled"}

(* What can be wrong with a request:                                       *)
Flaw == {"none",
         "incomplete",   \* it lacks what its operation requires, or its own id
                         \* is no uuid
         "unwritable",   \* its write is refused whatever the tables hold: data
                         \* that are no JSON, a text that is none to the
                         \* database, a path twice in the mask, which sets one
                         \* column twice
         "twice",        \* this path is portfolio_id, and looked up each time
         "unset"}        \* preferences of no value are to be written

CreateOps == {"CreateUser", "CreateAsset", "CreateAccount", "CreatePortfolio",
              "CreateHolding", "CreateTransaction"}
UpdateOps == {"UpdateUser", "UpdateAccount", "UpdatePortfolio", "UpdateHolding",
              "UpdateTransaction"}
DeleteOps == {"DeleteUser", "DeleteAsset", "DeleteAccount", "DeletePortfolio",
              "DeleteHolding"}
GetOps    == {"GetAccount", "GetPortfolio", "GetHolding", "GetTransaction"}
AllOps    == CreateOps \cup UpdateOps \cup DeleteOps \cup GetOps

ASSUME DisjointTables ==
    /\ Users \cap (Assets \cup Accounts \cup Portfolios \cup Holdings \cup Transactions) = {}
    /\ Assets \cap (Accounts \cup Portfolios \cup Holdings \cup Transactions) = {}
    /\ Accounts \cap (Portfolios \cup Holdings \cup Transactions) = {}
    /\ Portfolios \cap (Holdings \cup Transactions) = {}
    /\ Holdings \cap Transactions = {}
ASSUME IdsAssumption ==
    NULL \notin Rows \cup Malformed \cup Emails /\ Malformed \cap Rows = {}
ASSUME SeededAssumption == Seeded \subseteq Users \cup Assets
ASSUME OperationsAssumption == Operations \cup Incomplete \subseteq AllOps
ASSUME StatusesAssumption == Statuses \subseteq TransactionStatus
ASSUME FlawsAssumption == Flaws \subseteq Flaw
ASSUME FaultsAssumption == Faults \subseteq {"statement", "reply", "crash"}

(* The rows an operation creates or addresses.                             *)
Table(op) ==
    CASE op \in {"CreateUser", "UpdateUser", "DeleteUser"} -> Users
      [] op \in {"CreateAsset", "DeleteAsset"} -> Assets
      [] op \in {"CreateAccount", "GetAccount", "UpdateAccount", "DeleteAccount"} -> Accounts
      [] op \in {"CreatePortfolio", "GetPortfolio", "UpdatePortfolio", "DeletePortfolio"} -> Portfolios
      [] op \in {"CreateHolding", "GetHolding", "UpdateHolding", "DeleteHolding"} -> Holdings
      [] op \in {"CreateTransaction", "GetTransaction", "UpdateTransaction"} -> Transactions
-----------------------------------------------------------------------------
VARIABLES
    live,         \* the rows that exist
    born,         \* the rows that were ever inserted: uuids are not reused
    userId,       \* column user_id of accounts and portfolios
    accountId,    \* column account_id of holdings and transactions
    assetId,      \* columns asset_id of holdings, asset_transactions of transactions
    portfolioId,  \* column portfolio_id of holdings
    status,       \* column status of transactions
    email,        \* column email of users, NULL for one no request carries
    used,         \* history: the emails that users have had
    call          \* the calls in progress, NULL for none

columns == <<userId, accountId, assetId, portfolioId, status>>
emails  == <<email, used>>
db      == <<live, born, columns, emails>>
vars    == <<db, call>>

Codes == {"OK", "InvalidArgument", "NotFound", "FailedPrecondition", "Internal"}

Steps == {"user", "asset", "account", "portfolio", "write", "read"}

(* What a request carries besides the row it addresses: the rows to refer  *)
(* to, whether an update's mask has the column modelled here, a status, an *)
(* email.                                                                  *)
Request == [user : Users \cup Malformed \cup {NULL},
            account : Accounts \cup Malformed \cup {NULL},
            asset : Assets \cup Malformed \cup {NULL},
            portfolio : Portfolios \cup Malformed \cup {NULL},
            masked : BOOLEAN, status : TransactionStatus,
            email : Emails \cup {NULL}, flaw : Flaw]

Blank == [user |-> NULL, account |-> NULL, asset |-> NULL, portfolio |-> NULL,
          masked |-> FALSE, status |-> "unspecified", email |-> NULL, flaw |-> "none"]

(* A call in progress: the row it addresses (for a create, the one it has  *)
(* inserted), the steps left to do, the answer once there are none, and    *)
(* two history fields: whether its write took effect, whether a fault hit  *)
(* it.                                                                     *)
Call == [op : AllOps, row : Rows \cup {NULL}, req : Request, plan : Seq(Steps),
         answer : Codes, did : BOOLEAN, faulted : BOOLEAN]

Init ==
    /\ live = Seeded
    /\ born = Seeded
    /\ userId = [x \in Accounts \cup Portfolios |-> NULL]
    /\ accountId = [x \in Holdings \cup Transactions |-> NULL]
    /\ assetId = [x \in Holdings \cup Transactions |-> NULL]
    /\ portfolioId = [x \in Holdings |-> NULL]
    /\ status = [x \in Transactions |-> "unspecified"]
    /\ email = [x \in Users |-> NULL]
    /\ used = {}
    /\ call = [c \in Calls |-> NULL]
-----------------------------------------------------------------------------
(* Requests.                                                               *)

(* The rows of a table that a request can name: any that ever existed.     *)
Named(T) == (T \cap born) \cup Malformed

(* The bound on creates: no more are in progress than there are uuids left *)
(* for them to draw.                                                       *)
Room(op) ==
    Cardinality({d \in Calls : call[d] # NULL /\ call[d].op = op /\ ~call[d].did})
        < Cardinality(Table(op) \ born)

(* The statements an operation executes, in order.                         *)
Plan(op, req) ==
    CASE op \in {"CreateAccount", "CreatePortfolio"} -> <<"user", "write">>
      [] op = "CreateHolding" ->
            IF req.portfolio = NULL THEN <<"asset", "account", "write">>
            ELSE <<"asset", "account", "portfolio", "write">>
      [] op = "CreateTransaction" ->
            IF req.asset = NULL THEN <<"account", "write">>
            ELSE <<"account", "asset", "write">>
      [] op = "UpdateHolding" ->
            IF req.portfolio = NULL THEN <<"write", "read">>
            ELSE IF req.flaw = "twice" THEN <<"portfolio", "portfolio", "write", "read">>
            ELSE <<"portfolio", "write", "read">>
      [] op \in UpdateOps \ {"UpdateHolding", "UpdateUser"} -> <<"write", "read">>
      [] op \in GetOps -> <<"read">>
      [] OTHER -> <<"write">>

(* The flaws that are noticed by the write: a holding to create has no     *)
(* text, and of the columns that are updated only preferences may be unset.*)
FlawsOf(op, req) ==
    {f \in Flaws : \/ f = "unwritable" /\ op \in (CreateOps \cup UpdateOps) \ {"CreateHolding"}
                   \/ f = "twice" /\ op = "UpdateHolding" /\ req.masked
                   \/ f = "unset" /\ op = "UpdateUser"}

Begin(c, op, row, req) ==
    /\ call[c] = NULL
    /\ op \in Operations
    /\ op \in CreateOps => Room(op)
    /\ \E f \in {"none"} \cup FlawsOf(op, req) :
          LET r == [req EXCEPT !.flaw = f]
          IN  call' = [call EXCEPT ![c] =
                         [op |-> op, row |-> row, req |-> r, plan |-> Plan(op, r),
                          answer |-> "OK", did |-> FALSE, faulted |-> FALSE]]
    /\ UNCHANGED db

Invoke(c) ==
    \/ \E e \in Emails : Begin(c, "CreateUser", NULL, [Blank EXCEPT !.email = e])
    \/ Begin(c, "CreateAsset", NULL, Blank)
    \/ \E op \in {"CreateAccount", "CreatePortfolio"}, u \in Named(Users) :
          Begin(c, op, NULL, [Blank EXCEPT !.user = u])
    \/ \E n \in Named(Accounts), a \in Named(Assets), p \in Named(Portfolios) \cup {NULL} :
          Begin(c, "CreateHolding", NULL,
                [Blank EXCEPT !.account = n, !.asset = a, !.portfolio = p])
    \/ \E n \in Named(Accounts), a \in Named(Assets) \cup {NULL}, s \in Statuses :
          Begin(c, "CreateTransaction", NULL,
                [Blank EXCEPT !.account = n, !.asset = a, !.status = s])
    \/ \E x \in Users \cap born, e \in Emails :
          Begin(c, "UpdateUser", x, [Blank EXCEPT !.masked = TRUE, !.email = e])
    \/ \E x \in Holdings \cap born, p \in Named(Portfolios) \cup {NULL} :
          Begin(c, "UpdateHolding", x, [Blank EXCEPT !.masked = TRUE, !.portfolio = p])
    \/ \E x \in Transactions \cap born, s \in Statuses :
          Begin(c, "UpdateTransaction", x, [Blank EXCEPT !.masked = TRUE, !.status = s])
    \/ \E op \in UpdateOps \cup DeleteOps \cup GetOps :
          \E x \in Table(op) \cap born : Begin(c, op, x, Blank)

(* A request that lacks what its operation requires, or whose own id is no *)
(* uuid, is answered before any statement runs.                            *)
Reject(c) ==
    /\ call[c] = NULL
    /\ \E op \in Incomplete :
          call' = [call EXCEPT ![c] =
                     [op |-> op, row |-> NULL, req |-> [Blank EXCEPT !.flaw = "incomplete"],
                      plan |-> << >>, answer |-> "InvalidArgument",
                      did |-> FALSE, faulted |-> FALSE]]
    /\ UNCHANGED db

(* The call in c is about to execute the statement s.                      *)
At(c, s) == call[c] # NULL /\ call[c].plan # << >> /\ Head(call[c].plan) = s

Answered(c) == call[c] # NULL /\ call[c].plan = << >>

(* How a statement leaves the call: with the next one to do, with its      *)
(* write done, or answered with an error.                                  *)
Proceed(c) == call' = [call EXCEPT ![c].plan = Tail(@)]
Written(c) == call' = [call EXCEPT ![c].plan = Tail(@), ![c].did = TRUE]
Answer(c, code) == call' = [call EXCEPT ![c].plan = << >>, ![c].answer = code]

(* The call in c is about to write what can be written.                    *)
AtWrite(c, op) ==
    At(c, "write") /\ call[c].op = op /\ call[c].req.flaw \in {"none", "unset"}

(* The client has its answer.                                              *)
Return(c) ==
    /\ Answered(c)
    /\ call' = [call EXCEPT ![c] = NULL]
    /\ UNCHANGED db
-----------------------------------------------------------------------------
(* Lookups of internal ids.                                                *)

Lookup(c, id) ==
    /\ \/ id \in Malformed /\ Answer(c, "InvalidArgument")
       \/ id \in live /\ Proceed(c)
       \/ id \in Rows \ live /\ Answer(c, "NotFound")
    /\ UNCHANGED db

GetUserInternalID(c)      == At(c, "user") /\ Lookup(c, call[c].req.user)
GetAssetInternalID(c)     == At(c, "asset") /\ Lookup(c, call[c].req.asset)
GetAccountInternalID(c)   == At(c, "account") /\ Lookup(c, call[c].req.account)
GetPortfolioInternalID(c) == At(c, "portfolio") /\ Lookup(c, call[c].req.portfolio)
-----------------------------------------------------------------------------
(* A write that the database refuses whatever it holds, or for which there *)
(* is no statement.                                                        *)
Unwritable(c) ==
    /\ At(c, "write")
    /\ call[c].req.flaw \in {"unwritable", "twice"}
    /\ Answer(c, "Internal")
    /\ UNCHANGED db

(* Another user has the email that the request carries.                    *)
EmailTaken(c) ==
    \E u \in (live \cap Users) \ {call[c].row} :
       email[u] = call[c].req.email /\ email[u] # NULL

(* The email of user x is that of the request.                             *)
SetEmail(c, x) ==
    /\ email' = [email EXCEPT ![x] = call[c].req.email]
    /\ used' = used \cup {call[c].req.email}
-----------------------------------------------------------------------------
(* INSERT of a row x, whose uuid was never drawn before.  The foreign keys *)
(* refuse it when one of its parents is gone.                              *)

Parents(k) == {k.req.user, k.req.account, k.req.asset, k.req.portfolio} \ {NULL}

Insert(c, op, x) ==
    /\ AtWrite(c, op)
    /\ Parents(call[c]) \subseteq live
    /\ live' = live \cup {x}
    /\ born' = born \cup {x}
    /\ call' = [call EXCEPT ![c].plan = Tail(@), ![c].did = TRUE, ![c].row = x]

InsertUser(c) ==
    /\ AtWrite(c, "CreateUser") /\ ~EmailTaken(c)
    /\ \E x \in Users \ born :
          Insert(c, "CreateUser", x) /\ SetEmail(c, x) /\ UNCHANGED columns

InsertAsset(c) ==
    \E x \in Assets \ born :
       Insert(c, "CreateAsset", x) /\ UNCHANGED <<columns, emails>>

InsertAccount(c) ==
    \E x \in Accounts \ born :
       /\ Insert(c, "CreateAccount", x)
       /\ userId' = [userId EXCEPT ![x] = call[c].req.user]
       /\ UNCHANGED <<accountId, assetId, portfolioId, status, emails>>

InsertPortfolio(c) ==
    \E x \in Portfolios \ born :
       /\ Insert(c, "CreatePortfolio", x)
       /\ userId' = [userId EXCEPT ![x] = call[c].req.user]
       /\ UNCHANGED <<accountId, assetId, portfolioId, status, emails>>

(* Mutant of InsertHolding: account and asset are swapped.                 *)
InsertHoldingSwapped(c) ==
    \E x \in Holdings \ born :
       /\ Insert(c, "CreateHolding", x)
       /\ accountId' = [accountId EXCEPT ![x] = call[c].req.asset]
       /\ assetId' = [assetId EXCEPT ![x] = call[c].req.account]
       /\ portfolioId' = [portfolioId EXCEPT ![x] = call[c].req.portfolio]
       /\ UNCHANGED <<userId, status, emails>>

InsertHolding(c) ==
    \E x \in Holdings \ born :
       /\ Insert(c, "CreateHolding", x)
       /\ accountId' = [accountId EXCEPT ![x] = call[c].req.account]
       /\ assetId' = [assetId EXCEPT ![x] = call[c].req.asset]
       /\ portfolioId' = [portfolioId EXCEPT ![x] = call[c].req.portfolio]
       /\ UNCHANGED <<userId, status, emails>>

(* A transaction without a status is pending.                              *)
InsertTransaction(c) ==
    \E x \in Transactions \ born :
       /\ Insert(c, "CreateTransaction", x)
       /\ accountId' = [accountId EXCEPT ![x] = call[c].req.account]
       /\ assetId' = [assetId EXCEPT ![x] = call[c].req.asset]
       /\ status' = [status EXCEPT ![x] =
                       IF call[c].req.status = "unspecified" THEN "pending"
                       ELSE call[c].req.status]
       /\ UNCHANGED <<userId, portfolioId, emails>>

InsertRefused(c) ==
    /\ At(c, "write")
    /\ call[c].op \in CreateOps
    /\ call[c].req.flaw = "none"
    /\ ~(Parents(call[c]) \subseteq live) \/ EmailTaken(c)
    /\ Answer(c, "FailedPrecondition")
    /\ UNCHANGED db
-----------------------------------------------------------------------------
(* UPDATE ... WHERE uuid.                                                  *)

Update(c, op) ==
    /\ AtWrite(c, op)
    /\ call[c].row \in live
    /\ Written(c)
    /\ UNCHANGED <<live, born>>

UpdateUser(c) ==
    /\ Update(c, "UpdateUser")
    /\ call[c].req.flaw = "none" /\ ~EmailTaken(c)
    /\ IF call[c].req.masked THEN SetEmail(c, call[c].row) ELSE UNCHANGED emails
    /\ UNCHANGED columns

(* Any constraint that an update of a user violates is taken for that of   *)
(* the email.                                                              *)
UserRefused(c) ==
    /\ AtWrite(c, "UpdateUser")
    /\ call[c].row \in live
    /\ call[c].req.flaw = "unset" \/ EmailTaken(c)
    /\ Answer(c, "FailedPrecondition")
    /\ UNCHANGED db

UpdateAccount(c) ==
    Update(c, "UpdateAccount") /\ UNCHANGED <<columns, emails>>

UpdatePortfolio(c) ==
    Update(c, "UpdatePortfolio") /\ UNCHANGED <<columns, emails>>

(* Mutant of UpdateHolding: the lookup of the portfolio is relied upon.    *)
UpdateHoldingUnchecked(c) ==
    /\ Update(c, "UpdateHolding")
    /\ portfolioId' = IF call[c].req.masked
                      THEN [portfolioId EXCEPT ![call[c].row] = call[c].req.portfolio]
                      ELSE portfolioId
    /\ UNCHANGED <<userId, accountId, assetId, status, emails>>

UpdateHolding(c) ==
    /\ Update(c, "UpdateHolding")
    /\ Parents(call[c]) \subseteq live
    /\ portfolioId' = IF call[c].req.masked
                      THEN [portfolioId EXCEPT ![call[c].row] = call[c].req.portfolio]
                      ELSE portfolioId
    /\ UNCHANGED <<userId, accountId, assetId, status, emails>>

(* The foreign key's refusal is not recognised: it is an internal error.   *)
MoveRefused(c) ==
    /\ AtWrite(c, "UpdateHolding")
    /\ call[c].row \in live
    /\ ~(Parents(call[c]) \subseteq live)
    /\ Answer(c, "Internal")
    /\ UNCHANGED db

UpdateTransaction(c) ==
    /\ Update(c, "UpdateTransaction")
    /\ status' = IF call[c].req.masked
                 THEN [status EXCEPT ![call[c].row] = call[c].req.status]
                 ELSE status
    /\ UNCHANGED <<userId, accountId, assetId, portfolioId, emails>>
-----------------------------------------------------------------------------
(* DELETE ... WHERE uuid.  A row is protected by those that refer to it    *)
(* (NO ACTION), except that a portfolio is unlinked from its holdings and  *)
(* an asset from its transactions (SET NULL).                              *)

References(x) ==
    CASE x \in Accounts \cup Portfolios -> {userId[x]}
      [] x \in Holdings -> {accountId[x], assetId[x]}
      [] x \in Transactions -> {accountId[x]}
      [] OTHER -> {}

Referrers(x) == {y \in live : x \in References(y)}

Delete(c, op) ==
    /\ At(c, "write")
    /\ call[c].op = op
    /\ call[c].row \in live
    /\ Referrers(call[c].row) = {}
    /\ live' = live \ {call[c].row}
    /\ Written(c)
    /\ UNCHANGED <<born, used>>

DeleteUser(c) ==
    /\ Delete(c, "DeleteUser")
    /\ email' = [email EXCEPT ![call[c].row] = NULL]
    /\ UNCHANGED columns

(* Mutant of DeleteAsset: the transactions keep the asset.                 *)
DeleteAssetKeepsLinks(c) ==
    Delete(c, "DeleteAsset") /\ UNCHANGED <<columns, email>>

DeleteAsset(c) ==
    /\ Delete(c, "DeleteAsset")
    /\ assetId' = [x \in Holdings \cup Transactions |->
                     IF assetId[x] = call[c].row THEN NULL ELSE assetId[x]]
    /\ UNCHANGED <<userId, accountId, portfolioId, status, email>>

(* Mutant of DeleteAccount: its transactions go with it (ON DELETE CASCADE).*)
DeleteAccountCascades(c) ==
    /\ At(c, "write")
    /\ call[c].op = "DeleteAccount"
    /\ call[c].row \in live
    /\ Referrers(call[c].row) \subseteq Transactions
    /\ live' = live \ (Referrers(call[c].row) \cup {call[c].row})
    /\ userId' = [userId EXCEPT ![call[c].row] = NULL]
    /\ Written(c)
    /\ UNCHANGED <<born, accountId, assetId, portfolioId, status, emails>>

DeleteAccount(c) ==
    /\ Delete(c, "DeleteAccount")
    /\ userId' = [userId EXCEPT ![call[c].row] = NULL]
    /\ UNCHANGED <<accountId, assetId, portfolioId, status, email>>

(* Mutant of DeletePortfolio: its holdings go with it.                     *)
DeletePortfolioCascades(c) ==
    /\ At(c, "write")
    /\ call[c].op = "DeletePortfolio"
    /\ call[c].row \in live
    /\ live' = live \ ({call[c].row} \cup
                          {x \in Holdings : portfolioId[x] = call[c].row})
    /\ userId' = [userId EXCEPT ![call[c].row] = NULL]
    /\ Written(c)
    /\ UNCHANGED <<born, accountId, assetId, portfolioId, status, emails>>

DeletePortfolio(c) ==
    /\ Delete(c, "DeletePortfolio")
    /\ userId' = [userId EXCEPT ![call[c].row] = NULL]
    /\ portfolioId' = [x \in Holdings |->
                         IF portfolioId[x] = call[c].row THEN NULL ELSE portfolioId[x]]
    /\ UNCHANGED <<accountId, assetId, status, email>>

DeleteHolding(c) ==
    /\ Delete(c, "DeleteHolding")
    /\ accountId' = [accountId EXCEPT ![call[c].row] = NULL]
    /\ assetId' = [assetId EXCEPT ![call[c].row] = NULL]
    /\ portfolioId' = [portfolioId EXCEPT ![call[c].row] = NULL]
    /\ UNCHANGED <<userId, status, email>>

DeleteRefused(c) ==
    /\ At(c, "write")
    /\ call[c].op \in DeleteOps
    /\ call[c].row \in live
    /\ Referrers(call[c].row) # {}
    /\ Answer(c, "FailedPrecondition")
    /\ UNCHANGED db

(* Mutant of RowMissing: the number of rows affected is not looked at.     *)
RowMissingUnnoticed(c) ==
    /\ At(c, "write")
    /\ call[c].op \in UpdateOps \cup DeleteOps
    /\ call[c].req.flaw \in {"none", "unset"}
    /\ call[c].row \notin live
    /\ Proceed(c)
    /\ UNCHANGED db

(* Mutant of RowMissing: it is taken for a failure of the database.        *)
RowMissingInternal(c) ==
    /\ At(c, "write")
    /\ call[c].op \in UpdateOps \cup DeleteOps
    /\ call[c].req.flaw \in {"none", "unset"}
    /\ call[c].row \notin live
    /\ Answer(c, "Internal")
    /\ UNCHANGED db

(* An UPDATE or a DELETE that affects no row.                              *)
RowMissing(c) ==
    /\ At(c, "write")
    /\ call[c].op \in UpdateOps \cup DeleteOps
    /\ call[c].req.flaw \in {"none", "unset"}
    /\ call[c].row \notin live
    /\ Answer(c, "NotFound")
    /\ UNCHANGED db
-----------------------------------------------------------------------------
(* SELECT ... JOIN the rows referred to ... WHERE uuid: what a Get answers,*)
(* and an update once it is written.                                       *)

(* Mutant of Read: a holding is joined with its portfolio, linked or not.  *)
ReadInnerJoins(c, T) ==
    /\ At(c, "read")
    /\ call[c].row \in T
    /\ IF /\ call[c].row \in live
          /\ References(call[c].row) \subseteq live
          /\ call[c].row \in Holdings => portfolioId[call[c].row] \in live
       THEN Proceed(c) ELSE Answer(c, "NotFound")
    /\ UNCHANGED db

Read(c, T) ==
    /\ At(c, "read")
    /\ call[c].row \in T
    /\ IF call[c].row \in live /\ References(call[c].row) \subseteq live
       THEN Proceed(c) ELSE Answer(c, "NotFound")
    /\ UNCHANGED db

GetAccount(c)     == Read(c, Accounts)
GetPortfolio(c)   == Read(c, Portfolios)
GetHolding(c)     == Read(c, Holdings)
GetTransaction(c) == Read(c, Transactions)
-----------------------------------------------------------------------------
(* Faults.                                                                 *)

Hit(c) == call' = [call EXCEPT ![c].plan = << >>, ![c].answer = "Internal",
                               ![c].faulted = TRUE]

(* A statement fails, or the request's context ends, before it runs.       *)
StatementFails(c) ==
    /\ "statement" \in Faults
    /\ call[c] # NULL /\ call[c].plan # << >>
    /\ Head(call[c].plan) \notin {"write", "read"}
          => call[c].req[Head(call[c].plan)] \notin Malformed
    /\ Hit(c)
    /\ UNCHANGED db

(* A write is committed and its acknowledgement lost.                      *)
ReplyLost(c) ==
    /\ "reply" \in Faults
    /\ Answered(c) /\ call[c].did
    /\ call[c].op \in CreateOps \cup DeleteOps \cup {"UpdateUser"}
    /\ Hit(c)
    /\ UNCHANGED db

(* The server stops and starts again; the database stays.                  *)
Crash ==
    /\ "crash" \in Faults
    /\ call' = [c \in Calls |-> NULL]
    /\ UNCHANGED db
-----------------------------------------------------------------------------
LookupStep(c) == \/ GetUserInternalID(c) \/ GetAssetInternalID(c)
                 \/ GetAccountInternalID(c) \/ GetPortfolioInternalID(c)

InsertStep(c) == \/ InsertUser(c) \/ InsertAsset(c) \/ InsertAccount(c)
                 \/ InsertPortfolio(c) \/ InsertHolding(c) \/ InsertTransaction(c)
                 \/ InsertRefused(c)

UpdateStep(c) == \/ UpdateUser(c) \/ UserRefused(c) \/ UpdateAccount(c)
                 \/ UpdatePortfolio(c) \/ UpdateHolding(c) \/ MoveRefused(c)
                 \/ UpdateTransaction(c)

DeleteStep(c) == \/ DeleteUser(c) \/ DeleteAsset(c) \/ DeleteAccount(c)
                 \/ DeletePortfolio(c) \/ DeleteHolding(c) \/ DeleteRefused(c)

ReadStep(c) == GetAccount(c) \/ GetPortfolio(c) \/ GetHolding(c) \/ GetTransaction(c)

Statement(c) == \/ LookupStep(c) \/ InsertStep(c) \/ UpdateStep(c)
                \/ DeleteStep(c) \/ RowMissing(c) \/ Unwritable(c) \/ ReadStep(c)

Next == \/ \E c \in Calls : \/ Invoke(c) \/ Reject(c) \/ Return(c) \/ Statement(c)
                            \/ StatementFails(c) \/ ReplyLost(c)
        \/ Crash

Spec == Init /\ [][Next]_vars
-----------------------------------------------------------------------------
TypeOK ==
    /\ live \subseteq born
    /\ born \subseteq Rows
    /\ userId \in [Accounts \cup Portfolios -> Users \cup {NULL}]
    /\ accountId \in [Holdings \cup Transactions -> Accounts \cup {NULL}]
    /\ assetId \in [Holdings \cup Transactions -> Assets \cup {NULL}]
    /\ portfolioId \in [Holdings -> Portfolios \cup {NULL}]
    /\ status \in [Transactions -> TransactionStatus]
    /\ used \subseteq Emails
    /\ email \in [Users -> used \cup {NULL}]
    /\ call \in [Calls -> Call \cup {NULL}]

(* Whatever calls interleave, and wherever they fail, every row refers to  *)
(* rows that exist: the lookups alone would not ensure it, since the row   *)
(* found may be deleted before the write.                                  *)
ReferentialIntegrity ==
    /\ \A x \in live : References(x) \subseteq live
    /\ \A x \in live \cap Holdings : portfolioId[x] \in live \cup {NULL}
    /\ \A x \in live \cap Transactions : assetId[x] \in live \cup {NULL}

(* An error says what is true of the request: "not found", and "failed     *)
(* precondition" of a create, that a row it named does not exist, or that  *)
(* the email it asked for was another user's - which for UpdateUser may    *)
(* also be preferences of no value; "invalid argument", that the request   *)
(* was.  No interleaving makes a call with good ids fail, and no row that  *)
(* exists is hidden by the joins of its SELECT.                            *)
ErrorsAreTruthful ==
    \A c \in Calls : Answered(c) =>
       LET k == call[c] IN
       /\ k.answer = "NotFound" =>
             ~(Parents(k) \cup (IF k.op \in CreateOps THEN {} ELSE {k.row}) \subseteq live)
       /\ k.answer = "FailedPrecondition" =>
             /\ k.op = "CreateUser" => k.req.email \in used
             /\ k.op = "UpdateUser" => k.req.email \in used \/ k.req.flaw = "unset"
             /\ k.op \in CreateOps \ {"CreateUser"} => ~(Parents(k) \subseteq live)
       /\ k.answer = "InvalidArgument" =>
             Parents(k) \cap Malformed # {} \/ k.req.flaw = "incomplete"

(* A write answered with an error has changed nothing that is still there, *)
(* and one answered OK has taken effect: only a failure of the call's own  *)
(* last read, or of its acknowledgement, makes an error of a write that    *)
(* stays, never one of another call.                                       *)
AnswerMatchesEffect ==
    \A c \in Calls : Answered(c) =>
       LET k == call[c] IN
       /\ k.answer = "OK" /\ k.op \notin GetOps => k.did
       /\ k.answer # "OK" /\ k.did => k.row \notin live \/ k.faulted

(* An internal error stands for a failure of the database, or for what the *)
(* request itself would write, never for what other calls do meanwhile -   *)
(* but for one race: a holding is moved to a portfolio that is deleted     *)
(* after its lookup.                                                       *)
InternalMeansFault ==
    \A c \in Calls : Answered(c) /\ call[c].answer = "Internal" =>
       \/ call[c].faulted
       \/ call[c].req.flaw \in {"unwritable", "twice"}
       \/ call[c].op = "UpdateHolding" /\ call[c].req.portfolio \in born \ live

(* A holding leaves the books only by its own deletion, never along with   *)
(* its portfolio, and stays in its account and its asset.                  *)
HoldingsSurvive ==
    [][\A x \in live \cap Holdings :
          \/ /\ x \in live'
             /\ accountId'[x] = accountId[x]
             /\ assetId'[x] = assetId[x]
          \/ \E c \in Calls : call[c] # NULL /\ call[c].op = "DeleteHolding"
                                           /\ call[c].row = x]_vars

(* The transactions of an account are permanent: none is ever deleted or   *)
(* moved, so neither its account nor the account's user can be.            *)
TransactionsArePermanent ==
    [][\A x \in live \cap Transactions :
          /\ x \in live'
          /\ accountId'[x] = accountId[x]
          /\ userId[accountId[x]] \in live']_vars

=============================================================================
