------------------------- MODULE PortfolioStoreProofs -------------------------
(* Proofs about PortfolioStore, for any tables, calls, operations and      *)
(* faults.                                                                 *)
EXTENDS PortfolioLedger, TLAPS

(* What a call still in progress may rely on: the rows its request had to  *)
(* name were named, and the row it addresses is one of its table.          *)
WellFormed(k) ==
    /\ k.op \in {"CreateAccount", "CreatePortfolio"} => k.req.user # NULL
    /\ k.op = "CreateHolding" => k.req.account # NULL /\ k.req.asset # NULL
    /\ k.op = "CreateTransaction" => k.req.account # NULL
    /\ k.op = "CreateUser" => k.req.email # NULL
    /\ k.op = "UpdateUser" /\ k.req.masked => k.req.email # NULL
    /\ k.op \notin CreateOps => k.row \in Table(k.op)

CallsWellFormed ==
    \A c \in Calls : call[c] # NULL /\ call[c].plan # << >> => WellFormed(call[c])

CallsOK == call \in [Calls -> Call \cup {NULL}] /\ CallsWellFormed

(* The inductive invariant.  It says nothing of the tables but their types: *)
(* a write relies on what its request carries and on the foreign keys, not *)
(* on what other calls did before.                                         *)
IInv == TypeOK /\ CallsWellFormed

-----------------------------------------------------------------------------
(* The plan of each operation is a sequence of statements.                 *)
LEMMA PlanType ==
    ASSUME NEW op \in AllOps, NEW req
    PROVE  Plan(op, req) \in Seq(Steps)
<1>1. /\ <<"user", "write">> \in Seq(Steps)
      /\ <<"asset", "account", "write">> \in Seq(Steps)
      /\ <<"asset", "account", "portfolio", "write">> \in Seq(Steps)
      /\ <<"account", "write">> \in Seq(Steps)
      /\ <<"account", "asset", "write">> \in Seq(Steps)
      /\ <<"portfolio", "write", "read">> \in Seq(Steps)
      /\ <<"portfolio", "portfolio", "write", "read">> \in Seq(Steps)
      /\ <<"write", "read">> \in Seq(Steps)
      /\ <<"read">> \in Seq(Steps)
      /\ <<"write">> \in Seq(Steps)
  BY DEF Steps
<1>2. QED
  BY <1>1, Zenon DEF Plan, AllOps, CreateOps, UpdateOps, DeleteOps, GetOps

(* Each operation is about one table.                                      *)
LEMMA TableType ==
    ASSUME NEW op \in AllOps
    PROVE  /\ Table(op) \subseteq Rows
           /\ op = "UpdateHolding" => Table(op) = Holdings
           /\ op = "UpdateTransaction" => Table(op) = Transactions
           /\ op = "DeleteUser" => Table(op) = Users
           /\ op = "DeleteAsset" => Table(op) = Assets
           /\ op = "DeleteAccount" => Table(op) = Accounts
           /\ op = "DeletePortfolio" => Table(op) = Portfolios
           /\ op = "DeleteHolding" => Table(op) = Holdings
  BY DEF Table, Rows, AllOps, CreateOps, UpdateOps, DeleteOps, GetOps

-----------------------------------------------------------------------------
(* The calls.  Whatever a step does to its call leaves all of them typed   *)
(* and well formed.                                                        *)

(* A call that begins is well formed if its request has what its creation  *)
(* asks for, whatever its flaw.                                            *)
LEMMA BeginOK ==
    ASSUME TypeOK, CallsWellFormed, NEW c \in Calls,
           NEW op \in AllOps, NEW row \in Rows \cup {NULL}, NEW req \in Request,
           op \in {"CreateAccount", "CreatePortfolio"} => req.user # NULL,
           op = "CreateHolding" => req.account # NULL /\ req.asset # NULL,
           op = "CreateTransaction" => req.account # NULL,
           op = "CreateUser" => req.email # NULL,
           op = "UpdateUser" /\ req.masked => req.email # NULL,
           op \notin CreateOps => row \in Table(op),
           Begin(c, op, row, req)
    PROVE  CallsOK'
<1>0. PICK f \in {"none"} \cup FlawsOf(op, req) :
        LET r == [req EXCEPT !.flaw = f]
        IN  call' = [call EXCEPT ![c] =
                       [op |-> op, row |-> row, req |-> r, plan |-> Plan(op, r),
                        answer |-> "OK", did |-> FALSE, faulted |-> FALSE]]
  BY DEF Begin
<1> DEFINE r == [req EXCEPT !.flaw = f]
           k == [op |-> op, row |-> row, req |-> r, plan |-> Plan(op, r),
                 answer |-> "OK", did |-> FALSE, faulted |-> FALSE]
<1>4. /\ r \in Request /\ r.user = req.user /\ r.account = req.account
      /\ r.asset = req.asset /\ r.email = req.email /\ r.masked = req.masked
  BY FlawsAssumption DEF FlawsOf, Flaw, Request
<1>3. call' = [call EXCEPT ![c] = k]
  BY <1>0
<1> HIDE DEF r
<1>1. k \in Call
  BY <1>4, PlanType DEF Call, Codes
<1>2. WellFormed(k)
  BY <1>4 DEF WellFormed
<1> HIDE DEF k
<1>. QED  BY <1>1, <1>2, <1>3 DEF TypeOK, CallsOK, CallsWellFormed

(* A request that is accepted makes a well-formed call.                    *)
LEMMA InvokeOK ==
    ASSUME TypeOK, CallsWellFormed, NEW c \in Calls, Invoke(c)
    PROVE  CallsOK'
<1>1. Blank \in Request /\ ~Blank.masked
  BY DEF Blank, Request, TransactionStatus, Flaw
<1>2. NULL \notin Named(Users) \cup Named(Accounts) \cup Named(Assets) \cup Emails
  BY IdsAssumption DEF Named, Rows
<1>3. CASE Begin(c, "CreateAsset", NULL, Blank)
  BY <1>1, <1>3, BeginOK DEF AllOps, CreateOps
<1>10. CASE \E e \in Emails : Begin(c, "CreateUser", NULL, [Blank EXCEPT !.email = e])
  <2>1. PICK e \in Emails : Begin(c, "CreateUser", NULL, [Blank EXCEPT !.email = e])
    BY <1>10
  <2> DEFINE req == [Blank EXCEPT !.email = e]
  <2>2. req \in Request /\ req.email = e
    BY DEF Blank, Request, TransactionStatus, Flaw
  <2> HIDE DEF req
  <2>. QED  BY <1>2, <2>1, <2>2, BeginOK DEF AllOps, CreateOps, req
<1>11. CASE \E x \in Users \cap born, e \in Emails :
              Begin(c, "UpdateUser", x, [Blank EXCEPT !.masked = TRUE, !.email = e])
  <2>1. PICK x \in Users \cap born, e \in Emails :
               Begin(c, "UpdateUser", x, [Blank EXCEPT !.masked = TRUE, !.email = e])
    BY <1>11
  <2> DEFINE req == [Blank EXCEPT !.masked = TRUE, !.email = e]
  <2>2. req \in Request /\ req.email = e
    BY DEF Blank, Request, TransactionStatus, Flaw
  <2>3. x \in Rows /\ x \in Table("UpdateUser")
    BY DEF Rows, Table
  <2> HIDE DEF req
  <2>. QED  BY <1>2, <2>1, <2>2, <2>3, BeginOK DEF AllOps, UpdateOps, req
<1>4. CASE \E op \in {"CreateAccount", "CreatePortfolio"}, u \in Named(Users) :
              Begin(c, op, NULL, [Blank EXCEPT !.user = u])
  <2>1. PICK op \in {"CreateAccount", "CreatePortfolio"}, u \in Named(Users) :
               Begin(c, op, NULL, [Blank EXCEPT !.user = u])
    BY <1>4
  <2> DEFINE req == [Blank EXCEPT !.user = u]
  <2>2. req \in Request /\ req.user = u
    BY DEF Blank, Request, Named, TransactionStatus, Flaw
  <2> HIDE DEF req
  <2>. QED  BY <1>2, <2>1, <2>2, BeginOK DEF AllOps, CreateOps, req
<1>5. CASE \E n \in Named(Accounts), a \in Named(Assets),
              p \in Named(Portfolios) \cup {NULL} :
              Begin(c, "CreateHolding", NULL,
                    [Blank EXCEPT !.account = n, !.asset = a, !.portfolio = p])
  <2>1. PICK n \in Named(Accounts), a \in Named(Assets),
             p \in Named(Portfolios) \cup {NULL} :
               Begin(c, "CreateHolding", NULL,
                     [Blank EXCEPT !.account = n, !.asset = a, !.portfolio = p])
    BY <1>5
  <2> DEFINE req == [Blank EXCEPT !.account = n, !.asset = a, !.portfolio = p]
  <2>2. req \in Request /\ req.account = n /\ req.asset = a
    BY DEF Blank, Request, Named, TransactionStatus, Flaw
  <2> HIDE DEF req
  <2>. QED  BY <1>2, <2>1, <2>2, BeginOK DEF AllOps, CreateOps, req
<1>6. CASE \E n \in Named(Accounts), a \in Named(Assets) \cup {NULL}, s \in Statuses :
              Begin(c, "CreateTransaction", NULL,
                    [Blank EXCEPT !.account = n, !.asset = a, !.status = s])
  <2>1. PICK n \in Named(Accounts), a \in Named(Assets) \cup {NULL}, s \in Statuses :
               Begin(c, "CreateTransaction", NULL,
                     [Blank EXCEPT !.account = n, !.asset = a, !.status = s])
    BY <1>6
  <2> DEFINE req == [Blank EXCEPT !.account = n, !.asset = a, !.status = s]
  <2>2. req \in Request /\ req.account = n
    BY StatusesAssumption DEF Blank, Request, Named, TransactionStatus, Flaw
  <2> HIDE DEF req
  <2>. QED  BY <1>2, <2>1, <2>2, BeginOK DEF AllOps, CreateOps, req
<1>7. CASE \E x \in Holdings \cap born, p \in Named(Portfolios) \cup {NULL} :
              Begin(c, "UpdateHolding", x, [Blank EXCEPT !.masked = TRUE, !.portfolio = p])
  <2>1. PICK x \in Holdings \cap born, p \in Named(Portfolios) \cup {NULL} :
               Begin(c, "UpdateHolding", x, [Blank EXCEPT !.masked = TRUE, !.portfolio = p])
    BY <1>7
  <2> DEFINE req == [Blank EXCEPT !.masked = TRUE, !.portfolio = p]
  <2>2. req \in Request
    BY DEF Blank, Request, Named, TransactionStatus, Flaw
  <2>3. x \in Rows /\ x \in Table("UpdateHolding")
    BY DEF Rows, Table
  <2> HIDE DEF req
  <2>. QED  BY <2>1, <2>2, <2>3, BeginOK DEF AllOps, UpdateOps, req
<1>8. CASE \E x \in Transactions \cap born, s \in Statuses :
              Begin(c, "UpdateTransaction", x, [Blank EXCEPT !.masked = TRUE, !.status = s])
  <2>1. PICK x \in Transactions \cap born, s \in Statuses :
               Begin(c, "UpdateTransaction", x, [Blank EXCEPT !.masked = TRUE, !.status = s])
    BY <1>8
  <2> DEFINE req == [Blank EXCEPT !.masked = TRUE, !.status = s]
  <2>2. req \in Request
    BY StatusesAssumption DEF Blank, Request, Named, TransactionStatus, Flaw
  <2>3. x \in Rows /\ x \in Table("UpdateTransaction")
    BY DEF Rows, Table
  <2> HIDE DEF req
  <2>. QED  BY <2>1, <2>2, <2>3, BeginOK DEF AllOps, UpdateOps, req
<1>9. CASE \E op \in UpdateOps \cup DeleteOps \cup GetOps :
              \E x \in Table(op) \cap born : Begin(c, op, x, Blank)
  <2>0. PICK op \in UpdateOps \cup DeleteOps \cup GetOps :
               \E x \in Table(op) \cap born : Begin(c, op, x, Blank)
    BY <1>9
  <2>1. PICK x \in Table(op) \cap born : Begin(c, op, x, Blank)
    BY <2>0
  <2>2. op \in AllOps \ CreateOps
    BY DEF AllOps, CreateOps, UpdateOps, DeleteOps, GetOps
  <2>3. x \in Rows /\ x \in Table(op)
    BY <2>2, TableType
  <2>. QED  BY <1>1, <2>1, <2>2, <2>3, BeginOK DEF CreateOps
<1>. QED  BY <1>3, <1>4, <1>5, <1>6, <1>7, <1>8, <1>9, <1>10, <1>11 DEF Invoke

(* So does one that is refused at once.                                    *)
LEMMA RejectOK ==
    ASSUME TypeOK, CallsWellFormed, NEW c \in Calls, Reject(c)
    PROVE  CallsOK'
<1> DEFINE r == [Blank EXCEPT !.flaw = "incomplete"]
           k(op) == [op |-> op, row |-> NULL, req |-> r, plan |-> << >>,
                     answer |-> "InvalidArgument", did |-> FALSE, faulted |-> FALSE]
<1>1. PICK op \in Incomplete : call' = [call EXCEPT ![c] = k(op)]
  BY DEF Reject
<1>2. r \in Request
  BY DEF Blank, Request, TransactionStatus, Flaw
<1> HIDE DEF r
<1>3. k(op) \in Call /\ k(op).plan = << >>
  BY <1>2, OperationsAssumption DEF Call, Codes
<1> HIDE DEF k
<1>. QED  BY <1>1, <1>3 DEF TypeOK, CallsOK, CallsWellFormed

(* A statement's effect on its call.                                       *)
LEMMA StepsOK ==
    ASSUME TypeOK, CallsWellFormed, NEW c \in Calls,
           call[c] # NULL, call[c].plan # << >>
    PROVE  /\ Proceed(c) => CallsOK'
           /\ Written(c) => CallsOK'
           /\ \A code \in Codes : Answer(c, code) => CallsOK'
           /\ Hit(c) => CallsOK'
<1>1. call[c] \in Call /\ WellFormed(call[c])
  BY DEF TypeOK, CallsWellFormed
<1>2. Tail(call[c].plan) \in Seq(Steps) /\ << >> \in Seq(Steps)
  BY <1>1 DEF Call
<1>3. ASSUME Proceed(c) PROVE CallsOK'
  <2> DEFINE k == [call[c] EXCEPT !.plan = Tail(@)]
  <2>1. k \in Call /\ WellFormed(k)
    BY <1>1, <1>2 DEF Call, WellFormed
  <2>2. call' = [call EXCEPT ![c] = k]
    BY <1>3 DEF Proceed
  <2> HIDE DEF k
  <2>. QED  BY <2>1, <2>2 DEF TypeOK, CallsOK, CallsWellFormed
<1>4. ASSUME Written(c) PROVE CallsOK'
  <2> DEFINE k == [call[c] EXCEPT !.plan = Tail(@), !.did = TRUE]
  <2>1. k \in Call /\ WellFormed(k)
    BY <1>1, <1>2 DEF Call, WellFormed
  <2>2. call' = [call EXCEPT ![c] = k]
    BY <1>1, <1>4 DEF Written, Call, TypeOK
  <2> HIDE DEF k
  <2>. QED  BY <2>1, <2>2 DEF TypeOK, CallsOK, CallsWellFormed
<1>5. ASSUME NEW code \in Codes, Answer(c, code) PROVE CallsOK'
  <2> DEFINE k == [call[c] EXCEPT !.plan = << >>, !.answer = code]
  <2>1. k \in Call /\ k.plan = << >>
    BY <1>1, <1>2 DEF Call
  <2>2. call' = [call EXCEPT ![c] = k]
    BY <1>1, <1>5 DEF Answer, Call, TypeOK
  <2> HIDE DEF k
  <2>. QED  BY <2>1, <2>2 DEF TypeOK, CallsOK, CallsWellFormed
<1>6. ASSUME Hit(c) PROVE CallsOK'
  <2> DEFINE k == [call[c] EXCEPT !.plan = << >>, !.answer = "Internal", !.faulted = TRUE]
  <2>1. k \in Call /\ k.plan = << >>
    BY <1>1, <1>2 DEF Call, Codes
  <2>2. call' = [call EXCEPT ![c] = k]
    BY <1>1, <1>6 DEF Hit, Call, TypeOK
  <2> HIDE DEF k
  <2>. QED  BY <2>1, <2>2 DEF TypeOK, CallsOK, CallsWellFormed
<1>. QED  BY <1>3, <1>4, <1>5, <1>6

(* The row a write inserted becomes the row of its call.                   *)
LEMMA InsertOK ==
    ASSUME TypeOK, CallsWellFormed, NEW c \in Calls, NEW op \in CreateOps,
           NEW x \in Rows, Insert(c, op, x)
    PROVE  CallsOK'
<1>1. call[c] \in Call /\ WellFormed(call[c]) /\ call[c].op = op
  BY DEF TypeOK, CallsWellFormed, Insert, AtWrite, At
<1>2. Tail(call[c].plan) \in Seq(Steps)
  BY <1>1 DEF Call, Insert, AtWrite, At
<1> DEFINE k == [call[c] EXCEPT !.plan = Tail(@), !.did = TRUE, !.row = x]
<1>3. k \in Call /\ WellFormed(k)
  BY <1>1, <1>2 DEF Call, WellFormed
<1>4. call' = [call EXCEPT ![c] = k]
  BY <1>1 DEF Insert, Call, TypeOK
<1> HIDE DEF k
<1>. QED  BY <1>3, <1>4 DEF TypeOK, CallsOK, CallsWellFormed

(* No step leaves a call that is not well formed.                          *)
LEMMA CallsKept ==
    ASSUME TypeOK, CallsWellFormed, Next
    PROVE  CallsOK'
<1>1. CASE Crash
  BY <1>1 DEF Crash, CallsOK, CallsWellFormed
<1>2. ASSUME NEW c \in Calls, Invoke(c) PROVE CallsOK'
  BY <1>2, InvokeOK
<1>3. ASSUME NEW c \in Calls, Reject(c) PROVE CallsOK'
  BY <1>3, RejectOK
<1>4. ASSUME NEW c \in Calls, Return(c) PROVE CallsOK'
  BY <1>4 DEF Return, CallsOK, CallsWellFormed, TypeOK
<1>5. ASSUME NEW c \in Calls, LookupStep(c) PROVE CallsOK'
  <2>1. call[c] # NULL /\ call[c].plan # << >>
    BY <1>5 DEF LookupStep, GetUserInternalID, GetAssetInternalID,
                GetAccountInternalID, GetPortfolioInternalID, At
  <2>2. Proceed(c) \/ \E code \in Codes : Answer(c, code)
    BY <1>5 DEF LookupStep, GetUserInternalID, GetAssetInternalID,
                GetAccountInternalID, GetPortfolioInternalID, Lookup, Codes
  <2>. QED  BY <2>1, <2>2, StepsOK
<1>6. ASSUME NEW c \in Calls, InsertStep(c) PROVE CallsOK'
  <2>1. CASE InsertRefused(c)
    <3>1. "FailedPrecondition" \in Codes
      BY DEF Codes
    <3>. QED  BY <2>1, <3>1, StepsOK DEF InsertRefused, At
  <2>2. CASE \E op \in CreateOps, x \in Rows : Insert(c, op, x)
    BY <2>2, InsertOK
  <2>. QED
    BY <1>6, <2>1, <2>2 DEF InsertStep, InsertUser, InsertAsset, InsertAccount,
         InsertPortfolio, InsertHolding, InsertTransaction, CreateOps, Rows
<1>7. ASSUME NEW c \in Calls, UpdateStep(c) \/ DeleteStep(c) PROVE CallsOK'
  <2>1. call[c] # NULL /\ call[c].plan # << >>
    BY <1>7 DEF UpdateStep, UpdateUser, UserRefused, UpdateAccount, UpdatePortfolio,
         UpdateHolding, MoveRefused, UpdateTransaction, Update, DeleteStep, DeleteUser,
         DeleteAsset, DeleteAccount, DeletePortfolio, DeleteHolding, DeleteRefused, Delete,
         AtWrite, At
  <2>2. Written(c) \/ \E code \in Codes : Answer(c, code)
    BY <1>7 DEF UpdateStep, UpdateUser, UserRefused, UpdateAccount, UpdatePortfolio,
         UpdateHolding, MoveRefused, UpdateTransaction, Update, DeleteStep, DeleteUser,
         DeleteAsset, DeleteAccount, DeletePortfolio, DeleteHolding, DeleteRefused, Delete,
         Codes
  <2>. QED  BY <2>1, <2>2, StepsOK
<1>8. ASSUME NEW c \in Calls, RowMissing(c) \/ Unwritable(c) \/ ReadStep(c) PROVE CallsOK'
  <2>1. call[c] # NULL /\ call[c].plan # << >>
    BY <1>8 DEF RowMissing, Unwritable, ReadStep, GetAccount, GetPortfolio, GetHolding,
         GetTransaction, Read, At
  <2>2. Proceed(c) \/ \E code \in Codes : Answer(c, code)
    BY <1>8 DEF RowMissing, Unwritable, ReadStep, GetAccount, GetPortfolio, GetHolding,
         GetTransaction, Read, Codes
  <2>. QED  BY <2>1, <2>2, StepsOK
<1>9. ASSUME NEW c \in Calls, StatementFails(c) PROVE CallsOK'
  BY <1>9, StepsOK DEF StatementFails
<1>10. ASSUME NEW c \in Calls, ReplyLost(c) PROVE CallsOK'
  <2> DEFINE k == [call[c] EXCEPT !.plan = << >>, !.answer = "Internal", !.faulted = TRUE]
  <2>1. call[c] \in Call /\ << >> \in Seq(Steps)
    BY <1>10 DEF ReplyLost, Answered, TypeOK
  <2>2. k \in Call /\ k.plan = << >>
    BY <2>1 DEF Call, Codes
  <2>3. call' = [call EXCEPT ![c] = k]
    BY <1>10, <2>1 DEF ReplyLost, Hit, Call, TypeOK
  <2> HIDE DEF k
  <2>. QED  BY <2>2, <2>3 DEF TypeOK, CallsOK, CallsWellFormed
<1>. QED
  BY <1>1, <1>2, <1>3, <1>4, <1>5, <1>6, <1>7, <1>8, <1>9, <1>10 DEF Next, Statement

-----------------------------------------------------------------------------
(* The tables.                                                             *)

TablesOK ==
    /\ live \subseteq born
    /\ born \subseteq Rows
    /\ userId \in [Accounts \cup Portfolios -> Users \cup {NULL}]
    /\ accountId \in [Holdings \cup Transactions -> Accounts \cup {NULL}]
    /\ assetId \in [Holdings \cup Transactions -> Assets \cup {NULL}]
    /\ portfolioId \in [Holdings -> Portfolios \cup {NULL}]
    /\ status \in [Transactions -> TransactionStatus]

(* What each table refers to, by column.                                   *)
LEMMA ReferencesOf ==
    /\ \A x \in Accounts \cup Portfolios : References(x) = {userId[x]}
    /\ \A x \in Holdings : References(x) = {accountId[x], assetId[x]}
    /\ \A x \in Transactions : References(x) = {accountId[x]}
    /\ \A x \in Users \cup Assets : References(x) = {}
    /\ \A x \in Accounts \cup Portfolios : References(x)' = {userId[x]'}
    /\ \A x \in Holdings : References(x)' = {accountId[x]', assetId[x]'}
    /\ \A x \in Transactions : References(x)' = {accountId[x]'}
    /\ \A x \in Users \cup Assets : References(x)' = {}
<1>1. /\ \A x \in Accounts \cup Portfolios : x \notin Holdings \cup Transactions
      /\ \A x \in Holdings : x \notin Accounts \cup Portfolios \cup Transactions
      /\ \A x \in Transactions : x \notin Accounts \cup Portfolios \cup Holdings
      /\ \A x \in Users \cup Assets :
            x \notin Accounts \cup Portfolios \cup Holdings \cup Transactions
  BY DisjointTables
<1>. QED  BY <1>1 DEF References
(* What each table is tagged with, by column.                              *)
LEMMA TagsOf ==
    /\ \A x \in Holdings : Tags[x] = {portfolioId[x]} \ {NULL}
    /\ \A x \in Transactions : Tags[x] = {assetId[x]} \ {NULL}
    /\ \A x \in Users \cup Assets \cup Accounts \cup Portfolios : Tags[x] = {}
    /\ \A x \in Holdings : Tags'[x] = {portfolioId[x]'} \ {NULL}
    /\ \A x \in Transactions : Tags'[x] = {assetId[x]'} \ {NULL}
    /\ \A x \in Users \cup Assets \cup Accounts \cup Portfolios : Tags'[x] = {}
<1>1. /\ \A x \in Users \cup Assets \cup Accounts \cup Portfolios :
            x \in Rows /\ x \notin Holdings \cup Transactions
      /\ \A x \in Holdings : x \in Rows /\ x \notin Transactions
      /\ \A x \in Transactions : x \in Rows /\ x \notin Holdings
  BY DisjointTables DEF Rows
<1>. QED  BY <1>1 DEF Tags

(* Tags are a function on the rows, now and after the step.                *)
LEMMA TagsFunction ==
    Tags = [y \in Rows |-> Tags[y]] /\ Tags' = [y \in Rows |-> Tags'[y]]
  BY DEF Tags

(* A write that only touches the row x, and makes it refer to live rows,   *)
(* adds it to the ledger.                                                  *)
LEMMA AddsToLedger ==
    ASSUME NEW x \in Rows \ born, live' = live \cup {x}, born' = born \cup {x},
           References(x)' \subseteq live, Tags'[x] \subseteq live,
           \A y \in Rows \ {x} : References(y)' = References(y) /\ Tags'[y] = Tags[y]
    PROVE  L!Add(x)
<1>1. Needs' = [Needs EXCEPT ![x] = References(x)']
  BY DEF Needs
<1>2. Tags' = [Tags EXCEPT ![x] = Tags'[x]]
  BY TagsFunction
<1>. QED  BY <1>1, <1>2 DEF L!Add

(* A write that changes only what x is tagged with is a Retag.             *)
LEMMA RetagsInLedger ==
    ASSUME NEW x \in Rows \cap live, live' = live, born' = born, Tags'[x] \subseteq live,
           \A y \in Rows : References(y)' = References(y),
           \A y \in Rows \ {x} : Tags'[y] = Tags[y]
    PROVE  L!Retag(x)
<1>1. Needs' = Needs
  BY DEF Needs
<1>2. Tags' = [Tags EXCEPT ![x] = Tags'[x]]
  BY TagsFunction
<1>. QED  BY <1>1, <1>2 DEF L!Retag

(* A deletion that nothing referred to, and that takes the row out of the  *)
(* tags, removes it from the ledger.                                       *)
LEMMA RemovesFromLedger ==
    ASSUME live \subseteq Rows, NEW x \in Rows \cap live, live' = live \ {x}, born' = born,
           Referrers(x) = {},
           \A y \in (Rows \cap live) \ {x} : References(y)' = References(y),
           \A y \in Rows : Tags'[y] = IF y = x THEN {} ELSE Tags[y] \ {x}
    PROVE  \E S \in SUBSET live : L!Remove(S)
<1>1. Needs' = [y \in Rows |-> IF y \in {x} THEN {} ELSE Needs[y]]
  BY DEF Needs
<1>2. Tags' = [y \in Rows |-> IF y \in {x} THEN {} ELSE Tags[y] \ {x}]
  BY DEF Tags
<1>3. \A y \in live \ {x} : Needs[y] \cap {x} = {}
  BY DEF Needs, Referrers
<1>4. L!Remove({x})
  BY <1>1, <1>2, <1>3 DEF L!Remove
<1>. QED  BY <1>4

(* A row whose columns a step leaves alone.                                *)
LEMMA SameRow ==
    ASSUME NEW y \in Rows
    PROVE  /\ y \in Users \cup Assets =>
                References(y)' = References(y) /\ Tags'[y] = Tags[y]
           /\ y \in Accounts \cup Portfolios /\ userId'[y] = userId[y] =>
                References(y)' = References(y) /\ Tags'[y] = Tags[y]
           /\ y \in Holdings /\ accountId'[y] = accountId[y] /\ assetId'[y] = assetId[y] =>
                References(y)' = References(y)
           /\ y \in Holdings /\ portfolioId'[y] = portfolioId[y] => Tags'[y] = Tags[y]
           /\ y \in Transactions /\ accountId'[y] = accountId[y] =>
                References(y)' = References(y)
           /\ y \in Transactions /\ assetId'[y] = assetId[y] => Tags'[y] = Tags[y]
<1>1. y \in Users \cup Assets => References(y)' = References(y) /\ Tags'[y] = Tags[y]
  BY ReferencesOf, TagsOf
<1>2. ASSUME y \in Accounts \cup Portfolios, userId'[y] = userId[y]
      PROVE  References(y)' = References(y) /\ Tags'[y] = Tags[y]
  <2>1. References(y) = {userId[y]} /\ References(y)' = {userId'[y]}
    BY <1>2, ReferencesOf
  <2>2. Tags[y] = {} /\ Tags'[y] = {}
    BY <1>2, TagsOf
  <2>. QED  BY <1>2, <2>1, <2>2
<1>3. ASSUME y \in Holdings, accountId'[y] = accountId[y], assetId'[y] = assetId[y]
      PROVE  References(y)' = References(y)
  <2>1. /\ References(y) = {accountId[y], assetId[y]}
        /\ References(y)' = {accountId'[y], assetId'[y]}
    BY <1>3, ReferencesOf
  <2>. QED  BY <1>3, <2>1
<1>4. ASSUME y \in Holdings, portfolioId'[y] = portfolioId[y] PROVE Tags'[y] = Tags[y]
  BY <1>4, TagsOf
<1>5. ASSUME y \in Transactions, accountId'[y] = accountId[y]
      PROVE  References(y)' = References(y)
  <2>1. References(y) = {accountId[y]} /\ References(y)' = {accountId'[y]}
    BY <1>5, ReferencesOf
  <2>. QED  BY <1>5, <2>1
<1>6. ASSUME y \in Transactions, assetId'[y] = assetId[y] PROVE Tags'[y] = Tags[y]
  BY <1>6, TagsOf
<1>. QED  BY <1>1, <1>2, <1>3, <1>4, <1>5, <1>6

(* What a call about to write knows of the rows its request names.         *)
LEMMA WriteOK ==
    ASSUME TypeOK, CallsWellFormed, NEW c \in Calls, At(c, "write")
    PROVE  /\ call[c] \in Call /\ WellFormed(call[c])
           /\ Parents(call[c]) \subseteq live =>
                /\ call[c].req.user \in (Users \cap live) \cup {NULL}
                /\ call[c].req.account \in (Accounts \cap live) \cup {NULL}
                /\ call[c].req.asset \in (Assets \cap live) \cup {NULL}
                /\ call[c].req.portfolio \in (Portfolios \cap live) \cup {NULL}
<1>1. call[c] \in Call /\ WellFormed(call[c])
  BY DEF At, TypeOK, CallsWellFormed
<1>2. live \subseteq Rows /\ live \cap Malformed = {}
  BY IdsAssumption DEF TypeOK
<1>3. ASSUME Parents(call[c]) \subseteq live
      PROVE  /\ call[c].req.user \in (Users \cap live) \cup {NULL}
             /\ call[c].req.account \in (Accounts \cap live) \cup {NULL}
             /\ call[c].req.asset \in (Assets \cap live) \cup {NULL}
             /\ call[c].req.portfolio \in (Portfolios \cap live) \cup {NULL}
  BY <1>1, <1>2, <1>3 DEF Call, Request, Parents
<1>. QED  BY <1>1, <1>3

-----------------------------------------------------------------------------
(* Each write, as one step of the ledger.                                  *)

LedgerStep == [L!Next]_(L!lvars)

(* Users and assets refer to nothing: their INSERT adds an entry.          *)
LEMMA InsertUserOK ==
    ASSUME TypeOK, CallsWellFormed, NEW c \in Calls, InsertUser(c) \/ InsertAsset(c)
    PROVE  TablesOK' /\ LedgerStep
<1>1. PICK x \in (Users \cup Assets) \ born :
         /\ live' = live \cup {x} /\ born' = born \cup {x}
         /\ UNCHANGED columns
  BY DEF InsertUser, InsertAsset, Insert
<1>2. x \in Rows /\ References(x)' = {} /\ Tags'[x] = {}
  BY ReferencesOf, TagsOf DEF Rows
<1>3. \A y \in Rows \ {x} : References(y)' = References(y) /\ Tags'[y] = Tags[y]
  BY <1>1, SameRow DEF Rows, columns
<1>4. L!Add(x)
  BY <1>1, <1>2, <1>3, AddsToLedger
<1>5. TablesOK'
  BY <1>1, <1>2 DEF TypeOK, TablesOK, columns
<1>. QED  BY <1>2, <1>4, <1>5 DEF LedgerStep, L!Next

(* The INSERT of an account or a portfolio, whose user the foreign key     *)
(* finds.                                                                  *)
LEMMA InsertAccountOK ==
    ASSUME TypeOK, CallsWellFormed, NEW c \in Calls, InsertAccount(c) \/ InsertPortfolio(c)
    PROVE  TablesOK' /\ LedgerStep
<1>1. PICK x \in (Accounts \cup Portfolios) \ born :
         /\ live' = live \cup {x} /\ born' = born \cup {x}
         /\ At(c, "write") /\ Parents(call[c]) \subseteq live
         /\ call[c].op \in {"CreateAccount", "CreatePortfolio"}
         /\ userId' = [userId EXCEPT ![x] = call[c].req.user]
         /\ UNCHANGED <<accountId, assetId, portfolioId, status>>
  BY DEF InsertAccount, InsertPortfolio, Insert, AtWrite
<1>2. call[c].req.user \in Users \cap live
  BY <1>1, WriteOK DEF WellFormed
<1>3. x \in Rows /\ References(x)' \subseteq live /\ Tags'[x] = {}
  BY <1>1, <1>2, ReferencesOf, TagsOf DEF Rows, TypeOK
<1>4. \A y \in Rows \ {x} : References(y)' = References(y) /\ Tags'[y] = Tags[y]
  BY <1>1, SameRow DEF Rows, TypeOK
<1>5. L!Add(x)
  BY <1>1, <1>3, <1>4, AddsToLedger
<1>6. TablesOK'
  BY <1>1, <1>2, <1>3 DEF TypeOK, TablesOK
<1>. QED  BY <1>3, <1>5, <1>6 DEF LedgerStep, L!Next

(* The INSERT of a holding, with its account, asset and portfolio.         *)
LEMMA InsertHoldingOK ==
    ASSUME TypeOK, CallsWellFormed, NEW c \in Calls, InsertHolding(c)
    PROVE  TablesOK' /\ LedgerStep
<1>1. PICK x \in Holdings \ born :
         /\ live' = live \cup {x} /\ born' = born \cup {x}
         /\ At(c, "write") /\ Parents(call[c]) \subseteq live
         /\ call[c].op = "CreateHolding"
         /\ accountId' = [accountId EXCEPT ![x] = call[c].req.account]
         /\ assetId' = [assetId EXCEPT ![x] = call[c].req.asset]
         /\ portfolioId' = [portfolioId EXCEPT ![x] = call[c].req.portfolio]
         /\ UNCHANGED <<userId, status>>
  BY DEF InsertHolding, Insert, AtWrite
<1>2. /\ call[c].req.account \in Accounts \cap live
      /\ call[c].req.asset \in Assets \cap live
      /\ call[c].req.portfolio \in (Portfolios \cap live) \cup {NULL}
  BY <1>1, WriteOK DEF WellFormed
<1>3. x \in Rows /\ References(x)' \subseteq live /\ Tags'[x] \subseteq live
  BY <1>1, <1>2, ReferencesOf, TagsOf DEF Rows, TypeOK
<1>4. \A y \in Rows \ {x} : References(y)' = References(y) /\ Tags'[y] = Tags[y]
  BY <1>1, SameRow DEF Rows, TypeOK
<1>5. L!Add(x)
  BY <1>1, <1>3, <1>4, AddsToLedger
<1>6. TablesOK'
  BY <1>1, <1>2, <1>3 DEF TypeOK, TablesOK
<1>. QED  BY <1>3, <1>5, <1>6 DEF LedgerStep, L!Next

(* The INSERT of a transaction, with its account and asset.                *)
LEMMA InsertTransactionOK ==
    ASSUME TypeOK, CallsWellFormed, NEW c \in Calls, InsertTransaction(c)
    PROVE  TablesOK' /\ LedgerStep
<1>1. PICK x \in Transactions \ born :
         /\ live' = live \cup {x} /\ born' = born \cup {x}
         /\ At(c, "write") /\ Parents(call[c]) \subseteq live
         /\ call[c].op = "CreateTransaction"
         /\ accountId' = [accountId EXCEPT ![x] = call[c].req.account]
         /\ assetId' = [assetId EXCEPT ![x] = call[c].req.asset]
         /\ status' = [status EXCEPT ![x] =
                         IF call[c].req.status = "unspecified" THEN "pending"
                         ELSE call[c].req.status]
         /\ UNCHANGED <<userId, portfolioId>>
  BY DEF InsertTransaction, Insert, AtWrite
<1>2. /\ call[c].req.account \in Accounts \cap live
      /\ call[c].req.asset \in (Assets \cap live) \cup {NULL}
      /\ call[c].req.status \in TransactionStatus /\ "pending" \in TransactionStatus
  BY <1>1, WriteOK DEF WellFormed, Call, Request, TransactionStatus
<1>3. x \in Rows /\ References(x)' \subseteq live /\ Tags'[x] \subseteq live
  BY <1>1, <1>2, ReferencesOf, TagsOf DEF Rows, TypeOK
<1>4. \A y \in Rows \ {x} : References(y)' = References(y) /\ Tags'[y] = Tags[y]
  BY <1>1, SameRow DEF Rows, TypeOK
<1>5. L!Add(x)
  BY <1>1, <1>3, <1>4, AddsToLedger
<1>6. TablesOK'
  BY <1>1, <1>2, <1>3 DEF TypeOK, TablesOK
<1>. QED  BY <1>3, <1>5, <1>6 DEF LedgerStep, L!Next

(* A step that leaves the rows and what they refer to alone.               *)
LEMMA NoLedgerStep ==
    ASSUME UNCHANGED <<live, born, userId, accountId, assetId, portfolioId>>
    PROVE  LedgerStep
<1>1. Needs' = Needs /\ Tags' = Tags
  BY DEF Needs, Tags, References
<1>. QED  BY <1>1 DEF LedgerStep, L!lvars

(* Steps that leave the tables alone stutter.                              *)
LEMMA SameTables ==
    ASSUME TypeOK, UNCHANGED db
    PROVE  TablesOK' /\ LedgerStep
  BY NoLedgerStep DEF TypeOK, TablesOK, db, columns

(* The UPDATE of a holding moves it to a portfolio that is there.          *)
LEMMA UpdateHoldingOK ==
    ASSUME TypeOK, CallsWellFormed, NEW c \in Calls, UpdateHolding(c)
    PROVE  TablesOK' /\ LedgerStep
<1>1. PICK x \in Rows : x = call[c].row
  BY DEF UpdateHolding, Update, TypeOK
<1>2. /\ x \in live /\ live' = live /\ born' = born
      /\ At(c, "write") /\ Parents(call[c]) \subseteq live /\ call[c].op = "UpdateHolding"
      /\ UNCHANGED <<userId, accountId, assetId, status>>
  BY <1>1 DEF UpdateHolding, Update, AtWrite
<1>3. x \in Holdings
  BY <1>1, <1>2, WriteOK, TableType DEF WellFormed, AllOps, UpdateOps, CreateOps
<1>4. CASE ~call[c].req.masked
  <2>1. portfolioId' = portfolioId
    BY <1>4 DEF UpdateHolding
  <2>. QED  BY <1>2, <2>1, NoLedgerStep DEF TypeOK, TablesOK
<1>5. CASE call[c].req.masked
  <2>1. portfolioId' = [portfolioId EXCEPT ![x] = call[c].req.portfolio]
    BY <1>1, <1>5 DEF UpdateHolding
  <2>2. call[c].req.portfolio \in (Portfolios \cap live) \cup {NULL}
    BY <1>2, WriteOK
  <2>3. Tags'[x] \subseteq live
    BY <1>3, <2>1, <2>2, TagsOf DEF TypeOK
  <2>4. \A y \in Rows : References(y)' = References(y)
    BY <1>2, SameRow DEF Rows
  <2>5. \A y \in Rows \ {x} : Tags'[y] = Tags[y]
    BY <1>2, <2>1, SameRow DEF Rows, TypeOK
  <2>6. L!Retag(x)
    BY <1>2, <2>3, <2>4, <2>5, RetagsInLedger
  <2>7. TablesOK'
    BY <1>2, <2>1, <2>2 DEF TypeOK, TablesOK
  <2>. QED  BY <2>6, <2>7 DEF LedgerStep, L!Next
<1>. QED  BY <1>4, <1>5

(* The UPDATE of a transaction's status is nothing to the ledger.          *)
LEMMA UpdateTransactionOK ==
    ASSUME TypeOK, CallsWellFormed, NEW c \in Calls, UpdateTransaction(c)
    PROVE  TablesOK' /\ LedgerStep
<1>1. call[c].req.status \in TransactionStatus
  BY WriteOK DEF UpdateTransaction, Update, AtWrite, Call, Request
<1>2. TablesOK'
  BY <1>1 DEF UpdateTransaction, Update, TypeOK, TablesOK
<1>. QED  BY <1>2, NoLedgerStep DEF UpdateTransaction, Update

(* A deletion's row is of its table, is live and is referred to by none.   *)
LEMMA DeleteOK ==
    ASSUME TypeOK, CallsWellFormed, NEW c \in Calls, NEW op \in DeleteOps, Delete(c, op)
    PROVE  \E x \in Table(op) \cap live :
              /\ x = call[c].row /\ x \in Rows
              /\ Referrers(x) = {}
              /\ live' = live \ {x} /\ born' = born
<1>1. PICK x \in Rows : x = call[c].row
  BY DEF Delete, TypeOK
<1>2. op \notin CreateOps
  BY DEF DeleteOps, CreateOps
<1>3. x \in Table(op)
  BY <1>1, <1>2, WriteOK DEF Delete, WellFormed
<1>. QED  BY <1>1, <1>3 DEF Delete

(* A user goes when no row refers to it.                                   *)
LEMMA DeleteUserOK ==
    ASSUME TypeOK, CallsWellFormed, NEW c \in Calls, DeleteUser(c)
    PROVE  TablesOK' /\ LedgerStep
<1>1. PICK x \in Users \cap live : /\ x \in Rows /\ Referrers(x) = {}
                                   /\ live' = live \ {x} /\ born' = born
  BY DeleteOK, TableType DEF DeleteUser, DeleteOps, AllOps
<1>2. UNCHANGED columns
  BY DEF DeleteUser
<1>3. \A y \in Rows : References(y)' = References(y) /\ Tags'[y] = Tags[y]
  BY <1>2, SameRow DEF Rows, columns
<1>4. \A y \in Rows : x \notin Tags[y]
  BY <1>1, TagsOf, DisjointTables, IdsAssumption DEF TypeOK, Rows
<1>5. Tags[x] = {}
  BY <1>1, TagsOf
<1>6. \E S \in SUBSET live : L!Remove(S)
  <2>1. \A y \in Rows : Tags'[y] = IF y = x THEN {} ELSE Tags[y] \ {x}
    BY <1>3, <1>4, <1>5
  <2>2. live \subseteq Rows
    BY DEF TypeOK
  <2>. QED  BY <1>1, <1>3, <2>1, <2>2, RemovesFromLedger
<1>7. TablesOK'
  BY <1>1, <1>2 DEF TypeOK, TablesOK, columns
<1>. QED  BY <1>1, <1>6, <1>7 DEF LedgerStep, L!Next

(* So does an account.                                                     *)
LEMMA DeleteAccountOK ==
    ASSUME TypeOK, CallsWellFormed, NEW c \in Calls, DeleteAccount(c)
    PROVE  TablesOK' /\ LedgerStep
<1>1. PICK x \in Accounts \cap live : /\ x = call[c].row /\ x \in Rows
                                      /\ Referrers(x) = {}
                                      /\ live' = live \ {x} /\ born' = born
  BY DeleteOK, TableType DEF DeleteAccount, DeleteOps, AllOps
<1>2. /\ userId' = [userId EXCEPT ![x] = NULL]
      /\ UNCHANGED <<accountId, assetId, portfolioId, status>>
  BY <1>1 DEF DeleteAccount
<1>3. \A y \in Rows \ {x} : References(y)' = References(y) /\ Tags'[y] = Tags[y]
  BY <1>2, SameRow DEF Rows, TypeOK
<1>4. \A y \in Rows : x \notin Tags[y]
  BY <1>1, TagsOf, DisjointTables, IdsAssumption DEF TypeOK, Rows
<1>5. Tags'[x] = {}
  BY <1>1, TagsOf
<1>6. \E S \in SUBSET live : L!Remove(S)
  <2>1. \A y \in Rows : Tags'[y] = IF y = x THEN {} ELSE Tags[y] \ {x}
    BY <1>3, <1>4, <1>5
  <2>2. live \subseteq Rows
    BY DEF TypeOK
  <2>. QED  BY <1>1, <1>3, <2>1, <2>2, RemovesFromLedger
<1>7. TablesOK'
  BY <1>1, <1>2 DEF TypeOK, TablesOK
<1>. QED  BY <1>1, <1>6, <1>7 DEF LedgerStep, L!Next

(* An asset goes only when no holding is of it, and is taken off the       *)
(* transactions.                                                           *)
LEMMA DeleteAssetOK ==
    ASSUME TypeOK, CallsWellFormed, NEW c \in Calls, DeleteAsset(c)
    PROVE  TablesOK' /\ LedgerStep
<1>1. PICK x \in Assets \cap live : /\ x = call[c].row /\ x \in Rows
                                    /\ Referrers(x) = {}
                                    /\ live' = live \ {x} /\ born' = born
  BY DeleteOK, TableType DEF DeleteAsset, DeleteOps, AllOps
<1>2. /\ assetId' = [y \in Holdings \cup Transactions |->
                       IF assetId[y] = x THEN NULL ELSE assetId[y]]
      /\ UNCHANGED <<userId, accountId, portfolioId, status>>
  BY <1>1 DEF DeleteAsset
<1>3. \A y \in Holdings \cap live : assetId[y] # x
  BY <1>1, ReferencesOf DEF Referrers
<1>4. \A y \in Rows \cap live : References(y)' = References(y)
  BY <1>2, <1>3, SameRow DEF Rows
<1>5. \A y \in Rows : Tags'[y] = Tags[y] \ {x}
  <2>1. \A y \in Transactions : Tags'[y] = Tags[y] \ {x}
    BY <1>2, TagsOf
  <2>2. \A y \in Rows \ Transactions : Tags'[y] = Tags[y]
    BY <1>2, SameRow DEF Rows
  <2>3. \A y \in Rows \ Transactions : x \notin Tags[y]
    BY <1>1, TagsOf, DisjointTables, IdsAssumption DEF TypeOK, Rows
  <2>. QED  BY <2>1, <2>2, <2>3
<1>6. Tags'[x] = {}
  BY <1>1, TagsOf
<1>7. \E S \in SUBSET live : L!Remove(S)
  BY <1>1, <1>4, <1>5, <1>6, RemovesFromLedger DEF TypeOK
<1>8. TablesOK'
  BY <1>1, <1>2 DEF TypeOK, TablesOK
<1>. QED  BY <1>1, <1>7, <1>8 DEF LedgerStep, L!Next

(* A portfolio goes and is taken off its holdings.                         *)
LEMMA DeletePortfolioOK ==
    ASSUME TypeOK, CallsWellFormed, NEW c \in Calls, DeletePortfolio(c)
    PROVE  TablesOK' /\ LedgerStep
<1>1. PICK x \in Portfolios \cap live : /\ x = call[c].row /\ x \in Rows
                                        /\ Referrers(x) = {}
                                        /\ live' = live \ {x} /\ born' = born
  BY DeleteOK, TableType DEF DeletePortfolio, DeleteOps, AllOps
<1>2. /\ userId' = [userId EXCEPT ![x] = NULL]
      /\ portfolioId' = [y \in Holdings |->
                           IF portfolioId[y] = x THEN NULL ELSE portfolioId[y]]
      /\ UNCHANGED <<accountId, assetId, status>>
  BY <1>1 DEF DeletePortfolio
<1>3. \A y \in Rows \ {x} : References(y)' = References(y)
  BY <1>2, SameRow DEF Rows, TypeOK
<1>4. \A y \in Rows \ {x} : Tags'[y] = Tags[y] \ {x}
  <2>1. \A y \in Holdings : Tags'[y] = Tags[y] \ {x}
    BY <1>2, TagsOf
  <2>2. \A y \in Rows \ (Holdings \cup {x}) : Tags'[y] = Tags[y]
    BY <1>2, SameRow DEF Rows, TypeOK
  <2>3. \A y \in Rows \ Holdings : x \notin Tags[y]
    BY <1>1, TagsOf, DisjointTables, IdsAssumption DEF TypeOK, Rows
  <2>. QED  BY <2>1, <2>2, <2>3
<1>5. Tags'[x] = {}
  BY <1>1, TagsOf
<1>6. \E S \in SUBSET live : L!Remove(S)
  BY <1>1, <1>3, <1>4, <1>5, RemovesFromLedger DEF TypeOK
<1>7. TablesOK'
  BY <1>1, <1>2 DEF TypeOK, TablesOK
<1>. QED  BY <1>1, <1>6, <1>7 DEF LedgerStep, L!Next

(* Nothing refers to holdings: one may always go.                          *)
LEMMA DeleteHoldingOK ==
    ASSUME TypeOK, CallsWellFormed, NEW c \in Calls, DeleteHolding(c)
    PROVE  TablesOK' /\ LedgerStep
<1>1. PICK x \in Holdings \cap live : /\ x = call[c].row /\ x \in Rows
                                      /\ Referrers(x) = {}
                                      /\ live' = live \ {x} /\ born' = born
  BY DeleteOK, TableType DEF DeleteHolding, DeleteOps, AllOps
<1>2. /\ accountId' = [accountId EXCEPT ![x] = NULL]
      /\ assetId' = [assetId EXCEPT ![x] = NULL]
      /\ portfolioId' = [portfolioId EXCEPT ![x] = NULL]
      /\ UNCHANGED <<userId, status>>
  BY <1>1 DEF DeleteHolding
<1>3. \A y \in Rows \ {x} : References(y)' = References(y) /\ Tags'[y] = Tags[y]
  BY <1>2, SameRow DEF Rows, TypeOK
<1>4. \A y \in Rows : x \notin Tags[y]
  BY <1>1, TagsOf, DisjointTables, IdsAssumption DEF TypeOK, Rows
<1>5. Tags'[x] = {}
  BY <1>1, <1>2, TagsOf DEF TypeOK
<1>6. \E S \in SUBSET live : L!Remove(S)
  <2>1. \A y \in Rows : Tags'[y] = IF y = x THEN {} ELSE Tags[y] \ {x}
    BY <1>3, <1>4, <1>5
  <2>2. live \subseteq Rows
    BY DEF TypeOK
  <2>. QED  BY <1>1, <1>3, <2>1, <2>2, RemovesFromLedger
<1>7. TablesOK'
  BY <1>1, <1>2 DEF TypeOK, TablesOK
<1>. QED  BY <1>1, <1>6, <1>7 DEF LedgerStep, L!Next

(* Every step keeps the types of the tables and is one of the ledger.      *)
LEMMA TablesKept ==
    ASSUME TypeOK, CallsWellFormed, Next
    PROVE  TablesOK' /\ LedgerStep
<1>1. CASE UNCHANGED db
  BY <1>1, SameTables
<1>2. ASSUME NEW c \in Calls, InsertStep(c) PROVE TablesOK' /\ LedgerStep
  BY <1>1, <1>2, InsertUserOK, InsertAccountOK, InsertHoldingOK, InsertTransactionOK
     DEF InsertStep, InsertRefused
<1>3. ASSUME NEW c \in Calls, UpdateStep(c) PROVE TablesOK' /\ LedgerStep
  <2>1. CASE UpdateUser(c) \/ UpdateAccount(c) \/ UpdatePortfolio(c)
    <3>1. UNCHANGED <<live, born, columns>>
      BY <2>1 DEF UpdateUser, UpdateAccount, UpdatePortfolio, Update
    <3>. QED  BY <3>1, NoLedgerStep DEF TypeOK, TablesOK, columns
  <2>. QED  BY <1>1, <1>3, <2>1, UpdateHoldingOK, UpdateTransactionOK
               DEF UpdateStep, UserRefused, MoveRefused
<1>4. ASSUME NEW c \in Calls, DeleteStep(c) PROVE TablesOK' /\ LedgerStep
  BY <1>1, <1>4, DeleteUserOK, DeleteAssetOK, DeleteAccountOK, DeletePortfolioOK,
     DeleteHoldingOK DEF DeleteStep, DeleteRefused
<1>5. CASE Crash \/ \E c \in Calls : \/ Reject(c) \/ Return(c) \/ RowMissing(c)
                                     \/ Unwritable(c) \/ StatementFails(c) \/ ReplyLost(c)
  BY <1>1, <1>5 DEF Crash, Reject, Return, RowMissing, Unwritable, StatementFails, ReplyLost
<1>6. ASSUME NEW c \in Calls, Invoke(c) PROVE UNCHANGED db
  BY <1>6 DEF Invoke, Begin
<1>7. ASSUME NEW c \in Calls, LookupStep(c) \/ ReadStep(c) PROVE UNCHANGED db
  BY <1>7 DEF LookupStep, GetUserInternalID, GetAssetInternalID, GetAccountInternalID,
       GetPortfolioInternalID, Lookup, ReadStep, GetAccount, GetPortfolio, GetHolding,
       GetTransaction, Read
<1>. QED  BY <1>1, <1>2, <1>3, <1>4, <1>5, <1>6, <1>7 DEF Next, Statement

-----------------------------------------------------------------------------
(* Emails: what users have had.                                            *)

EmailsOK == used \subseteq Emails /\ email \in [Users -> used \cup {NULL}]

(* An email that is written is one that a request carries.                 *)
LEMMA SetEmailOK ==
    ASSUME TypeOK, NEW c \in Calls, call[c] \in Call, call[c].req.email # NULL,
           NEW x \in Users, SetEmail(c, x)
    PROVE  EmailsOK' /\ used \subseteq used'
<1> DEFINE e == call[c].req.email
<1>1. e \in Emails
  BY DEF Call, Request
<1>2. used' = used \cup {e} /\ email' = [email EXCEPT ![x] = e]
  BY DEF SetEmail
<1> HIDE DEF e
<1>. QED  BY <1>1, <1>2 DEF TypeOK, EmailsOK

(* Only the writes of users write emails.                                  *)
LEMMA EmailsKept ==
    ASSUME TypeOK, CallsWellFormed, Next
    PROVE  EmailsOK' /\ used \subseteq used'
<1>1. CASE UNCHANGED emails
  BY <1>1 DEF TypeOK, EmailsOK, emails
<1>2. ASSUME NEW c \in Calls, InsertUser(c) PROVE EmailsOK' /\ used \subseteq used'
  <2>1. PICK x \in Users : SetEmail(c, x)
    BY <1>2 DEF InsertUser
  <2>2. call[c] \in Call /\ call[c].req.email # NULL
    BY <1>2, WriteOK DEF InsertUser, AtWrite, WellFormed
  <2>. QED  BY <2>1, <2>2, SetEmailOK
<1>3. ASSUME NEW c \in Calls, UpdateUser(c) PROVE EmailsOK' /\ used \subseteq used'
  <2>1. CASE ~call[c].req.masked
    BY <1>1, <1>3, <2>1 DEF UpdateUser
  <2>2. CASE call[c].req.masked
    <3>1. call[c] \in Call /\ WellFormed(call[c]) /\ call[c].op = "UpdateUser"
      BY <1>3, WriteOK DEF UpdateUser, Update, AtWrite
    <3>2. call[c].row \in Users
      BY <3>1 DEF WellFormed, Table, CreateOps
    <3>3. SetEmail(c, call[c].row) /\ call[c].req.email # NULL
      BY <1>3, <2>2, <3>1 DEF UpdateUser, WellFormed
    <3>. QED  BY <3>1, <3>2, <3>3, SetEmailOK
  <2>. QED  BY <2>1, <2>2
<1>4. ASSUME NEW c \in Calls, InsertStep(c), ~InsertUser(c) PROVE UNCHANGED emails
  BY <1>4 DEF InsertStep, InsertAsset, InsertAccount, InsertPortfolio, InsertHolding,
       InsertTransaction, InsertRefused, db, emails
<1>5. ASSUME NEW c \in Calls, UpdateStep(c), ~UpdateUser(c) PROVE UNCHANGED emails
  BY <1>5 DEF UpdateStep, UserRefused, UpdateAccount, UpdatePortfolio, UpdateHolding,
       MoveRefused, UpdateTransaction, db, emails
<1>6. ASSUME NEW c \in Calls, DeleteStep(c) PROVE EmailsOK' /\ used \subseteq used'
  <2>1. CASE DeleteUser(c)
    <3>1. used' = used /\ email' = [email EXCEPT ![call[c].row] = NULL]
      BY <2>1 DEF DeleteUser, Delete
    <3>. QED  BY <3>1 DEF TypeOK, EmailsOK
  <2>2. CASE ~DeleteUser(c)
    <3>1. UNCHANGED emails
      BY <1>6, <2>2 DEF DeleteStep, DeleteAsset, DeleteAccount, DeletePortfolio,
           DeleteHolding, DeleteRefused, Delete, db, emails
    <3>. QED  BY <1>1, <3>1
  <2>. QED  BY <2>1, <2>2
<1>7. ASSUME \/ Crash
             \/ \E c \in Calls : \/ Invoke(c) \/ Reject(c) \/ Return(c) \/ RowMissing(c)
                                 \/ Unwritable(c) \/ StatementFails(c) \/ ReplyLost(c)
      PROVE  UNCHANGED emails
  <2>1. ASSUME NEW c \in Calls, Invoke(c) PROVE UNCHANGED db
    BY <2>1 DEF Invoke, Begin
  <2>2. UNCHANGED db
    BY <1>7, <2>1 DEF Crash, Reject, Return, RowMissing, Unwritable, StatementFails, ReplyLost
  <2>. QED  BY <2>2 DEF db
<1>8. ASSUME NEW c \in Calls, LookupStep(c) \/ ReadStep(c) PROVE UNCHANGED emails
  BY <1>8 DEF LookupStep, GetUserInternalID, GetAssetInternalID, GetAccountInternalID,
       GetPortfolioInternalID, Lookup, ReadStep, GetAccount, GetPortfolio, GetHolding,
       GetTransaction, Read, db
<1>. QED
  BY <1>1, <1>2, <1>3, <1>4, <1>5, <1>6, <1>7, <1>8 DEF Next, Statement

-----------------------------------------------------------------------------
(* The tables stay typed and the calls well formed, whatever interleaves   *)
(* and whatever fails.                                                     *)
THEOREM Invariance == Spec => []IInv
<1>1. Init => IInv
  <2>. SUFFICES ASSUME Init PROVE IInv
    OBVIOUS
  <2>1. Seeded \subseteq Rows /\ "unspecified" \in TransactionStatus
    BY SeededAssumption DEF Rows, TransactionStatus
  <2>2. TypeOK
    BY <2>1 DEF Init, TypeOK
  <2>3. CallsWellFormed
    BY DEF Init, CallsWellFormed
  <2>. QED  BY <2>2, <2>3 DEF IInv
<1>2. IInv /\ [Next]_vars => IInv'
  <2>. SUFFICES ASSUME IInv, [Next]_vars PROVE IInv'
    OBVIOUS
  <2>1. CASE Next
    <3>1. CallsOK'
      BY <2>1, CallsKept DEF IInv
    <3>2. TablesOK'
      BY <2>1, TablesKept DEF IInv
    <3>3. EmailsOK'
      BY <2>1, EmailsKept DEF IInv
    <3>. QED  BY <3>1, <3>2, <3>3 DEF IInv, CallsOK, TablesOK, EmailsOK, TypeOK
  <2>2. CASE UNCHANGED vars
    BY <2>2 DEF vars, db, columns, emails, IInv, TypeOK, CallsWellFormed, WellFormed
  <2>. QED  BY <2>1, <2>2
<1>. QED  BY <1>1, <1>2, PTL DEF Spec

(* Every column holds a row of the table it refers to or NULL, and every   *)
(* call in progress is one of the operations.                              *)
THEOREM TypeCorrect == Spec => []TypeOK
<1>1. IInv => TypeOK
  BY DEF IInv
<1>. QED  BY <1>1, Invariance, PTL

(* Calls of many statements implement a ledger of single steps: each write *)
(* acts at one instant and every other statement not at all.               *)
THEOREM Refinement == Spec => ImplementsLedger
<1>1. Init => L!Init
  <2>. SUFFICES ASSUME Init PROVE L!Init
    OBVIOUS
  <2>1. \A x \in Seeded : References(x) = {}
    BY SeededAssumption, ReferencesOf
  <2>2. Needs = [x \in Rows |-> {}]
    BY <2>1 DEF Init, Needs
  <2>3. \A x \in Rows : Tags[x] = {}
    BY TagsOf DEF Init, Rows
  <2>4. Tags = [x \in Rows |-> {}]
    BY <2>3, TagsFunction
  <2>. QED  BY <2>2, <2>4 DEF Init, L!Init
<1>2. IInv /\ [Next]_vars => LedgerStep
  <2>1. CASE Next
    BY <2>1, TablesKept DEF IInv
  <2>2. CASE UNCHANGED vars
    BY <2>2, SameTables DEF IInv, vars
  <2>. QED  BY <2>1, <2>2
<1>. QED  BY <1>1, <1>2, Invariance, PTL DEF Spec, ImplementsLedger, LedgerStep, L!Spec

(* No interleaving of lookups and writes leaves a row that refers to one   *)
(* that is gone: a ledger has no such entry.                               *)
THEOREM Integrity == Spec => []ReferentialIntegrity
<1>1. Seeded \subseteq Rows
  BY SeededAssumption DEF Rows
<1>2. L!Spec => []L!Closed
  BY <1>1, L!ClosedInvariant
<1>3. TypeOK /\ L!Closed => ReferentialIntegrity
  <2>. SUFFICES ASSUME TypeOK, L!Closed PROVE ReferentialIntegrity
    OBVIOUS
  <2>1. \A x \in live : x \in Rows /\ Needs[x] = References(x)
    BY DEF TypeOK, Needs
  <2>2. \A x \in live : References(x) \subseteq live /\ Tags[x] \subseteq live
    BY <2>1 DEF L!Closed
  <2>3. \A x \in live \cap Holdings : portfolioId[x] \in live \cup {NULL}
    BY <2>2, TagsOf
  <2>4. \A x \in live \cap Transactions : assetId[x] \in live \cup {NULL}
    BY <2>2, TagsOf
  <2>. QED  BY <2>2, <2>3, <2>4 DEF ReferentialIntegrity
<1>. QED  BY <1>2, <1>3, TypeCorrect, Refinement, PTL DEF ImplementsLedger

-----------------------------------------------------------------------------
(* Positions: the holdings and the transactions.                           *)

(* A holding, until it is deleted, and a transaction stay in their account.*)
LEMMA PositionKept ==
    ASSUME TypeOK, CallsWellFormed, Next, NEW x \in live \cap (Holdings \cup Transactions)
    PROVE  \/ /\ x \in live' /\ accountId'[x] = accountId[x]
              /\ x \in Holdings => assetId'[x] = assetId[x]
           \/ /\ x \in Holdings
              /\ \E c \in Calls : /\ call[c] # NULL /\ call[c].op = "DeleteHolding"
                                  /\ call[c].row = x
<1> DEFINE Kept == /\ x \in live' /\ accountId'[x] = accountId[x]
                   /\ x \in Holdings => assetId'[x] = assetId[x]
<1>1. x \in born /\ x \in Rows
  BY DEF TypeOK
<1>2. CASE UNCHANGED <<live, accountId, assetId>>
  BY <1>2
<1>3. ASSUME NEW c \in Calls, InsertStep(c) PROVE Kept
  BY <1>1, <1>3 DEF InsertStep, InsertUser, InsertAsset, InsertAccount, InsertPortfolio,
       InsertHolding, InsertTransaction, InsertRefused, Insert, TypeOK, db, columns
<1>4. ASSUME NEW c \in Calls, UpdateStep(c) PROVE Kept
  BY <1>4 DEF UpdateStep, UpdateUser, UserRefused, UpdateAccount, UpdatePortfolio,
       UpdateHolding, MoveRefused, UpdateTransaction, Update, db, columns
<1>5. ASSUME NEW c \in Calls, DeleteUser(c) PROVE Kept
  <2>1. call[c].row \in Users /\ live' = live \ {call[c].row}
    BY <1>5, DeleteOK, TableType DEF DeleteUser, DeleteOps, AllOps
  <2>. QED  BY <1>5, <2>1, DisjointTables DEF DeleteUser, columns
<1>6. ASSUME NEW c \in Calls, DeleteAsset(c) PROVE Kept
  <2>1. PICK a \in Assets : /\ a = call[c].row /\ live' = live \ {a}
                            /\ Referrers(a) = {}
    BY <1>6, DeleteOK, TableType DEF DeleteAsset, DeleteOps, AllOps
  <2>2. x \in Holdings => assetId[x] # a
    BY <2>1, ReferencesOf DEF Referrers
  <2>. QED  BY <1>6, <2>1, <2>2, DisjointTables DEF DeleteAsset
<1>7. ASSUME NEW c \in Calls, DeleteAccount(c) PROVE Kept
  <2>1. call[c].row \in Accounts /\ live' = live \ {call[c].row}
    BY <1>7, DeleteOK, TableType DEF DeleteAccount, DeleteOps, AllOps
  <2>. QED  BY <1>7, <2>1, DisjointTables DEF DeleteAccount
<1>8. ASSUME NEW c \in Calls, DeletePortfolio(c) PROVE Kept
  <2>1. call[c].row \in Portfolios /\ live' = live \ {call[c].row}
    BY <1>8, DeleteOK, TableType DEF DeletePortfolio, DeleteOps, AllOps
  <2>. QED  BY <1>8, <2>1, DisjointTables DEF DeletePortfolio
<1>9. ASSUME NEW c \in Calls, DeleteHolding(c)
      PROVE  Kept \/ (/\ x \in Holdings /\ call[c] # NULL
                      /\ call[c].op = "DeleteHolding" /\ call[c].row = x)
  <2>1. call[c].row \in Holdings /\ live' = live \ {call[c].row}
    BY <1>9, DeleteOK, TableType DEF DeleteHolding, DeleteOps, AllOps
  <2>2. call[c] # NULL /\ call[c].op = "DeleteHolding"
    BY <1>9 DEF DeleteHolding, Delete, At
  <2>3. CASE call[c].row # x
    BY <1>9, <2>1, <2>3, DisjointTables DEF DeleteHolding, TypeOK
  <2>. QED  BY <2>1, <2>2, <2>3
<1>10. CASE \E c \in Calls : \/ Reject(c) \/ Return(c) \/ RowMissing(c) \/ Unwritable(c)
                             \/ StatementFails(c) \/ ReplyLost(c) \/ DeleteRefused(c)
  BY <1>2, <1>10 DEF Reject, Return, RowMissing, Unwritable, StatementFails, ReplyLost,
       DeleteRefused, db, columns
<1>12. ASSUME NEW c \in Calls, Invoke(c) PROVE UNCHANGED <<live, accountId, assetId>>
  BY <1>12 DEF Invoke, Begin, db, columns
<1>11. CASE Crash \/ \E c \in Calls : LookupStep(c) \/ ReadStep(c)
  BY <1>2, <1>11 DEF Crash, LookupStep, GetUserInternalID, GetAssetInternalID,
       GetAccountInternalID, GetPortfolioInternalID, Lookup, ReadStep, GetAccount,
       GetPortfolio, GetHolding, GetTransaction, Read, db, columns
<1>. QED
  BY <1>2, <1>3, <1>4, <1>5, <1>6, <1>7, <1>8, <1>9, <1>10, <1>11, <1>12
     DEF Next, Statement, DeleteStep

(* Deleting a portfolio, an asset or an account never takes a holding with *)
(* it or moves it: only its own deletion ends a holding.                   *)
THEOREM Survival == Spec => HoldingsSurvive
<1>1. IInv /\ [Next]_vars =>
        [\A x \in live \cap Holdings :
            \/ /\ x \in live'
               /\ accountId'[x] = accountId[x]
               /\ assetId'[x] = assetId[x]
            \/ \E c \in Calls : call[c] # NULL /\ call[c].op = "DeleteHolding"
                                               /\ call[c].row = x]_vars
  BY PositionKept DEF IInv
<1>. QED  BY <1>1, Invariance, PTL DEF Spec, HoldingsSurvive

(* A transaction never goes and never leaves its account, so the account   *)
(* and its user stay as well.                                              *)
THEOREM Permanence == Spec => TransactionsArePermanent
<1>1. ASSUME IInv, ReferentialIntegrity, ReferentialIntegrity', Next,
             NEW x \in live \cap Transactions
      PROVE  /\ x \in live'
             /\ accountId'[x] = accountId[x]
             /\ userId[accountId[x]] \in live'
  <2>1. x \in live' /\ accountId'[x] = accountId[x]
    BY <1>1, PositionKept, DisjointTables DEF IInv
  <2>2. PICK n \in Accounts : n = accountId[x] /\ n \in live /\ n \in live'
    BY <1>1, <2>1, ReferencesOf, IdsAssumption DEF ReferentialIntegrity, IInv, TypeOK
  <2>3. userId'[n] = userId[n]
    <3>1. n \in born /\ n \in Rows /\ LedgerStep
      BY <1>1, <2>2, TablesKept DEF IInv, TypeOK
    <3>2. Needs = [y \in Rows |-> Needs[y]]
      BY DEF Needs
    <3>3. Needs'[n] = Needs[n]
      BY <2>2, <3>1, <3>2 DEF LedgerStep, L!Next, L!lvars, L!Add, L!Retag, L!Remove
    <3>4. References(n)' = References(n)
      BY <2>2, <3>1, <3>3 DEF Needs
    <3>5. {userId'[n]} = {userId[n]}
      BY <2>2, <3>4, ReferencesOf
    <3>. QED  BY <3>5
  <2>4. userId'[n] \in live'
    BY <1>1, <2>2, ReferencesOf DEF ReferentialIntegrity
  <2>. QED  BY <2>1, <2>2, <2>3, <2>4
<1>2. IInv /\ ReferentialIntegrity /\ ReferentialIntegrity' /\ [Next]_vars =>
        [\A x \in live \cap Transactions :
            /\ x \in live'
            /\ accountId'[x] = accountId[x]
            /\ userId[accountId[x]] \in live']_vars
  BY <1>1
<1>. QED  BY <1>2, Invariance, Integrity, PTL DEF Spec, TransactionsArePermanent
-----------------------------------------------------------------------------
(* What the clients of PortfolioStore are told is true: for any tables,    *)
(* calls, operations and faults.  The invariant relates each call to the   *)
(* rows it names, which were all there once (a uuid is not reused, so what *)
(* is gone stays gone), and its answer to the statements it has left.      *)

(* The statements that a plan has.                                         *)
Left(plan) == {plan[n] : n \in DOMAIN plan}

(* After its write a call only reads.                                      *)
WritesThenReads(plan) ==
    \A m, n \in DOMAIN plan : plan[m] = "write" /\ m < n => plan[n] = "read"

(* The answer of k is true when the rows Live are there, of those born B,  *)
(* and users have had the emails U.                                        *)
Told(k, Live, B, U) ==
    /\ Parents(k) \subseteq B \cup Malformed /\ k.row \in B \cup {NULL}
    /\ k.op = "UpdateHolding" => Parents(k) \subseteq {k.req.portfolio}
    /\ k.op \in CreateOps => "read" \notin Left(k.plan)
    /\ k.op = "UpdateHolding" /\ k.plan # << >> /\ Head(k.plan) # "portfolio" =>
         k.req.portfolio \notin Malformed
    /\ k.answer = "NotFound" =>
         ~(Parents(k) \cup (IF k.op \in CreateOps THEN {} ELSE {k.row}) \subseteq Live)
    /\ k.op = "CreateUser" => Parents(k) = {}
    /\ k.op \in CreateOps \ {"CreateUser"} => k.req.email = NULL
    /\ k.answer = "FailedPrecondition" =>
         /\ k.op = "CreateUser" => k.req.email \in U
         /\ k.op = "UpdateUser" => k.req.email \in U \/ k.req.flaw = "unset"
         /\ k.op \in CreateOps \ {"CreateUser"} => ~(Parents(k) \subseteq Live)
    /\ k.answer = "InvalidArgument" =>
         Parents(k) \cap Malformed # {} \/ k.req.flaw = "incomplete"
    /\ k.answer = "Internal" =>
         \/ k.faulted
         \/ k.req.flaw \in {"unwritable", "twice"}
         \/ k.op = "UpdateHolding" /\ k.req.portfolio \in B \ Live

(* It tells whether the write of k took effect.                            *)
Effective(k, Live) ==
    /\ k.plan # << >> => k.answer = "OK"
    /\ WritesThenReads(k.plan)
    /\ k.answer = "OK" /\ k.op \notin GetOps => k.did \/ "write" \in Left(k.plan)
    /\ k.did => Left(k.plan) \subseteq {"read"}
    /\ k.did /\ k.answer # "OK" => k.row \notin Live \/ k.faulted

Sincere(k, Live, B, U) == Told(k, Live, B, U) /\ Effective(k, Live)

CallsSincere == \A c \in Calls : call[c] # NULL => Sincere(call[c], live, born, used)

(* Rows come with new uuids and go for good.                               *)
Onward == born \subseteq born' /\ live' \cap born \subseteq live /\ live' \subseteq Rows
            /\ born \subseteq Rows /\ used \subseteq used'

-----------------------------------------------------------------------------
(* Plans.                                                                  *)

(* A plan is its first statement and the rest of it.                       *)
LEMMA Parts ==
    ASSUME NEW s \in Seq(Steps), s # << >>
    PROVE  /\ Left(s) = {Head(s)} \cup Left(Tail(s))
           /\ WritesThenReads(s) => /\ WritesThenReads(Tail(s))
                                    /\ Head(s) = "write" => Left(Tail(s)) \subseteq {"read"}
<1>1. \A n \in DOMAIN Tail(s) : n + 1 \in DOMAIN s /\ Tail(s)[n] = s[n + 1] /\ n \in Nat /\ n > 0
  OBVIOUS
<1>2. 1 \in DOMAIN s /\ Head(s) = s[1]
  OBVIOUS
<1>3. \A n \in DOMAIN s : n = 1 \/ (n - 1 \in DOMAIN Tail(s) /\ Tail(s)[n - 1] = s[n])
  OBVIOUS
<1>4. Left(s) = {Head(s)} \cup Left(Tail(s))
  <2>1. ASSUME NEW n \in DOMAIN s PROVE s[n] \in {Head(s)} \cup Left(Tail(s))
    BY <1>2, <1>3 DEF Left
  <2>2. Head(s) \in Left(s)
    BY <1>2 DEF Left
  <2>3. ASSUME NEW n \in DOMAIN Tail(s) PROVE Tail(s)[n] \in Left(s)
    <3>1. n + 1 \in DOMAIN s /\ Tail(s)[n] = s[n + 1]
      BY <1>1
    <3>. QED  BY <3>1 DEF Left
  <2>. QED  BY <2>1, <2>2, <2>3 DEF Left
<1>5. ASSUME WritesThenReads(s)
      PROVE  /\ WritesThenReads(Tail(s))
             /\ Head(s) = "write" => Left(Tail(s)) \subseteq {"read"}
  <2>1. WritesThenReads(Tail(s))
    <3>. SUFFICES ASSUME NEW m \in DOMAIN Tail(s), NEW n \in DOMAIN Tail(s),
                         Tail(s)[m] = "write", m < n
                  PROVE  Tail(s)[n] = "read"
      BY DEF WritesThenReads
    <3>1. m + 1 < n + 1
      BY <1>1
    <3>. QED  BY <1>1, <1>5, <3>1 DEF WritesThenReads
  <2>2. ASSUME Head(s) = "write", NEW n \in DOMAIN Tail(s) PROVE Tail(s)[n] = "read"
    <3>1. 1 < n + 1
      BY <1>1
    <3>. QED  BY <1>1, <1>2, <1>5, <2>2, <3>1 DEF WritesThenReads
  <2>. QED  BY <2>1, <2>2 DEF Left
<1>. QED  BY <1>4, <1>5

(* Every operation but a Get writes, once, and reads after that at most.   *)
LEMMA PlansWrite ==
    ASSUME NEW op \in AllOps, NEW req
    PROVE  /\ Plan(op, req) # << >>
           /\ WritesThenReads(Plan(op, req))
           /\ op \notin GetOps => "write" \in Left(Plan(op, req))
           /\ op \in CreateOps => "read" \notin Left(Plan(op, req))
           /\ op = "UpdateHolding" /\ req.portfolio # NULL => Head(Plan(op, req)) = "portfolio"
<1>. DEFINE Updating == {<<"write", "read">>, <<"portfolio", "write", "read">>,
                         <<"portfolio", "portfolio", "write", "read">>}
            P == {<<"user", "write">>, <<"asset", "account", "write">>,
                  <<"asset", "account", "portfolio", "write">>, <<"account", "write">>,
                  <<"account", "asset", "write">>, <<"write">>} \cup Updating
<1>1. \A p \in P : /\ p # << >> /\ p[Len(p)] \in {"write", "read"}
                   /\ \E n \in DOMAIN p : p[n] = "write"
  OBVIOUS
<1>2. \A p \in P : WritesThenReads(p)
  BY DEF WritesThenReads
<1>3. <<"read">> # << >> /\ WritesThenReads(<<"read">>)
  BY DEF WritesThenReads
<1>4. op \notin GetOps => Plan(op, req) \in P
  BY DEF Plan, AllOps, CreateOps, UpdateOps, DeleteOps, GetOps
<1>5. op \in GetOps => Plan(op, req) = <<"read">>
  BY DEF Plan, AllOps, CreateOps, UpdateOps, DeleteOps, GetOps
<1>8. \A p \in P : (\E n \in DOMAIN p : p[n] = "read") => p \in Updating
  OBVIOUS
<1>9. op \in CreateOps => Plan(op, req) \notin Updating
  BY DEF Plan, AllOps, CreateOps, UpdateOps, DeleteOps, GetOps
<1>10. op \in CreateOps => op \notin GetOps
  BY DEF CreateOps, GetOps
<1>6. op = "UpdateHolding" /\ req.portfolio # NULL => Head(Plan(op, req)) = "portfolio"
  <2>1. op = "UpdateHolding" /\ req.portfolio # NULL =>
          Plan(op, req) \in Updating \ {<<"write", "read">>}
    BY DEF Plan, CreateOps, UpdateOps, GetOps
  <2>2. \A p \in Updating \ {<<"write", "read">>} : Head(p) = "portfolio"
    OBVIOUS
  <2>. HIDE DEF Updating
  <2>. QED  BY <2>1, <2>2
<1>. HIDE DEF P, Updating
<1>. QED  BY <1>1, <1>2, <1>3, <1>4, <1>5, <1>6, <1>8, <1>9, <1>10 DEF Left

(* Nothing is left of a plan that is done.                                 *)
LEMMA NothingLeft == Left(<< >>) = {} /\ WritesThenReads(<< >>)
BY DEF Left, WritesThenReads

-----------------------------------------------------------------------------
(* Steps of others.                                                        *)

(* Every step goes onward.                                                 *)
LEMMA AllOnward == IInv /\ [Next]_vars => Onward
<1>. SUFFICES ASSUME IInv, [Next]_vars PROVE Onward
  OBVIOUS
<1>1. live \subseteq born /\ born \subseteq Rows
  BY DEF IInv, TypeOK
<1>2. live' \subseteq born' /\ born' \subseteq Rows /\ used \subseteq used'
  BY CallsKept, TablesKept, EmailsKept
     DEF IInv, TablesOK, TypeOK, vars, db, emails
<1>3. ASSUME UNCHANGED <<live, born>> PROVE Onward
  BY <1>1, <1>2, <1>3 DEF Onward
<1>4. ASSUME NEW c \in Calls, NEW op, NEW x, x \notin born, Insert(c, op, x)
      PROVE  born \subseteq born' /\ live' \cap born \subseteq live
  BY <1>4 DEF Insert
<1>5. ASSUME NEW c \in Calls, InsertStep(c) PROVE Onward
  BY <1>1, <1>2, <1>3, <1>4, <1>5 DEF InsertStep, InsertUser, InsertAsset, InsertAccount,
     InsertPortfolio, InsertHolding, InsertTransaction, InsertRefused, db, Onward
<1>6. ASSUME NEW c \in Calls, UpdateStep(c) PROVE UNCHANGED <<live, born>>
  BY <1>6 DEF UpdateStep, UpdateUser, UserRefused, UpdateAccount, UpdatePortfolio,
     UpdateHolding, MoveRefused, UpdateTransaction, Update, db
<1>7. ASSUME NEW c \in Calls, DeleteStep(c) PROVE Onward
  BY <1>1, <1>2, <1>3, <1>7 DEF DeleteStep, DeleteUser, DeleteAsset, DeleteAccount,
     DeletePortfolio, DeleteHolding, DeleteRefused, Delete, db, Onward
<1>8. ASSUME NEW c \in Calls, \/ Invoke(c) \/ Reject(c) \/ Return(c) \/ RowMissing(c)
                              \/ Unwritable(c) \/ StatementFails(c) \/ ReplyLost(c)
      PROVE  UNCHANGED <<live, born>>
  BY <1>8 DEF Invoke, Begin, Reject, Return, RowMissing, Unwritable, StatementFails,
     ReplyLost, db
<1>9. ASSUME NEW c \in Calls, LookupStep(c) \/ ReadStep(c) PROVE UNCHANGED <<live, born>>
  BY <1>9 DEF LookupStep, GetUserInternalID, GetAssetInternalID, GetAccountInternalID,
       GetPortfolioInternalID, Lookup, ReadStep, GetAccount, GetPortfolio, GetHolding,
       GetTransaction, Read, db
<1>10. CASE Crash \/ UNCHANGED vars
  BY <1>3, <1>10 DEF Crash, vars, db
<1>. QED  BY <1>3, <1>5, <1>6, <1>7, <1>8, <1>9, <1>10 DEF Next, Statement

(* What is true stays true while others go on: no row comes back.          *)
LEMMA StaysSincere ==
    ASSUME Onward, NEW k, Sincere(k, live, born, used)
    PROVE  Sincere(k, live', born', used')
<1>1. \A id \in born \cup Malformed \cup {NULL} : id \notin live => id \notin live'
  BY IdsAssumption DEF Onward
<1>2. born \subseteq born' /\ used \subseteq used'
  BY DEF Onward
<1>3. ASSUME Told(k, live, born, used) PROVE Told(k, live', born', used')
  <2>1. \A S : S \subseteq born \cup Malformed \cup {NULL} /\ ~(S \subseteq live) => ~(S \subseteq live')
    BY <1>1
  <2>2. Parents(k) \cup {k.row} \subseteq born \cup Malformed \cup {NULL}
    BY <1>3 DEF Told
  <2>3. k.answer = "NotFound" =>
         ~(Parents(k) \cup (IF k.op \in CreateOps THEN {} ELSE {k.row}) \subseteq live')
    BY <1>3, <2>1, <2>2 DEF Told
  <2>. QED  BY <1>1, <1>2, <1>3, <2>1, <2>2, <2>3 DEF Told
<1>4. ASSUME Told(k, live, born, used), Effective(k, live) PROVE Effective(k, live')
  <2>1. k.row \in born \cup {NULL}
    BY <1>4 DEF Told
  <2>. QED  BY <1>1, <1>4, <2>1 DEF Effective
<1>. QED  BY <1>3, <1>4 DEF Sincere

(* A step of one call, which is sincere after it.                          *)
LEMMA OneCallSincere ==
    ASSUME IInv, CallsSincere, Onward, NEW c \in Calls, NEW k, call' = [call EXCEPT ![c] = k],
           k # NULL => Sincere(k, live', born', used')
    PROVE  CallsSincere'
<1>. SUFFICES ASSUME NEW d \in Calls, call'[d] # NULL
              PROVE  Sincere(call'[d], live', born', used')
  BY DEF CallsSincere
<1>1. CASE d = c
  BY <1>1 DEF IInv, TypeOK
<1>2. CASE d # c
  <2>1. call'[d] = call[d] /\ Sincere(call[d], live, born, used)
    BY <1>2 DEF IInv, TypeOK, CallsSincere
  <2>. QED  BY <2>1, StaysSincere
<1>. QED  BY <1>1, <1>2

-----------------------------------------------------------------------------
(* The steps of a call.                                                    *)

(* A request names rows that are, or were, there, or ids that are no uuid. *)
LEMMA BeginSincere ==
    ASSUME IInv, CallsSincere, Onward, NEW c \in Calls, NEW op \in AllOps, NEW row,
           NEW req \in Request, Begin(c, op, row, req), row \in born \cup {NULL},
           {req.user, req.account, req.asset, req.portfolio} \subseteq born \cup Malformed \cup {NULL},
           op \in {"CreateUser", "UpdateHolding"} => {req.user, req.account, req.asset} = {NULL},
           op = "CreateUser" => req.portfolio = NULL,
           op \in CreateOps \ {"CreateUser"} => req.email = NULL
    PROVE  CallsSincere'
<1>0. PICK f \in {"none"} \cup FlawsOf(op, req) :
        LET r == [req EXCEPT !.flaw = f]
        IN  call' = [call EXCEPT ![c] =
                       [op |-> op, row |-> row, req |-> r, plan |-> Plan(op, r),
                        answer |-> "OK", did |-> FALSE, faulted |-> FALSE]]
  BY DEF Begin
<1>. DEFINE r == [req EXCEPT !.flaw = f]
            k == [op |-> op, row |-> row, req |-> r, plan |-> Plan(op, r),
                  answer |-> "OK", did |-> FALSE, faulted |-> FALSE]
<1>1. call' = [call EXCEPT ![c] = k]
  BY <1>0
<1>2. /\ k.op = op /\ k.row = row /\ k.req = r /\ k.plan = Plan(op, r)
      /\ k.answer = "OK" /\ k.did = FALSE
  OBVIOUS
<1>6. /\ r.user = req.user /\ r.account = req.account /\ r.asset = req.asset
      /\ r.portfolio = req.portfolio /\ r.email = req.email
  BY DEF Request
<1>. HIDE DEF k, r
<1>3. /\ Parents(k) = {req.user, req.account, req.asset, req.portfolio} \ {NULL}
      /\ NULL \notin Malformed
  BY <1>2, <1>6, IdsAssumption DEF Parents
<1>4. Told(k, live, born, used)
  BY <1>2, <1>3, <1>6, PlansWrite DEF Told
<1>5. Effective(k, live)
  BY <1>2, PlansWrite DEF Effective
<1>. QED  BY <1>1, <1>4, <1>5, StaysSincere, OneCallSincere DEF Sincere

(* So do all that clients send.                                            *)
LEMMA InvokeSincere ==
    ASSUME IInv, CallsSincere, Onward, NEW c \in Calls, Invoke(c)
    PROVE  CallsSincere'
<1>. DEFINE Sent(req) ==
       {req.user, req.account, req.asset, req.portfolio} \subseteq born \cup Malformed \cup {NULL}
<1>0. \A T : Named(T) \subseteq born \cup Malformed
  BY DEF Named
<1>1. /\ Blank.user = NULL /\ Blank.account = NULL /\ Blank.asset = NULL
      /\ Blank.portfolio = NULL /\ Blank.email = NULL /\ Blank \in Request
  BY DEF Blank, Request, TransactionStatus, Flaw
<1>2. CASE Begin(c, "CreateAsset", NULL, Blank)
  BY <1>1, <1>2, BeginSincere DEF AllOps, CreateOps
<1>3. CASE \E op \in {"CreateAccount", "CreatePortfolio"}, u \in Named(Users) :
              Begin(c, op, NULL, [Blank EXCEPT !.user = u])
  <2>1. PICK op \in {"CreateAccount", "CreatePortfolio"}, u \in Named(Users) :
               Begin(c, op, NULL, [Blank EXCEPT !.user = u])
    BY <1>3
  <2>. DEFINE req == [Blank EXCEPT !.user = u]
  <2>2. req \in Request
    BY StatusesAssumption DEF Blank, Request, Named, TransactionStatus, Flaw
  <2>3. Sent(req) /\ req.email = NULL
    BY <1>0 DEF Blank
  <2>. HIDE DEF req
  <2>. QED  BY <2>1, <2>2, <2>3, BeginSincere DEF AllOps, CreateOps, req
<1>4. CASE \E n \in Named(Accounts), a \in Named(Assets), p \in Named(Portfolios) \cup {NULL} :
              Begin(c, "CreateHolding", NULL, [Blank EXCEPT !.account = n, !.asset = a, !.portfolio = p])
  <2>1. PICK n \in Named(Accounts), a \in Named(Assets), p \in Named(Portfolios) \cup {NULL} :
               Begin(c, "CreateHolding", NULL, [Blank EXCEPT !.account = n, !.asset = a, !.portfolio = p])
    BY <1>4
  <2>. DEFINE req == [Blank EXCEPT !.account = n, !.asset = a, !.portfolio = p]
  <2>2. req \in Request
    BY StatusesAssumption DEF Blank, Request, Named, TransactionStatus, Flaw
  <2>3. Sent(req) /\ req.email = NULL
    BY <1>0 DEF Blank
  <2>. HIDE DEF req
  <2>. QED  BY <2>1, <2>2, <2>3, BeginSincere DEF AllOps, CreateOps, req
<1>5. CASE \E n \in Named(Accounts), a \in Named(Assets) \cup {NULL}, s \in Statuses :
              Begin(c, "CreateTransaction", NULL, [Blank EXCEPT !.account = n, !.asset = a, !.status = s])
  <2>1. PICK n \in Named(Accounts), a \in Named(Assets) \cup {NULL}, s \in Statuses :
               Begin(c, "CreateTransaction", NULL, [Blank EXCEPT !.account = n, !.asset = a, !.status = s])
    BY <1>5
  <2>. DEFINE req == [Blank EXCEPT !.account = n, !.asset = a, !.status = s]
  <2>2. req \in Request
    BY StatusesAssumption DEF Blank, Request, Named, TransactionStatus, Flaw
  <2>3. Sent(req) /\ req.email = NULL
    BY <1>0 DEF Blank
  <2>. HIDE DEF req
  <2>. QED  BY <2>1, <2>2, <2>3, BeginSincere DEF AllOps, CreateOps, req
<1>6. CASE \E x \in Holdings \cap born, p \in Named(Portfolios) \cup {NULL} :
              Begin(c, "UpdateHolding", x, [Blank EXCEPT !.masked = TRUE, !.portfolio = p])
  <2>1. PICK x \in Holdings \cap born, p \in Named(Portfolios) \cup {NULL} :
               Begin(c, "UpdateHolding", x, [Blank EXCEPT !.masked = TRUE, !.portfolio = p])
    BY <1>6
  <2>. DEFINE req == [Blank EXCEPT !.masked = TRUE, !.portfolio = p]
  <2>2. req \in Request
    BY StatusesAssumption DEF Blank, Request, Named, TransactionStatus, Flaw
  <2>3. Sent(req) /\ {req.user, req.account, req.asset} = {NULL}
    BY <1>0 DEF Blank
  <2>. HIDE DEF req
  <2>. QED  BY <2>1, <2>2, <2>3, BeginSincere DEF AllOps, CreateOps, UpdateOps, req
<1>7. CASE \E x \in Transactions \cap born, s \in Statuses :
              Begin(c, "UpdateTransaction", x, [Blank EXCEPT !.masked = TRUE, !.status = s])
  <2>1. PICK x \in Transactions \cap born, s \in Statuses :
               Begin(c, "UpdateTransaction", x, [Blank EXCEPT !.masked = TRUE, !.status = s])
    BY <1>7
  <2>. DEFINE req == [Blank EXCEPT !.masked = TRUE, !.status = s]
  <2>2. req \in Request
    BY StatusesAssumption DEF Blank, Request, Named, TransactionStatus, Flaw
  <2>3. Sent(req) 
    BY <1>0 DEF Blank
  <2>. HIDE DEF req
  <2>. QED  BY <2>1, <2>2, <2>3, BeginSincere DEF AllOps, CreateOps, UpdateOps, req
<1>9. CASE \E e \in Emails :
              Begin(c, "CreateUser", NULL, [Blank EXCEPT !.email = e])
  <2>1. PICK e \in Emails :
               Begin(c, "CreateUser", NULL, [Blank EXCEPT !.email = e])
    BY <1>9
  <2>. DEFINE req == [Blank EXCEPT !.email = e]
  <2>2. req \in Request
    BY StatusesAssumption DEF Blank, Request, Named, TransactionStatus, Flaw
  <2>3. Sent(req) /\ {req.user, req.account, req.asset, req.portfolio} = {NULL}
    BY <1>0 DEF Blank
  <2>. HIDE DEF req
  <2>. QED  BY <2>1, <2>2, <2>3, BeginSincere DEF AllOps, CreateOps, req
<1>10. CASE \E x \in Users \cap born, e \in Emails :
              Begin(c, "UpdateUser", x, [Blank EXCEPT !.masked = TRUE, !.email = e])
  <2>1. PICK x \in Users \cap born, e \in Emails :
               Begin(c, "UpdateUser", x, [Blank EXCEPT !.masked = TRUE, !.email = e])
    BY <1>10
  <2>. DEFINE req == [Blank EXCEPT !.masked = TRUE, !.email = e]
  <2>2. req \in Request
    BY StatusesAssumption DEF Blank, Request, Named, TransactionStatus, Flaw
  <2>3. Sent(req) 
    BY <1>0 DEF Blank
  <2>. HIDE DEF req
  <2>. QED  BY <2>1, <2>2, <2>3, BeginSincere DEF AllOps, CreateOps, UpdateOps, req
<1>8. CASE \E op \in UpdateOps \cup DeleteOps \cup GetOps :
              \E x \in Table(op) \cap born : Begin(c, op, x, Blank)
  <2>1. PICK op \in UpdateOps \cup DeleteOps \cup GetOps :
               \E x \in born : Begin(c, op, x, Blank)
    BY <1>8
  <2>2. op \in AllOps
    BY DEF AllOps
  <2>. QED  BY <1>1, <2>1, <2>2, BeginSincere
<1>. QED  BY <1>2, <1>3, <1>4, <1>5, <1>6, <1>7, <1>8, <1>9, <1>10 DEF Invoke

(* The next statement of a call: it goes on,                               *)
Goes(c) == /\ Proceed(c) /\ UNCHANGED db
           /\ call[c] # NULL /\ call[c].plan # << >> /\ Head(call[c].plan) # "write"
           /\ Head(call[c].plan) = "portfolio" => call[c].req.portfolio \in live

(* or writes,                                                              *)
Writes(c) == /\ Written(c) \/ \E x : /\ x \in born' /\ call[c].op \in CreateOps
                                     /\ call' = [call EXCEPT ![c].plan = Tail(@),
                                                    ![c].did = TRUE, ![c].row = x]
             /\ call[c] # NULL /\ call[c].plan # << >> /\ Head(call[c].plan) = "write"

(* or ends with an error that is true.                                     *)
Errs(c, code) ==
    /\ Answer(c, code) /\ UNCHANGED db
    /\ call[c] # NULL /\ call[c].plan # << >>
    /\ code \in Codes \ {"OK"}
    /\ Head(call[c].plan) = "read" => call[c].row \notin live
    /\ code = "NotFound" =>
         ~(Parents(call[c]) \cup (IF call[c].op \in CreateOps THEN {} ELSE {call[c].row})
             \subseteq live)
    /\ code = "FailedPrecondition" =>
         /\ call[c].op = "CreateUser" => call[c].req.email \in used
         /\ call[c].op = "UpdateUser" => call[c].req.email \in used \/ call[c].req.flaw = "unset"
         /\ call[c].op \in CreateOps \ {"CreateUser"} => ~(Parents(call[c]) \subseteq live)
    /\ code = "InvalidArgument" => Parents(call[c]) \cap Malformed # {}
    /\ code = "Internal" =>
         \/ call[c].req.flaw \in {"unwritable", "twice"}
         \/ /\ call[c].op = "UpdateHolding" /\ Head(call[c].plan) = "write"
            /\ ~(Parents(call[c]) \subseteq live)

(* A lookup, or the read, that is followed by another statement or none.   *)
LEMMA GoesSincere ==
    ASSUME IInv, CallsSincere, Onward, NEW c \in Calls, Goes(c)
    PROVE  CallsSincere'
<1>. DEFINE g == call[c]
            plan == Tail(g.plan)
            k == [g EXCEPT !.plan = plan]
<1>1. g \in Call /\ g.plan \in Seq(Steps) /\ g.plan # << >> /\ Sincere(g, live, born, used)
  BY DEF Goes, IInv, TypeOK, CallsSincere, Call
<1>2. call' = [call EXCEPT ![c] = k]
  BY DEF Goes, Proceed, IInv, TypeOK
<1>. HIDE DEF plan
<1>3. /\ k.op = g.op /\ k.row = g.row /\ k.req = g.req /\ k.plan = plan
      /\ k.answer = g.answer /\ k.did = g.did /\ k.faulted = g.faulted
  BY <1>1 DEF Call
<1>. HIDE DEF k
<1>4. Parents(k) = Parents(g)
  BY <1>3 DEF Parents
<1>5. Told(k, live, born, used)
  <2>1. g.op = "UpdateHolding" => g.req.portfolio \notin Malformed
    <3>1. live \cap Malformed = {}
      BY IdsAssumption DEF IInv, TypeOK
    <3>. QED  BY <1>1, <3>1 DEF Goes, Sincere, Told
  <2>2. Left(plan) \subseteq Left(g.plan)
    BY <1>1, Parts DEF plan
  <2>. QED  BY <1>1, <1>3, <1>4, <2>1, <2>2 DEF Sincere, Told
<1>6. Effective(g, live) => Effective(k, live)
  <2>1. /\ Left(g.plan) = {Head(g.plan)} \cup Left(plan) /\ Head(g.plan) # "write"
        /\ WritesThenReads(g.plan) => WritesThenReads(plan)
    BY <1>1, Parts DEF Goes, plan
  <2>. QED  BY <1>1, <1>3, <2>1 DEF Effective
<1>. QED  BY <1>1, <1>2, <1>5, <1>6, StaysSincere, OneCallSincere DEF Sincere

(* A write that took effect.                                               *)
LEMMA WritesSincere ==
    ASSUME IInv, CallsSincere, Onward, NEW c \in Calls, Writes(c)
    PROVE  CallsSincere'
<1>. DEFINE g == call[c]
            plan == Tail(g.plan)
<1>1. /\ g \in Call /\ g.plan \in Seq(Steps) /\ g.plan # << >> /\ Sincere(g, live, born, used)
      /\ Head(g.plan) = "write"
  BY DEF Writes, IInv, TypeOK, CallsSincere, Call
<1>2. ASSUME NEW k, call' = [call EXCEPT ![c] = k],
             k.op = g.op, k.req = g.req, k.plan = plan, k.answer = g.answer, k.did = TRUE,
             k.faulted = g.faulted, k.row = g.row \/ (k.row \in born' /\ g.op \in CreateOps)
      PROVE  CallsSincere'
  <2>1. Parents(k) = Parents(g)
    BY <1>2 DEF Parents
  <2>2. Sincere(g, live', born', used')
    BY <1>1, StaysSincere
  <2>3. Told(k, live', born', used')
    <3>1. Left(plan) \subseteq Left(g.plan)
      BY <1>1, Parts
    <3>. HIDE DEF plan
    <3>. QED  BY <1>1, <1>2, <2>1, <2>2, <3>1 DEF Sincere, Told
  <2>4. Effective(g, live') => Effective(k, live')
    <3>1. /\ WritesThenReads(g.plan) => WritesThenReads(plan) /\ Left(plan) \subseteq {"read"}
      BY <1>1, Parts
    <3>. HIDE DEF plan
    <3>. QED  BY <1>1, <1>2, <3>1 DEF Effective
  <2>5. Sincere(k, live', born', used')
    BY <2>2, <2>3, <2>4 DEF Sincere
  <2>. QED  BY <1>2, <2>5, OneCallSincere
<1>3. CASE Written(c)
  <2>. DEFINE k == [g EXCEPT !.plan = plan, !.did = TRUE]
  <2>1. call' = [call EXCEPT ![c] = k]
    BY <1>3 DEF Written, IInv, TypeOK
  <2>. HIDE DEF plan
  <2>2. /\ k.op = g.op /\ k.row = g.row /\ k.req = g.req /\ k.plan = plan
        /\ k.answer = g.answer /\ k.did = TRUE /\ k.faulted = g.faulted
    BY <1>1 DEF Call
  <2>. HIDE DEF k
  <2>. QED  BY <2>1, <2>2, <1>2
<1>4. ASSUME NEW x \in born', g.op \in CreateOps,
             call' = [call EXCEPT ![c].plan = Tail(@), ![c].did = TRUE, ![c].row = x]
      PROVE  CallsSincere'
  <2>. DEFINE k == [g EXCEPT !.plan = plan, !.did = TRUE, !.row = x]
  <2>1. call' = [call EXCEPT ![c] = k]
    BY <1>4 DEF IInv, TypeOK
  <2>. HIDE DEF plan
  <2>2. /\ k.op = g.op /\ k.row = x /\ k.req = g.req /\ k.plan = plan
        /\ k.answer = g.answer /\ k.did = TRUE /\ k.faulted = g.faulted
    BY <1>1 DEF Call
  <2>. HIDE DEF k
  <2>. QED  BY <1>4, <2>1, <2>2, <1>2
<1>. QED  BY <1>3, <1>4 DEF Writes

(* An error that a statement brought about.                                *)
LEMMA ErrsSincere ==
    ASSUME IInv, CallsSincere, Onward, NEW c \in Calls, NEW code, Errs(c, code)
    PROVE  CallsSincere'
<1>. DEFINE g == call[c]
            k == [g EXCEPT !.plan = << >>, !.answer = code]
<1>1. g \in Call /\ g.plan \in Seq(Steps) /\ g.plan # << >> /\ Sincere(g, live, born, used)
  BY DEF Errs, IInv, TypeOK, CallsSincere, Call
<1>2. call' = [call EXCEPT ![c] = k]
  BY DEF Errs, Answer, IInv, TypeOK
<1>3. /\ k.op = g.op /\ k.row = g.row /\ k.req = g.req /\ k.plan = << >>
      /\ k.answer = code /\ k.did = g.did /\ k.faulted = g.faulted
  BY <1>1 DEF Call
<1>. HIDE DEF k
<1>4. Parents(k) = Parents(g)
  BY <1>3 DEF Parents
<1>5. code = "Internal" => \/ g.req.flaw \in {"unwritable", "twice"}
                           \/ g.op = "UpdateHolding" /\ g.req.portfolio \in born \ live
  BY <1>1 DEF Errs, Sincere, Told
<1>6. Told(k, live, born, used)
  BY <1>1, <1>3, <1>4, <1>5, NothingLeft DEF Sincere, Told, Errs
<1>7. Effective(g, live) => Effective(k, live)
  <2>1. Left(g.plan) = {Head(g.plan)} \cup Left(Tail(g.plan))
    BY <1>1, Parts
  <2>. QED  BY <1>1, <1>3, <2>1, NothingLeft DEF Effective, Errs
<1>. QED  BY <1>1, <1>2, <1>6, <1>7, StaysSincere, OneCallSincere DEF Sincere

(* An error that a fault brought about.                                    *)
LEMMA HitSincere ==
    ASSUME IInv, CallsSincere, Onward, NEW c \in Calls, call[c] # NULL, Hit(c)
    PROVE  CallsSincere'
<1>. DEFINE g == call[c]
            k == [g EXCEPT !.plan = << >>, !.answer = "Internal", !.faulted = TRUE]
<1>1. g \in Call /\ Sincere(g, live, born, used)
  BY DEF IInv, TypeOK, CallsSincere
<1>2. call' = [call EXCEPT ![c] = k]
  BY DEF Hit, IInv, TypeOK
<1>3. /\ k.op = g.op /\ k.row = g.row /\ k.req = g.req /\ k.plan = << >>
      /\ k.answer = "Internal" /\ k.faulted = TRUE
  BY <1>1 DEF Call
<1>. HIDE DEF k
<1>4. Parents(k) = Parents(g)
  BY <1>3 DEF Parents
<1>5. Told(k, live, born, used)
  BY <1>1, <1>3, <1>4, NothingLeft DEF Sincere, Told
<1>6. Effective(k, live)
  BY <1>3, NothingLeft DEF Effective
<1>. QED  BY <1>2, <1>5, <1>6, StaysSincere, OneCallSincere DEF Sincere

-----------------------------------------------------------------------------
(* Every statement is one of those.                                        *)
LEMMA StatementKinds ==
    ASSUME IInv, CallsSincere, ReferentialIntegrity, NEW c \in Calls, Statement(c), Onward
    PROVE  Goes(c) \/ Writes(c) \/ \E code : Errs(c, code)
<1>1. live \cap Malformed = {} /\ NULL \notin live \cup Rows /\ Rows \cap Malformed = {}
  BY IdsAssumption DEF IInv, TypeOK
<1>2. {"InvalidArgument", "NotFound", "FailedPrecondition", "Internal"} = Codes \ {"OK"}
  BY DEF Codes
<1>3. ASSUME NEW f \in {"user", "asset", "account", "portfolio"}, NEW id, At(c, f), Lookup(c, id),
             id # NULL => id \in Parents(call[c]),
             f = "portfolio" => id = call[c].req.portfolio
      PROVE  Goes(c) \/ \E code : Errs(c, code)
  <2>1. CASE id \in live /\ Proceed(c)
    BY <1>3, <2>1 DEF Goes, At, Lookup
  <2>2. CASE id \in Malformed /\ Answer(c, "InvalidArgument")
    <3>1. id \in Parents(call[c])
      BY <1>3, <2>2, IdsAssumption
    <3>. QED  BY <1>2, <1>3, <2>2, <3>1 DEF Errs, At, Lookup
  <2>3. CASE id \in Rows \ live /\ Answer(c, "NotFound")
    BY <1>1, <1>2, <1>3, <2>3 DEF Errs, At, Lookup
  <2>. QED  BY <1>3, <2>1, <2>2, <2>3 DEF Lookup
<1>10. EmailTaken(c) => call[c].req.email \in used /\ call[c].req.email # NULL
  BY DEF EmailTaken, IInv, TypeOK
<1>4. CASE LookupStep(c)
  BY <1>3, <1>4 DEF LookupStep, GetUserInternalID, GetAssetInternalID, GetAccountInternalID,
     GetPortfolioInternalID, Parents
<1>5. CASE InsertStep(c)
  <2>1. CASE InsertRefused(c)
    <3>1. Told(call[c], live, born, used) /\ call[c].op \in CreateOps
      BY <2>1 DEF InsertRefused, At, CallsSincere, Sincere
    <3>2. EmailTaken(c) => call[c].req.email \in used /\ call[c].op = "CreateUser"
      BY <1>10, <3>1 DEF Told
    <3>3. "UpdateUser" \notin CreateOps
      BY DEF CreateOps
    <3>. QED  BY <1>2, <2>1, <3>1, <3>2, <3>3 DEF InsertRefused, Errs, At, Told
  <2>2. ASSUME NEW op \in CreateOps, NEW x, Insert(c, op, x) PROVE Writes(c)
    BY <2>2 DEF Insert, Writes, AtWrite, At
  <2>. QED
    BY <1>5, <2>1, <2>2 DEF InsertStep, InsertUser, InsertAsset, InsertAccount,
         InsertPortfolio, InsertHolding, InsertTransaction, CreateOps
<1>6. CASE UpdateStep(c)
  <2>1. CASE MoveRefused(c)
    BY <1>2, <2>1 DEF MoveRefused, Errs, AtWrite, At
  <2>2. ASSUME NEW op, Update(c, op) PROVE Writes(c)
    BY <2>2 DEF Update, Writes, AtWrite, At
  <2>3. CASE UserRefused(c)
    <3>1. call[c].op = "UpdateUser" /\ call[c].op \notin CreateOps
      BY <2>3 DEF UserRefused, AtWrite, CreateOps
    <3>. QED  BY <1>2, <1>10, <2>3, <3>1 DEF UserRefused, Errs, AtWrite, At
  <2>. QED
    BY <1>6, <2>1, <2>2, <2>3 DEF UpdateStep, UpdateUser, UpdateAccount, UpdatePortfolio,
         UpdateHolding, UpdateTransaction
<1>7. CASE DeleteStep(c)
  <2>1. CASE DeleteRefused(c)
    <3>1. call[c].op \notin CreateOps /\ call[c].op \notin {"CreateUser", "UpdateUser"}
      BY <2>1 DEF DeleteRefused, DeleteOps, CreateOps
    <3>. QED  BY <1>2, <2>1, <3>1 DEF DeleteRefused, Errs, At
  <2>2. ASSUME NEW op, Delete(c, op) PROVE Writes(c)
    BY <2>2 DEF Delete, Writes, At
  <2>. QED
    BY <1>7, <2>1, <2>2 DEF DeleteStep, DeleteUser, DeleteAsset, DeleteAccount,
         DeletePortfolio, DeleteHolding
<1>8. CASE RowMissing(c)
  <2>1. call[c].op \notin CreateOps
    BY <1>8 DEF RowMissing, UpdateOps, DeleteOps, CreateOps
  <2>. QED  BY <1>2, <1>8, <2>1 DEF RowMissing, Errs, At
<1>11. CASE Unwritable(c)
  BY <1>2, <1>11 DEF Unwritable, Errs, At
<1>9. CASE ReadStep(c)
  <2>1. PICK T : Read(c, T)
    BY <1>9 DEF ReadStep, GetAccount, GetPortfolio, GetHolding, GetTransaction
  <2>2. At(c, "read") /\ UNCHANGED db /\
          IF call[c].row \in live THEN Proceed(c) ELSE Answer(c, "NotFound")
    BY <2>1 DEF Read, ReferentialIntegrity
  <2>3. call[c].op \notin CreateOps
    <3>1. /\ call[c].plan \in Seq(Steps) /\ call[c].plan # << >>
          /\ Told(call[c], live, born, used) /\ Head(call[c].plan) = "read"
      BY <2>2 DEF At, IInv, TypeOK, Call, CallsSincere, Sincere
    <3>. QED  BY <3>1, Parts DEF Told
  <2>. QED  BY <1>2, <2>2, <2>3 DEF Goes, Errs, At
<1>. QED  BY <1>4, <1>5, <1>6, <1>7, <1>8, <1>9, <1>11 DEF Statement

(* Every step keeps the calls sincere.                                     *)
LEMMA StepSincere ==
    IInv /\ CallsSincere /\ ReferentialIntegrity /\ [Next]_vars => CallsSincere'
<1>. SUFFICES ASSUME IInv, CallsSincere, ReferentialIntegrity, [Next]_vars
              PROVE  CallsSincere'
  OBVIOUS
<1>0. Onward
  BY AllOnward
<1>1. ASSUME NEW c \in Calls, Invoke(c) PROVE CallsSincere'
  BY <1>0, <1>1, InvokeSincere
<1>2. ASSUME NEW c \in Calls, Reject(c) PROVE CallsSincere'
  <2>. DEFINE r == [Blank EXCEPT !.flaw = "incomplete"]
              k(op) == [op |-> op, row |-> NULL, req |-> r, plan |-> << >>,
                        answer |-> "InvalidArgument", did |-> FALSE, faulted |-> FALSE]
  <2>1. PICK op \in Incomplete : call' = [call EXCEPT ![c] = k(op)]
    BY <1>2 DEF Reject
  <2>2. /\ k(op).row = NULL /\ k(op).req = r /\ k(op).plan = << >>
        /\ k(op).answer = "InvalidArgument" /\ k(op).did = FALSE
    OBVIOUS
  <2>3. /\ r.user = NULL /\ r.account = NULL /\ r.asset = NULL /\ r.portfolio = NULL
        /\ r.email = NULL /\ r.flaw = "incomplete"
    BY DEF Blank
  <2>. HIDE DEF k, r
  <2>4. Parents(k(op)) = {}
    BY <2>2, <2>3 DEF Parents
  <2>5. Sincere(k(op), live', born', used')
    BY <2>2, <2>3, <2>4, NothingLeft DEF Sincere, Told, Effective
  <2>. QED  BY <1>0, <2>1, <2>5, OneCallSincere
<1>3. ASSUME NEW c \in Calls, Return(c) PROVE CallsSincere'
  BY <1>0, <1>3, OneCallSincere DEF Return
<1>4. ASSUME NEW c \in Calls, Statement(c) PROVE CallsSincere'
  BY <1>0, <1>4, StatementKinds, GoesSincere, WritesSincere, ErrsSincere
<1>5. ASSUME NEW c \in Calls, StatementFails(c) \/ ReplyLost(c) PROVE CallsSincere'
  <2>1. call[c] # NULL /\ Hit(c)
    BY <1>5 DEF StatementFails, ReplyLost, Answered
  <2>. QED  BY <1>0, <2>1, HitSincere
<1>6. CASE Crash
  BY <1>6 DEF Crash, CallsSincere
<1>7. CASE UNCHANGED vars
  <2>1. call' = call
    BY <1>7 DEF vars
  <2>. QED  BY <1>0, <2>1, StaysSincere DEF CallsSincere
<1>. QED  BY <1>1, <1>2, <1>3, <1>4, <1>5, <1>6, <1>7 DEF Next

(* Whatever interleaves, and whatever fails, the answers given and those   *)
(* still to be given are true.                                             *)
THEOREM AllSincere == Spec => []CallsSincere
<1>1. Init => CallsSincere
  BY DEF Init, CallsSincere
<1>. QED  BY <1>1, StepSincere, Invariance, Integrity, PTL DEF Spec

(* No request with good ids is told "not found", nor a create "failed      *)
(* precondition": one of the rows it names is gone, or the email it asks   *)
(* for was a user's.  "Invalid argument" is told of an id that is no uuid, *)
(* or of a request that lacks what it must have.                           *)
THEOREM Truthful == Spec => []ErrorsAreTruthful
<1>1. CallsSincere => ErrorsAreTruthful
  BY DEF CallsSincere, Sincere, Told, ErrorsAreTruthful, Answered
<1>. QED  BY <1>1, AllSincere, PTL

(* An internal error stands for a fault or for a request that no tables    *)
(* would take, but for the move of a holding to a portfolio that is gone.  *)
THEOREM Faulty == Spec => []InternalMeansFault
<1>1. CallsSincere => InternalMeansFault
  BY DEF CallsSincere, Sincere, Told, InternalMeansFault, Answered
<1>. QED  BY <1>1, AllSincere, PTL

(* Whatever fails, the answers tell what took effect - but for those that  *)
(* a fault of their own statement or of their acknowledgement gave.        *)
THEOREM Matching == Spec => []AnswerMatchesEffect
<1>1. CallsSincere => AnswerMatchesEffect
  <2>. SUFFICES ASSUME CallsSincere, NEW c \in Calls, Answered(c)
                PROVE  /\ call[c].answer = "OK" /\ call[c].op \notin GetOps => call[c].did
                       /\ call[c].answer # "OK" /\ call[c].did =>
                            call[c].row \notin live \/ call[c].faulted
    BY DEF AnswerMatchesEffect
  <2>1. Effective(call[c], live) /\ call[c].plan = << >>
    BY DEF CallsSincere, Sincere, Answered
  <2>. QED  BY <2>1, NothingLeft DEF Effective
<1>. QED  BY <1>1, AllSincere, PTL
=============================================================================
