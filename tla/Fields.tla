------------------------------- MODULE Fields -------------------------------
(* What is in the columns: messages of the API become entities, entities   *)
(* rows, and back, while requests create, read, delete and, column by      *)
(* column as their field mask says, update the same rows.                  *)
(*                                                                         *)
(* One table at a time is looked at.  The columns that refer to other rows *)
(* and the statements about them are in PortfolioStore and PriceStore;     *)
(* timestamps are left out.                                                *)
EXTENDS Integers, Sequences, FiniteSets

CONSTANTS
    Tables,     \* tables looked at
    Uuids,      \* per table: those that are drawn for its rows
    Calls,      \* slots for concurrent requests
    Messages,   \* per table: what clients send
    Masks,      \* per table: the masks, sequences of paths
    Broken,     \* texts that are no JSON
    Respelled,  \* JSON texts that a jsonb column gives back otherwise, and how
    NULL        \* SQL NULL, a field that is not set, a row that is not there

VARIABLES
    table,      \* the table looked at
    rows,       \* of each uuid: the columns, or NULL
    born,       \* uuids that were drawn
    call,       \* requests in progress
    answer,     \* the answer just given, if any
    intent      \* history: per uuid and column, what the last write sent

vars == << table, rows, born, call, answer, intent >>
-----------------------------------------------------------------------------
(* The uuids of the table looked at.                                       *)
Ids == Uuids[table]

(* Enumerations.  The numbers of the API and of the entities are the same; *)
(* zero is unspecified.  A table stores names; a number of no name is      *)
(* stored as unspecified, and a name of no number read as zero.            *)

AccountType == << "wallet", "exchange", "bank", "broker" >>
AssetType == << "cryptocurrency", "stock", "bond", "commodity", "forex", "fund" >>
TransactionType == << "extended", "trade", "transfer", "deposit", "withdrawal" >>
TransactionStatus == << "pending", "processing", "completed", "failed", "cancelled" >>

(* Mutant: a number of no name has none.                                   *)
NameOrEmpty(enum, n) == IF n \in DOMAIN enum THEN enum[n] ELSE ""

NameOf(enum, n) == IF n \in DOMAIN enum THEN enum[n] ELSE "unspecified"
NumberOf(enum, s) ==
    IF \E n \in DOMAIN enum : enum[n] = s
    THEN CHOOSE n \in DOMAIN enum : enum[n] = s ELSE 0

accountTypeToString(n)       == NameOf(AccountType, n)
stringToAccountType(s)       == NumberOf(AccountType, s)
assetTypeToString(n)         == NameOf(AssetType, n)
stringToAssetType(s)         == NumberOf(AssetType, s)
transactionTypeToString(n)   == NameOf(TransactionType, n)
stringToTransactionType(s)   == NumberOf(TransactionType, s)
transactionStatusToString(n) == NameOf(TransactionStatus, n)
stringToTransactionStatus(s) == NumberOf(TransactionStatus, s)

(* Messages, as far as columns other than references and times go.  An     *)
(* open price is optional, and so are the four other numbers of a candle.  *)
Portfolio   == [name : STRING, description : STRING \cup {NULL},
                data : [type_url : STRING, value : STRING]]
Account     == [name : STRING, description : STRING \cup {NULL}, type : Int,
                data : STRING]
Holding     == [amount : Int, decimals : Nat]
Transaction == [type : Int, status : Int, data : STRING]
Asset       == [symbol : STRING \cup {NULL}, name : STRING, type : Int,
                tags : STRING]
Price       == [interval : STRING, decimals : Nat, last : Int,
                open : Int \cup {NULL}]
User        == [email : STRING, name : STRING, preferences : STRING \cup {NULL}]

Message(t) ==
    CASE t = "portfolios"   -> Portfolio
      [] t = "accounts"     -> Account
      [] t = "holdings"     -> Holding
      [] t = "transactions" -> Transaction
      [] t = "assets"       -> Asset
      [] t = "prices"       -> Price
      [] t = "users"        -> User

AllTables == {"portfolios", "accounts", "holdings", "transactions", "assets",
              "prices", "users"}

(* Rows of the tables: which columns are nullable, and which hold the names*)
(* of an enumeration.                                                      *)
Names(enum) == {enum[n] : n \in DOMAIN enum} \cup {"unspecified"}

PortfolioRow   == [name : STRING, description : STRING \cup {NULL}, data : STRING]
AccountRow     == [name : STRING, description : STRING \cup {NULL},
                   type : Names(AccountType), data : STRING]
HoldingRow     == [amount : Int, decimals : Nat]
TransactionRow == [type : Names(TransactionType), status : Names(TransactionStatus),
                   data : STRING]
AssetRow       == [symbol : STRING, name : STRING, type : Names(AssetType),
                   tags : STRING]
PriceRow       == [interval : STRING, decimals : Nat, last : Int,
                   open : Int \cup {NULL}]
UserRow        == [email : STRING, name : STRING, preferences : STRING]

Row(t) ==
    CASE t = "portfolios"   -> PortfolioRow
      [] t = "accounts"     -> AccountRow
      [] t = "holdings"     -> HoldingRow
      [] t = "transactions" -> TransactionRow
      [] t = "assets"       -> AssetRow
      [] t = "prices"       -> PriceRow
      [] t = "users"        -> UserRow

ASSUME TableAssumption ==
    /\ Tables \subseteq AllTables
    /\ \A t \in Tables : \A m \in Messages[t] : m \in Message(t)

(* The texts that are filled in are texts: a fact of TLA+, said here since *)
(* no prover knows it of any literal.                                      *)
ASSUME TextAssumption == {"", "{}", "null"} \subseteq STRING

ASSUME JSONAssumption ==
    \A s \in DOMAIN Respelled : Respelled[s] \in STRING \ (Broken \cup DOMAIN Respelled)

(* What is not there is told from what is.                                 *)
ASSUME NullAssumption ==
    \A t \in Tables : NULL \notin Message(t) /\ NULL \notin Row(t)

(* Texts that are optional are NULL in the message when they are not set,  *)
(* empty in the entity, and NULL again, if nullable, in the row.           *)
fromOptional(v)   == IF v = NULL THEN "" ELSE v
toOptional(s)     == IF s = "" THEN NULL ELSE s
nullableString(s) == IF s = "" THEN NULL ELSE s

(* JSON.  An empty value is marshalled as null, and a jsonb column keeps   *)
(* what a text says and not how it is spelled: blanks, order of keys.      *)
Marshal(v) == IF v = "" THEN "null" ELSE v
jsonb(s)   == IF s \in DOMAIN Respelled THEN Respelled[s] ELSE s
-----------------------------------------------------------------------------
(* Entities of messages, and messages of entities.                         *)

(* Of the data of a portfolio the values are kept and not their types.     *)
portfolioFromProto(m) == [m EXCEPT !.description = fromOptional(@), !.data = @.value]
portfolioToProto(e)   == [e EXCEPT !.description = toOptional(@),
                                   !.data = [type_url |-> "", value |-> @]]
accountFromProto(m)   == [m EXCEPT !.description = fromOptional(@)]
accountToProto(e)     == [e EXCEPT !.description = toOptional(@)]
assetFromProto(m)     == [m EXCEPT !.symbol = fromOptional(@)]
assetToProto(e)       == [e EXCEPT !.symbol = toOptional(@)]
holdingFromProto(m)   == m
holdingToProto(e)     == e
transactionFromProto(m) == m
transactionToProto(e)   == e
priceFromProto(m)     == m
priceToProto(e)       == e

FromProto(m) ==
    CASE table = "portfolios"   -> portfolioFromProto(m)
      [] table = "accounts"     -> accountFromProto(m)
      [] table = "holdings"     -> holdingFromProto(m)
      [] table = "transactions" -> transactionFromProto(m)
      [] table = "assets"       -> assetFromProto(m)
      [] table = "prices"       -> priceFromProto(m)
      [] table = "users"        -> m    \* no service: callers have entities

ToProto(e) ==
    CASE table = "portfolios"   -> portfolioToProto(e)
      [] table = "accounts"     -> accountToProto(e)
      [] table = "holdings"     -> holdingToProto(e)
      [] table = "transactions" -> transactionToProto(e)
      [] table = "assets"       -> assetToProto(e)
      [] table = "prices"       -> priceToProto(e)
      [] table = "users"        -> e
-----------------------------------------------------------------------------
(* Rows of entities: the values of an INSERT, or of an UPDATE's SET.       *)

portfolioColumns(e) == [e EXCEPT !.description = nullableString(@),
                                 !.data = jsonb(Marshal(@))]
accountColumns(e)   == [e EXCEPT !.description = nullableString(@),
                                 !.type = accountTypeToString(@)]
holdingColumns(e)   == e
transactionColumns(e) == [e EXCEPT !.type = transactionTypeToString(@),
                                   !.status = transactionStatusToString(@)]
assetColumns(e)     == [e EXCEPT !.type = assetTypeToString(@)]
priceColumns(e)     == e
userColumns(e)      == [e EXCEPT !.preferences = jsonb(@)]

Columns(e) ==
    CASE table = "portfolios"   -> portfolioColumns(e)
      [] table = "accounts"     -> accountColumns(e)
      [] table = "holdings"     -> holdingColumns(e)
      [] table = "transactions" -> transactionColumns(e)
      [] table = "assets"       -> assetColumns(e)
      [] table = "prices"       -> priceColumns(e)
      [] table = "users"        -> userColumns(e)

(* Entities of rows, as the SELECTs and RETURNING clauses are scanned.     *)
GetPortfolio(r)   == [r EXCEPT !.description = fromOptional(@)]
GetAccount(r)     == [r EXCEPT !.description = fromOptional(@),
                               !.type = stringToAccountType(@)]
GetHolding(r)     == r
GetTransaction(r) == [r EXCEPT !.type = stringToTransactionType(@),
                               !.status = stringToTransactionStatus(@)]
GetAsset(r)       == [r EXCEPT !.type = stringToAssetType(@)]
GetLatestPrice(r) == r
GetUser(r)        == r

Get(r) ==
    CASE table = "portfolios"   -> GetPortfolio(r)
      [] table = "accounts"     -> GetAccount(r)
      [] table = "holdings"     -> GetHolding(r)
      [] table = "transactions" -> GetTransaction(r)
      [] table = "assets"       -> GetAsset(r)
      [] table = "prices"       -> GetLatestPrice(r)
      [] table = "users"        -> GetUser(r)

(* The paths each update looks at; it passes over all others.              *)
UpdatePortfolio   == {"name", "description", "data"}
UpdateAccount     == {"name", "description", "type", "data"}
UpdateHolding     == {"amount", "decimals"}
UpdateTransaction == {"status", "data"}
UpdateAsset       == {"symbol", "name", "type", "tags"}
UpdateUser        == {"email", "name", "preferences"}

Paths ==
    CASE table = "portfolios"   -> UpdatePortfolio
      [] table = "accounts"     -> UpdateAccount
      [] table = "holdings"     -> UpdateHolding
      [] table = "transactions" -> UpdateTransaction
      [] table = "assets"       -> UpdateAsset
      [] table = "prices"       -> {}       \* nothing updates a price
      [] table = "users"        -> UpdateUser

(* The columns of the table that are looked at.                            *)
Fields ==
    CASE table = "transactions" -> Paths \cup {"type"}
      [] table = "prices" -> {"interval", "decimals", "last", "open"}
      [] OTHER -> Paths

Range(mask) == {mask[i] : i \in DOMAIN mask}

(* What the creations ask for.                                             *)
Complete(e) ==
    CASE table = "portfolios"   -> e.name # ""
      [] table = "accounts"     -> e.name # "" /\ e.type # 0
      [] table = "holdings"     -> TRUE
      [] table = "transactions" -> e.type # 0
      [] table = "assets"       -> e.name # "" /\ e.type # 0
      [] table = "prices"       -> TRUE
      [] table = "users"        -> e.email # "" /\ e.name # ""

(* What they fill in.                                                      *)
CreateTransaction(e) == IF e.status = 0 THEN [e EXCEPT !.status = 1] ELSE e
CreateUser(e) == IF e.preferences = NULL THEN [e EXCEPT !.preferences = "{}"] ELSE e

(* Data of a portfolio is checked when it is marshalled, preferences of a  *)
(* user by the database, to which an empty text is no JSON.                *)
MarshalFails(e, paths) ==
    table = "portfolios" /\ "data" \in paths /\ e.data \in Broken
JSONRefused(e, paths) ==
    table = "users" /\ "preferences" \in paths /\ e.preferences \in Broken \cup {""}

(* The indexes and columns that can refuse a write of row r at id.         *)
EmailTaken(id, r) ==
    table = "users" /\ \E i \in Ids \ {id} : rows[i] # NULL /\ rows[i].email = r.email
NotNullRefused(r) == table = "users" /\ r.preferences = NULL
-----------------------------------------------------------------------------
(* A request in progress; "may" is history: what it may answer.            *)
Idle == [stage |-> "idle"]

Request(op, id, m, mask, stage, may) ==
    [op |-> op, id |-> id, msg |-> m, mask |-> mask, stage |-> stage,
     body |-> NULL, wrote |-> FALSE, may |-> may]

Is(c, op, stage) == call[c].stage = stage /\ call[c].op = op

(* A request that no statement can carry out: what it writes is no JSON,   *)
(* or its mask has a path twice, which would set one column twice.         *)
Flawed(req) ==
    LET cols == IF req.op = "create" THEN Fields ELSE Range(req.mask) \cap Paths
    IN  /\ req.op # "get"
        /\ \/ MarshalFails(FromProto(req.msg), cols)
           \/ JSONRefused(FromProto(req.msg), cols)
           \/ \E i, j \in DOMAIN req.mask :
                i < j /\ req.mask[i] = req.mask[j] /\ req.mask[i] \in Paths

(* An answer, to be seen in one state; "failed" is history: whether one of *)
(* the request's statements failed.                                        *)
NoAnswer == [code |-> "none"]
Reply(req, code, body) ==
    [op |-> req.op, id |-> req.id, wrote |-> req.wrote, may |-> req.may,
     flawed |-> Flawed(req), failed |-> FALSE, code |-> code, body |-> body]
Failed(reply) == [reply EXCEPT !.code = "Internal", !.body = NULL, !.failed = TRUE]

Answer(c, code, body) ==
    /\ call' = [call EXCEPT ![c] = Idle]
    /\ answer' = Reply(call[c], code, body)

(* What a message means: an empty optional text is one that is not set, a  *)
(* number that is not declared says nothing, data has no type and is null  *)
(* if it is empty, and JSON is what it says.                               *)
Optional == {"description", "symbol"}
Declared(col) == CASE col = "status" -> DOMAIN TransactionStatus
                   [] col = "type" /\ table = "accounts"     -> DOMAIN AccountType
                   [] col = "type" /\ table = "assets"       -> DOMAIN AssetType
                   [] col = "type" /\ table = "transactions" -> DOMAIN TransactionType
Meant(m) ==
    [col \in DOMAIN m |->
       IF col \in Optional /\ m[col] = "" THEN NULL
       ELSE IF col \in {"type", "status"} /\ m[col] \notin Declared(col) THEN 0
       ELSE IF col = "data" /\ table = "portfolios"
            THEN [type_url |-> "", value |-> jsonb(Marshal(m[col].value))]
       ELSE IF col = "preferences" THEN jsonb(m[col])
       ELSE m[col]]

(* A write of row r at id: the new intent, and what those that are about   *)
(* to answer may see of it.                                                *)
Write(c, id, new, r, next) ==
    /\ rows' = [rows EXCEPT ![id] = r]
    /\ intent' = [intent EXCEPT ![id] = new]
    /\ call' = [d \in Calls |->
                  IF d = c THEN next
                  ELSE IF call[d] # Idle /\ call[d].id = id
                  THEN [call[d] EXCEPT !.may = [col \in Fields |-> @[col] \cup {new[col]}]]
                  ELSE call[d]]

(* What the writer itself may answer.                                      *)
Own(c, cols, new) ==
    [col \in Fields |-> IF col \in cols THEN {new[col]} ELSE call[c].may[col]]
-----------------------------------------------------------------------------
Init ==
    /\ table \in Tables
    /\ rows = [id \in Ids |-> NULL]
    /\ born = {}
    /\ call = [c \in Calls |-> Idle]
    /\ answer = NoAnswer
    /\ intent = [id \in Ids |-> NULL]

(* A request comes in.  What one that reads or updates may answer begins   *)
(* with what the row holds - of what it is about to write, with nothing.   *)
Visible(id, cols) ==
    [col \in Fields |-> IF rows[id] = NULL \/ col \in cols THEN {} ELSE {intent[id][col]}]

Begin(c, req) ==
    /\ call[c] = Idle
    /\ call' = [call EXCEPT ![c] = req]
    /\ answer' = NoAnswer
    /\ UNCHANGED << table, rows, born, intent >>

(* One that is answered before the first statement.                        *)
Reject(c, req, code) ==
    /\ call[c] = Idle
    /\ answer' = Reply(req, code, NULL)
    /\ UNCHANGED << table, rows, born, call, intent >>

(* Bound: each creation in progress has a uuid to draw.                    *)
Room == Cardinality({c \in Calls : Is(c, "create", "running")}) < Cardinality(Ids \ born)

InvokeCreate(c) ==
    /\ Room
    /\ \E m \in Messages[table] :
        LET e == FromProto(m)
            req == Request("create", NULL, m, << >>, "running", [col \in Fields |-> {}])
        IN  \/ ~Complete(e) /\ Reject(c, req, "InvalidArgument")
            \/ Complete(e) /\ Begin(c, req)

InvokeGet(c) ==
    \E id \in Ids :
        Begin(c, Request("get", id, NULL, << >>, "reading", Visible(id, {})))

InvokeUpdate(c) ==
    \E id \in Ids, m \in Messages[table], mask \in Masks[table] :
        Begin(c, Request("update", id, m, mask, "running",
                         Visible(id, Range(mask) \cap Paths)))

(* INSERT.  The answer is the entity that was sent, a status filled in;    *)
(* preferences are filled in for the row alone.  Or it is lost.            *)
Filled(e) == IF table = "transactions" THEN CreateTransaction(e) ELSE e
Inserted(e) == IF table = "users" THEN CreateUser(e) ELSE Filled(e)

Insert(c) ==
    /\ Is(c, "create", "running") /\ ~Flawed(call[c])
    /\ \E id \in Ids \ born :
         LET e == Filled(FromProto(call[c].msg))
             stored == Inserted(FromProto(call[c].msg))
             new == Meant(ToProto(stored))
             reply == [Reply(call[c], "ok", ToProto(e)) EXCEPT
                         !.id = id, !.wrote = TRUE, !.may = Own(c, Fields, new)]
         IN  /\ ~EmailTaken(id, Columns(stored))
             /\ Write(c, id, new, Columns(stored), Idle)
             /\ born' = born \cup {id}
             /\ answer' \in {reply, Failed(reply)}
    /\ UNCHANGED table

InsertRefused(c) ==
    /\ Is(c, "create", "running")
    /\ \/ Flawed(call[c]) /\ Answer(c, "Internal", NULL)
       \/ /\ ~Flawed(call[c]) /\ EmailTaken(NULL, Columns(FromProto(call[c].msg)))
          /\ Answer(c, "FailedPrecondition", NULL)
    /\ UNCHANGED << table, rows, born, intent >>

(* UPDATE ... SET ... WHERE uuid.                                          *)
SetClauses(c) == Range(call[c].mask) \cap Paths

(* Mutant: the mask is not looked at.                                      *)
UpdatedWhole(c) == Columns(FromProto(call[c].msg))

Updated(c) ==
    LET new == Columns(FromProto(call[c].msg))
    IN  [col \in Fields |->
           IF col \in SetClauses(c) THEN new[col] ELSE rows[call[c].id][col]]

(* An asset, a user and a portfolio come back with the UPDATE, unless that *)
(* is lost; all but the first two are read again.                          *)
Update(c) ==
    /\ Is(c, "update", "running") /\ ~Flawed(call[c])
    /\ LET id == call[c].id
           r == Updated(c)
           sent == Meant(call[c].msg)
           new == [col \in Fields |->
                     IF col \in SetClauses(c) THEN sent[col] ELSE intent[id][col]]
           req == [call[c] EXCEPT !.wrote = TRUE, !.may = Own(c, SetClauses(c), new)]
       IN  /\ rows[id] # NULL
           /\ ~NotNullRefused(r) /\ ~EmailTaken(id, r)
           /\ \/ /\ table \in {"assets", "users"}
                 /\ Write(c, id, new, r, Idle)
                 /\ answer' = Reply(req, "ok", ToProto(Get(r)))
              \/ /\ Write(c, id, new, r, Idle)
                 /\ answer' = Failed(Reply(req, "ok", NULL))
              \/ /\ table \notin {"assets", "users"}
                 /\ Write(c, id, new, r,
                      [req EXCEPT !.stage = "reading",
                         !.body = IF table = "portfolios" THEN ToProto(Get(r)) ELSE NULL])
                 /\ answer' = NoAnswer
    /\ UNCHANGED << table, born >>

(* It is refused: no such statement, no such row, or a constraint, which   *)
(* is taken for that of the email.                                         *)
UpdateRefused(c) ==
    /\ Is(c, "update", "running")
    /\ \/ Flawed(call[c]) /\ Answer(c, "Internal", NULL)
       \/ ~Flawed(call[c]) /\ rows[call[c].id] = NULL /\ Answer(c, "NotFound", NULL)
       \/ /\ ~Flawed(call[c]) /\ rows[call[c].id] # NULL
          /\ NotNullRefused(Updated(c)) \/ EmailTaken(call[c].id, Updated(c))
          /\ Answer(c, "FailedPrecondition", NULL)
    /\ UNCHANGED << table, rows, born, intent >>

(* Mutant: the answer of an update is what was sent.                       *)
ReadNothing(c) ==
    /\ call[c].stage = "reading"
    /\ LET r == IF call[c].op = "update" THEN Columns(FromProto(call[c].msg))
                ELSE rows[call[c].id]
       IN  \/ r = NULL /\ Answer(c, "NotFound", NULL)
           \/ r # NULL /\ Answer(c, "ok", ToProto(Get(r)))
    /\ UNCHANGED << table, rows, born, intent >>

(* Mutant: NULL is not scanned into a text.                                *)
ReadFailsOnNull(c) ==
    /\ call[c].stage = "reading"
    /\ LET r == rows[call[c].id]
       IN  \/ r = NULL /\ Answer(c, "NotFound", NULL)
           \/ r # NULL /\ NULL \in {r[col] : col \in Fields} /\ Answer(c, "Internal", NULL)
           \/ r # NULL /\ Answer(c, "ok", ToProto(Get(r)))
    /\ UNCHANGED << table, rows, born, intent >>

(* SELECT ... WHERE uuid, of a Get or after an update: of a portfolio that *)
(* was updated only the user is taken from it.                             *)
Read(c) ==
    /\ call[c].stage = "reading"
    /\ LET r == rows[call[c].id]
       IN  \/ r = NULL /\ Answer(c, "NotFound", NULL)
           \/ /\ r # NULL
              /\ Answer(c, "ok", IF call[c].body # NULL THEN call[c].body
                                 ELSE ToProto(Get(r)))
    /\ UNCHANGED << table, rows, born, intent >>

(* The next statement fails, or the context ends before it has run; data   *)
(* for an update are marshalled before there is any.                       *)
StatementFails(c) ==
    /\ call[c] # Idle
    /\ call[c].op = "update" =>
         ~MarshalFails(FromProto(call[c].msg), SetClauses(c))
    /\ call' = [call EXCEPT ![c] = Idle]
    /\ answer' = Failed(Reply(call[c], "ok", NULL))
    /\ UNCHANGED << table, rows, born, intent >>

(* Another request deletes the row; nothing deletes transactions.          *)
DeleteRow(id) ==
    /\ table # "transactions"
    /\ rows[id] # NULL
    /\ rows' = [rows EXCEPT ![id] = NULL]
    /\ intent' = [intent EXCEPT ![id] = NULL]
    /\ answer' = NoAnswer
    /\ UNCHANGED << table, born, call >>

Next ==
    \/ \E c \in Calls :
         \/ InvokeCreate(c) \/ InvokeGet(c) \/ InvokeUpdate(c)
         \/ Insert(c) \/ InsertRefused(c)
         \/ Update(c) \/ UpdateRefused(c) \/ Read(c) \/ StatementFails(c)
    \/ \E id \in Ids : DeleteRow(id)

Spec == Init /\ [][Next]_vars
-----------------------------------------------------------------------------
(* Types: rows are drawn once, and obey their table - whatever is inserted *)
(* and updated, no column that has to hold a value loses it, and a type or *)
(* a status is one of the names there are.                                 *)
TypeOK ==
    /\ table \in Tables
    /\ born \subseteq Ids
    /\ \A id \in Ids : rows[id] # NULL => id \in born
    /\ \A id \in Ids : rows[id] = NULL <=> intent[id] = NULL
    /\ \A id \in Ids : rows[id] # NULL =>
         rows[id] \in Row(table) /\ intent[id] \in Message(table)
    /\ \A c \in Calls : call[c].stage \in {"idle", "running", "reading"}

(* What a Get would answer of a row is, column by column, what was meant   *)
(* by the last create or update that named the column, whatever others     *)
(* wrote of the same row at the same time: no update is lost in another,   *)
(* and no type, status or text changes its meaning on its way - though a   *)
(* text of JSON may be spelled otherwise, and data that is empty is null.  *)
RowsAsSent ==
    \A id \in Ids : rows[id] # NULL => ToProto(Get(rows[id])) = intent[id]

(* An answer is about the row as it was while the request ran, and, where  *)
(* the request itself wrote, at or after its own write.  A create answers  *)
(* what was sent, so this is about messages that mean what they say.       *)
Plain(m) == Meant(m) = m /\ ("preferences" \in DOMAIN m => m["preferences"] # NULL)
FreshAnswers ==
    answer.code = "ok" /\ (answer.op = "create" => Plain(answer.body)) =>
        \A col \in Fields : answer.body[col] \in answer.may[col]

(* Unless one of its statements failed, a request that is answered with an *)
(* error left nothing in a row that is still there, and an internal error  *)
(* is about what the request itself carries: no row, whatever any requests *)
(* have written to it, makes a later Get or update fail.                   *)
ErrorsAreClean ==
    answer.code \notin {"none", "ok"} /\ ~answer.failed =>
       /\ answer.wrote => rows[answer.id] = NULL
       /\ answer.code = "Internal" => answer.flawed

=============================================================================
