---------------------------- MODULE FieldsProofs ----------------------------
(* What is meant is what is kept, for any messages, masks, rows and calls: *)
(* all conversions go column by column (ReadBack), going there and back is *)
(* what a message means (StoredMeans, SentMeans), and the statements set   *)
(* the columns they name.  Rows obey their table, since what is stored of  *)
(* a value that a message may have is one that the column may hold         *)
(* (StoreTypes).                                                           *)
EXTENDS Fields, TLAPS

(* A row, or a message, that has the columns of the table.                 *)
HasColumns(r) == r = [col \in Fields |-> r[col]]

(* What a Get makes of the value of a column, up to the message.           *)
Back(col, v) ==
    IF col = "description" THEN toOptional(fromOptional(v))
    ELSE IF col = "symbol" THEN toOptional(v)
    ELSE IF col = "status" THEN stringToTransactionStatus(v)
    ELSE IF col = "type" THEN CASE table = "accounts"     -> stringToAccountType(v)
                                [] table = "assets"       -> stringToAssetType(v)
                                [] table = "transactions" -> stringToTransactionType(v)
    ELSE IF col = "data" /\ table = "portfolios" THEN [type_url |-> "", value |-> v]
    ELSE v

-----------------------------------------------------------------------------
(* Enumerations: a number comes back unless it is not declared.            *)

(* The names stored for the types of an account (entities.go, account) lead back.*)
LEMMA AccountTypes ==
    \A n : stringToAccountType(accountTypeToString(n)) = IF n \in DOMAIN AccountType THEN n ELSE 0
  BY DEF stringToAccountType, accountTypeToString, NumberOf, NameOf, AccountType

(* The same of the types of an asset.                                      *)
LEMMA AssetTypes ==
    \A n : stringToAssetType(assetTypeToString(n)) = IF n \in DOMAIN AssetType THEN n ELSE 0
  BY DEF stringToAssetType, assetTypeToString, NumberOf, NameOf, AssetType

(* The same of the types of a transaction.                                 *)
LEMMA TransactionTypes ==
    \A n : stringToTransactionType(transactionTypeToString(n))
             = IF n \in DOMAIN TransactionType THEN n ELSE 0
  BY DEF stringToTransactionType, transactionTypeToString, NumberOf, NameOf, TransactionType

(* The same of the statuses of a transaction.                              *)
LEMMA TransactionStatuses ==
    \A n : stringToTransactionStatus(transactionStatusToString(n))
             = IF n \in DOMAIN TransactionStatus THEN n ELSE 0
  BY DEF stringToTransactionStatus, transactionStatusToString, NumberOf, NameOf, TransactionStatus

-----------------------------------------------------------------------------
(* The conversion of a row to a message goes column by column.             *)
LEMMA ReadBack ==
    ASSUME table \in AllTables, NEW r, HasColumns(r)
    PROVE  ToProto(Get(r)) = [col \in Fields |-> Back(col, r[col])]
  <1> USE DEF HasColumns, Back, ToProto, Get, Fields, Paths, AllTables
  <1>1. CASE table = "portfolios"
    BY <1>1 DEF GetPortfolio, portfolioToProto, UpdatePortfolio
  <1>2. CASE table = "accounts"
    BY <1>2 DEF GetAccount, accountToProto, UpdateAccount
  <1>3. CASE table = "holdings"
    BY <1>3 DEF GetHolding, holdingToProto, UpdateHolding
  <1>4. CASE table = "transactions"
    BY <1>4 DEF GetTransaction, transactionToProto, UpdateTransaction
  <1>5. CASE table = "assets"
    BY <1>5 DEF GetAsset, assetToProto, UpdateAsset
  <1>6. CASE table = "prices"
    BY <1>6 DEF GetLatestPrice, priceToProto
  <1>7. CASE table = "users"
    BY <1>7 DEF GetUser, UpdateUser
  <1> QED BY <1>1, <1>2, <1>3, <1>4, <1>5, <1>6, <1>7

-----------------------------------------------------------------------------
(* Messages have the columns of their table, and only those.               *)
LEMMA Columned ==
    ASSUME table \in AllTables, NEW m \in Message(table)
    PROVE  HasColumns(m)
  <1> USE DEF HasColumns, Message, Fields, Paths, AllTables
  <1>1. CASE table = "portfolios"
    BY <1>1 DEF Portfolio, UpdatePortfolio
  <1>2. CASE table = "accounts"
    BY <1>2 DEF Account, UpdateAccount
  <1>3. CASE table = "holdings"
    BY <1>3 DEF Holding, UpdateHolding
  <1>4. CASE table = "transactions"
    BY <1>4 DEF Transaction, UpdateTransaction
  <1>5. CASE table = "assets"
    BY <1>5 DEF Asset, UpdateAsset
  <1>6. CASE table = "prices"
    BY <1>6 DEF Price
  <1>7. CASE table = "users"
    BY <1>7 DEF User, UpdateUser
  <1> QED BY <1>1, <1>2, <1>3, <1>4, <1>5, <1>6, <1>7

(* What an update sets a column to is what its message means by it.        *)
LEMMA SentMeans ==
    ASSUME table \in AllTables, NEW m \in Message(table), NEW col \in Fields
    PROVE  Back(col, Columns(FromProto(m))[col]) = Meant(m)[col]
  <1> USE Columned DEF HasColumns, Message, Fields, Paths, AllTables, Back, Columns, FromProto,
          Meant, Declared, Optional, fromOptional, toOptional, nullableString
  <1>1. CASE table = "portfolios"
    <2> USE <1>1 DEF Portfolio, UpdatePortfolio, portfolioFromProto, portfolioColumns
    <2>1. m = [c \in {"name", "description", "data"} |-> m[c]]
      OBVIOUS
    <2>2. CASE col = "name"
      BY <2>1, <2>2
    <2>3. CASE col = "description"
      BY <2>1, <2>3
    <2>4. CASE col = "data"
      <3>1. Columns(FromProto(m))[col] = jsonb(Marshal(m.data.value))
        BY <2>1, <2>4
      <3>2. Meant(m)[col] = [type_url |-> "", value |-> jsonb(Marshal(m.data.value))]
        BY <2>1, <2>4
      <3> QED BY <2>4, <3>1, <3>2
    <2> QED BY <2>2, <2>3, <2>4
  <1>2. CASE table = "accounts"
    <2> USE <1>2 DEF Account, UpdateAccount, accountFromProto, accountColumns
    <2>1. m = [c \in {"name", "description", "type", "data"} |-> m[c]]
      OBVIOUS
    <2>2. CASE col \in {"name", "data"}
      BY <2>1, <2>2
    <2>3. CASE col = "description"
      BY <2>1, <2>3
    <2>4. CASE col = "type"
      BY <2>1, <2>4, AccountTypes
    <2> QED BY <2>2, <2>3, <2>4
  <1>3. CASE table = "holdings"
    BY <1>3 DEF Holding, UpdateHolding, holdingFromProto, holdingColumns
  <1>4. CASE table = "transactions"
    BY <1>4, TransactionTypes, TransactionStatuses
       DEF Transaction, UpdateTransaction, transactionFromProto, transactionColumns
  <1>5. CASE table = "assets"
    BY <1>5, AssetTypes DEF Asset, UpdateAsset, assetFromProto, assetColumns
  <1>6. CASE table = "prices"
    BY <1>6 DEF Price, priceFromProto, priceColumns
  <1>7. CASE table = "users"
    BY <1>7 DEF User, UpdateUser, userColumns
  <1> QED BY <1>1, <1>2, <1>3, <1>4, <1>5, <1>6, <1>7

(* The same of a row that is inserted, with what is filled in.             *)
Stored(m) == Inserted(FromProto(m))

(* What is stored in a column of the value in an entity, what a message    *)
(* has of it, and what the message means by it.                            *)
Store(col, v) ==
    IF col = "description" THEN nullableString(v)
    ELSE IF col = "status" THEN transactionStatusToString(v)
    ELSE IF col = "type" THEN CASE table = "accounts"     -> accountTypeToString(v)
                                [] table = "assets"       -> assetTypeToString(v)
                                [] table = "transactions" -> transactionTypeToString(v)
    ELSE IF col = "data" /\ table = "portfolios" THEN jsonb(Marshal(v))
    ELSE IF col = "preferences" THEN jsonb(v)
    ELSE v

Out(col, v) ==
    IF col \in {"description", "symbol"} THEN toOptional(v)
    ELSE IF col = "data" /\ table = "portfolios" THEN [type_url |-> "", value |-> v]
    ELSE v

MeantBy(col, v) ==
    IF col \in Optional /\ v = "" THEN NULL
    ELSE IF col \in {"type", "status"} /\ v \notin Declared(col) THEN 0
    ELSE IF col = "data" /\ table = "portfolios"
         THEN [type_url |-> "", value |-> jsonb(Marshal(v.value))]
    ELSE IF col = "preferences" THEN jsonb(v)
    ELSE v

(* The entity that a Create inserts has the columns of its table.          *)
LEMMA StoredHasColumns ==
    ASSUME table \in AllTables, NEW m \in Message(table)
    PROVE  HasColumns(Stored(m))
  <1>0. HasColumns(m)
    BY Columned
  <1> USE <1>0 DEF HasColumns, Fields, Paths, AllTables, FromProto, Stored, Inserted, Filled
  <1>1. CASE table = "portfolios"
    BY <1>1 DEF UpdatePortfolio, portfolioFromProto
  <1>2. CASE table = "accounts"
    BY <1>2 DEF UpdateAccount, accountFromProto
  <1>3. CASE table = "holdings"
    BY <1>3 DEF UpdateHolding, holdingFromProto
  <1>4. CASE table = "transactions"
    BY <1>4 DEF UpdateTransaction, transactionFromProto, CreateTransaction
  <1>5. CASE table = "assets"
    BY <1>5 DEF UpdateAsset, assetFromProto
  <1>6. CASE table = "prices"
    BY <1>6 DEF priceFromProto
  <1>7. CASE table = "users"
    BY <1>7 DEF UpdateUser, CreateUser
  <1> QED BY <1>1, <1>2, <1>3, <1>4, <1>5, <1>6, <1>7

(* The arguments of an INSERT are made of the entity column by column.     *)
LEMMA StoreByColumn ==
    ASSUME table \in AllTables, NEW e, HasColumns(e)
    PROVE  Columns(e) = [col \in Fields |-> Store(col, e[col])]
  <1> USE DEF HasColumns, Fields, Paths, AllTables, Columns, Store
  <1>1. CASE table = "portfolios"
    BY <1>1 DEF UpdatePortfolio, portfolioColumns
  <1>2. CASE table = "accounts"
    BY <1>2 DEF UpdateAccount, accountColumns
  <1>3. CASE table = "holdings"
    BY <1>3 DEF UpdateHolding, holdingColumns
  <1>4. CASE table = "transactions"
    BY <1>4 DEF UpdateTransaction, transactionColumns
  <1>5. CASE table = "assets"
    BY <1>5 DEF UpdateAsset, assetColumns
  <1>6. CASE table = "prices"
    BY <1>6 DEF priceColumns
  <1>7. CASE table = "users"
    BY <1>7 DEF UpdateUser, userColumns
  <1> QED BY <1>1, <1>2, <1>3, <1>4, <1>5, <1>6, <1>7

(* So is the message of an entity.                                         *)
LEMMA OutByColumn ==
    ASSUME table \in AllTables, NEW e, HasColumns(e)
    PROVE  ToProto(e) = [col \in Fields |-> Out(col, e[col])]
  <1> USE DEF HasColumns, Fields, Paths, AllTables, ToProto, Out
  <1>1. CASE table = "portfolios"
    BY <1>1 DEF UpdatePortfolio, portfolioToProto
  <1>2. CASE table = "accounts"
    BY <1>2 DEF UpdateAccount, accountToProto
  <1>3. CASE table = "holdings"
    BY <1>3 DEF UpdateHolding, holdingToProto
  <1>4. CASE table = "transactions"
    BY <1>4 DEF UpdateTransaction, transactionToProto
  <1>5. CASE table = "assets"
    BY <1>5 DEF UpdateAsset, assetToProto
  <1>6. CASE table = "prices"
    BY <1>6 DEF priceToProto
  <1>7. CASE table = "users"
    BY <1>7 DEF UpdateUser
  <1> QED BY <1>1, <1>2, <1>3, <1>4, <1>5, <1>6, <1>7

(* What a message means is said of each of its columns by itself.          *)
LEMMA MeantByColumn ==
    ASSUME NEW m, HasColumns(m)
    PROVE  Meant(m) = [col \in Fields |-> MeantBy(col, m[col])]
  BY DEF HasColumns, Meant, MeantBy

(* A value that is stored and read comes back as the message of it means.  *)
LEMMA RoundTrip ==
    ASSUME table \in AllTables, NEW col \in Fields, NEW v
    PROVE  Back(col, Store(col, v)) = MeantBy(col, Out(col, v))
  <1> USE DEF Back, Store, MeantBy, Out, Optional, Declared, AllTables
  <1>1. CASE col = "description"
    BY <1>1 DEF fromOptional, toOptional, nullableString
  <1>2. CASE col = "symbol"
    BY <1>2 DEF toOptional
  <1>3. CASE col = "status"
    BY <1>3, TransactionStatuses
  <1>4. CASE col = "type"
    <2>1. table \in {"accounts", "assets", "transactions"}
      BY <1>4 DEF Fields, Paths, UpdatePortfolio, UpdateHolding, UpdateUser
    <2> QED BY <1>4, <2>1, AccountTypes, AssetTypes, TransactionTypes
  <1>5. CASE col = "data" /\ table = "portfolios"
    BY <1>5
  <1>6. CASE /\ col \notin {"description", "symbol", "status", "type"}
             /\ ~(col = "data" /\ table = "portfolios")
    BY <1>6
  <1> QED BY <1>1, <1>2, <1>3, <1>4, <1>5, <1>6

(* What a Create stores reads, in each column, as the message it answers means.*)
LEMMA StoredMeans ==
    ASSUME table \in AllTables, NEW m \in Message(table)
    PROVE  /\ HasColumns(Columns(Stored(m)))
           /\ HasColumns(Meant(ToProto(Stored(m))))
           /\ \A col \in Fields :
                Back(col, Columns(Stored(m))[col]) = Meant(ToProto(Stored(m)))[col]
  <1> DEFINE e == Stored(m)
  <1>1. HasColumns(e)
    BY StoredHasColumns
  <1> HIDE DEF e
  <1>2. Columns(e) = [col \in Fields |-> Store(col, e[col])]
    BY <1>1, StoreByColumn
  <1>3. ToProto(e) = [col \in Fields |-> Out(col, e[col])]
    BY <1>1, OutByColumn
  <1>4. HasColumns(ToProto(e))
    BY <1>3 DEF HasColumns
  <1>5. Meant(ToProto(e)) = [col \in Fields |-> MeantBy(col, ToProto(e)[col])]
    BY <1>4, MeantByColumn
  <1>6. \A col \in Fields : Back(col, Columns(e)[col]) = Meant(ToProto(e))[col]
    BY <1>2, <1>3, <1>5, RoundTrip
  <1>7. HasColumns(Columns(e)) /\ HasColumns(Meant(ToProto(e)))
    BY <1>2, <1>5 DEF HasColumns
  <1> QED BY <1>6, <1>7 DEF e

-----------------------------------------------------------------------------
(* The invariant: every row means, column by column, what is intended.     *)

RequestFields == {"op", "id", "msg", "mask", "stage", "body", "wrote", "may"}

CallShape(k) == k = Idle \/ k = [f \in RequestFields |-> k[f]]

Kept(r, i) == /\ HasColumns(r) /\ HasColumns(i)
              /\ \A col \in Fields : i[col] = Back(col, r[col])

CallsInv ==
    /\ call = [c \in Calls |-> call[c]]
    /\ \A c \in Calls : /\ CallShape(call[c])
                        /\ call[c].stage = "running" => call[c].msg \in Messages[table]

RowsInv ==
    /\ rows = [id \in Ids |-> rows[id]]
    /\ intent = [id \in Ids |-> intent[id]]
    /\ \A id \in Ids : rows[id] # NULL => Kept(rows[id], intent[id])

IInv == table \in Tables /\ CallsInv /\ RowsInv

(* The columns are those of the table, and the table stays.                *)
LEMMA SameTable ==
    ASSUME table' = table
    PROVE  /\ Ids' = Ids
           /\ \A r, i : Kept(r, i)' = Kept(r, i)
  <1>1. Ids' = Ids
    BY DEF Ids
  <1>2. Fields' = Fields
    BY DEF Fields, Paths
  <1>3. \A col, v : Back(col, v)' = Back(col, v)
    BY DEF Back
  <1>4. \A r : HasColumns(r)' = HasColumns(r)
    BY <1>2 DEF HasColumns
  <1> QED BY <1>1, <1>2, <1>3, <1>4 DEF Kept

(* An UPDATE keeps what the columns mean, those it sets and the others.    *)
LEMMA UpdatedMeans ==
    ASSUME table \in AllTables, NEW c \in Calls, call[c].msg \in Message(table),
           Kept(rows[call[c].id], intent[call[c].id])
    PROVE  Kept(Updated(c),
                [col \in Fields |-> IF col \in SetClauses(c) THEN Meant(call[c].msg)[col]
                                    ELSE intent[call[c].id][col]])
  <1> DEFINE id == call[c].id
             m == call[c].msg
             r == Updated(c)
             new == [col \in Fields |->
                       IF col \in SetClauses(c) THEN Meant(m)[col] ELSE intent[id][col]]
  <1>1. HasColumns(r) /\ HasColumns(new)
    BY DEF HasColumns, Updated
  <1>2. ASSUME NEW col \in Fields PROVE new[col] = Back(col, r[col])
    <2>1. CASE col \in SetClauses(c)
      <3>1. r[col] = Columns(FromProto(m))[col] /\ new[col] = Meant(m)[col]
        BY <2>1 DEF Updated
      <3>2. m \in Message(table)
        OBVIOUS
      <3> HIDE DEF r, new, m
      <3> QED BY <3>1, <3>2, SentMeans
    <2>2. CASE col \notin SetClauses(c)
      <3>1. r[col] = rows[id][col] /\ new[col] = intent[id][col]
        BY <2>2 DEF Updated
      <3>2. Kept(rows[id], intent[id])
        OBVIOUS
      <3> HIDE DEF r, new, id
      <3> QED BY <3>1, <3>2 DEF Kept
    <2> QED BY <2>1, <2>2
  <1> QED BY <1>1, <1>2 DEF Kept

(* A statement that stores a row keeps the invariant if row and intent agree.*)
LEMMA WriteKeeps ==
    ASSUME IInv, table' = table, NEW c \in Calls, NEW id, NEW new, NEW r, NEW next,
           id \in Ids => Kept(r, new), CallShape(next), next.stage # "running",
           Write(c, id, new, r, next)
    PROVE  IInv'
  <1>1. RowsInv'
    <2>1. /\ rows' = [rows EXCEPT ![id] = r]
          /\ intent' = [intent EXCEPT ![id] = new]
      BY DEF Write
    <2>2. rows' = [i \in Ids |-> rows'[i]] /\ intent' = [i \in Ids |-> intent'[i]]
      BY <2>1 DEF IInv, RowsInv
    <2>3. ASSUME NEW i \in Ids, rows'[i] # NULL
          PROVE  Kept(rows'[i], intent'[i])
      BY <2>1, <2>3 DEF IInv, RowsInv
    <2> QED BY <2>2, <2>3, SameTable DEF RowsInv
  <1>2. CallsInv'
    <2>1. call' = [d \in Calls |->
                  IF d = c THEN next
                  ELSE IF call[d] # Idle /\ call[d].id = id
                  THEN [call[d] EXCEPT !.may = [col \in Fields |-> @[col] \cup {new[col]}]]
                  ELSE call[d]]
      BY DEF Write
    <2>2. ASSUME NEW d \in Calls
          PROVE  /\ CallShape(call'[d])
                 /\ call'[d].stage = "running" => call'[d].msg \in Messages[table]
      <3>1. CallShape(call[d]) /\ (call[d].stage = "running" => call[d].msg \in Messages[table])
        BY DEF IInv, CallsInv
      <3>2. CASE d = c
        BY <2>1, <3>2
      <3>3. CASE d # c /\ call[d] # Idle /\ call[d].id = id
        <4>1. call'[d] = [call[d] EXCEPT !.may = [col \in Fields |-> @[col] \cup {new[col]}]]
          BY <2>1, <3>3
        <4>2. call[d] = [f \in RequestFields |-> call[d][f]]
          BY <3>1, <3>3 DEF CallShape
        <4> QED BY <3>1, <4>1, <4>2 DEF CallShape, RequestFields
      <3>4. CASE d # c /\ ~(call[d] # Idle /\ call[d].id = id)
        BY <2>1, <3>1, <3>4
      <3> QED BY <3>2, <3>3, <3>4
    <2> QED BY <2>1, <2>2 DEF CallsInv, CallShape, Idle
  <1> QED BY <1>1, <1>2 DEF IInv

(* A step that changes no row, and at most one call.                       *)
LEMMA CallKeeps ==
    ASSUME IInv, UNCHANGED << table, rows, intent >>, NEW c \in Calls, NEW k,
           CallShape(k), k.stage = "running" => k.msg \in Messages[table],
           call' = call \/ call' = [call EXCEPT ![c] = k]
    PROVE  IInv'
  <1>1. RowsInv'
    BY SameTable DEF IInv, RowsInv
  <1>2. CallsInv'
    <2>1. \A d \in Calls : call'[d] = call[d] \/ call'[d] = k
      BY DEF IInv, CallsInv
    <2>2. call' = [d \in Calls |-> call'[d]]
      BY DEF IInv, CallsInv
    <2>3. \A d \in Calls : /\ CallShape(call'[d])
                           /\ call'[d].stage = "running" => call'[d].msg \in Messages[table]
      BY <2>1 DEF IInv, CallsInv
    <2> QED BY <2>2, <2>3 DEF CallsInv, CallShape, Idle
  <1> QED BY <1>1, <1>2 DEF IInv

(* A call that is over, or has not begun, is well formed.                  *)
LEMMA IdleShape == CallShape(Idle) /\ Idle.stage # "running"
  BY DEF CallShape, Idle

(* A request is well formed.                                               *)
LEMMA RequestShape ==
    ASSUME NEW op, NEW id, NEW m, NEW mask, NEW stage, NEW may
    PROVE  LET req == Request(op, id, m, mask, stage, may)
           IN  CallShape(req) /\ req.stage = stage /\ req.msg = m
  BY DEF CallShape, Request, RequestFields

(* An answer changes no row.                                               *)
LEMMA AnswerKeeps ==
    ASSUME IInv, NEW c \in Calls, NEW code, NEW body, Answer(c, code, body),
           UNCHANGED << table, rows, intent >>
    PROVE  IInv'
  BY IdleShape, CallKeeps DEF Answer

(* Nor does a request that begins.                                         *)
LEMMA BeginKeeps ==
    ASSUME IInv, NEW c \in Calls, NEW req, Begin(c, req),
           CallShape(req), req.stage = "running" => req.msg \in Messages[table]
    PROVE  IInv'
  BY CallKeeps DEF Begin

(* Nor one that is rejected.                                               *)
LEMMA RejectKeeps ==
    ASSUME IInv, NEW c \in Calls, NEW req, NEW code, Reject(c, req, code)
    PROVE  IInv'
  BY IdleShape, CallKeeps DEF Reject

(* At first there is no row and no call.                                   *)
LEMMA InitInv == Init => IInv
  <1> SUFFICES ASSUME Init PROVE IInv
    OBVIOUS
  <1>1. CallsInv
    BY IdleShape DEF Init, CallsInv, Idle
  <1>2. RowsInv
    BY DEF Init, RowsInv
  <1> QED BY <1>1, <1>2 DEF Init, IInv

(* Every step of a handler, a statement or a deletion keeps the invariant. *)
LEMMA NextInv == IInv /\ [Next]_vars => IInv'
  <1> SUFFICES ASSUME IInv, [Next]_vars PROVE IInv'
    OBVIOUS
  <1>0. table \in AllTables /\ \A m \in Messages[table] : m \in Message(table)
    BY TableAssumption DEF IInv
  <1>1. ASSUME NEW c \in Calls, InvokeCreate(c) PROVE IInv'
    <2>1. PICK m \in Messages[table] :
            LET e == FromProto(m)
                req == Request("create", NULL, m, << >>, "running", [col \in Fields |-> {}])
            IN  Reject(c, req, "InvalidArgument") \/ Begin(c, req)
      BY <1>1 DEF InvokeCreate
    <2> QED BY <2>1, RejectKeeps, BeginKeeps, RequestShape
  <1>2. ASSUME NEW c \in Calls, InvokeGet(c) PROVE IInv'
    <2>1. PICK id \in Ids :
            Begin(c, Request("get", id, NULL, << >>, "reading", Visible(id, {})))
      BY <1>2 DEF InvokeGet
    <2> QED BY <2>1, BeginKeeps, RequestShape
  <1>3. ASSUME NEW c \in Calls, InvokeUpdate(c) PROVE IInv'
    <2>1. PICK id \in Ids, m \in Messages[table], mask \in Masks[table] :
            Begin(c, Request("update", id, m, mask, "running",
                             Visible(id, Range(mask) \cap Paths)))
      BY <1>3 DEF InvokeUpdate
    <2> QED BY <2>1, BeginKeeps, RequestShape
  <1>4. ASSUME NEW c \in Calls, Insert(c) PROVE IInv'
    <2> DEFINE m == call[c].msg
               r == Columns(Stored(m))
               new == Meant(ToProto(Stored(m)))
    <2>1. PICK id : Write(c, id, new, r, Idle)
      BY <1>4 DEF Insert, Stored
    <2>2. m \in Message(table)
      BY <1>0, <1>4 DEF Insert, Is, IInv, CallsInv
    <2>3. Kept(r, new)
      BY <1>0, <2>2, StoredMeans DEF Kept
    <2>4. table' = table
      BY <1>4 DEF Insert
    <2> HIDE DEF r, new
    <2> QED BY <2>1, <2>3, <2>4, IdleShape, WriteKeeps
  <1>5. ASSUME NEW c \in Calls, InsertRefused(c) PROVE IInv'
    BY <1>5, AnswerKeeps DEF InsertRefused
  <1>6. ASSUME NEW c \in Calls, Update(c) PROVE IInv'
    <2> DEFINE id == call[c].id
               m == call[c].msg
               r == Updated(c)
               sent == Meant(m)
               new == [col \in Fields |->
                         IF col \in SetClauses(c) THEN sent[col] ELSE intent[id][col]]
               req == [call[c] EXCEPT !.wrote = TRUE, !.may = Own(c, SetClauses(c), new)]
               next == [req EXCEPT !.stage = "reading",
                          !.body = IF table = "portfolios" THEN ToProto(Get(r)) ELSE NULL]
    <2>1. /\ Is(c, "update", "running") /\ rows[id] # NULL /\ table' = table
          /\ Write(c, id, new, r, Idle) \/ Write(c, id, new, r, next)
      BY <1>6 DEF Update
    <2>2. m \in Message(table)
      BY <1>0, <2>1 DEF Is, IInv, CallsInv
    <2>3. CallShape(next) /\ next.stage # "running"
      <3>1. call[c] = [f \in RequestFields |-> call[c][f]]
        BY <2>1 DEF Is, IInv, CallsInv, CallShape, Idle
      <3>2. req = [f \in RequestFields |-> req[f]]
        BY <3>1
      <3> HIDE DEF req
      <3> QED BY <3>2 DEF CallShape, RequestFields
    <2>4. ASSUME id \in Ids PROVE Kept(r, new)
      BY <1>0, <2>1, <2>2, <2>4, UpdatedMeans DEF IInv, RowsInv
    <2> HIDE DEF r, new, next, id
    <2> QED BY <2>1, <2>3, <2>4, IdleShape, WriteKeeps
  <1>7. ASSUME NEW c \in Calls, UpdateRefused(c) PROVE IInv'
    BY <1>7, AnswerKeeps DEF UpdateRefused
  <1>8. ASSUME NEW c \in Calls, Read(c) PROVE IInv'
    BY <1>8, AnswerKeeps DEF Read
  <1>11. ASSUME NEW c \in Calls, StatementFails(c) PROVE IInv'
    BY <1>11, IdleShape, CallKeeps DEF StatementFails
  <1>9. ASSUME NEW id \in Ids, DeleteRow(id) PROVE IInv'
    <2>1. RowsInv'
      BY <1>9, SameTable DEF DeleteRow, IInv, RowsInv
    <2>2. CallsInv'
      BY <1>9 DEF DeleteRow, IInv, CallsInv, CallShape, Idle
    <2> QED BY <1>9, <2>1, <2>2 DEF DeleteRow, IInv
  <1>10. CASE UNCHANGED vars
    <2>1. RowsInv'
      BY <1>10, SameTable DEF vars, IInv, RowsInv
    <2>2. CallsInv'
      BY <1>10 DEF vars, IInv, CallsInv, CallShape, Idle
    <2> QED BY <1>10, <2>1, <2>2 DEF vars, IInv
  <1> QED BY <1>1, <1>2, <1>3, <1>4, <1>5, <1>6, <1>7, <1>8, <1>9, <1>10, <1>11 DEF Next

(* What a Get would answer of a row is what was meant, column by column.   *)
THEOREM Sent == Spec => []RowsAsSent
  <1>1. IInv => RowsAsSent
    <2> SUFFICES ASSUME IInv, NEW id \in Ids, rows[id] # NULL
                 PROVE  ToProto(Get(rows[id])) = intent[id]
      BY DEF RowsAsSent
    <2>1. Kept(rows[id], intent[id]) /\ table \in AllTables
      BY TableAssumption DEF IInv, RowsInv
    <2>2. ToProto(Get(rows[id])) = [col \in Fields |-> Back(col, rows[id][col])]
      BY <2>1, ReadBack DEF Kept
    <2>3. intent[id] = [col \in Fields |-> intent[id][col]]
      BY <2>1 DEF Kept, HasColumns
    <2> QED BY <2>1, <2>2, <2>3 DEF Kept
  <1> QED BY <1>1, InitInv, NextInv, PTL DEF Spec

-----------------------------------------------------------------------------
(* Answers.  A request that is not to create a row may answer, in each     *)
(* column it is not about to write, what the row means at the moment.      *)
Fresh(k, R, I) ==
    /\ k.may = [col \in Fields |-> k.may[col]]
    /\ k.op = "create" => k.stage = "running"
    /\ k.op # "create" => k.id \in Ids
    /\ k.stage = "running" => k.wrote = FALSE /\ k.body = NULL
    /\ k.body # NULL => \A col \in Fields : k.body[col] \in k.may[col]
    /\ k.op # "create" /\ R[k.id] # NULL =>
         \A col \in Fields : \/ I[k.id][col] \in k.may[col]
                             \/ k.stage = "running" /\ col \in Range(k.mask) \cap Paths

CallsFresh == \A c \in Calls : call[c] # Idle => Fresh(call[c], rows, intent)

AInv == IInv /\ CallsFresh /\ FreshAnswers /\ ErrorsAreClean

(* The table stays, and with it what fresh means.                          *)
LEMMA SameFresh ==
    ASSUME table' = table
    PROVE  /\ Fields' = Fields /\ Paths' = Paths
           /\ \A k, R, I : Fresh(k, R, I)' = Fresh(k, R, I)
  <1>1. Ids' = Ids
    BY DEF Ids
  <1>2. Paths' = Paths
    BY DEF Paths
  <1>3. Fields' = Fields
    BY <1>2 DEF Fields
  <1> QED BY <1>1, <1>2, <1>3 DEF Fresh

(* A row is read as it is meant.                                           *)
LEMMA ReadMeans ==
    ASSUME table \in AllTables, NEW r, NEW i, Kept(r, i)
    PROVE  \A col \in Fields : ToProto(Get(r))[col] = i[col]
  <1>1. ToProto(Get(r)) = [col \in Fields |-> Back(col, r[col])]
    BY ReadBack DEF Kept
  <1> QED BY <1>1 DEF Kept

(* A write is seen by all requests that are about the row.                 *)
LEMMA WriteFresh ==
    ASSUME IInv, CallsFresh, table' = table, NEW c \in Calls, NEW id \in Ids,
           NEW new, NEW r, NEW next, Write(c, id, new, r, next),
           next # Idle => Fresh(next, rows', intent')
    PROVE  CallsFresh'
  <1>1. /\ rows' = [rows EXCEPT ![id] = r]
        /\ intent' = [intent EXCEPT ![id] = new]
        /\ call' = [d \in Calls |->
                  IF d = c THEN next
                  ELSE IF call[d] # Idle /\ call[d].id = id
                  THEN [call[d] EXCEPT !.may = [col \in Fields |-> @[col] \cup {new[col]}]]
                  ELSE call[d]]
    BY DEF Write
  <1>2. intent'[id] = new /\ \A i \in Ids \ {id} : intent'[i] = intent[i] /\ rows'[i] = rows[i]
    BY <1>1 DEF IInv, RowsInv
  <1> SUFFICES ASSUME NEW d \in Calls, call'[d] # Idle
               PROVE  Fresh(call'[d], rows', intent')
    BY SameFresh DEF CallsFresh
  <1>3. CASE d = c
    BY <1>1, <1>3
  <1>4. CASE d # c /\ call[d] # Idle /\ call[d].id = id
    <2> DEFINE g == call[d]
               k == [g EXCEPT !.may = [col \in Fields |-> @[col] \cup {new[col]}]]
    <2>1. call'[d] = k
      BY <1>1, <1>4
    <2>2. g = [f \in RequestFields |-> g[f]] /\ Fresh(g, rows, intent)
      BY <1>4 DEF IInv, CallsInv, CallShape, CallsFresh
    <2>3. /\ k.may = [col \in Fields |-> g.may[col] \cup {new[col]}]
          /\ k.op = g.op /\ k.id = g.id /\ k.mask = g.mask /\ k.stage = g.stage
          /\ k.body = g.body /\ k.wrote = g.wrote
      BY <2>2 DEF RequestFields
    <2> HIDE DEF k
    <2> QED BY <1>2, <1>4, <2>1, <2>2, <2>3 DEF Fresh
  <1>5. CASE d # c /\ ~(call[d] # Idle /\ call[d].id = id)
    <2>1. call'[d] = call[d] /\ Fresh(call[d], rows, intent)
      BY <1>1, <1>5 DEF CallsFresh
    <2> QED BY <1>2, <1>5, <2>1 DEF Fresh
  <1> QED BY <1>3, <1>4, <1>5

(* A step that changes no row, and at most one call.                       *)
LEMMA CallFresh ==
    ASSUME IInv, CallsFresh, UNCHANGED << table, rows, intent >>, NEW c \in Calls, NEW k,
           k # Idle => Fresh(k, rows, intent),
           call' = call \/ call' = [call EXCEPT ![c] = k]
    PROVE  CallsFresh'
  <1>1. \A d \in Calls : call'[d] = call[d] \/ call'[d] = k
    BY DEF IInv, CallsInv
  <1> QED BY <1>1, SameFresh DEF CallsFresh

(* What a request may answer, when it begins, of a row it does not write.  *)
LEMMA RequestFresh ==
    ASSUME NEW op \in {"get", "update"}, NEW id \in Ids, NEW m, NEW mask,
           NEW stage \in {"running", "reading"}, NEW cols \in SUBSET Fields,
           stage = "running" => cols = Range(mask) \cap Paths,
           stage = "reading" => cols = {}
    PROVE  Fresh(Request(op, id, m, mask, stage, Visible(id, cols)), rows, intent)
  BY DEF Fresh, Request, Visible

(* An error is clean if nothing was written or the row is gone, and if it  *)
(* is internal only of a flawed request.                                   *)
LEMMA ErrorClean ==
    ASSUME NEW req, NEW code, answer' = Reply(req, code, NULL), code # "ok",
           req.wrote => rows'[req.id] = NULL, code = "Internal" => Flawed(req)
    PROVE  FreshAnswers' /\ ErrorsAreClean'
  <1>1. /\ answer'.code = code /\ answer'.wrote = req.wrote /\ answer'.id = req.id
        /\ answer'.flawed = Flawed(req)
    BY DEF Reply
  <1> QED BY <1>1 DEF FreshAnswers, ErrorsAreClean

(* So is one of which a statement failed.                                  *)
LEMMA FailedClean ==
    ASSUME NEW reply, answer' = Failed(reply),
           reply = [f \in DOMAIN reply |-> reply[f]], {"code", "failed"} \subseteq DOMAIN reply
    PROVE  FreshAnswers' /\ ErrorsAreClean'
  <1>1. answer'.code = "Internal" /\ answer'.failed = TRUE
    BY DEF Failed
  <1> QED BY <1>1 DEF FreshAnswers, ErrorsAreClean

(* An answer is one that may have failed.                                  *)
LEMMA ReplyShape ==
    ASSUME NEW req, NEW code, NEW body, NEW reply, reply = Reply(req, code, body)
    PROVE  /\ reply = [f \in DOMAIN reply |-> reply[f]]
           /\ {"code", "failed", "id", "wrote", "may"} \subseteq DOMAIN reply
  BY DEF Reply

(* So is no answer.                                                        *)
LEMMA NoAnswerClean ==
    ASSUME answer' = NoAnswer
    PROVE  FreshAnswers' /\ ErrorsAreClean'
  BY DEF FreshAnswers, ErrorsAreClean, NoAnswer

(* An answer that is not of a create, and may be given.                    *)
LEMMA BodyFresh ==
    ASSUME table' = table, NEW req, NEW body, answer' = Reply(req, "ok", body),
           \A col \in Fields : body[col] \in req.may[col]
    PROVE  FreshAnswers' /\ ErrorsAreClean'
  BY SameFresh DEF FreshAnswers, ErrorsAreClean, Reply

(* Nothing has been answered at first.                                     *)
LEMMA AnswersInit == Init => AInv
  <1> SUFFICES ASSUME Init PROVE AInv
    OBVIOUS
  <1>1. CallsFresh
    BY DEF Init, CallsFresh
  <1>2. FreshAnswers /\ ErrorsAreClean
    BY DEF Init, FreshAnswers, ErrorsAreClean, NoAnswer
  <1> QED BY <1>1, <1>2, InitInv DEF AInv

(* A create answers what was sent, and stores it if it means what it says. *)
LEMMA InsertFresh ==
    ASSUME AInv, NEW c \in Calls, Insert(c)
    PROVE  CallsFresh' /\ FreshAnswers' /\ ErrorsAreClean'
  <1> DEFINE m == call[c].msg
             e == Filled(FromProto(m))
             new == Meant(ToProto(Stored(m)))
             reply(id) == [Reply(call[c], "ok", ToProto(e)) EXCEPT
                             !.id = id, !.wrote = TRUE, !.may = Own(c, Fields, new)]
  <1>0. PICK id \in Ids :
          /\ Write(c, id, new, Columns(Stored(m)), Idle)
          /\ answer' \in {reply(id), Failed(reply(id))}
          /\ table' = table
    BY DEF Insert, Stored
  <1>8. CASE answer' = Failed(reply(id))
    <2>1. CallsFresh'
      BY <1>0, WriteFresh DEF AInv
    <2>2. /\ reply(id) = [f \in DOMAIN reply(id) |-> reply(id)[f]]
          /\ {"code", "failed"} \subseteq DOMAIN reply(id)
      BY DEF Reply
    <2> HIDE DEF reply
    <2> QED BY <1>8, <2>1, <2>2, FailedClean
  <1> SUFFICES ASSUME answer' = reply(id)
               PROVE  CallsFresh' /\ FreshAnswers' /\ ErrorsAreClean'
    BY <1>0, <1>8
  <1>1. /\ Write(c, id, new, Columns(Stored(m)), Idle)
        /\ answer' = [Reply(call[c], "ok", ToProto(e)) EXCEPT
                        !.id = id, !.wrote = TRUE, !.may = Own(c, Fields, new)]
        /\ table' = table
    BY <1>0
  <1> HIDE DEF reply
  <1>2. CallsFresh'
    BY <1>1, WriteFresh DEF AInv
  <1>3. /\ answer'.code = "ok" /\ answer'.op = call[c].op /\ answer'.body = ToProto(e)
        /\ answer'.may = [col \in Fields |-> {new[col]}]
    BY <1>1 DEF Reply, Own
  <1>4. call[c].op = "create" /\ table \in AllTables /\ m \in Message(table)
    BY TableAssumption DEF Insert, Is, AInv, IInv, CallsInv
  <1>5. ASSUME Plain(ToProto(e)) PROVE new = ToProto(e)
    <2>1. Meant(ToProto(e)) = ToProto(e)
          /\ ("preferences" \in DOMAIN ToProto(e) => ToProto(e)["preferences"] # NULL)
      BY <1>5 DEF Plain
    <2>2. CASE table = "users"
      <3>1. e = m /\ ToProto(e) = m
        BY <2>2 DEF Filled, FromProto, ToProto
      <3>2. "preferences" \in DOMAIN m
        BY <1>4, <2>2 DEF Message, User
      <3>3. Stored(m) = m
        BY <2>1, <2>2, <3>1, <3>2 DEF Stored, Inserted, CreateUser, FromProto
      <3> QED BY <2>1, <3>1, <3>3
    <2>3. CASE table # "users"
      BY <2>1, <2>3 DEF Stored, Inserted
    <2> QED BY <2>2, <2>3
  <1>6. FreshAnswers'
    <2> DEFINE body == ToProto(e)
    <2> HIDE DEF body, new
    <2>1. answer'.body = body /\ (Plain(body) => new = body)
      BY <1>3, <1>5 DEF body
    <2>2. Plain(answer.body)' => Plain(body)
      BY <1>1, <2>1 DEF Plain, Meant, Declared
    <2> QED BY <1>1, <1>3, <1>4, <2>1, <2>2, SameFresh DEF FreshAnswers
  <1>7. ErrorsAreClean'
    BY <1>3 DEF ErrorsAreClean
  <1> QED BY <1>2, <1>6, <1>7

(* An update answers the row it stored, at once or after reading it.       *)
LEMMA UpdateFresh ==
    ASSUME AInv, NEW c \in Calls, Update(c)
    PROVE  CallsFresh' /\ FreshAnswers' /\ ErrorsAreClean'
  <1> DEFINE id == call[c].id
             r == Updated(c)
             sent == Meant(call[c].msg)
             new == [col \in Fields |->
                       IF col \in SetClauses(c) THEN sent[col] ELSE intent[id][col]]
             req == [call[c] EXCEPT !.wrote = TRUE, !.may = Own(c, SetClauses(c), new)]
             next == [req EXCEPT !.stage = "reading",
                        !.body = IF table = "portfolios" THEN ToProto(Get(r)) ELSE NULL]
  <1>1. /\ Is(c, "update", "running") /\ rows[id] # NULL /\ table' = table
        /\ \/ /\ Write(c, id, new, r, Idle)
              /\ answer' = Reply(req, "ok", ToProto(Get(r)))
           \/ /\ Write(c, id, new, r, Idle)
              /\ answer' = Failed(Reply(req, "ok", NULL))
           \/ /\ Write(c, id, new, r, next)
              /\ answer' = NoAnswer
    BY DEF Update
  <1>2. Fresh(call[c], rows, intent) /\ call[c] = [f \in RequestFields |-> call[c][f]]
    BY <1>1 DEF Is, Idle, AInv, CallsFresh, IInv, CallsInv, CallShape
  <1>3. id \in Ids
    BY <1>1, <1>2 DEF Is, Fresh
  <1>4. table \in AllTables /\ call[c].msg \in Message(table)
    BY <1>1, TableAssumption DEF Is, AInv, IInv, CallsInv
  <1>5. Kept(r, new)
    BY <1>1, <1>3, <1>4, UpdatedMeans DEF AInv, IInv, RowsInv
  <1>6. \A col \in Fields : new[col] \in Own(c, SetClauses(c), new)[col]
    BY <1>1, <1>2 DEF Own, Fresh, Is, SetClauses
  <1>7. \A col \in Fields : ToProto(Get(r))[col] \in Own(c, SetClauses(c), new)[col]
    BY <1>4, <1>5, <1>6, ReadMeans
  <1>8. /\ req = [f \in RequestFields |-> req[f]]
        /\ req.may = Own(c, SetClauses(c), new) /\ req.wrote = TRUE
        /\ req.op = "update" /\ req.id = id /\ req.mask = call[c].mask
    BY <1>1, <1>2 DEF Is, RequestFields
  <1>9. intent'[id] = new
    BY <1>1, <1>3 DEF Write, AInv, IInv, RowsInv
  <1>10. Fresh(next, rows', intent')
    <2>1. /\ next.may = req.may /\ next.op = req.op /\ next.id = req.id
          /\ next.stage = "reading"
          /\ next.body = IF table = "portfolios" THEN ToProto(Get(r)) ELSE NULL
      BY <1>8 DEF RequestFields
    <2>2. Own(c, SetClauses(c), new) = [col \in Fields |-> Own(c, SetClauses(c), new)[col]]
      BY DEF Own
    <2> HIDE DEF next, req, r, new, id
    <2> QED BY <1>3, <1>6, <1>7, <1>8, <1>9, <2>1, <2>2 DEF Fresh
  <1>11. CallsFresh'
    <2> HIDE DEF next, req, r, new, id
    <2> QED BY <1>1, <1>3, <1>10, WriteFresh DEF AInv
  <1>12. FreshAnswers' /\ ErrorsAreClean'
    <2> HIDE DEF req, r, new
    <2>1. CASE answer' = Failed(Reply(req, "ok", NULL))
      BY <2>1, ReplyShape, FailedClean
    <2> QED BY <1>1, <1>7, <1>8, <2>1, BodyFresh, NoAnswerClean
  <1> QED BY <1>11, <1>12

(* What is read after all is the row, or the portfolio that was updated.   *)
LEMMA ReadFresh ==
    ASSUME AInv, NEW c \in Calls, Read(c)
    PROVE  CallsFresh' /\ FreshAnswers' /\ ErrorsAreClean'
  <1> DEFINE k == call[c]
             r == rows[k.id]
  <1>1. k.stage = "reading" /\ UNCHANGED << table, rows, intent >>
    BY DEF Read
  <1>2. Fresh(k, rows, intent) /\ k.op # "create" /\ k.id \in Ids
    BY <1>1 DEF Idle, AInv, CallsFresh, Fresh
  <1>3. call' = [call EXCEPT ![c] = Idle]
    BY DEF Read, Answer
  <1>4. CallsFresh'
    BY <1>1, <1>3, CallFresh DEF AInv
  <1>5. CASE r = NULL /\ answer' = Reply(k, "NotFound", NULL)
    BY <1>1, <1>4, <1>5, ErrorClean
  <1>6. CASE r # NULL /\ answer' = Reply(k, "ok", IF k.body # NULL THEN k.body
                                                 ELSE ToProto(Get(r)))
    <2> DEFINE body == IF k.body # NULL THEN k.body ELSE ToProto(Get(r))
    <2>1. Kept(r, intent[k.id]) /\ table \in AllTables
      BY <1>2, <1>6, TableAssumption DEF AInv, IInv, RowsInv
    <2>2. \A col \in Fields : ToProto(Get(r))[col] = intent[k.id][col]
      BY <2>1, ReadMeans
    <2>3. \A col \in Fields : body[col] \in k.may[col]
      BY <1>1, <1>2, <1>6, <2>2 DEF Fresh
    <2> HIDE DEF body
    <2>4. answer' = Reply(k, "ok", body)
      BY <1>6 DEF body
    <2> QED BY <1>1, <1>4, <2>3, <2>4, BodyFresh
  <1> QED BY <1>4, <1>5, <1>6 DEF Read, Answer

(* Every step keeps calls fresh and gives an answer that is clean.         *)
LEMMA AnswersNext == AInv /\ [Next]_vars => AInv'
  <1> SUFFICES ASSUME AInv, [Next]_vars PROVE AInv'
    OBVIOUS
  <1> DEFINE Good == CallsFresh' /\ FreshAnswers' /\ ErrorsAreClean'
  <1>0. IInv'
    BY NextInv DEF AInv
  <1>1. ASSUME NEW c \in Calls, NEW req, NEW code, Reject(c, req, code),
               code \notin {"ok", "Internal"}, req.wrote = FALSE
        PROVE  Good
    BY <1>1, CallFresh, ErrorClean DEF Reject, AInv
  <1>2. ASSUME NEW c \in Calls, NEW req, Begin(c, req), Fresh(req, rows, intent)
        PROVE  Good
    BY <1>2, CallFresh, NoAnswerClean DEF Begin, AInv
  <1>3. ASSUME NEW c \in Calls, InvokeCreate(c) PROVE Good
    <2>1. PICK m : LET req == Request("create", NULL, m, << >>, "running",
                                      [col \in Fields |-> {}])
                   IN  Reject(c, req, "InvalidArgument") \/ Begin(c, req)
      BY <1>3 DEF InvokeCreate
    <2> DEFINE req == Request("create", NULL, m, << >>, "running", [col \in Fields |-> {}])
    <2>2. Fresh(req, rows, intent) /\ req.wrote = FALSE
      BY DEF Fresh, Request
    <2> HIDE DEF req
    <2>3. Reject(c, req, "InvalidArgument") \/ Begin(c, req)
      BY <2>1 DEF req
    <2> QED BY <1>1, <1>2, <2>2, <2>3
  <1>4. ASSUME NEW c \in Calls, InvokeGet(c) PROVE Good
    <2>1. PICK id \in Ids :
            Begin(c, Request("get", id, NULL, << >>, "reading", Visible(id, {})))
      BY <1>4 DEF InvokeGet
    <2>2. Fresh(Request("get", id, NULL, << >>, "reading", Visible(id, {})), rows, intent)
      BY RequestFresh
    <2> QED BY <1>2, <2>1, <2>2
  <1>5. ASSUME NEW c \in Calls, InvokeUpdate(c) PROVE Good
    <2>1. PICK id \in Ids, m \in Messages[table], mask \in Masks[table] :
            Begin(c, Request("update", id, m, mask, "running",
                             Visible(id, Range(mask) \cap Paths)))
      BY <1>5 DEF InvokeUpdate
    <2> DEFINE req == Request("update", id, m, mask, "running",
                              Visible(id, Range(mask) \cap Paths))
    <2>2. Paths \subseteq Fields
      <3>1. table \in AllTables
        BY TableAssumption DEF AInv, IInv
      <3> QED BY <3>1 DEF Paths, Fields, AllTables
    <2>3. Fresh(req, rows, intent)
      BY <2>2, RequestFresh
    <2>4. Begin(c, req)
      BY <2>1
    <2> HIDE DEF req
    <2> QED BY <1>2, <2>3, <2>4
  <1>6. ASSUME NEW c \in Calls, InsertRefused(c) \/ UpdateRefused(c) PROVE Good
    <2>1. PICK code \in {"Internal", "NotFound", "FailedPrecondition"} :
            Answer(c, code, NULL) /\ (code = "Internal" => Flawed(call[c]))
      BY <1>6 DEF InsertRefused, UpdateRefused
    <2>2. call[c].stage = "running" /\ UNCHANGED << table, rows, intent >>
      BY <1>6 DEF InsertRefused, UpdateRefused, Is
    <2>3. call[c].wrote = FALSE
      <3>1. call[c] # Idle /\ c \in Calls
        BY <1>6, <2>2 DEF Idle
      <3>2. Fresh(call[c], rows, intent)
        BY <3>1 DEF AInv, CallsFresh
      <3> QED BY <2>2, <3>2 DEF Fresh
    <2> QED BY <2>1, <2>2, <2>3, CallFresh, ErrorClean DEF Answer, AInv
  <1>10. ASSUME NEW c \in Calls, StatementFails(c) PROVE Good
    <2>1. /\ call' = [call EXCEPT ![c] = Idle] /\ UNCHANGED << table, rows, intent >>
          /\ answer' = Failed(Reply(call[c], "ok", NULL))
      BY <1>10 DEF StatementFails
    <2>2. CallsFresh'
      BY <2>1, CallFresh DEF AInv
    <2>3. FreshAnswers' /\ ErrorsAreClean'
      <3> DEFINE reply == Reply(call[c], "ok", NULL)
      <3>1. /\ reply = [f \in DOMAIN reply |-> reply[f]]
            /\ {"code", "failed"} \subseteq DOMAIN reply
        BY ReplyShape
      <3>2. answer' = Failed(reply)
        BY <2>1
      <3> HIDE DEF reply
      <3> QED BY <3>1, <3>2, FailedClean
    <2> QED BY <2>2, <2>3
  <1>7. ASSUME NEW id \in Ids, DeleteRow(id) PROVE Good
    <2>1. /\ table' = table /\ call' = call /\ answer' = NoAnswer
          /\ rows'[id] = NULL
          /\ \A i \in Ids \ {id} : rows'[i] = rows[i] /\ intent'[i] = intent[i]
      BY <1>7 DEF DeleteRow, AInv, IInv, RowsInv
    <2>2. ASSUME NEW c \in Calls, call[c] # Idle PROVE Fresh(call[c], rows', intent')
      <3>1. Fresh(call[c], rows, intent)
        BY <2>2 DEF AInv, CallsFresh
      <3> QED BY <2>1, <3>1 DEF Fresh
    <2> QED BY <2>1, <2>2, SameFresh, NoAnswerClean DEF CallsFresh
  <1>8. ASSUME UNCHANGED vars PROVE Good
    <2>1. CallsFresh'
      BY <1>8, SameFresh DEF vars, AInv, CallsFresh
    <2>2. ErrorsAreClean'
      BY <1>8 DEF vars, AInv, ErrorsAreClean
    <2>3. Plain(answer.body)' = Plain(answer.body)
      BY <1>8 DEF vars, Plain, Meant, Declared
    <2>4. FreshAnswers'
      BY <1>8, <2>3, SameFresh DEF vars, AInv, FreshAnswers
    <2> QED BY <2>1, <2>2, <2>4
  <1> HIDE DEF Good
  <1>9. Good
    BY <1>3, <1>4, <1>5, <1>6, <1>7, <1>8, <1>10, InsertFresh, UpdateFresh, ReadFresh
       DEF Next, Good
  <1> QED BY <1>0, <1>9 DEF Good, AInv

(* No answer is older than the request, or than its own write, and none is *)
(* made up of anything but what the row meant meanwhile.                   *)
THEOREM Freshness == Spec => []FreshAnswers
  <1>1. AInv => FreshAnswers
    BY DEF AInv
  <1> QED BY <1>1, AnswersInit, AnswersNext, PTL DEF Spec

(* Unless one of its statements failed, a request that is answered with an *)
(* error left nothing in a row that is still there, and is told of an      *)
(* internal error only for what it carries itself.                         *)
THEOREM CleanErrors == Spec => []ErrorsAreClean
  <1>1. AInv => ErrorsAreClean
    BY DEF AInv
  <1> QED BY <1>1, AnswersInit, AnswersNext, PTL DEF Spec

-----------------------------------------------------------------------------
(* Types.  An enumeration is stored by one of its names.                   *)
LEMMA NameIsName ==
    ASSUME NEW n
    PROVE  /\ accountTypeToString(n) \in Names(AccountType)
           /\ assetTypeToString(n) \in Names(AssetType)
           /\ transactionTypeToString(n) \in Names(TransactionType)
           /\ transactionStatusToString(n) \in Names(TransactionStatus)
  BY DEF accountTypeToString, assetTypeToString, transactionTypeToString,
         transactionStatusToString, NameOf, Names

(* A name is read as a number.                                             *)
LEMMA NumberIsInt ==
    ASSUME NEW v
    PROVE  /\ stringToAccountType(v) \in Int /\ stringToAssetType(v) \in Int
           /\ stringToTransactionType(v) \in Int /\ stringToTransactionStatus(v) \in Int
  <1>1. ASSUME NEW n \in Nat, NEW enum, DOMAIN enum = 1..n
        PROVE  NumberOf(enum, v) \in Int
    BY <1>1 DEF NumberOf
  <1>2. /\ DOMAIN AccountType = 1..4 /\ DOMAIN AssetType = 1..6
        /\ DOMAIN TransactionType = 1..5 /\ DOMAIN TransactionStatus = 1..5
    BY DEF AccountType, AssetType, TransactionType, TransactionStatus
  <1> QED BY <1>1, <1>2 DEF stringToAccountType, stringToAssetType,
             stringToTransactionType, stringToTransactionStatus

(* What a column may hold, and what a message may have of it.              *)
RowType(col) ==
    CASE col = "description" -> STRING \cup {NULL}
      [] col = "type" /\ table = "accounts"     -> Names(AccountType)
      [] col = "type" /\ table = "assets"       -> Names(AssetType)
      [] col = "type" /\ table = "transactions" -> Names(TransactionType)
      [] col = "status" -> Names(TransactionStatus)
      [] col \in {"amount", "last"} -> Int
      [] col = "decimals" -> Nat
      [] col = "open" -> Int \cup {NULL}
      [] OTHER -> STRING

MessageType(col) ==
    CASE col \in {"description", "symbol", "preferences"} -> STRING \cup {NULL}
      [] col = "data" /\ table = "portfolios" -> [type_url : STRING, value : STRING]
      [] col \in {"type", "status", "amount", "last"} -> Int
      [] col = "decimals" -> Nat
      [] col = "open" -> Int \cup {NULL}
      [] OTHER -> STRING

(* A row obeys its table if every column does.                             *)
LEMMA RowByColumn ==
    ASSUME table \in AllTables, NEW r
    PROVE  r \in Row(table) <=> HasColumns(r) /\ \A col \in Fields : r[col] \in RowType(col)
  <1> USE DEF AllTables, Row, HasColumns, Fields, Paths, RowType
  <1>1. CASE table = "portfolios"
    BY <1>1 DEF PortfolioRow, UpdatePortfolio
  <1>2. CASE table = "accounts"
    BY <1>2 DEF AccountRow, UpdateAccount
  <1>3. CASE table = "holdings"
    BY <1>3 DEF HoldingRow, UpdateHolding
  <1>4. CASE table = "transactions"
    BY <1>4 DEF TransactionRow, UpdateTransaction
  <1>5. CASE table = "assets"
    BY <1>5 DEF AssetRow, UpdateAsset
  <1>6. CASE table = "prices"
    BY <1>6 DEF PriceRow
  <1>7. CASE table = "users"
    BY <1>7 DEF UserRow, UpdateUser
  <1> QED BY <1>1, <1>2, <1>3, <1>4, <1>5, <1>6, <1>7

(* The same of messages.                                                   *)
LEMMA MessageByColumn ==
    ASSUME table \in AllTables, NEW m
    PROVE  m \in Message(table)
             <=> HasColumns(m) /\ \A col \in Fields : m[col] \in MessageType(col)
  <1> USE DEF AllTables, Message, HasColumns, Fields, Paths, MessageType
  <1>1. CASE table = "portfolios"
    BY <1>1 DEF Portfolio, UpdatePortfolio
  <1>2. CASE table = "accounts"
    BY <1>2 DEF Account, UpdateAccount
  <1>3. CASE table = "holdings"
    BY <1>3 DEF Holding, UpdateHolding
  <1>4. CASE table = "transactions"
    BY <1>4 DEF Transaction, UpdateTransaction
  <1>5. CASE table = "assets"
    BY <1>5 DEF Asset, UpdateAsset
  <1>6. CASE table = "prices"
    BY <1>6 DEF Price
  <1>7. CASE table = "users"
    BY <1>7 DEF User, UpdateUser
  <1> QED BY <1>1, <1>2, <1>3, <1>4, <1>5, <1>6, <1>7

(* What an entity takes of the value in a message, and what is filled in.  *)
Taken(col, v) ==
    IF col \in {"description", "symbol"} THEN fromOptional(v)
    ELSE IF col = "data" /\ table = "portfolios" THEN v.value
    ELSE v

FilledIn(col, v) ==
    IF col = "status" /\ v = 0 THEN 1
    ELSE IF col = "preferences" /\ v = NULL THEN "{}"
    ELSE v

(* The entity of a message is made column by column.                       *)
LEMMA TakeByColumn ==
    ASSUME table \in AllTables, NEW m, HasColumns(m)
    PROVE  FromProto(m) = [col \in Fields |-> Taken(col, m[col])]
  <1> USE DEF HasColumns, Fields, Paths, AllTables, FromProto, Taken
  <1>1. CASE table = "portfolios"
    BY <1>1 DEF portfolioFromProto, UpdatePortfolio
  <1>2. CASE table = "accounts"
    BY <1>2 DEF accountFromProto, UpdateAccount
  <1>3. CASE table = "holdings"
    BY <1>3 DEF holdingFromProto, UpdateHolding
  <1>4. CASE table = "transactions"
    BY <1>4 DEF transactionFromProto, UpdateTransaction
  <1>5. CASE table = "assets"
    BY <1>5 DEF assetFromProto, UpdateAsset
  <1>6. CASE table = "prices"
    BY <1>6 DEF priceFromProto
  <1>7. CASE table = "users"
    BY <1>7 DEF UpdateUser
  <1> QED BY <1>1, <1>2, <1>3, <1>4, <1>5, <1>6, <1>7

(* So is what is filled in.                                                *)
LEMMA FillByColumn ==
    ASSUME table \in AllTables, NEW e, HasColumns(e)
    PROVE  Inserted(e) = [col \in Fields |-> FilledIn(col, e[col])]
  <1> USE DEF HasColumns, Fields, Paths, AllTables, Inserted, Filled, FilledIn
  <1>1. CASE table = "transactions"
    BY <1>1 DEF CreateTransaction, UpdateTransaction
  <1>2. CASE table = "users"
    BY <1>2 DEF CreateUser, UpdateUser
  <1>3. CASE table \in {"portfolios", "accounts", "holdings", "assets", "prices"}
    BY <1>3 DEF UpdatePortfolio, UpdateAccount, UpdateHolding, UpdateAsset
  <1> QED BY <1>1, <1>2, <1>3

(* A value that a message may have is stored as one that the column may    *)
(* hold, but for preferences that are left out, which have to be filled in.*)
LEMMA StoreTypes ==
    ASSUME table \in AllTables, NEW col \in Fields, NEW v \in MessageType(col)
    PROVE  /\ Store(col, FilledIn(col, Taken(col, v))) \in RowType(col)
           /\ \/ Store(col, Taken(col, v)) \in RowType(col)
              \/ table = "users" /\ col = "preferences" /\ Store(col, Taken(col, v)) = NULL
  <1> DEFINE w == Store(col, Taken(col, v))
             f == Store(col, FilledIn(col, Taken(col, v)))
  <1>1. CASE col = "description"
    <2>1. RowType(col) = STRING \cup {NULL} /\ v \in STRING \cup {NULL}
      BY <1>1 DEF RowType, MessageType
    <2>2. w = nullableString(fromOptional(v)) /\ f = w
      BY <1>1 DEF Store, Taken, FilledIn
    <2> QED BY <2>1, <2>2 DEF nullableString, fromOptional
  <1>2. CASE col = "symbol"
    <2>1. RowType(col) = STRING /\ v \in STRING \cup {NULL}
      BY <1>2 DEF RowType, MessageType
    <2>2. w = fromOptional(v) /\ f = w
      BY <1>2 DEF Store, Taken, FilledIn
    <2> QED BY <2>1, <2>2, TextAssumption DEF fromOptional
  <1>3. CASE col = "preferences"
    <2>1. RowType(col) = STRING /\ v \in STRING \cup {NULL}
      BY <1>3 DEF RowType, MessageType
    <2>2. w = jsonb(v) /\ f = jsonb(IF v = NULL THEN "{}" ELSE v)
      BY <1>3 DEF Store, Taken, FilledIn
    <2>4. /\ v # NULL => jsonb(v) \in STRING
          /\ jsonb("{}") \in STRING /\ jsonb(NULL) \in STRING \cup {NULL}
      BY <2>1, TextAssumption, JSONAssumption DEF jsonb
    <2>3. table = "users"
      BY <1>3 DEF AllTables, Fields, Paths, UpdatePortfolio, UpdateAccount, UpdateHolding,
                  UpdateTransaction, UpdateAsset
    <2> QED BY <1>3, <2>1, <2>2, <2>3, <2>4
  <1>4. CASE col = "type" /\ table = "accounts"
    <2>1. RowType(col) = Names(AccountType) /\ w = accountTypeToString(v) /\ f = w
      BY <1>4 DEF RowType, Store, Taken, FilledIn
    <2> QED BY <2>1, NameIsName
  <1>5. CASE col = "type" /\ table = "assets"
    <2>1. RowType(col) = Names(AssetType) /\ w = assetTypeToString(v) /\ f = w
      BY <1>5 DEF RowType, Store, Taken, FilledIn
    <2> QED BY <2>1, NameIsName
  <1>6. CASE col = "type" /\ table = "transactions"
    <2>1. RowType(col) = Names(TransactionType) /\ w = transactionTypeToString(v) /\ f = w
      BY <1>6 DEF RowType, Store, Taken, FilledIn
    <2> QED BY <2>1, NameIsName
  <1>7. CASE col = "status"
    <2>1. /\ RowType(col) = Names(TransactionStatus) /\ w = transactionStatusToString(v)
          /\ f = transactionStatusToString(IF v = 0 THEN 1 ELSE v)
      BY <1>7 DEF RowType, Store, Taken, FilledIn
    <2> QED BY <2>1, NameIsName
  <1>8. CASE col = "data" /\ table = "portfolios"
    <2>1. /\ RowType(col) = STRING /\ v \in [type_url : STRING, value : STRING]
          /\ w = jsonb(Marshal(v.value)) /\ f = w
      BY <1>8 DEF RowType, MessageType, Store, Taken, FilledIn
    <2>2. Marshal(v.value) \in STRING
      BY <2>1, TextAssumption DEF Marshal
    <2> QED BY <2>1, <2>2, JSONAssumption DEF jsonb
  <1>9. CASE /\ col \notin {"description", "symbol", "preferences", "type", "status"}
             /\ ~(col = "data" /\ table = "portfolios")
    <2>1. w = v /\ f = v
      BY <1>9 DEF Store, Taken, FilledIn
    <2>2. RowType(col) = MessageType(col)
      BY <1>9 DEF RowType, MessageType
    <2> QED BY <2>1, <2>2
  <1>10. col = "type" => table \in {"accounts", "assets", "transactions"}
    BY DEF AllTables, Fields, Paths, UpdatePortfolio, UpdateHolding, UpdateUser
  <1> QED BY <1>1, <1>2, <1>3, <1>4, <1>5, <1>6, <1>7, <1>8, <1>9, <1>10

(* What a Create inserts obeys the table: what may be missing is filled in.*)
LEMMA StoredObeys ==
    ASSUME table \in AllTables, NEW m \in Message(table)
    PROVE  Columns(Stored(m)) \in Row(table)
  <1>1. HasColumns(m) /\ \A col \in Fields : m[col] \in MessageType(col)
    BY MessageByColumn
  <1> DEFINE e == FromProto(m)
  <1>2. e = [col \in Fields |-> Taken(col, m[col])]
    BY <1>1, TakeByColumn
  <1> HIDE DEF e
  <1>3. HasColumns(e)
    BY <1>2 DEF HasColumns
  <1>4. Inserted(e) = [col \in Fields |-> FilledIn(col, Taken(col, m[col]))]
    BY <1>2, <1>3, FillByColumn
  <1>5. HasColumns(Inserted(e))
    BY <1>4 DEF HasColumns
  <1>6. Columns(Inserted(e)) = [col \in Fields |-> Store(col, FilledIn(col, Taken(col, m[col])))]
    BY <1>4, <1>5, StoreByColumn
  <1>7. HasColumns(Columns(Inserted(e)))
        /\ \A col \in Fields : Columns(Inserted(e))[col] \in RowType(col)
    BY <1>1, <1>6, StoreTypes DEF HasColumns
  <1> QED BY <1>7, RowByColumn DEF Stored, e

(* So does what an update makes of a row, unless it empties the preferences*)
(* of a user: all other texts that a message leaves out come in as empty.  *)
LEMMA UpdatedObeys ==
    ASSUME table \in AllTables, NEW c \in Calls, call[c].msg \in Message(table),
           rows[call[c].id] \in Row(table), ~NotNullRefused(Updated(c))
    PROVE  Updated(c) \in Row(table)
  <1> DEFINE m == call[c].msg
             e == FromProto(m)
             old == rows[call[c].id]
             r == Updated(c)
  <1>1. r = [col \in Fields |-> IF col \in SetClauses(c) THEN Columns(e)[col] ELSE old[col]]
    BY DEF Updated
  <1>2. m \in Message(table) /\ old \in Row(table) /\ ~NotNullRefused(r)
    OBVIOUS
  <1> HIDE DEF m, e, old, r
  <1>3. HasColumns(m) /\ \A col \in Fields : m[col] \in MessageType(col)
    BY <1>2, MessageByColumn
  <1>4. e = [col \in Fields |-> Taken(col, m[col])]
    BY <1>3, TakeByColumn DEF e
  <1>5. HasColumns(e)
    BY <1>4 DEF HasColumns
  <1>6. Columns(e) = [col \in Fields |-> Store(col, Taken(col, m[col]))]
    BY <1>4, <1>5, StoreByColumn
  <1>7. ASSUME NEW col \in Fields PROVE r[col] \in RowType(col)
    <2>1. CASE col \in SetClauses(c)
      <3>1. r[col] = Store(col, Taken(col, m[col]))
        BY <1>1, <1>6, <2>1
      <3>2. ~(table = "users" /\ col = "preferences" /\ r[col] = NULL)
        BY <1>2 DEF NotNullRefused
      <3> QED BY <1>3, <3>1, <3>2, StoreTypes
    <2>2. CASE col \notin SetClauses(c)
      BY <1>1, <1>2, <2>2, RowByColumn
    <2> QED BY <2>1, <2>2
  <1>8. HasColumns(r)
    BY <1>1 DEF HasColumns
  <1> QED BY <1>7, <1>8, RowByColumn DEF r

(* A row that obeys its table comes back as a message, so that what is     *)
(* intended of it is one.                                                  *)
LEMMA KeptIsMessage ==
    ASSUME table \in AllTables, NEW r \in Row(table), NEW i, Kept(r, i)
    PROVE  i \in Message(table)
  <1>1. HasColumns(i) /\ \A col \in Fields : i[col] = Back(col, r[col])
    BY DEF Kept
  <1>2. ASSUME NEW col \in Fields PROVE i[col] \in MessageType(col)
    <2>1. r[col] \in RowType(col)
      BY RowByColumn
    <2> DEFINE v == r[col]
    <2>2. i[col] = Back(col, v)
      BY <1>1
    <2>3. CASE col \in {"description", "symbol"}
      <3>1. /\ MessageType(col) = STRING \cup {NULL} /\ RowType(col) \subseteq STRING \cup {NULL}
            /\ Back(col, v) \in {toOptional(fromOptional(v)), toOptional(v)}
        BY <2>3 DEF MessageType, RowType, Back
      <3> QED BY <2>1, <2>2, <3>1 DEF toOptional, fromOptional
    <2>4. CASE col \in {"type", "status"}
      <3>1. MessageType(col) = Int
        BY <2>4 DEF MessageType
      <3>2. col = "type" => table \in {"accounts", "assets", "transactions"}
        BY DEF Fields, Paths, UpdatePortfolio, UpdateHolding, UpdateUser, AllTables
      <3>3. Back(col, v) \in {stringToTransactionStatus(v), stringToAccountType(v),
                              stringToAssetType(v), stringToTransactionType(v)}
        BY <2>4, <3>2 DEF Back
      <3>4. /\ stringToTransactionStatus(v) \in Int /\ stringToAccountType(v) \in Int
            /\ stringToAssetType(v) \in Int /\ stringToTransactionType(v) \in Int
        BY NumberIsInt
      <3> QED BY <2>2, <3>1, <3>3, <3>4
    <2>5. CASE col = "data" /\ table = "portfolios"
      <3>1. /\ MessageType(col) = [type_url : STRING, value : STRING] /\ RowType(col) = STRING
            /\ Back(col, v) = [type_url |-> "", value |-> v]
        BY <2>5 DEF MessageType, RowType, Back
      <3> QED BY <2>1, <2>2, <3>1, TextAssumption
    <2>6. CASE /\ col \notin {"description", "symbol", "type", "status"}
               /\ ~(col = "data" /\ table = "portfolios")
      <3>1. Back(col, v) = v /\ RowType(col) \subseteq MessageType(col)
        BY <2>6 DEF MessageType, RowType, Back
      <3> QED BY <2>1, <2>2, <3>1
    <2> QED BY <2>3, <2>4, <2>5, <2>6
  <1> QED BY <1>1, <1>2, MessageByColumn

Stages == {"idle", "running", "reading"}

(* A write of what obeys the table, and means a message.                   *)
LEMMA WriteTypes ==
    ASSUME IInv, TypeOK, table' = table, NEW c \in Calls, NEW id \in Ids,
           NEW new \in Message(table), NEW r \in Row(table), NEW next, next.stage \in Stages,
           Write(c, id, new, r, next), born' = born \cup {id}
    PROVE  TypeOK'
  <1>1. /\ rows' = [rows EXCEPT ![id] = r]
        /\ intent' = [intent EXCEPT ![id] = new]
        /\ call' = [d \in Calls |->
                  IF d = c THEN next
                  ELSE IF call[d] # Idle /\ call[d].id = id
                  THEN [call[d] EXCEPT !.may = [col \in Fields |-> @[col] \cup {new[col]}]]
                  ELSE call[d]]
    BY DEF Write
  <1>2. Ids' = Ids
    BY SameTable
  <1>3. /\ rows'[id] = r /\ intent'[id] = new
        /\ \A i \in Ids \ {id} : rows'[i] = rows[i] /\ intent'[i] = intent[i]
    BY <1>1 DEF IInv, RowsInv
  <1>4. r # NULL /\ new # NULL
    BY NullAssumption DEF TypeOK
  <1>5. ASSUME NEW d \in Calls PROVE call'[d].stage \in Stages
    <2>1. CASE d = c
      BY <1>1, <2>1
    <2>2. CASE d # c /\ call[d] # Idle /\ call[d].id = id
      <3>1. call[d] = [f \in RequestFields |-> call[d][f]]
        BY <2>2 DEF IInv, CallsInv, CallShape
      <3>2. call'[d] = [call[d] EXCEPT !.may = [col \in Fields |-> @[col] \cup {new[col]}]]
        BY <1>1, <2>2
      <3>3. call'[d].stage = call[d].stage
        BY <3>1, <3>2 DEF RequestFields
      <3> QED BY <3>3 DEF TypeOK, Stages
    <2>3. CASE d # c /\ ~(call[d] # Idle /\ call[d].id = id)
      BY <1>1, <2>3 DEF TypeOK, Stages
    <2> QED BY <2>1, <2>2, <2>3
  <1>6. \A i \in Ids : rows'[i] # NULL => rows'[i] \in Row(table) /\ intent'[i] \in Message(table)
    BY <1>3, <1>4 DEF TypeOK
  <1>7. \A i \in Ids : /\ rows'[i] # NULL => i \in born'
                       /\ rows'[i] = NULL <=> intent'[i] = NULL
    BY <1>3, <1>4 DEF TypeOK
  <1>8. table' \in Tables /\ born' \subseteq Ids'
    BY <1>2 DEF TypeOK
  <1> QED BY <1>2, <1>5, <1>6, <1>7, <1>8 DEF TypeOK, Stages

(* A step that changes no row, and at most one call.                       *)
LEMMA CallTypes ==
    ASSUME IInv, TypeOK, UNCHANGED << table, rows, born, intent >>, NEW c \in Calls, NEW k,
           k.stage \in Stages, call' = call \/ call' = [call EXCEPT ![c] = k]
    PROVE  TypeOK'
  <1>1. \A d \in Calls : call'[d] = call[d] \/ call'[d] = k
    BY DEF IInv, CallsInv
  <1>2. Ids' = Ids
    BY SameTable
  <1> QED BY <1>1, <1>2 DEF TypeOK, Stages

(* Every statement leaves rows that obey their table.                      *)
LEMMA TypesNext == AInv /\ TypeOK /\ [Next]_vars => TypeOK'
  <1> SUFFICES ASSUME AInv, TypeOK, [Next]_vars PROVE TypeOK'
    OBVIOUS
  <1>0. /\ table \in AllTables /\ \A m \in Messages[table] : m \in Message(table)
        /\ IInv /\ Idle.stage \in Stages
    BY TableAssumption DEF AInv, IInv, Idle, Stages
  <1>1. ASSUME NEW c \in Calls, InvokeCreate(c) \/ InvokeGet(c) \/ InvokeUpdate(c)
        PROVE  TypeOK'
    <2>1. \A op, id, m, mask, may : \A stage \in Stages :
            Request(op, id, m, mask, stage, may).stage \in Stages
      BY DEF Request
    <2>2. PICK req : /\ req.stage \in Stages
                     /\ Reject(c, req, "InvalidArgument") \/ Begin(c, req)
      <3>1. CASE InvokeCreate(c)
        BY <2>1, <3>1 DEF InvokeCreate, Stages
      <3>2. CASE InvokeGet(c)
        BY <2>1, <3>2 DEF InvokeGet, Stages
      <3>3. CASE InvokeUpdate(c)
        BY <2>1, <3>3 DEF InvokeUpdate, Stages
      <3> QED BY <1>1, <3>1, <3>2, <3>3
    <2>3. /\ UNCHANGED << table, rows, born, intent >>
          /\ call' = call \/ call' = [call EXCEPT ![c] = req]
      BY <2>2 DEF Reject, Begin
    <2> QED BY <1>0, <2>2, <2>3, CallTypes
  <1>2. ASSUME NEW c \in Calls, Insert(c) PROVE TypeOK'
    <2> DEFINE m == call[c].msg
               r == Columns(Stored(m))
               new == Meant(ToProto(Stored(m)))
    <2>1. PICK id \in Ids : /\ Write(c, id, new, r, Idle) /\ born' = born \cup {id}
                            /\ table' = table
      BY <1>2 DEF Insert, Stored
    <2>2. m \in Message(table)
      BY <1>0, <1>2 DEF Insert, Is, IInv, CallsInv
    <2>3. r \in Row(table) /\ Kept(r, new)
      BY <1>0, <2>2, StoredObeys, StoredMeans DEF Kept
    <2> HIDE DEF r, new
    <2>4. new \in Message(table)
      BY <1>0, <2>3, KeptIsMessage
    <2> QED BY <1>0, <2>1, <2>3, <2>4, WriteTypes
  <1>3. ASSUME NEW c \in Calls, Update(c) PROVE TypeOK'
    <2> DEFINE id == call[c].id
               m == call[c].msg
               r == Updated(c)
               sent == Meant(m)
               new == [col \in Fields |->
                         IF col \in SetClauses(c) THEN sent[col] ELSE intent[id][col]]
               req == [call[c] EXCEPT !.wrote = TRUE, !.may = Own(c, SetClauses(c), new)]
               next == [req EXCEPT !.stage = "reading",
                          !.body = IF table = "portfolios" THEN ToProto(Get(r)) ELSE NULL]
    <2>1. /\ Is(c, "update", "running") /\ rows[id] # NULL /\ ~NotNullRefused(r)
          /\ Write(c, id, new, r, Idle) \/ Write(c, id, new, r, next)
          /\ UNCHANGED << table, born >>
      BY <1>3 DEF Update
    <2>2. m \in Message(table)
      BY <1>0, <2>1 DEF Is, IInv, CallsInv
    <2>3. Fresh(call[c], rows, intent) /\ call[c] = [f \in RequestFields |-> call[c][f]]
      BY <2>1 DEF Is, Idle, AInv, CallsFresh, IInv, CallsInv, CallShape
    <2>4. id \in Ids
      BY <2>1, <2>3 DEF Is, Fresh
    <2>5. rows[id] \in Row(table) /\ born' = born \cup {id}
      BY <2>1, <2>4 DEF TypeOK
    <2>6. next.stage = "reading"
      <3>1. req = [f \in RequestFields |-> req[f]]
        BY <2>3
      <3> HIDE DEF req
      <3> QED BY <3>1 DEF RequestFields
    <2>7. Kept(r, new)
      BY <1>0, <2>1, <2>2, <2>4, UpdatedMeans DEF IInv, RowsInv
    <2>8. r \in Row(table)
      BY <1>0, <2>1, <2>2, <2>5, UpdatedObeys
    <2> HIDE DEF id, r, new, next
    <2>9. new \in Message(table)
      BY <1>0, <2>7, <2>8, KeptIsMessage
    <2> QED BY <1>0, <2>1, <2>4, <2>5, <2>6, <2>8, <2>9, WriteTypes DEF Stages
  <1>4. ASSUME NEW c \in Calls,
               InsertRefused(c) \/ UpdateRefused(c) \/ Read(c) \/ StatementFails(c)
        PROVE  TypeOK'
    <2>1. UNCHANGED << table, rows, born, intent >> /\ call' = [call EXCEPT ![c] = Idle]
      BY <1>4 DEF InsertRefused, UpdateRefused, Read, StatementFails, Answer
    <2> QED BY <1>0, <2>1, CallTypes
  <1>5. ASSUME NEW id \in Ids, DeleteRow(id) PROVE TypeOK'
    <2>1. Ids' = Ids
      BY <1>5, SameTable DEF DeleteRow
    <2> QED BY <1>0, <1>5, <2>1 DEF DeleteRow, TypeOK, IInv, RowsInv
  <1>6. CASE UNCHANGED vars
    <2>1. Ids' = Ids
      BY <1>6, SameTable DEF vars
    <2> QED BY <1>6, <2>1 DEF vars, TypeOK
  <1> QED BY <1>1, <1>2, <1>3, <1>4, <1>5, <1>6 DEF Next

(* Every row there ever is obeys its table: no column that has to hold a   *)
(* value is NULL, and every type and status is a name there is.            *)
THEOREM RowsObey == Spec => []TypeOK
  <1>1. Init => TypeOK
    <2> SUFFICES ASSUME Init PROVE TypeOK
      OBVIOUS
    <2>1. \A c \in Calls : call[c].stage \in Stages
      BY DEF Init, Idle, Stages
    <2>2. \A id \in Ids : rows[id] = NULL /\ intent[id] = NULL
      BY DEF Init
    <2> QED BY <2>1, <2>2 DEF Init, TypeOK, Stages
  <1> QED BY <1>1, AnswersInit, AnswersNext, TypesNext, PTL DEF Spec
=============================================================================
