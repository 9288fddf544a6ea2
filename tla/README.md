# Verification of greedy-eye

TLA+ models of the greedy-eye portfolio service, the TLC runs that check them on
small instances, and theorems about them that TLAPS proves for every value of
the constants. Paths and line numbers below are those of the repository.

1. [The system](#1-the-system)
2. [Modules](#2-modules)
3. [Runs](#3-runs)
4. [Proofs](#4-proofs)
5. [Where code and docs disagree](#5-where-code-and-docs-disagree)
6. [Not modelled](#6-not-modelled)
7. [Plan](#7-plan)

## 1. The system

greedy-eye is one Go process in front of one PostgreSQL database. `cmd/eye/main.go`
opens a pool of connections, builds two stores on it and serves two Connect
(HTTP/2 cleartext) services. There is no cache, no queue and no background task:
all state is in the database, and all concurrency is that of requests.

| component | where | state | operations |
|---|---|---|---|
| Portfolio store | `internal/store/postgres/portfolio.go` | tables `accounts`, `portfolios`, `holdings`, `transactions` | create, get, update, delete, list of each (no delete of transactions) |
| Portfolio service | `internal/service/portfolio/handler.go` | none | checks required fields, calls the store, maps its errors to status codes |
| Market data store | `internal/store/postgres/marketdata.go` | tables `assets`, `prices` | create, get, update, delete, list of assets; create one or many prices, latest price, history, delete one or many |
| Market data service | `internal/service/marketdata/handler.go` | none | as above |
| Settings store | `internal/store/postgres/settings.go` | table `users` | create, get, update, delete, list; no service serves it |
| Schema | `schema.hcl` | foreign keys, unique indexes | refuses or completes writes (`NO_ACTION`, `SET_NULL`, unique violations) |
| Server process | `cmd/eye/main.go` | listener, signal, error channel | start, serve, shut down within 30 s, close the pool |
| Configuration | `cmd/eye/config.go` | the layers loaded so far | defaults, flags, file, environment, in this order |
| Connection pool | `cmd/eye/main.go:58-65` | connections, and who waits for one | every statement takes one and gives it back |
| API stubs | `internal/api/v1` | none | messages, enums, and the router of each service |
| Legacy services | `internal/service/{user,asset,price,rule}` | none of their own | preferences, assets found or created, latest price; kept out of the build by a tag |
| Adapters | `internal/adapter/*` | none | stubs |

How they interact: a handler calls one store method; a store method executes one
to five SQL statements in a row, each on a connection of its own and each
committed by itself (the stores never open a transaction). Requests share
nothing but the tables.

What is hard in it:

- **Interleaving.** A create looks up the internal id of each row it refers to in
  a statement of its own and inserts with the ids it found. Between any two
  statements another request may delete, unlink or move those rows.
- **Partial failure.** A statement may fail after earlier ones were committed, an
  acknowledgement may be lost after the commit, the process may end anywhere.
- **Moving lists.** A client reads a list page by page with a cursor while rows
  come and go, and a connection may break while the rows of a page stream in.
- **What the client is told.** Every outcome ends in a status code; several
  layers translate it.
- **Columns.** A value is a message, an entity, a row and a message again on its
  way, and an update writes the columns its mask names while others write theirs.
- **The end.** A signal, a listener that fails, requests that wait for one of few
  connections, a timer of 30 seconds and a pool that closes behind them.

What makes each component correct:

| component | property |
|---|---|
| Portfolio store and schema | no row refers to a row that is gone; holdings outlive their portfolio; transactions, and what they need, stay for ever; every method is one atomic write as far as the tables tell |
| Portfolio service | an error says something true about the request; a write answered with an error left nothing behind, one answered OK took effect; Internal means a failure |
| List methods of all stores | pages do not overlap or go back; a client at the end of a list has every row that was in it all along; only the last page is short; the scan ends |
| Prices | a bulk creation loses no quote without a reason and claims no price it did not store; the latest price is the latest; a deletion leaves nothing it was asked for; no price is lost along with an asset |
| Columns of all stores | a row holds, column by column, what the last write that named the column sent; an answer is about the row as it was while the request ran |
| Server process | a graceful stop has answered everybody; the process ends; every request is answered |
| Configuration | environment over file over defaults |
| Legacy services | preferences are lost, and assets doubled, only where calls overlap or a page is too short; answers fit what was asked |

`PROJECT.json` lists the hazards behind these, each at its line.

## 2. Modules

| module | what it is | extends |
|---|---|---|
| `PortfolioStore` | requests to the portfolio service, the writes of users and the creates and deletes of assets, statement by statement | |
| `Ledger` | what the tables promise: entries that appear, change and go atomically and never dangle; with the proof that they do not dangle | `TLAPS` |
| `PortfolioLedger` | the tables of `PortfolioStore` as a `Ledger` (`INSTANCE Ledger WITH ...`) | `PortfolioStore` |
| `PortfolioStoreProofs` | theorems about `PortfolioStore`, its tables and its answers | `PortfolioLedger` |
| `MCPortfolioStore` | small instances for TLC | `PortfolioLedger` |
| `PriceStore` | requests about prices, statement by statement, while assets are deleted | |
| `PriceLedger` | the tables of `PriceStore` as a `Ledger` | `PriceStore` |
| `PriceStoreProofs` | theorems about `PriceStore` | `PriceLedger` |
| `MCPriceStore` | small instances for TLC | `PriceLedger` |
| `KeysetScan` | a client reading a list to its end through any of the seven List methods | |
| `KeysetScanProofs` | theorems about `KeysetScan` | `KeysetScan` |
| `MCKeysetScan` | small instances for TLC | `KeysetScan` |
| `Fields` | the columns of all seven tables: messages, entities, rows, masks | |
| `FieldsProofs` | theorems about `Fields` | `Fields` |
| `MCFields` | small instances for TLC | `Fields` |
| `Routes` | the procedures of the API, and how many statements each comes to | |
| `Server` | the process from start to exit, the pool and the requests | `Routes` |
| `ServerProofs` | theorems about `Server` | `Server` |
| `MCServer` | small instances for TLC | `Server` |
| `Config` | the start of the process up to its configuration | |
| `ConfigProofs` | theorems about `Config` | `Config` |
| `MCConfig` | small instances for TLC | `Config` |
| `Legacy` | the services that are kept out of the build, call by call of the storage service | |
| `LegacyProofs` | theorems about `Legacy` | `Legacy` |
| `MCLegacy` | small instances for TLC | `Legacy` |

How they go together: `PortfolioStore` and `PriceStore` say which rows there are
and which refer to which, `Fields` what is in their other columns, `KeysetScan`
how they are listed. All are about requests, which `Server` starts, gives
connections to and ends: a `Crash` there is an `Exit` or `Killed` here, and a
statement that the closed pool refuses is `StatementFails`. `Routes` counts the
statements that the plans of `PortfolioStore` and the loops of `PriceStore`
execute.

### PortfolioStore

| code | model |
|---|---|
| a row's uuid, and its internal id | the same model value; `live` are the rows that exist, `born` those that ever did (`uuid.New` does not repeat) |
| columns that refer to other rows | functions `userId`, `accountId`, `assetId`, `portfolioId`; `NULL` for SQL NULL. `holdings.portfolio_id` is set to NULL when the portfolio goes (`schema.hcl:254-259`), `transactions.asset_transactions` when the asset goes; all other foreign keys refuse the deletion |
| `transactions.status` | `status`; an unspecified one is stored as pending (`portfolio.go:1273-1287`) |
| a request in progress | `call[c]`: its operation, what it carries, the statements it still has to execute (`plan`), its answer |
| `users.email` and its unique index (`schema.hcl:40-43`) | `email`, `EmailTaken`; `used` is history: the emails users have had |
| handler up to the first statement | `Invoke` (the request passed the checks), `Reject` (it did not) |
| what a request carries that no statement can write | `flaw`, chosen in `Invoke` among `FlawsOf` the operation and noticed when it comes to the write (`Unwritable`) |
| `getUserInternalID` and the like | the lookup actions: `InvalidArgument` for an id that is no uuid, `NotFound` for none, else the next statement |
| `INSERT` | `Insert...`, refused by the foreign keys or the index on emails in `InsertRefused` and answered `FailedPrecondition` through `isConstraintError` |
| `UPDATE ... WHERE uuid` | `Update...`; no row affected is `RowMissing`; a foreign key's refusal, which `UpdateHolding` does not recognise, is `MoveRefused`; a constraint on a user is `UserRefused`, which takes it for that of the email |
| `DELETE ... WHERE uuid` | `Delete...`, refused in `DeleteRefused`; `SET NULL` is part of the same action, as it is of the same statement |
| `SELECT` with its joins, after an update or for a Get | `Read`: the inner joins need every row of `References`; a holding's portfolio and a transaction's asset are outer joins |
| error of `pool.QueryRow` / `pool.Exec` that is none of the above | `StatementFails` (before the statement), `ReplyLost` (after its commit) |
| end of the process | `Crash`: the calls go, the tables stay |

A statement is one action because PostgreSQL executes it atomically: a foreign
key locks the row referred to, so no deletion gets between the check and the
write. Updates carry a field mask; what matters of it is whether the column
modelled is in it (`masked`). Names, descriptions, amounts, `data` and
`updated_at` are left out, but not that what a request carries may be at fault.
A flaw is `unwritable` when the write is answered `Internal` whatever the tables
hold: data of a portfolio, or preferences, that are no JSON (`portfolio.go:51-54`,
`145-148`), a path given twice in a mask, which makes two SET clauses of one column
(`portfolio.go:134-179`, `419-452`, `694-728`, `986-1011`), a text the database does
not take. It is `twice` when that path is `portfolio_id`, which is then looked up twice
first, and `unset` for preferences of no value, which the schema refuses and
`UpdateUser` calls an email that is in use. Prices refer to assets too and protect them; as long
as an asset has prices its `DeleteAsset` is refused, which only removes
behaviours from this model; the prices themselves are in `PriceStore`.

Users are only looked up by the served services; `InsertUser`, `UpdateUser` and
`DeleteUser` model the settings store that no service serves yet, so that all
foreign keys, and the race for an email, are exercised.

### Ledger

An abstract store of entries. `needs` is what an entry cannot do without
(`NO_ACTION`), `tags` what it is tagged with (`SET_NULL`). `Add` puts an entry
in at one instant, referring to entries that are there; `Retag` changes tags
likewise; `Remove` takes out a set of entries that no entry outside it needs, and
takes them off all tags. `PortfolioLedger!ImplementsLedger` and
`PriceLedger!ImplementsLedger` say that the tables behave so, whatever the
calls do: lookups, answers, faults and crashes stutter.

### PriceStore

| code | model |
|---|---|
| tables `assets` and `prices` | `assets`, all there at first, and `stored`; `drawn` are the uuids ever used |
| columns of a price | `quote[i]`: asset, base, source, timestamp. Figures, decimals and interval are left out: no statement compares them |
| a request in progress | `call[c]`: the quotes it still has to create (`todo`), its next statement (`asset`, `base`, `write`), the count, the answer. `request`, `before` (what matched its criteria when it began) and `failed` (the quotes a statement failed on) are history for the properties |
| handler up to the first statement | `Invoke`; what is missing or malformed is found where the code finds it, by `Reject` |
| `getAssetInternalID`, twice | `LookupAsset`, `LookupBase`; a criterion that is not given needs no statement and passes |
| `time.Now()` for a quote without a timestamp | `Stamped`, just before the INSERT; `Tick` advances the clock, or does not |
| `INSERT` | `CreatePrice`; `InsertRefused` when a foreign key or the unique index on `(asset_id, timestamp)` refuses (`schema.hcl:327-346`) |
| `CreatePrices` | one call that goes through the above for each quote: `Over` goes on to the next, `Inserted` counts, and `Refused` drops the error |
| `GetLatestPrice` | the SELECT with its inner joins; of several prices with the latest timestamp any may be answered |
| `DeletePrice`, `DeletePrices` | one DELETE of all that match at that moment (`Condemned`) |
| `DeleteAsset` | one statement, refused as long as a price has the asset as asset or base |
| faults, end of the process | `StatementFails`, `ReplyLost`, `Crash`, as in `PortfolioStore` |

A bulk creation under faults stops at nothing: the loop drops the error of the
failed statement and goes on, so in `StatementFails` and `ReplyLost` too the call
continues with its next quote. Each INSERT is a step of the ledger, the bulk
creation as a whole is not.

### KeysetScan

| code | model |
|---|---|
| rows that match the client's filter | `rows`; `AddRow` and `RemoveRow` are the creates, deletes and updates of other requests |
| ORDER BY column | `KeyOf`: the uuid, or for prices the timestamp (`marketdata.go:473-493`). No two rows present share a key (`UniqueKeys`): uuids do not repeat, and the unique index on `(asset_id, timestamp)` (`schema.hcl:326-330`) together with the mandatory asset filter does it for prices |
| the seven List methods | records `ListUsers` ... `ListPriceHistory`: which rows they look up, which of those are mandatory, which a deletion unlinks from the rows listed, and whether they read `rows.Err` |
| page size | `Request`: a size that is not positive becomes the default |
| page token | `token`: a key, none, or one that does not decode, which every method takes as none |
| filter lookups | `LookupFilter`, one statement each; `NotFound` when the row is gone |
| `SELECT ... WHERE key > cursor ORDER BY key LIMIT size+1` | `Select`, on the rows of that moment |
| the loop over `rows.Next` and what follows it | `Finish`: one row too many means there is another page, that row is dropped, the token is the key of the last one kept |
| a connection breaking in that loop | `StreamBreaks`: `rows.Next` returns false after any number of rows. Methods that read `rows.Err` answer an error, the others answer the rows they have as if they were all |
| an error | `Fail`: the client asks again with the same token |

`page` and `delivered` are what the client has; `steady` and `broken` are there for
the properties: the rows that matched ever since the scan began, and how many
streams broke. A page filter that
does not parse, and the time range of the price history, only restrict `rows`.

### Fields

One table is looked at in each behaviour, with the columns that are neither
references nor times.

| code | model |
|---|---|
| tables of `schema.hcl` | records, members of `Row`: which columns there are, which may be `NULL`, which hold one of the names of an enumeration |
| messages of the API | records, members of `Message`: optional texts may be `NULL`, types and statuses are numbers, data of a portfolio has a type and a value |
| `...FromProto`, `...ToProto` | operators of these names: an optional text that is not set is empty in the entity, and back; the type of portfolio data is dropped |
| JSON on its way to a row | `Marshal`, which makes `null` of data that is empty (`handler.go:411-415`), and `jsonb`, which keeps what a text says and not its spelling (`Respelled`) |
| values of INSERT and SET | `...Columns`: empty texts are stored as NULL where `nullableString` is called, numbers become names |
| `rows.Scan` and what follows it | `Get...`: names become numbers, NULL texts empty ones |
| the four pairs of switches | `NameOf` and `NumberOf` on one sequence of names each: a number without a name is stored as "unspecified", which is read as zero |
| checks of the creations | `Complete`; an update checks nothing, so an empty name can be written (a hazard, without a promise to hold it to) |
| field masks | `UpdatePortfolio` ... `UpdateUser`: the paths each update knows. Others are passed over; the same path twice makes a statement the database refuses (`Flawed`) |
| UPDATE | `Update`, `UpdateRefused`: assets and users come back with it, the other rows are read again in `Read`. A portfolio is answered as the UPDATE returned it, read again only for its user |
| unique email, NOT NULL | `EmailTaken`, `NotNullRefused`; `UpdateUser` takes any refusal for the former |
| JSON that is none | `MarshalFails` for portfolios, before an UPDATE, and after the lookup of the user for an INSERT; `JSONRefused` by the database for users |
| a statement that fails, or whose answer is lost | `StatementFails`, and the branches of `Create` and `Update` that write and answer `Failed`; the second statement of an update may fail with the change kept |

`intent` is history: per row and column what the last write that named it sent.
`may` of a request is what it may answer: the value a column had when it began,
or any that was written since, and of a column it wrote itself its own or later.
`failed` of an answer is history: whether one of the request's statements failed.

### Server and Routes

| code | model |
|---|---|
| `main` up to `ListenAndServe` | `Start`, or `StartFails`; the goroutine is `Listen`, or `ListenFails` with its error in `errCh`. Both may happen before `Notify` |
| SIGINT, SIGTERM | `Signal`; before `signal.Notify` it is `Killed` |
| the `select` | `Stop` or `Abort`: when both channels are full either may be taken |
| `Shutdown` with its 30 seconds | `Stop` closes the listener; `CloseIdle` closes a connection that is idle, `Drained` returns nil when none that `net/http` knows is left, `TimedOut` an error (exit `deadline`) at any time |
| the deferred `pool.Close` | `ClosePool`, after which nobody gets a connection, and `Exit` when all are given back |
| connections of clients | slots that are `linked`, by `Link` while the listener is open; over HTTP/1 they are kept alive from request to request until `Shutdown` has begun (`ShuttingDown`) |
| requests | slots that `Arrive` on a connection, `Receive` their body, `Acquire` a connection for each statement, queue up, are granted one (`Grant`) or refused it (`Refuse`), `Finish` the statement and `Answer`; `Disconnect` is the client's |
| `h2c.NewHandler` | slots in `H2C`: `net/http` has handed their connections over, so neither `CloseIdle` nor `Drained` looks at them |
| `mux`, the routers of the two services | `Routes`: a procedure comes to a number of statements. The automation service is declared and not mounted; five procedures answer Unimplemented; both come to none |

A request may `Arrive` on any connection that is open as long as the process runs,
also after the listener was closed: over HTTP/1 until `CloseIdle` gets to it, over
HTTP/2 until the end. `lost` is history: requests the process ended under, or refused
a connection.

### Config

`getConfig` step by step. A layer is a function from dotted keys to values;
`LoadDefaults`, `LoadFile` and `LoadEnv` lay theirs over what there is, `Unmarshal`
reads the fields of the struct and fails on a number that is none, or on services
that are not a list of tables (`ServiceConfigs`). A file is
loaded by its suffix: of another suffix it is passed over, missing or malformed it
ends the start. `EnvKey` is what the code makes of the name of a variable
(prefix, lower case, dots for underscores).

### Legacy

The storage service these four call has been removed from the repository; it is
modelled from how they use it: one row read or written at a time, at most a page
listed, in an order that neither the model nor these services rely on (the store
that the repository has lists prices oldest first, `marketdata.go:492`), any call may
fail, and a write whose answer failed may have happened.

| code | model |
|---|---|
| `UpdateUserPreferences` | the read, the checks and the merge in `UpdateUserPreferences`; the write of the whole map in `UpdateUser` |
| `GetUserNotificationChannels` | `GetUserNotificationChannels` |
| `FindOrCreateAsset` | a page of the assets in `FindOrCreateAsset`, then `CreateAsset`; symbols are compared without regard to case |
| `EnrichAssetData`, `FindSimilarAssets` | a read, then a page (`FindSimilarAssets`); similar as `areAssetsSimilar` has it |
| `GetLatestPrice` | any page of the prices of all sources (`ListPriceHistory`), of those on it the newest of the source wanted |
| `GetPriceHistory` | any page of the prices of a span of time, all of it or those of a source |
| errors of the storage service | `StorageFails`, with the code each method makes of them |

Texts that are compared by `strings.Contains` or word by word are sets of parts, some
of which are too short to count (`ShortWords`). `whole` of an answer is history: that
the page left nothing out.
`intent` is preferences as if each update were one step; `overlapped` and `raced`
note the users and symbols for which two calls overlapped.

## 3. Runs

Each run has a configuration file of its name.

| run | shows |
|---|---|
| `store_all` | all operations, two at a time, with malformed ids and emails that are taken: an error is true of the request (`ErrorsAreTruthful`), an answer says whether the write took effect (`AnswerMatchesEffect`), types |
| `store_faults` | with failing statements, lost acknowledgements and crashes: `ReferentialIntegrity`, `HoldingsSurvive`, `TransactionsArePermanent`, the refinement of `Ledger`; `InternalMeansFault`: an internal error stands for a failure or for what the request itself carries, with the one race it names; and `AnswerMatchesEffect` once more: a write answered with an error stays only if a failure hit its own call |
| `prices` | two calls creating one or many, reading and deleting prices of two sources while assets go, without faults: `NothingLost`, `LatestIsLatest`, `DeletedIsGone`, types |
| `prices_faults` | with failing statements, lost acknowledgements and crashes: `NothingLost` (a bulk creation loses the quotes a statement failed on and no other), `CountIsEarned` (its count claims no more prices than were stored of its quotes), `PricesRefer`, `HistoryIsKept` (a price goes only by the statement of a deletion that names it), and the refinement of `Ledger` |
| `scan` | all seven lists, with a failure: `PagesAdvance`, `CompleteUnlessBroken`, `FullUntilLast`, types, and that every scan ends (`ScanEnds`) |
| `scan_unchecked` | a violation, see [5](#5-where-code-and-docs-disagree) |
| `fields` | two requests that create, read, update and delete a row of each table, with statements that fail: `RowsAsSent`, `FreshAnswers`, `ErrorsAreClean`, and that each row obeys the schema of its table (`TypeOK`) |
| `server` | the process with requests over HTTP/1 and HTTP/2 that compete for a connection: a graceful stop has answered everybody on HTTP/1, also who came on an old connection after the listener was closed (`OkMeansAnswered`), nobody queues for a connection that is free (`PoolServes`), the process ends (`Terminates`), every request is answered (`Served`), types |
| `server_h2c` | a violation, see [5](#5-where-code-and-docs-disagree) |
| `config` | every file and environment of a few: `Precedence`, types |
| `config_logging` | a violation, see [5](#5-where-code-and-docs-disagree) |
| `legacy` | two calls: `UpdatesLostToOverlapsOnly`, `DuplicatesOfRacesOnly`, `AnswersFit`, types |

**Bounds.** Each table has one or two uuids and `born` keeps track of those used, so a
create is possible only while there is room (`Room`, also in `Fields`). That bounds the
length of histories, not the interleavings: one holding, account, portfolio and
transaction is enough for each foreign key to be checked, refused and cascaded, a
holding moves into a portfolio and out of it, and two calls give every order of two
statements; every property relates at most one row to the rows it refers to and one call
to the writes of others. Users and assets are there to begin with (`Seeded`) but in
`store_faults`, which starts from empty tables. One email is what users race for: two
users want it in `store_all`; requests that cannot be written, or unset preferences, are
in `store_faults`, where what a request carries has to be told from a failure. Requests
refused at once differ only in the operation they name, so `store_all` has those of one
(`Incomplete`). For prices there are two assets, three uuids, two sources and two
instants: a bulk creation of two quotes and another call fill the table, collide on an
instant, and the clock runs out (`MaxTime`). `prices_faults` has one instant and fewer
requests, which makes stamped quotes collide. `Calls`, the uuids of prices and users and
the ids of assets in `legacy` are interchangeable, and only they are in the symmetry
sets; runs with temporal formulas use none. In `KeysetScan` there are five rows, two of
which share a key; page sizes are one and the default of two, so a scan takes up to four
pages; `MaxFaults` bounds the failures at one: a second is met as the first was, by
asking again or by a broken stream in a later page. In `fields` two requests and one row
(two for users, who can want one email) give every order of two writes and a read of one
row; messages have in each column a value, an empty or unset one and, for enumerations,
one beyond the last; of JSON there is a text, a text that is respelled, an empty one and
one that is none; masks have one path, two, an unknown one, one twice and none. In
`server` there are two slots for HTTP/1 and one for HTTP/2, one connection of the pool,
and procedures of no, one and two statements: that is enough for a queue of two behind
the one that holds the connection, whatever the stop finds in progress. In `legacy` a
page holds two of three assets and two of three prices, so a list can be short, and
which prices it leaves out is open (`Page`, 20 to 100 in the code), and one similar
asset is answered of two (`Limit`, 10). `config` has files that set nothing, a field, a
number that is none, services as names and as tables, of two suffixes and another, and
environments that set what the file sets or not.

`PROJECT.json` names with each property a plausible slip in the code (a
lost check or unlink, an inner join, a non-strict comparison, an untruncated page,
an error that counts) that the same run finds to violate it.

**Deadlock** is checked in the `store_`, `prices`, `fields` and `legacy` runs: a
call can always be answered, or a request that is refused be made. Elsewhere the
system really stops, and it is not checked (`CHECK_DEADLOCK FALSE`): the client
of a scan at the end of the list, a configuration that is read, a process that
has exited. That the process is not stuck before its exit is `Terminates` and `Served`.

**Fairness.** `PortfolioStore`, `PriceStore`, `Fields`, `Config` and `Legacy`
assume none; all their properties are safety. `Server` assumes that goroutines are scheduled
(every step of `main`, of the listener's start, of a handler), that the timer of
Shutdown fires (`TimedOut`) and that the database answers every statement
(`Finish`), which no deadline of the program enforces. Of clients it assumes that an
answer can be written (`Answer`): answers are small and buffered, and there is no
`WriteTimeout` should one not be read. Nothing else: they may send a request for ever,
there being no `ReadTimeout`, keep a connection for ever, or never go away; and nothing
of signals. `Terminates` needs neither of the assumptions about the database and the
clients for the wait in `Shutdown`, which its 30 seconds end, but the former for
`pool.Close`, which waits for the connections in use.
`KeysetScan` assumes `WF_vars(Scan)`: a handler that runs goes on to
its next statement (goroutines are scheduled) and a client that reads a list asks
for its next page. Nothing is assumed of the other requests: they may change the list
for ever between any two steps of the scan.

## 4. Proofs

| theorem | says | checked by |
|---|---|---|
| `Ledger!ClosedInvariant` | no entry of a ledger refers to a missing one | |
| `PortfolioStoreProofs!TypeCorrect` | `Spec => []TypeOK` | `store_all` |
| `PortfolioStoreProofs!Refinement` | `PortfolioStore` implements `Ledger` | `store_faults` |
| `PortfolioStoreProofs!Integrity` | `Spec => []ReferentialIntegrity` | `store_faults` |
| `PortfolioStoreProofs!Survival` | `Spec => HoldingsSurvive` | `store_faults` |
| `PortfolioStoreProofs!Permanence` | `Spec => TransactionsArePermanent` | `store_faults` |
| `PortfolioStoreProofs!Truthful` | `Spec => []ErrorsAreTruthful` | `store_all` |
| `PortfolioStoreProofs!Faulty` | `Spec => []InternalMeansFault` | `store_faults` |
| `PortfolioStoreProofs!Matching` | `Spec => []AnswerMatchesEffect` | `store_all`, `store_faults` |
| `PriceStoreProofs!TypeCorrect` | `Spec => []TypeOK` | `prices` |
| `PriceStoreProofs!Refinement` | `PriceStore` implements `Ledger` | `prices_faults` |
| `PriceStoreProofs!Integrity` | `Spec => []PricesRefer` | `prices_faults` |
| `PriceStoreProofs!History` | `Spec => HistoryIsKept` | `prices_faults` |
| `PriceStoreProofs!Latest` | `Spec => []LatestIsLatest` | `prices` |
| `PriceStoreProofs!Deleted` | `Spec => []DeletedIsGone` | `prices` |
| `PriceStoreProofs!NoQuoteLost` | `Spec => []NothingLost` | `prices`, `prices_faults` |
| `PriceStoreProofs!CountedOnce` | `Spec => []CountIsEarned` | `prices_faults` |
| `KeysetScanProofs!TypeCorrect` | `Spec => []TypeOK` | `scan` |
| `KeysetScanProofs!OrderOfPages` | `Spec => []PagesAdvance` | `scan` |
| `KeysetScanProofs!CompleteScans` | `Spec => []CompleteUnlessBroken` | `scan` |
| `KeysetScanProofs!CompleteIfRowsErrIsRead` | where every method reads `rows.Err`, `Spec => []Completeness` | |
| `KeysetScanProofs!FullPages` | `Spec => FullUntilLast` | `scan` |
| `FieldsProofs!RowsObey` | `Spec => []TypeOK` | `fields` |
| `FieldsProofs!Sent` | `Spec => []RowsAsSent` | `fields` |
| `FieldsProofs!Freshness` | `Spec => []FreshAnswers` | `fields` |
| `FieldsProofs!CleanErrors` | `Spec => []ErrorsAreClean` | `fields` |
| `ServerProofs!TypeCorrect` | `Spec => []TypeOK` | `server` |
| `ServerProofs!GracefulForHTTP1` | `Spec => []OkMeansAnswered` | `server` |
| `ServerProofs!GracefulWithoutHTTP2` | without HTTP/2 connections, `Spec => []GracefulStopServesAll` | |
| `ServerProofs!PoolNeverStuck` | `Spec => []PoolServes` | `server` |
| `ConfigProofs!TypeCorrect` | `Spec => []TypeOK` | `config` |
| `ConfigProofs!WhoWins` | `Spec => []Precedence` | `config` |
| `LegacyProofs!TypeCorrect` | `Spec => []TypeOK` | `legacy` |
| `LegacyProofs!LostToOverlaps` | `Spec => []UpdatesLostToOverlapsOnly` | `legacy` |
| `LegacyProofs!DuplicatesOfRaces` | `Spec => []DuplicatesOfRacesOnly` | `legacy` |
| `LegacyProofs!Fitting` | `Spec => []AnswersFit` | `legacy` |

They hold for any number of rows, calls, operations, keys, page sizes and faults.
The assumptions are those the modules state: in `PortfolioStore` that the tables
are disjoint, that `NULL` and malformed ids are no rows, that only users and
assets are seeded; in `PriceStore` likewise, and that there is an instant; in
`KeysetScan` that the rows are finitely many with natural numbers as keys and that
the default page size is positive; in `Fields` that clients send messages of the
table's type, that `NULL` is none and no row, and that JSON respelled is JSON and is not
respelled again; in `Server` that the slots are finitely many,
those of HTTP/2 among them, that clients call procedures of the API and the pool has
a connection; in `Config` that environments set variables the module knows; in `Legacy` that there is
one old asset of a symbol and a type, that sizes of pages and times are numbers, and
that an asset is wanted by some symbol. `TextAssumption` of `Fields` says of the
literals in the module that they are strings: to TLC it is plain, the provers do not
know it. Many hold under more faults than their run has: `Truthful`, `Latest` and
`Deleted` under all. `Truthful` also covers unset preferences, which `store_all` leaves out.

The two corollaries are about the violated runs of [5](#5-where-code-and-docs-disagree).
They say that each run's counterexample is the only way: with methods that read
`rows.Err`, or without connections taken over by `h2c`, the promise that is
violated would hold.

**Integrity** goes through the refinement. The invariant of the program is
`IInv`: the types, and that each call in progress is well formed
(`CallsWellFormed`: the statements left are a suffix of the operation's plan and
a call past its lookups names rows of the right tables). It says nothing of
lookups still being true when the write runs, because they may not be; a write
is a step of the ledger because the foreign keys check at that moment. Given
`IInv`, every statement is `Add`, `Retag`, `Remove` or a stutter of `Ledger`;
`Closed` is inductive there with nothing added; and `Closed` under the mapping
is `ReferentialIntegrity`. `Survival` and `Permanence` are properties of single
steps, proved action by action from `IInv` and `Integrity`: an account with
transactions cannot go, because it is needed, nor its user.

**Prices.** The argument is that of `PortfolioStore`. What `IInv` adds to the
types (`CallsWellFormed`) is what each statement has checked for those after it:
past the first lookup the quote has a source, past the second a time. Without it
`TypeCorrect` would not be inductive, as a request may leave out both; that asset
and base are assets follows only from the foreign keys at the INSERT. A DELETE by
criteria is one `Remove` of a set.

**Scans.** `OrderInv` is what makes `PagesAdvance` inductive: all rows received
are at or before the cursor, all rows selected are beyond it. `NothingBehind`
does it for `CompleteUnlessBroken`: as long as every row streamed was iterated
over or the break was noticed, a row that matched all along and lies behind the
cursor was received, and one ahead of it is in the batch selected, or comes
after the whole batch, and then the batch is larger than a page, so the list is
not at its end. That last part is what the look-ahead row is for; it rests on
two facts about `ORDER BY ... LIMIT n` (`First`): the rows it takes come before
all others (`FirstComesFirst`), and they are `n` if there are as many and keys
are unique (`FirstFull`, by induction over finite sets). Without unique keys it
would not hold, which is why the index on prices matters.

**Answers.** That the tables are right says nothing of what clients are told.
`CallsSincere` says it of a call in progress, for what it may still answer:
each row it named and no longer looks for was there once (so if it is not live it is
gone for good, since uuids do not come back), a call whose next statements only
read has written, one that has not written has a write in its plan. What makes it
inductive is that other calls can only make rows go (`Onward`): the rows a call
knows are `born` stay so, and dead rows stay dead. `Faulty` needs its exception
in exactly two cases of the proof, a request that cannot be written and the foreign key
that `UpdateHolding` does not recognise. That an email was taken is remembered (`used`),
for its user may have gone when the answer arrives;
`Matching` needs its own, a call hit by a failure, only for the read after an
update and for lost acknowledgements.

**Prices, again.** `CallsRight` follows a search through its lookups: what it has
checked so far, what matched when it began (`before`) and is still there
needs, so an asset that is not found proves that nothing of `before` is left. It
rests on `Integrity`: a price that is stored protects its assets. `CallsCareful`
says of a bulk creation that every quote it was given is still in its
list, or a statement failed on it, or it is covered (stored, incomplete, or of an
asset that is gone);
`CallsHonest` that the count and what is left of the list together stay
within the prices drawn for what was asked, counted by cardinality.

**Fields.** The invariant (`RowsInv`) is that each row and its `intent` have the
columns of the table and agree column by column (`Back`). Two facts about values
carry it: what is stored of a message, read back, means what the message means
(`Store` against `MeantBy`, for every table and column, the enumerations
included, and JSON up to its spelling and the `null` that empty data become), and an
UPDATE takes a column either from the new values or from the old row.
Concurrency needs no more, for a column is written by one statement. For the
answers `AInv` adds that a request may answer what the row means now, in each
column it is not about to write (`Fresh`): every write tells all requests about the row.
`CleanErrors` says that only two things make an internal error, a statement that failed
and what the request itself carries; that no row which was ever stored is a third is for
the reads to show, which take any row (`Get...` are defined on all of `Row`).
`RowsObey` goes column by column, for what is stored of a message is of
the column's type, an UPDATE takes each column from the one or the other, and a
record with columns of their types is a row (`StoreTypes`, `TakeByColumn`, `RowByColumn`).
What it shows is that no update gets past the schema without the database refusing
it: every enumeration is stored as one of its names, and no mandatory column is `NULL`.

**Server.** Shutdown closes the listener before it looks for connections, and a request
in progress has one that is open (`TypeOK`), so once it has seen none left over HTTP/1
none can come and no request can arrive; that, with what main has and has not done at
each of its steps, is the invariant (`IInv`). A request that holds or waits for a
connection has a statement left (`Needy`), which `TypeCorrect` needs: `Finish` counts
down from there. That a free connection has nobody waiting for it (`PoolNeverStuck`)
needs the queue: those ahead of one who waits wait themselves, and have only others of
them ahead (`Queue`), so of finitely many somebody has nobody ahead (`FirstOfMany`).

**Config.** `IInv` says of each step which layers have been laid (`Over`), so that
at the end the value of every key is that of the last layer which has it.

**Legacy.** A call that is to write is up to date or has been overtaken
(`UpToDate`), one that is to create an asset is alone or has been raced (`Alone`):
each write either confirms this for the other calls or is noted in `overlapped`
or `raced`. `AnswersFit` is inductive with nothing added but the types. Of prices
it promises what any page allows: the answer is of the source that was asked for, and the
newest of it, or all of its history, if the page left none of the span out.

Every invariant and every action property the runs check is a theorem. Only
model-checked are the liveness properties `ScanEnds`, `Terminates` and `Served`:
liveness under fairness needs `ENABLED`, which is out of the prover's reach.
`Completeness`, `GracefulStopServesAll` and `LoggingLevelIsObeyed` are violated,
the first two but for their corollaries.

## 5. Where code and docs disagree

- `scan_unchecked`: `ListUsers`, `ListPortfolios`, `ListAccounts`, `ListHoldings`
  and `ListTransactions` never read `rows.Err`. A connection that breaks while
  rows stream is answered as a short last page, and the client believes it has
  the whole list. `ListAssets` and `ListPriceHistory` do read it.
- `server_h2c`: a request over HTTP/2 may be cut off by a stop that `main` reports
  as graceful (`main.go:138`). `h2c.NewHandler` takes the connections over from
  `net/http`, and `Shutdown` neither waits for nor closes connections that have been
  taken over.
- `config_logging`: `docs/development.md:214` names a variable
  `EYE_LOGGING_LEVEL`. `getConfig` makes the key `logging.level` of it, the struct
  reads `logger.level` (`config.go:20-22`): it has no effect.

Behaviours that surprise but contradict nothing the repository promises are in
the hazards and in the properties instead:

- A holding moved to a portfolio that is deleted after the lookup is answered
  `Internal`, where the same race in a create is `FailedPrecondition`:
  the exception of `InternalMeansFault`.
- An update whose read for the answer fails is answered with an error and stays: the
  exception of `AnswerMatchesEffect`, which any program without request ids needs for lost
  acknowledgements too.
- `CreatePrices` drops every error, a failing database included, and answers OK with a
  count: `NothingLost` and `CountIsEarned` say what can be relied on. The client does not
  learn which quotes were lost.
- Requests alone can bring about `Internal`: a path given twice in a mask, or data that are
  no JSON, where `InvalidArgument` would be true. `InternalMeansFault` and `ErrorsAreClean`
  allow for what a request itself carries.
- Data of a portfolio that are empty come back as the text `null`, and without their type.
- `UpdateUser` tells of an email that is in use where preferences were unset.
- The latest price is looked for on one page of the prices of all sources. With more prices
  than fit, and a storage that lists the oldest first as the repository's own does
  (`marketdata.go:492`), it is not the latest: the exception of `AnswersFit`.
- The list of services as `docs/development.md:247-254` has it does not fit the struct
  (`config.go:33-40`): a process with such a file fails in `Unmarshal` and does not start.
- Prices are unique by asset and timestamp, whatever their source.
- A status may follow any other; an update may empty a required field.
- Two overlapping updates of preferences lose one, two overlapping searches create an asset
  twice: the exceptions of `UpdatesLostToOverlapsOnly` and `DuplicatesOfRacesOnly`.

## 6. Not modelled

- `created_at` and `updated_at`, which follow the clock of the database and may
  go back; balances and figures beyond being values that are stored and read.
- List filters with ids that are no uuid and tokens that decode to something
  that is no uuid: both end in an error before a page is made.
- Waiting for row locks and deadlocks between them: every statement writes one
  row or one row and those unlinked from it, and PostgreSQL ends a deadlock by
  failing a statement, which is `StatementFails`.
- The generated code of `internal/api/v1`, more than half of the repository, but for its
  messages, enums and routers: descriptors, accessors, clients and
  reflection tables have no behaviour of the program's own.
- The automation API: declared and not mounted, and no code implements it. The
  rule service of the build tag, `FetchExternalPrices` and the adapters only say
  that they are not implemented.
- Sentry and the loggers, which keep nothing; the pool's own health checks and
  limits on lifetime, which only replace idle connections; HTTP/2 settings and
  deadlines other than Shutdown's, which the program does not set.
- `testutil`, which sets up a database for tests.

## 7. Plan

Done: the components with logic of their own, their abstract specifications, and
the proofs of all their safety properties. What would come next:

1. The automation service, once there is code.
2. The retry of a bulk creation, once clients can tell which quotes failed.
3. Abstract specifications of what a scan and a bulk creation promise as a whole, which
   `PagesAdvance`, `CompleteUnlessBroken`, `NothingLost` and `CountIsEarned` now state piece by piece.
