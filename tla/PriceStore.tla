------------------------------ MODULE PriceStore ------------------------------
(***************************************************************************)
(* The prices of the market data store: creating one or many, the latest   *)
(* of an asset in terms of another, deleting one or many, while assets are *)
(* deleted.                                                                *)
(*                                                                         *)
(* A call looks up the internal id of each asset it names, one statement   *)
(* each, and then inserts, selects or deletes in one more.  A bulk         *)
(* creation does that for each of its quotes in turn, counts those that    *)
(* succeed and drops the errors of the others.  A price refers to its      *)
(* asset and its base asset, which it protects, and no two prices of an    *)
(* asset have the same timestamp, whatever their base and their source.    *)
(*                                                                         *)
(* The figures of a price, its interval and its decimals are left out.     *)
(***************************************************************************)
EXTENDS Integers, FiniteSets, Sequences

CONSTANTS
    Assets,           \* uuids of assets, all there to begin with
    Prices,           \* uuids of prices
    Sources,          \* where prices come from
    Malformed,        \* ids in requests that are not uuids
    MaxTime,          \* bound: the last instant of the clock
    Calls,            \* the calls the server can have in progress
    Creates,          \* the quotes that requests ask to create
    Bulks,            \* the lists of quotes that requests ask to create
    Filters,          \* the criteria of requests to read and to delete
    Faults,           \* what may fail: see the actions of that name
    NULL              \* an absent field; no call

Times == 1..MaxTime

(* A quote without a time is stamped by the server.                        *)
Quote == [asset : Assets \cup Malformed \cup {NULL},
          base : Assets \cup Malformed \cup {NULL},
          source : Sources \cup {NULL},
          time : Times \cup {NULL}]

(* A price as it is stored.                                                *)
Priced == [asset : Assets, base : Assets, source : Sources, time : Times]

Filter == [asset : Assets \cup Malformed \cup {NULL},
           base : Assets \cup Malformed \cup {NULL},
           source : Sources \cup {NULL},
           from : Times \cup {NULL}, to : Times \cup {NULL}]

ASSUME IdsAssumption ==
    /\ NULL \notin Assets \cup Prices \cup Sources \cup Malformed
    /\ Assets \cap Prices = {} /\ Malformed \cap (Assets \cup Prices) = {}
ASSUME TimeAssumption == MaxTime \in Nat \ {0} /\ NULL \notin Nat
ASSUME RequestsAssumption ==
    Creates \subseteq Quote /\ Bulks \subseteq Seq(Quote) /\ Filters \subseteq Filter
ASSUME PriceFaultsAssumption == Faults \subseteq {"statement", "reply", "crash"}
-----------------------------------------------------------------------------
VARIABLES
    assets,     \* the assets that exist
    stored,     \* the prices that exist
    drawn,      \* the prices that ever existed: uuids are not reused
    quote,      \* the columns of each price
    clock,      \* the time of day
    call        \* the calls in progress, NULL for none

db   == <<assets, stored, drawn, quote>>
vars == <<db, clock, call>>

Codes == {"OK", "InvalidArgument", "NotFound", "FailedPrecondition", "Internal"}

PriceOps == {"CreatePrice", "CreatePrices", "GetLatestPrice", "DeletePrice",
             "DeletePrices"}

NoQuote  == [asset |-> NULL, base |-> NULL, source |-> NULL, time |-> NULL]
NoFilter == [asset |-> NULL, base |-> NULL, source |-> NULL, from |-> NULL, to |-> NULL]

(* A call in progress: what it asks for, the quotes it still has to create,*)
(* its next statement, how many it has created, its answer; and, as        *)
(* history, the prices that matched its criteria when it began, and the    *)
(* quotes on which a statement failed.                                     *)
Call == [op : PriceOps, request : Seq(Quote), filter : Filter,
         id : Prices \cup Malformed \cup {NULL},
         todo : Seq(Quote), next : {"asset", "base", "write", "done"},
         count : Nat, answer : Codes, price : Prices \cup {NULL},
         before : SUBSET Prices, failed : SUBSET Quote]

Init ==
    /\ assets = Assets
    /\ stored = {}
    /\ drawn = {}
    /\ quote = [i \in Prices |-> NoQuote]
    /\ clock = 1
    /\ call = [c \in Calls |-> NULL]
-----------------------------------------------------------------------------
(* WHERE asset_id ... AND base_asset_id ... AND source_id ... AND timestamp*)
(* between from and to, each where it is given.                            *)

Matching(f) ==
    {i \in stored : /\ f.asset \in {NULL, quote[i].asset}
                    /\ f.base \in {NULL, quote[i].base}
                    /\ f.source \in {NULL, quote[i].source}
                    /\ f.from # NULL => f.from <= quote[i].time
                    /\ f.to # NULL => quote[i].time <= f.to}

(* The unique index on (asset_id, timestamp).                              *)
Taken(q) == \E i \in stored : quote[i].asset = q.asset /\ quote[i].time = q.time

(* The bound on creates: every quote a call still has to create finds a    *)
(* uuid to draw.                                                           *)
Room(n) ==
    Cardinality({p \in Calls \X (1..Cardinality(Prices)) :
                    call[p[1]] # NULL /\ p[2] <= Len(call[p[1]].todo)}) + n
        <= Cardinality(Prices \ drawn)
-----------------------------------------------------------------------------
(* Requests.                                                               *)

Begin(c, op, quotes, f, id, first) ==
    /\ call[c] = NULL
    /\ Room(Len(quotes))
    /\ call' = [call EXCEPT ![c] =
                  [op |-> op, request |-> quotes, filter |-> f, id |-> id,
                   todo |-> quotes, next |-> first, count |-> 0,
                   answer |-> "OK", price |-> NULL,
                   before |-> IF f = NoFilter THEN {} ELSE Matching(f),
                   failed |-> {}]]
    /\ UNCHANGED <<db, clock>>

Invoke(c) ==
    \/ \E q \in Creates : Begin(c, "CreatePrice", <<q>>, NoFilter, NULL, "asset")
    \/ \E b \in Bulks :
          Begin(c, "CreatePrices", b, NoFilter, NULL, IF b = << >> THEN "done" ELSE "asset")
    \/ \E f \in Filters :
          \/ f.from = NULL /\ f.to = NULL /\ Begin(c, "GetLatestPrice", << >>, f, NULL, "asset")
          \/ Begin(c, "DeletePrices", << >>, f, NULL, "asset")
    \/ \E i \in drawn \cup Malformed :
          Begin(c, "DeletePrice", << >>, NoFilter, i, "write")

At(c, step) == call[c] # NULL /\ call[c].next = step

Answered(c) == At(c, "done")

Creating(k) == k.op \in {"CreatePrice", "CreatePrices"}

(* What the call is about: the quote it creates, or its criteria.          *)
Subject(k) == IF Creating(k) THEN Head(k.todo) ELSE k.filter

(* The subject lacks what the operation requires.                          *)
Lacking(k) ==
    \/ Creating(k) /\ NULL \in {Subject(k).asset, Subject(k).base, Subject(k).source}
    \/ k.op = "GetLatestPrice" /\ NULL \in {k.filter.asset, k.filter.base}
    \/ k.op = "DeletePrices" /\ k.filter = NoFilter

(* A request that cannot go on to its next statement, whatever is stored.  *)
Invalid(k) ==
    \/ k.next = "asset" /\ (Lacking(k) \/ Subject(k).asset \in Malformed)
    \/ k.next = "base" /\ Subject(k).base \in Malformed
    \/ k.next = "write" /\ k.id \in Malformed

(* The call in c executes its next statement.                              *)
Executes(c, step) == At(c, step) /\ ~Invalid(call[c])

(* The end of one quote: a bulk creation goes on with the next one.        *)
Over(k) == [k EXCEPT !.todo = Tail(@), !.next = IF Len(k.todo) > 1 THEN "asset" ELSE "done"]

Answer(k, code) == [k EXCEPT !.todo = << >>, !.next = "done", !.answer = code]

(* Mutant of Refused: a bulk creation stops at its first error.            *)
RefusedForAll(k, code) == Answer(k, IF k.op = "CreatePrices" THEN "OK" ELSE code)

(* Mutant of Refused: an error counts as well.                             *)
RefusedCounts(k, code) ==
    IF k.op = "CreatePrices" THEN [Over(k) EXCEPT !.count = @ + 1] ELSE Answer(k, code)

(* The call after an error: a bulk creation drops it.                      *)
Refused(k, code) == IF k.op = "CreatePrices" THEN Over(k) ELSE Answer(k, code)

Refuse(c, code) == call' = [call EXCEPT ![c] = Refused(@, code)]

Reject(c) ==
    /\ call[c] # NULL
    /\ Invalid(call[c])
    /\ Refuse(c, "InvalidArgument")
    /\ UNCHANGED <<db, clock>>

(* The client has its answer.                                              *)
Return(c) ==
    /\ Answered(c)
    /\ call' = [call EXCEPT ![c] = NULL]
    /\ UNCHANGED <<db, clock>>
-----------------------------------------------------------------------------
(* Lookups of internal ids.  A criterion that is not given needs none.     *)

LookupAsset(c) ==
    /\ Executes(c, "asset")
    /\ IF Subject(call[c]).asset \in assets \cup {NULL}
       THEN call' = [call EXCEPT ![c].next = "base"]
       ELSE Refuse(c, "NotFound")
    /\ UNCHANGED <<db, clock>>

(* Mutant of Stamped: a quote without a time keeps none.                   *)
NotStamped(s) == s

(* A quote without a time gets the time of day, before its INSERT.         *)
Stamped(s) == IF s # << >> /\ s[1].time = NULL THEN [s EXCEPT ![1].time = clock] ELSE s

LookupBase(c) ==
    /\ Executes(c, "base")
    /\ IF Subject(call[c]).base \in assets \cup {NULL}
       THEN call' = [call EXCEPT ![c].next = "write", ![c].todo = Stamped(@)]
       ELSE Refuse(c, "NotFound")
    /\ UNCHANGED <<db, clock>>
-----------------------------------------------------------------------------
(* INSERT.                                                                 *)

(* Mutant of Insertable: the lookups are relied upon.                      *)
InsertableUnchecked(q) == ~Taken(q)

Insertable(q) == {q.asset, q.base} \subseteq assets /\ ~Taken(q)

PutPrice(c, i) ==
    /\ Executes(c, "write")
    /\ Creating(call[c])
    /\ Insertable(Head(call[c].todo))
    /\ i \notin drawn
    /\ stored' = stored \cup {i}
    /\ drawn' = drawn \cup {i}
    /\ quote' = [quote EXCEPT ![i] = Head(call[c].todo)]
    /\ UNCHANGED <<assets, clock>>

(* The call after an INSERT that succeeds.                                 *)
Inserted(k, i) == [Over(k) EXCEPT !.count = @ + 1, !.price = i]

CreatePrice(c) ==
    \E i \in Prices : PutPrice(c, i) /\ call' = [call EXCEPT ![c] = Inserted(@, i)]

(* A foreign key or the unique index is violated.                          *)
InsertRefused(c) ==
    /\ Executes(c, "write")
    /\ Creating(call[c])
    /\ ~Insertable(Head(call[c].todo))
    /\ Refuse(c, "FailedPrecondition")
    /\ UNCHANGED <<db, clock>>
-----------------------------------------------------------------------------
(* SELECT ... ORDER BY timestamp DESC LIMIT 1, joined with both assets.    *)

Joined(M) == {i \in M : {quote[i].asset, quote[i].base} \subseteq assets}

(* Mutant of GetLatestPrice: ascending order.                              *)
GetFirstPrice(c) ==
    /\ Executes(c, "write")
    /\ call[c].op = "GetLatestPrice"
    /\ LET M == Joined(Matching(call[c].filter)) IN
       \/ M = {} /\ Refuse(c, "NotFound")
       \/ \E i \in M : /\ \A j \in M : quote[i].time <= quote[j].time
                       /\ call' = [call EXCEPT ![c].next = "done", ![c].price = i]
    /\ UNCHANGED <<db, clock>>

GetLatestPrice(c) ==
    /\ Executes(c, "write")
    /\ call[c].op = "GetLatestPrice"
    /\ LET M == Joined(Matching(call[c].filter)) IN
       \/ M = {} /\ Refuse(c, "NotFound")
       \/ \E i \in M : /\ \A j \in M : quote[j].time <= quote[i].time
                       /\ call' = [call EXCEPT ![c].next = "done", ![c].price = i]
    /\ UNCHANGED <<db, clock>>
-----------------------------------------------------------------------------
(* DELETE.                                                                 *)

(* The prices that the DELETE of the call in c is to delete.               *)
Condemned(k) == IF k.op = "DeletePrice" THEN stored \cap {k.id} ELSE Matching(k.filter)

ErasePrices(c) ==
    /\ Executes(c, "write")
    /\ call[c].op \in {"DeletePrice", "DeletePrices"}
    /\ Condemned(call[c]) # {}
    /\ stored' = stored \ Condemned(call[c])
    /\ UNCHANGED <<assets, drawn, quote, clock>>

DeletePrices(c) ==
    /\ ErasePrices(c)
    /\ call' = [call EXCEPT ![c].next = "done"]

NothingDeleted(c) ==
    /\ Executes(c, "write")
    /\ call[c].op \in {"DeletePrice", "DeletePrices"}
    /\ Condemned(call[c]) = {}
    /\ Refuse(c, "NotFound")
    /\ UNCHANGED <<db, clock>>
-----------------------------------------------------------------------------
(* The rest of the system.                                                 *)

Protected == {quote[i].asset : i \in stored} \cup {quote[i].base : i \in stored}

(* Mutant of DeleteAsset: only the assets priced are protected, not those  *)
(* they are priced in.                                                     *)
DeleteAssetInUse(a) ==
    /\ a \in assets \ {quote[i].asset : i \in stored}
    /\ assets' = assets \ {a}
    /\ UNCHANGED <<stored, drawn, quote, clock, call>>

(* Mutant of DeleteAsset: its prices go with it.                           *)
DeleteAssetCascades(a) ==
    /\ a \in assets
    /\ assets' = assets \ {a}
    /\ stored' = {i \in stored : a \notin {quote[i].asset, quote[i].base}}
    /\ UNCHANGED <<drawn, quote, clock, call>>

DeleteAsset(a) ==
    /\ a \in assets \ Protected
    /\ assets' = assets \ {a}
    /\ UNCHANGED <<stored, drawn, quote, clock, call>>

Tick ==
    /\ clock < MaxTime
    /\ clock' = clock + 1
    /\ UNCHANGED <<db, call>>

(* A statement of the call k fails: with it the quote the call is at.      *)
Failing(k) == IF Creating(k) THEN [k EXCEPT !.failed = @ \cup {Head(k.todo)}] ELSE k

(* A statement fails, or the request's context ends, before it runs.       *)
StatementFails(c) ==
    /\ "statement" \in Faults
    /\ \E step \in {"asset", "base", "write"} : Executes(c, step)
    /\ call' = [call EXCEPT ![c] = Refused(Failing(@), "Internal")]
    /\ UNCHANGED <<db, clock>>

(* A write is committed and its acknowledgement lost.                      *)
ReplyLost(c) ==
    /\ "reply" \in Faults
    /\ ErasePrices(c) \/ \E i \in Prices : PutPrice(c, i)
    /\ Refuse(c, "Internal")

(* The server stops and starts again; the database stays.                  *)
Crash ==
    /\ "crash" \in Faults
    /\ call' = [c \in Calls |-> NULL]
    /\ UNCHANGED <<db, clock>>
-----------------------------------------------------------------------------
Statement(c) == \/ LookupAsset(c) \/ LookupBase(c)
                \/ CreatePrice(c) \/ InsertRefused(c) \/ GetLatestPrice(c)
                \/ DeletePrices(c) \/ NothingDeleted(c)

Next == \/ \E c \in Calls : \/ Invoke(c) \/ Reject(c) \/ Return(c) \/ Statement(c)
                            \/ StatementFails(c) \/ ReplyLost(c)
        \/ \E a \in Assets : DeleteAsset(a)
        \/ Tick
        \/ Crash

Spec == Init /\ [][Next]_vars
-----------------------------------------------------------------------------
TypeOK ==
    /\ assets \subseteq Assets
    /\ stored \subseteq drawn
    /\ drawn \subseteq Prices
    /\ quote \in [Prices -> Quote]
    /\ \A i \in drawn : quote[i] \in Priced
    /\ clock \in Times
    /\ call \in [Calls -> Call \cup {NULL}]

Elements(s) == {s[n] : n \in DOMAIN s}

Explicit(q) == NULL \notin {q.asset, q.base, q.source, q.time}

(* A bulk creation drops errors, and yet loses nothing but the quotes on   *)
(* which a statement failed, whatever becomes of the others: a complete    *)
(* quote whose assets exist has a price of that asset and time, whoever    *)
(* created it.                                                             *)
NothingLost ==
    \A c \in Calls : Answered(c) /\ call[c].op = "CreatePrices" =>
       \A q \in Elements(call[c].request) \ call[c].failed :
          Explicit(q) /\ {q.asset, q.base} \subseteq assets =>
             \E i \in drawn : quote[i].asset = q.asset /\ quote[i].time = q.time

(* The count answered to a bulk creation claims no more prices than there  *)
(* ever were of the quotes of its list, though others may have stored some *)
(* of them, and it may leave out one whose acknowledgement was lost.       *)
CountIsEarned ==
    \A c \in Calls : Answered(c) /\ call[c].op = "CreatePrices" =>
       call[c].count <=
          Cardinality({i \in drawn : \E q \in Elements(call[c].request) :
                          q \in {quote[i], [quote[i] EXCEPT !.time = NULL]}})

(* No price that was there throughout the call is later than the one       *)
(* answered as the latest, and none was there if none is answered: in      *)
(* particular neither its asset nor its base has been deleted before the   *)
(* lookups.                                                                *)
LatestIsLatest ==
    \A c \in Calls : Answered(c) /\ call[c].op = "GetLatestPrice" =>
       LET k == call[c]
           throughout == k.before \cap stored
       IN  /\ k.answer = "OK" =>
                 \A i \in throughout : quote[i].time <= quote[k.price].time
           /\ k.answer = "NotFound" => throughout = {}

(* Once a deletion by criteria is answered OK, or not found, nothing is    *)
(* left of what matched them when it was asked for.                        *)
DeletedIsGone ==
    \A c \in Calls :
       Answered(c) /\ call[c].op = "DeletePrices" /\ call[c].answer \in {"OK", "NotFound"}
          => call[c].before \cap stored = {}

(* A price never changes, and ends only by the statement of a deletion of  *)
(* prices that means it: history is not lost along with an asset.          *)
HistoryIsKept ==
    [][\A i \in stored :
          /\ quote'[i] = quote[i]
          /\ \/ i \in stored'
             \/ \E c \in Calls : /\ Executes(c, "write")
                                 /\ call[c].op \in {"DeletePrice", "DeletePrices"}
                                 /\ i \in Condemned(call[c])]_vars
=============================================================================
