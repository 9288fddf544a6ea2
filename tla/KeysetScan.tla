------------------------------ MODULE KeysetScan ------------------------------
(***************************************************************************)
(* Reading a whole list, page by page, through one of the seven List       *)
(* methods of the PostgreSQL stores, while other requests add, remove and  *)
(* refilter rows and while database connections may break.                 *)
(*                                                                         *)
(* A page request looks up the internal id of every row it filters by, one *)
(* statement each, and then selects the first size+1 matching rows beyond  *)
(* the cursor, in key order.  The extra row decides whether there is a     *)
(* next page; its token is the key of the last row returned.  The seven    *)
(* methods differ in what they look up and in whether they ask the driver, *)
(* after the last row, if the iteration was cut short (rows.Err).          *)
(***************************************************************************)
EXTENDS Integers, FiniteSets, Sequences

CONSTANTS
    Rows,             \* the rows the list can ever contain
    KeyOf,            \* the column the pages are ordered by, for each row
    Lists,            \* the List methods the client may use
    PageSizes,        \* the page sizes a request may carry
    DefaultPageSize,  \* what a page size that is not positive stands for
    MaxFaults,        \* bound: statements the database fails in one run
    NoToken,          \* the empty page token
    BadToken          \* a page token that does not decode to a key

Keys == {KeyOf[r] : r \in Rows}

ASSUME RowsAssumption == IsFiniteSet(Rows) /\ KeyOf \in [Rows -> Nat]
ASSUME PageSizeAssumption ==
    PageSizes \subseteq Int /\ DefaultPageSize \in Nat \ {0}
ASSUME FaultAssumption == MaxFaults \in Nat
ASSUME TokenAssumption == NoToken \notin Nat /\ BadToken \notin Nat

-----------------------------------------------------------------------------
(* The List methods: the rows they look up, in this order; those they      *)
(* cannot do without; those a deletion unlinks (ON DELETE SET NULL) where  *)
(* the others are protected by their referrers; whether they read          *)
(* rows.Err.                                                               *)

Kinds == {"user", "account", "portfolio", "asset", "base"}

ListMethod == [lookups : Seq(Kinds), mandatory : SUBSET Kinds,
               unlinked : SUBSET Kinds, checksRowsErr : BOOLEAN]

ListUsers == [lookups |-> << >>, mandatory |-> {}, unlinked |-> {},
              checksRowsErr |-> FALSE]

ListPortfolios == [lookups |-> <<"user">>, mandatory |-> {}, unlinked |-> {},
                   checksRowsErr |-> FALSE]

ListAccounts == [lookups |-> <<"user">>, mandatory |-> {}, unlinked |-> {},
                 checksRowsErr |-> FALSE]

ListHoldings == [lookups |-> <<"portfolio", "account", "asset">>,
                 mandatory |-> {}, unlinked |-> {"portfolio"},
                 checksRowsErr |-> FALSE]

ListTransactions == [lookups |-> <<"account", "asset">>, mandatory |-> {},
                     unlinked |-> {"asset"}, checksRowsErr |-> FALSE]

ListAssets == [lookups |-> << >>, mandatory |-> {}, unlinked |-> {},
               checksRowsErr |-> TRUE]

ListPriceHistory == [lookups |-> <<"asset", "base">>,
                     mandatory |-> {"asset", "base"}, unlinked |-> {},
                     checksRowsErr |-> TRUE]

AllLists == {ListUsers, ListPortfolios, ListAccounts, ListHoldings,
             ListTransactions, ListAssets, ListPriceHistory}

ASSUME ListsAssumption == Lists \subseteq ListMethod

-----------------------------------------------------------------------------
VARIABLES
    rows,       \* the committed rows that match the client's filter
    gone,       \* the filter rows that have been deleted
    list,       \* the List method the client reads with
    filters,    \* the lookups of it that the client's filter asks for
    pc,         \* where the current page request is
    token,      \* the page token the next request carries
    size,       \* the page size of the current request
    at,         \* the lookup the current request has reached
    batch,      \* the rows the current SELECT streams
    page,       \* the last page the client was given
    delivered,  \* the rows of the pages before it
    steady,     \* history: the rows that matched ever since the scan began
    faults,     \* statements failed so far
    broken      \* history: those that failed while rows streamed

dbVars   == <<rows, gone, steady>>
scanVars == <<list, filters, pc, token, size, at, batch, page, delivered>>
failVars == <<faults, broken>>
vars     == <<dbVars, scanVars, failVars>>

(* The unique index on (asset, timestamp) for prices, uuids elsewhere.     *)
UniqueKeys(S) == \A r, s \in S : KeyOf[r] = KeyOf[s] => r = s

(* ORDER BY key LIMIT n.                                                   *)
First(S, n) == {r \in S : Cardinality({s \in S : KeyOf[s] <= KeyOf[r]}) <= n}

Last(S) == CHOOSE k \in {KeyOf[r] : r \in S} : \A r \in S : KeyOf[r] <= k

(* Mutant of Beyond: the cursor row is included again.                     *)
BeyondInclusive(t) == {r \in rows : t \in {NoToken, BadToken} \/ KeyOf[r] >= t}

(* The key condition: a token that is empty or does not decode adds none.  *)
Beyond(t) == {r \in rows : t \in {NoToken, BadToken} \/ KeyOf[r] > t}

Received == delivered \cup page

Elements(s) == {s[i] : i \in DOMAIN s}

Init ==
    /\ rows \in {S \in SUBSET Rows : UniqueKeys(S)}
    /\ gone = {}
    /\ list \in Lists
    /\ filters \in {F \in SUBSET Elements(list.lookups) : list.mandatory \subseteq F}
    /\ pc = "ready"
    /\ token \in {NoToken, BadToken}
    /\ size = DefaultPageSize
    /\ at = 1
    /\ batch = {}
    /\ page = {}
    /\ delivered = {}
    /\ steady = rows
    /\ faults = 0
    /\ broken = 0
-----------------------------------------------------------------------------
(* What other requests do to the list meanwhile.                           *)

(* A row is created, or an update makes it match.                          *)
AddRow(r) ==
    /\ r \notin rows
    /\ filters \cap gone = {}
    /\ UniqueKeys(rows \cup {r})
    /\ rows' = rows \cup {r}
    /\ UNCHANGED <<gone, steady, scanVars, failVars>>

(* A row is deleted, or an update makes it match no longer.                *)
RemoveRow(r) ==
    /\ r \in rows
    /\ rows' = rows \ {r}
    /\ steady' = steady \ {r}
    /\ UNCHANGED <<gone, scanVars, failVars>>

(* A row the client filters by is deleted.  The rows that refer to it are  *)
(* unlinked from it, or else protect it.                                   *)
DropFilterRow(k) ==
    /\ k \in filters \ gone
    /\ rows = {} \/ k \in list.unlinked
    /\ gone' = gone \cup {k}
    /\ rows' = {}
    /\ steady' = {}
    /\ UNCHANGED <<scanVars, failVars>>
-----------------------------------------------------------------------------
(* One page request.                                                       *)

(* Mutant of Request: a page size of zero is taken as it is.               *)
RequestKeepsZero ==
    /\ pc = "ready"
    /\ \E n \in PageSizes : size' = IF n < 0 THEN DefaultPageSize ELSE n
    /\ at' = 1
    /\ pc' = "lookup"
    /\ UNCHANGED <<dbVars, list, filters, token, batch, page, delivered, failVars>>

Request ==
    /\ pc = "ready"
    /\ \E n \in PageSizes : size' = IF n <= 0 THEN DefaultPageSize ELSE n
    /\ at' = 1
    /\ pc' = "lookup"
    /\ UNCHANGED <<dbVars, list, filters, token, batch, page, delivered, failVars>>

LookupFilter ==
    /\ pc = "lookup"
    /\ at <= Len(list.lookups)
    /\ IF list.lookups[at] \in filters \cap gone
       THEN pc' = "notfound" /\ at' = at
       ELSE pc' = pc /\ at' = at + 1
    /\ UNCHANGED <<dbVars, list, filters, token, size, batch, page, delivered, failVars>>

Select ==
    /\ pc = "lookup"
    /\ at > Len(list.lookups)
    /\ batch' = First(Beyond(token), size + 1)
    /\ pc' = "stream"
    /\ UNCHANGED <<dbVars, list, filters, token, size, at, page, delivered, failVars>>

(* Mutant of Answer: the look-ahead row stays in the page.                 *)
AnswerUntruncated(got) ==
    LET overfull == Cardinality(got) > size
    IN  /\ page' = got
        /\ delivered' = Received
        /\ token' = IF overfull THEN Last(First(got, size)) ELSE NoToken
        /\ pc' = IF overfull THEN "ready" ELSE "done"
        /\ batch' = {}
        /\ UNCHANGED <<dbVars, list, filters, size, at>>

(* Mutant of Answer: the token is that of the look-ahead row.              *)
AnswerSkips(got) ==
    LET overfull == Cardinality(got) > size
    IN  /\ page' = IF overfull THEN First(got, size) ELSE got
        /\ delivered' = Received
        /\ token' = IF overfull THEN Last(got) ELSE NoToken
        /\ pc' = IF overfull THEN "ready" ELSE "done"
        /\ batch' = {}
        /\ UNCHANGED <<dbVars, list, filters, size, at>>

(* The page and the token that the rows iterated over make.                *)
Answer(got) ==
    LET overfull == Cardinality(got) > size
        kept     == IF overfull THEN First(got, size) ELSE got
    IN  /\ page' = kept
        /\ delivered' = Received
        /\ token' = IF overfull THEN Last(kept) ELSE NoToken
        /\ pc' = IF overfull THEN "ready" ELSE "done"
        /\ batch' = {}
        /\ UNCHANGED <<dbVars, list, filters, size, at>>

Finish ==
    /\ pc = "stream"
    /\ Answer(batch)
    /\ UNCHANGED failVars

(* The request is answered with an error; the client asks again.           *)
Fail ==
    /\ pc' = "ready"
    /\ batch' = {}
    /\ UNCHANGED <<dbVars, list, filters, token, size, at, page, delivered>>

(* A lookup or the SELECT itself fails.                                    *)
StatementFails ==
    /\ faults < MaxFaults
    /\ pc = "lookup"
    /\ faults' = faults + 1
    /\ UNCHANGED broken
    /\ Fail

(* The connection breaks after n rows: rows.Next returns false, as it does *)
(* at the end of the rows, and only rows.Err tells the two apart.          *)
StreamBreaks ==
    /\ faults < MaxFaults
    /\ pc = "stream"
    /\ faults' = faults + 1
    /\ broken' = broken + 1
    /\ IF list.checksRowsErr
       THEN Fail
       ELSE \E n \in 0..Cardinality(batch) : Answer(First(batch, n))

Database == \/ \E r \in Rows : AddRow(r) \/ RemoveRow(r)
            \/ \E k \in Kinds : DropFilterRow(k)

Scan == Request \/ LookupFilter \/ Select \/ Finish

Next == Database \/ Scan \/ StatementFails \/ StreamBreaks

(* A request runs on, and the client asks for every page.                  *)
Spec == Init /\ [][Next]_vars /\ WF_vars(Scan)
-----------------------------------------------------------------------------
TypeOK ==
    /\ rows \subseteq Rows
    /\ gone \subseteq Kinds
    /\ list \in Lists
    /\ filters \subseteq Kinds
    /\ pc \in {"ready", "lookup", "stream", "done", "notfound"}
    /\ token \in Keys \cup {NoToken, BadToken}
    /\ size \in Nat \ {0}
    /\ at \in Nat
    /\ batch \subseteq Rows
    /\ page \subseteq Rows
    /\ delivered \subseteq Rows
    /\ steady \subseteq rows
    /\ faults \in 0..MaxFaults
    /\ broken \in 0..faults

(* No row is listed twice and the list is in key order across pages,       *)
(* whatever is added and removed between the requests: a page lies wholly  *)
(* beyond the pages before it.                                             *)
PagesAdvance == \A r \in page, s \in delivered : KeyOf[s] < KeyOf[r]

(* A client that has read the list to its end (an empty next-page token)   *)
(* has every row that matched during the whole scan.                       *)
Completeness == pc = "done" => steady \subseteq Received

(* Completeness, of the methods that read rows.Err whatever fails, and of  *)
(* the others as long as no connection breaks while rows stream.           *)
CompleteUnlessBroken == broken = 0 \/ list.checksRowsErr => Completeness

(* A page followed by another is full: a short page ends the list, so the  *)
(* look-ahead row neither ends a scan early nor prolongs it.               *)
FullUntilLast ==
    [][page' # page /\ pc' = "ready" => Cardinality(page') = size]_vars

(* With finitely many failures the scan ends: the cursor cannot stay where *)
(* it is, nor go back, however many rows come and go.                      *)
ScanEnds == <>(pc \in {"done", "notfound"})
=============================================================================
