------------------------------- MODULE Legacy -------------------------------
(* The services for users, assets and prices that a build tag keeps out of *)
(* the program.  Each call is a few calls of the storage service, which is *)
(* not in the repository any more: it reads and writes one row at a time,  *)
(* lists at most a page, in an order that nothing here says, and may fail. *)
(* One subject at a time is looked at: no call is about two.               *)
EXTENDS Integers, FiniteSets, TLC

CONSTANTS
    Users,      \* ids of users
    AssetIds,   \* ids of assets
    OldAssets,  \* the assets there may be from the beginning
    Calls,      \* slots for concurrent calls
    Updates,    \* the preferences that clients send: functions from keys
    Wanted,     \* what is looked for: symbol and type
    Sources,    \* of prices
    KnownNames, \* the names of well-known symbols, by their texts
    ShortWords, \* the words of names of at most two characters
    MaxTime,    \* prices have times up to it
    Page,       \* the number of rows of a page: 100, 20 or the default
    Limit,      \* similar assets that are answered, 10
    NULL        \* no user, no symbol

ASSUME PageAssumption == Page \in Nat \ {0} /\ Limit \in Nat /\ MaxTime \in Nat

(* An asset is looked for by a symbol.                                     *)
ASSUME WantedAssumption == \A want \in Wanted : want.symbol # NULL

(* There is one asset of a symbol and a type to begin with.                *)
ASSUME OldAssumption ==
    \A a, b \in OldAssets :
        a.symbol # NULL /\ b.symbol # NULL
          /\ a.symbol.text = b.symbol.text /\ a.type = b.type => a = b

VARIABLES
    subject,        \* "users", "assets" or "prices", as is looked at
    preferences,    \* of each user a function from keys, or NULL
    assets,         \* a function from the ids of the assets there are
    prices,         \* sources and times
    call,           \* calls in progress
    answer,         \* the answer just given, if any
    intent,         \* history: preferences as if each update were one step
    overlapped,     \* history: users two of whose updates overlapped
    raced           \* history: symbols looked for while one was created

tables == << preferences, assets, prices >>
history == << intent, overlapped, raced >>
vars == << subject, tables, call, answer, history >>
-----------------------------------------------------------------------------
(* Preferences.                                                            *)

validPreferenceKeys ==
    {"default_currency", "notification_channels", "price_alert_frequency",
     "portfolio_rebalance_mode", "risk_tolerance", "preferred_exchanges",
     "data_providers", "telegram_notifications", "email_notifications",
     "timezone"}

isValidCurrency(v) == v \in {"USD", "EUR", "RUB", "BTC", "ETH"}
isValidRiskTolerance(v) == v \in {"conservative", "moderate", "aggressive"}

(* Mutant: a risk tolerance is not looked at.                              *)
ValidKeys(p) == DOMAIN p \subseteq validPreferenceKeys

Valid(p) ==
    /\ DOMAIN p \subseteq validPreferenceKeys
    /\ "default_currency" \in DOMAIN p => isValidCurrency(p["default_currency"])
    /\ "risk_tolerance" \in DOMAIN p => isValidRiskTolerance(p["risk_tolerance"])

(* For the history: what an update says on top of what there was.          *)
Laid(update, p) ==
    [key \in DOMAIN update \cup DOMAIN p |->
       IF key \in DOMAIN update THEN update[key] ELSE p[key]]

(* Mutant: what is there already is kept.                                  *)
MergeUnder(p, update) ==
    [key \in DOMAIN p \cup DOMAIN update |->
       IF key \in DOMAIN p THEN p[key] ELSE update[key]]

Merge(p, update) ==
    [key \in DOMAIN p \cup DOMAIN update |->
       IF key \in DOMAIN update THEN update[key] ELSE p[key]]

(* Mutant: letters have to be of the same case.                            *)
MatchesCase(asset, want) ==
    asset.symbol = want.symbol /\ asset.type = want.type

(* Assets: a symbol has a text and is in upper or in lower case.           *)
Matches(asset, want) ==
    /\ asset.symbol # NULL
    /\ asset.symbol.text = want.symbol.text
    /\ asset.type = want.type

(* Symbols of crypto assets are similar when one is part of the other, as  *)
(* btc is of wbtc, or when the assets share a tag of a blockchain; other   *)
(* assets when one name is part of the other, or they have a word in       *)
(* common that is not short.  Texts and names are sets of parts here.      *)
areCryptoAssetsSimilar(a, b) ==
    /\ a.symbol # NULL /\ b.symbol # NULL
    /\ a.symbol.text \subseteq b.symbol.text \/ b.symbol.text \subseteq a.symbol.text
         \/ a.chains \cap b.chains # {}

areNamesSimilar(a, b) ==
    a \subseteq b \/ b \subseteq a \/ (a \cap b) \ ShortWords # {}

areAssetsSimilar(a, b) ==
    /\ a.type = b.type
    /\ IF a.type = "cryptocurrency" THEN areCryptoAssetsSimilar(a, b)
       ELSE areNamesSimilar(a.name, b.name)

(* A name that is known, or the symbol and the type.                       *)
GenerateAssetName(symbol, type) ==
    IF symbol.text \in DOMAIN KnownNames THEN KnownNames[symbol.text]
    ELSE symbol.text \cup {type}

(* What a list answers: a page of the rows.                                *)
FirstPage(S) == {p \in SUBSET S : /\ Cardinality(p) <= Page
                                  /\ p = S \/ Cardinality(p) = Page}
-----------------------------------------------------------------------------
Idle == [stage |-> "idle"]
NoAnswer == [op |-> "none"]

Is(c, op, stage) == call[c].stage = stage /\ call[c].op = op

Answer(c, body) ==
    /\ call' = [call EXCEPT ![c] = Idle]
    /\ answer' = body

Begin(c, k) ==
    /\ call[c] = Idle
    /\ call' = [call EXCEPT ![c] = k]
    /\ answer' = NoAnswer
    /\ UNCHANGED << subject, tables, history >>

Go(c, k) ==
    /\ call' = [call EXCEPT ![c] = k]
    /\ answer' = NoAnswer

Init ==
    /\ subject \in {"users", "assets", "prices"}
    /\ preferences \in [Users -> IF subject = "users" THEN {NULL, << >>, [timezone |-> "UTC"]}
                                  ELSE {NULL}]
    /\ \E A \in SUBSET IF subject = "assets" THEN AssetIds ELSE {} :
         /\ assets \in [A -> OldAssets]
         /\ \A a, b \in A : assets[a] = assets[b] => a = b
    /\ prices = {}
    /\ call = [c \in Calls |-> Idle]
    /\ answer = NoAnswer
    /\ intent = preferences
    /\ overlapped = {} /\ raced = {}

(* What a caller asks for.                                                 *)
Asked ==
    CASE subject = "users" ->
           [stage : {"reading"}, op : {"UpdateUserPreferences"}, user : Users, update : Updates]
             \cup [stage : {"reading"}, op : {"GetUserNotificationChannels"}, user : Users]
      [] subject = "assets" ->
           [stage : {"listing"}, op : {"FindOrCreateAsset"}, want : Wanted]
             \cup [stage : {"reading"}, op : {"FindSimilarAssets"}, id : AssetIds]
      [] subject = "prices" ->
           [stage : {"listing"}, op : {"GetLatestPrice"}, source : Sources]
             \cup [stage : {"listing"}, op : {"GetPriceHistory"},
                   source : Sources \cup {NULL}, from : 1..MaxTime, to : 1..MaxTime]

Invoke(c) == \E k \in Asked : Begin(c, k)

(* Some methods take every failure of their first call for a user, or an   *)
(* asset, that is not found; others have no code of their own.             *)
FailureCode(k) ==
    IF k.op \notin {"UpdateUserPreferences", "FindSimilarAssets"} THEN "Unknown"
    ELSE IF k.stage = "reading" THEN "NotFound" ELSE "Internal"

StorageFails(c) ==
    /\ call[c] # Idle
    /\ Answer(c, [op |-> call[c].op, code |-> FailureCode(call[c])])
    /\ UNCHANGED << subject, tables, history >>

(* GetUser, the checks and the merge; what is written is decided here.     *)
UpdateUserPreferences(c) ==
    /\ Is(c, "UpdateUserPreferences", "reading")
    /\ LET old == preferences[call[c].user]
           update == call[c].update
       IN  \/ /\ old = NULL
              /\ Answer(c, [op |-> call[c].op, code |-> "NotFound"])
           \/ /\ old # NULL /\ ~Valid(update)
              /\ Answer(c, [op |-> call[c].op, code |-> "InvalidArgument"])
           \/ /\ old # NULL /\ Valid(update)
              /\ Go(c, [stage |-> "writing", op |-> call[c].op, user |-> call[c].user,
                        update |-> update, merged |-> Merge(old, update)])
    /\ UNCHANGED << subject, tables, history >>

(* UpdateUser writes the whole map; that it did may not be heard of.       *)
UpdateUser(c) ==
    /\ Is(c, "UpdateUserPreferences", "writing")
    /\ LET u == call[c].user
       IN  /\ preferences[u] # NULL
           /\ preferences' = [preferences EXCEPT ![u] = call[c].merged]
           /\ intent' = [intent EXCEPT ![u] = Laid(call[c].update, @)]
           /\ overlapped' = IF \E d \in Calls \ {c} :
                                  Is(d, "UpdateUserPreferences", "writing") /\ call[d].user = u
                            THEN overlapped \cup {u} ELSE overlapped
    /\ \E code \in {"ok", FailureCode(call[c])} : Answer(c, [op |-> call[c].op, code |-> code])
    /\ UNCHANGED << subject, assets, prices, raced >>

GetUserNotificationChannels(c) ==
    /\ Is(c, "GetUserNotificationChannels", "reading")
    /\ LET p == preferences[call[c].user]
           on(key) == key \in DOMAIN p /\ p[key] = "true"
       IN  /\ p # NULL
           /\ Answer(c, [op |-> call[c].op, code |-> "ok",
                         telegram |-> on("telegram_notifications"),
                         email |-> on("email_notifications")])
    /\ UNCHANGED << subject, tables, history >>

(* An asset of the page is answered, or one is created in a second call.   *)
FindOrCreateAsset(c) ==
    /\ Is(c, "FindOrCreateAsset", "listing")
    /\ \E page \in FirstPage(DOMAIN assets) :
         LET found == {a \in page : Matches(assets[a], call[c].want)}
         IN  \/ \E a \in found :
                  Answer(c, [op |-> call[c].op, code |-> "ok", id |-> a, want |-> call[c].want])
             \/ /\ found = {}
                /\ Go(c, [stage |-> "creating", op |-> call[c].op, want |-> call[c].want,
                          partial |-> page # DOMAIN assets])
    /\ UNCHANGED << subject, tables, history >>

CreateAsset(c) ==
    /\ Is(c, "FindOrCreateAsset", "creating")
    /\ \E id \in AssetIds \ DOMAIN assets :
         LET want == call[c].want
             other(d) == Is(d, "FindOrCreateAsset", "creating")
                           /\ call[d].want.symbol.text = want.symbol.text
                           /\ call[d].want.type = want.type
         IN  /\ assets' = [a \in DOMAIN assets \cup {id} |->
                             IF a = id THEN [symbol |-> want.symbol, type |-> want.type,
                                             name |-> GenerateAssetName(want.symbol, want.type),
                                             chains |-> {}]
                             ELSE assets[a]]
             /\ raced' = IF call[c].partial \/ \E d \in Calls \ {c} : other(d)
                         THEN raced \cup {[text |-> want.symbol.text, type |-> want.type]}
                         ELSE raced
             /\ \/ Answer(c, [op |-> call[c].op, code |-> "ok", id |-> id, want |-> want])
                \/ Answer(c, [op |-> call[c].op, code |-> FailureCode(call[c])])
    /\ UNCHANGED << subject, preferences, prices, intent, overlapped >>

(* EnrichAssetData does the first of these two steps and answers it.       *)
EnrichAssetData(c) ==
    /\ Is(c, "FindSimilarAssets", "reading")
    /\ call[c].id \in DOMAIN assets
    /\ Go(c, [stage |-> "listing", op |-> call[c].op, id |-> call[c].id,
              asset |-> assets[call[c].id]])
    /\ UNCHANGED << subject, tables, history >>

FindSimilarAssets(c) ==
    /\ Is(c, "FindSimilarAssets", "listing")
    /\ \E page \in FirstPage(DOMAIN assets) :
         LET similar == {a \in page \ {call[c].id} :
                           areAssetsSimilar(call[c].asset, assets[a])}
         IN  \E few \in SUBSET similar :
               /\ few = similar \/ Cardinality(few) = Limit
               /\ Cardinality(few) <= Limit
               /\ Answer(c, [op |-> call[c].op, code |-> "ok", id |-> call[c].id, ids |-> few])
    /\ UNCHANGED << subject, tables, history >>

(* Prices of all sources share the page.                                   *)
ListPriceHistory(from, to) ==
    FirstPage({p \in prices : from <= p.time /\ p.time <= to})
Whole(page, from, to) == \A p \in prices \ page : ~(from <= p.time /\ p.time <= to)

(* Mutant: the first of the source is taken.                               *)
GetSomePrice(c) ==
    /\ Is(c, "GetLatestPrice", "listing")
    /\ \E page \in ListPriceHistory(1, MaxTime) :
         LET own == {p \in page : p.source = call[c].source}
         IN  \/ /\ own = {}
                /\ Answer(c, [op |-> call[c].op, code |-> "Unknown"])
             \/ \E p \in own :
                  Answer(c, [op |-> call[c].op, code |-> "ok", source |-> call[c].source,
                             price |-> p, whole |-> Whole(page, 1, MaxTime)])
    /\ UNCHANGED << subject, tables, history >>

(* The newest of those of the source on the page; none is an error.        *)
GetLatestPrice(c) ==
    /\ Is(c, "GetLatestPrice", "listing")
    /\ \E page \in ListPriceHistory(1, MaxTime) :
         LET own == {p \in page : p.source = call[c].source}
         IN  \/ /\ own = {}
                /\ Answer(c, [op |-> call[c].op, code |-> "Unknown"])
             \/ \E p \in own :
                  /\ \A q \in own : q.time <= p.time
                  /\ Answer(c, [op |-> call[c].op, code |-> "ok", source |-> call[c].source,
                                price |-> p, whole |-> Whole(page, 1, MaxTime)])
    /\ UNCHANGED << subject, tables, history >>

(* All of the page, or those of a source.                                  *)
GetPriceHistory(c) ==
    /\ Is(c, "GetPriceHistory", "listing")
    /\ \E page \in ListPriceHistory(call[c].from, call[c].to) :
         Answer(c, [op |-> call[c].op, code |-> "ok", source |-> call[c].source,
                    from |-> call[c].from, to |-> call[c].to,
                    prices |-> {p \in page : call[c].source \in {p.source, NULL}},
                    whole |-> Whole(page, call[c].from, call[c].to)])
    /\ UNCHANGED << subject, tables, history >>

(* Other callers of the storage service: a user is deleted, a price comes. *)
DeleteUser(u) ==
    /\ subject = "users"
    /\ preferences[u] # NULL
    /\ preferences' = [preferences EXCEPT ![u] = NULL]
    /\ intent' = [intent EXCEPT ![u] = NULL]
    /\ answer' = NoAnswer
    /\ UNCHANGED << subject, assets, prices, call, overlapped, raced >>

CreatePrice(s, t) ==
    /\ subject = "prices"
    /\ \A p \in prices : p.time # t
    /\ prices' = prices \cup {[source |-> s, time |-> t]}
    /\ answer' = NoAnswer
    /\ UNCHANGED << subject, preferences, assets, call, history >>

Next ==
    \/ \E c \in Calls :
         \/ Invoke(c) \/ StorageFails(c)
         \/ UpdateUserPreferences(c) \/ UpdateUser(c) \/ GetUserNotificationChannels(c)
         \/ FindOrCreateAsset(c) \/ CreateAsset(c)
         \/ EnrichAssetData(c) \/ FindSimilarAssets(c)
         \/ GetLatestPrice(c) \/ GetPriceHistory(c)
    \/ \E u \in Users : DeleteUser(u)
    \/ \E s \in Sources, t \in 1..MaxTime : CreatePrice(s, t)

Spec == Init /\ [][Next]_vars
-----------------------------------------------------------------------------
(* Types: preferences, whoever wrote them last, have keys and values that  *)
(* are allowed.                                                            *)
TypeOK ==
    /\ \A u \in Users : preferences[u] # NULL =>
         \A key \in DOMAIN preferences[u] :
           /\ key \in validPreferenceKeys
           /\ key = "default_currency" => isValidCurrency(preferences[u][key])
           /\ key = "risk_tolerance" => isValidRiskTolerance(preferences[u][key])
    /\ DOMAIN assets \subseteq AssetIds
    /\ prices \subseteq [source : Sources, time : 1..MaxTime]
    /\ \A c \in Calls : call[c].stage \in {"idle", "reading", "writing", "listing", "creating"}

(* The preferences of a user are those of all updates that were answered,  *)
(* merged one after the other, unless one update read the user before and  *)
(* wrote it after another one: no other way loses a preference.            *)
UpdatesLostToOverlapsOnly ==
    \A u \in Users : u \notin overlapped => preferences[u] = intent[u]

(* There is one asset of a symbol and a type, whatever the case of its     *)
(* letters, unless two calls looked for it at the same time or one was     *)
(* shown a part of the assets only: nothing else creates a second one.     *)
DuplicatesOfRacesOnly ==
    \A a, b \in DOMAIN assets :
        /\ a # b
        /\ assets[a].symbol # NULL /\ assets[b].symbol # NULL
        /\ assets[a].symbol.text = assets[b].symbol.text
        /\ assets[a].type = assets[b].type
        => [text |-> assets[a].symbol.text, type |-> assets[a].type] \in raced

(* Answers are about what was asked for: an asset of the symbol and type,  *)
(* other assets of the same type, and prices of the source, which are all  *)
(* there are in the history and the newest there is if none was left out   *)
(* of the page, which those of other sources share.                        *)
AnswersFit ==
    "code" \in DOMAIN answer /\ answer.code = "ok" =>
        /\ answer.op = "FindOrCreateAsset" => Matches(assets[answer.id], answer.want)
        /\ answer.op = "FindSimilarAssets" =>
             answer.ids \subseteq {a \in DOMAIN assets \ {answer.id} :
                                     assets[a].type = assets[answer.id].type}
        /\ answer.op = "GetLatestPrice" =>
             /\ answer.price \in prices /\ answer.price.source = answer.source
             /\ answer.whole =>
                  \A q \in prices : q.source = answer.source => q.time <= answer.price.time
        /\ answer.op = "GetPriceHistory" =>
             LET meant == {p \in prices : /\ answer.source \in {p.source, NULL}
                                          /\ answer.from <= p.time /\ p.time <= answer.to}
             IN  /\ answer.prices \subseteq meant
                 /\ answer.whole => answer.prices = meant

=============================================================================
