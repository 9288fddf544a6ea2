---------------------------- MODULE LegacyProofs ----------------------------
(* Theorems about Legacy, for any users, assets, updates and number of     *)
(* calls.                                                                  *)
EXTENDS Legacy, TLAPS

Key(want) == [text |-> want.symbol.text, type |-> want.type]

(* The tables are functions, and their values are allowed.                 *)
TablesInv ==
    /\ subject \in {"users", "assets", "prices"}
    /\ preferences = [u \in Users |-> preferences[u]]
    /\ intent = [u \in Users |-> intent[u]]
    /\ \A u \in Users : preferences[u] # NULL => Valid(preferences[u])
    /\ DOMAIN assets \subseteq AssetIds
    /\ prices \subseteq [source : Sources, time : 1..MaxTime]

(* What a call that is to write would write: the preferences of the moment *)
(* and its own, unless it was overtaken.                                   *)
UpToDate(k, P, O) ==
    /\ k.user \in Users
    /\ Valid(k.merged)
    /\ k.user \notin O /\ P[k.user] # NULL => k.merged = Merge(P[k.user], k.update)

(* One that is to create an asset was shown all there were, and there is   *)
(* still none that matches unless another call has raced it.               *)
Alone(k, A, R) ==
    ~k.partial => \/ Key(k.want) \in R
                  \/ \A a \in DOMAIN A : ~Matches(A[a], k.want)

CallInv(k, P, O, A, R) ==
    /\ k.stage \in {"idle", "reading", "writing", "listing", "creating"}
    /\ k.stage = "reading" /\ k.op = "UpdateUserPreferences" =>
         k.user \in Users
    /\ k.stage = "writing" /\ k.op = "UpdateUserPreferences" => UpToDate(k, P, O)
    /\ k.stage = "creating" /\ k.op = "FindOrCreateAsset" => Alone(k, A, R)
    /\ k.stage # "idle" /\ k.op = "FindOrCreateAsset" => k.want \in Wanted
    /\ k.stage = "listing" /\ k.op = "FindSimilarAssets" =>
         k.id \in DOMAIN A /\ k.asset = A[k.id]

CallsInv ==
    /\ call = [c \in Calls |-> call[c]]
    /\ \A c \in Calls : CallInv(call[c], preferences, overlapped, assets, raced)

IInv ==
    /\ TablesInv
    /\ CallsInv
    /\ UpdatesLostToOverlapsOnly
    /\ DuplicatesOfRacesOnly

USE DEF tables, history, vars

(* What is merged of allowed preferences is allowed.                       *)
LEMMA MergeIsValid ==
    ASSUME NEW p, NEW update, Valid(p), Valid(update)
    PROVE  Valid(Merge(p, update))
BY DEF Valid, Merge

(* In the beginning nothing is in progress and nothing was merged.         *)
LEMMA InitHolds == Init => IInv
<1> SUFFICES ASSUME Init PROVE IInv
  OBVIOUS
<1>1. \A u \in Users : preferences[u] # NULL => Valid(preferences[u])
  <2>1. Valid(<< >>)
    BY DEF Valid
  <2>2. Valid([timezone |-> "UTC"])
    BY DEF Valid, validPreferenceKeys
  <2> QED
    BY <2>1, <2>2 DEF Init
<1>2. DOMAIN assets \subseteq AssetIds /\ \A a \in DOMAIN assets : assets[a] \in OldAssets
  BY DEF Init
<1>3. TablesInv
  BY <1>1, <1>2 DEF Init, TablesInv
<1>4. CallsInv
  BY DEF Init, CallsInv, CallInv, Idle
<1>5. DuplicatesOfRacesOnly
  BY <1>2, OldAssumption DEF Init, DuplicatesOfRacesOnly
<1> QED
  BY <1>3, <1>4, <1>5 DEF Init, IInv, UpdatesLostToOverlapsOnly

(* Steps that change no table: the call they are about goes on to k.       *)
LEMMA CallHolds ==
    ASSUME IInv, UNCHANGED << subject, tables, history >>,
           NEW c \in Calls, NEW k, call' = [call EXCEPT ![c] = k],
           CallInv(k, preferences, overlapped, assets, raced)
    PROVE  IInv'
<1>1. CallsInv'
  BY DEF IInv, CallsInv
<1> QED
  BY <1>1 DEF IInv, TablesInv, UpdatesLostToOverlapsOnly, DuplicatesOfRacesOnly

(* A call that is answered keeps nothing.                                  *)
LEMMA IdleHolds ==
    ASSUME NEW P, NEW O, NEW A, NEW R
    PROVE  CallInv(Idle, P, O, A, R)
BY DEF CallInv, Idle

(* A call that begins knows nothing yet.                                   *)
LEMMA InvokeHolds ==
    ASSUME IInv, NEW c \in Calls, Invoke(c)
    PROVE  IInv'
<1>1. PICK k \in Asked : Begin(c, k)
  BY DEF Invoke
<1>2. subject \in {"users", "assets", "prices"}
  BY DEF IInv, TablesInv
<1>3. CallInv(k, preferences, overlapped, assets, raced)
  <2>1. CASE subject = "users"
    BY <2>1 DEF Asked, CallInv
  <2>2. CASE subject = "assets"
    BY <2>2 DEF Asked, CallInv
  <2>3. CASE subject = "prices"
    BY <2>3 DEF Asked, CallInv
  <2> QED
    BY <1>2, <2>1, <2>2, <2>3
<1> QED
  BY <1>1, <1>3, CallHolds DEF Begin

(* A call that ends without a write.                                       *)
LEMMA EndHolds ==
    ASSUME IInv, UNCHANGED << subject, tables, history >>,
           NEW c \in Calls, NEW body, Answer(c, body)
    PROVE  IInv'
BY CallHolds, IdleHolds DEF Answer

(* What is merged is up to date when it is merged.                         *)
LEMMA MergeHolds ==
    ASSUME IInv, NEW c \in Calls, UpdateUserPreferences(c)
    PROVE  IInv'
<1> DEFINE old == preferences[call[c].user]
           update == call[c].update
           k == [stage |-> "writing", op |-> call[c].op, user |-> call[c].user,
                 update |-> update, merged |-> Merge(old, update)]
<1>1. call[c].user \in Users
  BY DEF IInv, CallsInv, CallInv, UpdateUserPreferences, Is
<1>2. CASE old # NULL /\ Valid(update) /\ Go(c, k)
  <2>1. Valid(old)
    BY <1>1, <1>2 DEF IInv, TablesInv
  <2>2. UpToDate(k, preferences, overlapped)
    BY <1>1, <1>2, <2>1, MergeIsValid DEF UpToDate
  <2>3. CallInv(k, preferences, overlapped, assets, raced)
    BY <2>2 DEF CallInv, UpdateUserPreferences, Is
  <2> QED
    BY <1>2, <2>3, CallHolds DEF UpdateUserPreferences, Go
<1>3. CASE \E code \in {"NotFound", "InvalidArgument"} :
             Answer(c, [op |-> call[c].op, code |-> code])
  BY <1>3, EndHolds DEF UpdateUserPreferences
<1> QED
  BY <1>2, <1>3 DEF UpdateUserPreferences

(* A write of preferences: what another call was about to write of them is *)
(* overtaken, and that is noted.                                           *)
LEMMA WriteHolds ==
    ASSUME IInv, NEW c \in Calls, UpdateUser(c)
    PROVE  IInv'
<1> DEFINE u == call[c].user
           p == call[c].merged
<1>1. u \in Users /\ UpToDate(call[c], preferences, overlapped)
  BY DEF IInv, CallsInv, CallInv, UpdateUser, Is, UpToDate
<1>2. /\ preferences[u] # NULL
      /\ preferences' = [preferences EXCEPT ![u] = p]
      /\ intent' = [intent EXCEPT ![u] = Laid(call[c].update, @)]
      /\ UNCHANGED << subject, assets, prices, raced >>
      /\ call' = [call EXCEPT ![c] = Idle]
  BY DEF UpdateUser, Answer
<1>3. overlapped \subseteq overlapped'
  BY DEF UpdateUser
<1>4. TablesInv'
  BY <1>1, <1>2 DEF IInv, TablesInv, UpToDate
<1>5. UpdatesLostToOverlapsOnly'
  <2> SUFFICES ASSUME NEW v \in Users, v \notin overlapped'
               PROVE  preferences'[v] = intent'[v]
    BY DEF UpdatesLostToOverlapsOnly
  <2>1. preferences[v] = intent[v]
    BY <1>3 DEF IInv, UpdatesLostToOverlapsOnly
  <2>2. CASE v = u
    <3>1. p = Merge(preferences[u], call[c].update)
      BY <1>1, <1>2, <1>3, <2>2 DEF UpToDate
    <3>2. preferences'[u] = p /\ intent'[u] = Laid(call[c].update, intent[u])
      BY <1>1, <1>2 DEF IInv, TablesInv
    <3> QED
      BY <2>1, <2>2, <3>1, <3>2 DEF Merge, Laid
  <2> QED
    BY <1>2, <2>1, <2>2 DEF IInv, TablesInv
<1>6. CallsInv'
  <2>1. call' = [d \in Calls |-> call'[d]]
    BY <1>2 DEF IInv, CallsInv
  <2> SUFFICES ASSUME NEW d \in Calls
               PROVE  CallInv(call'[d], preferences', overlapped', assets', raced')
    BY <2>1 DEF CallsInv
  <2>2. CASE d = c
    BY <1>2, <2>2, IdleHolds DEF IInv, CallsInv
  <2>3. CASE d # c
    <3>1. call'[d] = call[d] /\ CallInv(call[d], preferences, overlapped, assets, raced)
      BY <1>2, <2>3 DEF IInv, CallsInv
    <3>2. ASSUME Is(d, "UpdateUserPreferences", "writing")
          PROVE  UpToDate(call[d], preferences', overlapped')
      <4>1. UpToDate(call[d], preferences, overlapped)
        BY <3>1, <3>2 DEF CallInv, Is
      <4>2. CASE call[d].user = u
        BY <2>3, <3>2, <4>1, <4>2 DEF UpdateUser, UpToDate
      <4>3. CASE call[d].user # u
        BY <1>2, <1>3, <4>1, <4>3 DEF UpToDate, IInv, TablesInv
      <4> QED
        BY <4>2, <4>3
    <3> QED
      BY <1>2, <3>1, <3>2 DEF CallInv, Is
  <2> QED
    BY <2>2, <2>3
<1> QED
  BY <1>2, <1>4, <1>5, <1>6 DEF IInv, DuplicatesOfRacesOnly

(* A call that found nothing on a whole page is alone.                     *)
LEMMA FindHolds ==
    ASSUME IInv, NEW c \in Calls, FindOrCreateAsset(c)
    PROVE  IInv'
<1> DEFINE found(page) == {a \in page : Matches(assets[a], call[c].want)}
           k(page) == [stage |-> "creating", op |-> call[c].op, want |-> call[c].want,
                       partial |-> page # DOMAIN assets]
<1>1. CASE \E a : Answer(c, [op |-> call[c].op, code |-> "ok", id |-> a, want |-> call[c].want])
  BY <1>1, EndHolds DEF FindOrCreateAsset
<1>2. CASE \E page \in FirstPage(DOMAIN assets) : found(page) = {} /\ Go(c, k(page))
  <2>1. PICK page \in FirstPage(DOMAIN assets) : found(page) = {} /\ Go(c, k(page))
    BY <1>2
  <2>2. Alone(k(page), assets, raced)
    BY <2>1 DEF Alone
  <2>3. call[c].want \in Wanted /\ call[c].op = "FindOrCreateAsset"
    BY DEF IInv, CallsInv, CallInv, FindOrCreateAsset, Is
  <2>4. CallInv(k(page), preferences, overlapped, assets, raced)
    BY <2>2, <2>3 DEF CallInv
  <2> QED
    BY <2>1, <2>4, CallHolds DEF Go, FindOrCreateAsset
<1> QED
  BY <1>1, <1>2 DEF FindOrCreateAsset

(* A new asset: if there is one of its symbol and type already the call    *)
(* was raced or saw a part only, and that is noted; so it is if another    *)
(* call is about to create the same.                                       *)
LEMMA CreateHolds ==
    ASSUME IInv, NEW c \in Calls, CreateAsset(c)
    PROVE  IInv'
<1> DEFINE want == call[c].want
           new == [symbol |-> want.symbol, type |-> want.type,
                   name |-> GenerateAssetName(want.symbol, want.type), chains |-> {}]
           other(d) == Is(d, "FindOrCreateAsset", "creating")
                         /\ call[d].want.symbol.text = want.symbol.text
                         /\ call[d].want.type = want.type
<1>1. PICK id \in AssetIds \ DOMAIN assets :
        /\ assets' = [a \in DOMAIN assets \cup {id} |-> IF a = id THEN new ELSE assets[a]]
        /\ raced' = IF call[c].partial \/ \E d \in Calls \ {c} : other(d)
                    THEN raced \cup {Key(want)} ELSE raced
  BY DEF CreateAsset, Key
<1>2. /\ UNCHANGED << subject, preferences, prices, intent, overlapped >>
      /\ call' = [call EXCEPT ![c] = Idle]
  BY DEF CreateAsset, Answer
<1>3. /\ DOMAIN assets' = DOMAIN assets \cup {id}
      /\ assets'[id] = new
      /\ \A a \in DOMAIN assets : assets'[a] = assets[a] /\ a # id
      /\ raced \subseteq raced'
  BY <1>1
<1>4. Key(want) \in raced' \/ \A a \in DOMAIN assets : ~Matches(assets[a], want)
  <2>1. Alone(call[c], assets, raced)
    BY DEF IInv, CallsInv, CallInv, CreateAsset, Is
  <2> QED
    BY <1>1, <2>1 DEF Alone
<1>5. TablesInv'
  BY <1>2, <1>3 DEF IInv, TablesInv
<1>6. DuplicatesOfRacesOnly'
  <2> SUFFICES ASSUME NEW a \in DOMAIN assets', NEW b \in DOMAIN assets', a # b,
                      assets'[a].symbol # NULL, assets'[b].symbol # NULL,
                      assets'[a].symbol.text = assets'[b].symbol.text,
                      assets'[a].type = assets'[b].type
               PROVE  [text |-> assets'[a].symbol.text, type |-> assets'[a].type] \in raced'
    BY DEF DuplicatesOfRacesOnly
  <2>1. CASE a # id /\ b # id
    BY <1>3, <2>1 DEF IInv, DuplicatesOfRacesOnly
  <2>2. CASE a = id
    <3>1. b \in DOMAIN assets /\ Matches(assets[b], want)
      BY <1>3, <2>2 DEF Matches
    <3> QED
      BY <1>3, <1>4, <2>2, <3>1 DEF Key
  <2>3. CASE b = id
    <3>1. a \in DOMAIN assets /\ Matches(assets[a], want)
      BY <1>3, <2>3 DEF Matches
    <3> QED
      BY <1>3, <1>4, <2>3, <3>1 DEF Key
  <2> QED
    BY <2>1, <2>2, <2>3
<1>7. CallsInv'
  <2>1. call' = [d \in Calls |-> call'[d]]
    BY <1>2 DEF IInv, CallsInv
  <2> SUFFICES ASSUME NEW d \in Calls
               PROVE  CallInv(call'[d], preferences', overlapped', assets', raced')
    BY <2>1 DEF CallsInv
  <2>2. CASE d = c
    BY <1>2, <2>2, IdleHolds DEF IInv, CallsInv
  <2>3. CASE d # c
    <3>1. call'[d] = call[d] /\ CallInv(call[d], preferences, overlapped, assets, raced)
      BY <1>2, <2>3 DEF IInv, CallsInv
    <3>2. ASSUME Is(d, "FindOrCreateAsset", "creating")
          PROVE  Alone(call[d], assets', raced')
      <4>1. Alone(call[d], assets, raced)
        BY <3>1, <3>2 DEF CallInv, Is
      <4>2. CASE other(d)
        <5>1. Key(call[d].want) = Key(want)
          BY <4>2 DEF Key
        <5> QED
          BY <1>1, <2>3, <4>2, <5>1 DEF Alone
      <4>3. CASE ~other(d)
        <5>1. ~Matches(new, call[d].want)
          BY <3>2, <4>3 DEF Matches
        <5> QED
          BY <1>3, <4>1, <5>1 DEF Alone
      <4> QED
        BY <4>2, <4>3
    <3>3. call[d].id \in DOMAIN assets => assets'[call[d].id] = assets[call[d].id]
      BY <1>3
    <3> QED
      BY <1>2, <1>3, <3>1, <3>2, <3>3 DEF CallInv, Is
  <2> QED
    BY <2>2, <2>3
<1> QED
  BY <1>2, <1>5, <1>6, <1>7 DEF IInv, UpdatesLostToOverlapsOnly

(* A user that is gone has no preferences to be overtaken.                 *)
LEMMA DeleteHolds ==
    ASSUME IInv, NEW u \in Users, DeleteUser(u)
    PROVE  IInv'
<1>1. TablesInv'
  BY DEF IInv, TablesInv, DeleteUser
<1>2. UpdatesLostToOverlapsOnly'
  BY DEF IInv, TablesInv, UpdatesLostToOverlapsOnly, DeleteUser
<1>3. CallsInv'
  <2> SUFFICES ASSUME NEW c \in Calls
               PROVE  CallInv(call[c], preferences', overlapped, assets, raced)
    BY DEF IInv, CallsInv, DeleteUser
  <2>1. CallInv(call[c], preferences, overlapped, assets, raced)
    BY DEF IInv, CallsInv
  <2> QED
    BY <2>1 DEF CallInv, UpToDate, IInv, TablesInv, DeleteUser
<1> QED
  BY <1>1, <1>2, <1>3 DEF IInv, DuplicatesOfRacesOnly, DeleteUser

(* Each step keeps the invariant.                                          *)
LEMMA StepHolds == IInv /\ [Next]_vars => IInv'
<1> SUFFICES ASSUME IInv, [Next]_vars PROVE IInv'
  OBVIOUS
<1>1. ASSUME NEW c \in Calls, StorageFails(c) PROVE IInv'
  BY <1>1, EndHolds DEF StorageFails
<1>2. ASSUME NEW c \in Calls, GetUserNotificationChannels(c) PROVE IInv'
  BY <1>2, EndHolds DEF GetUserNotificationChannels
<1>3. ASSUME NEW c \in Calls, EnrichAssetData(c) PROVE IInv'
  <2> DEFINE k == [stage |-> "listing", op |-> call[c].op, id |-> call[c].id,
                   asset |-> assets[call[c].id]]
  <2>1. CallInv(k, preferences, overlapped, assets, raced)
    BY <1>3 DEF CallInv, EnrichAssetData, Is
  <2> QED
    BY <1>3, <2>1, CallHolds DEF EnrichAssetData, Go
<1>4. ASSUME NEW c \in Calls, FindSimilarAssets(c) PROVE IInv'
  BY <1>4, EndHolds DEF FindSimilarAssets
<1>5. ASSUME NEW c \in Calls, GetLatestPrice(c) PROVE IInv'
  BY <1>5, EndHolds DEF GetLatestPrice
<1>8. ASSUME NEW c \in Calls, GetPriceHistory(c) PROVE IInv'
  BY <1>8, EndHolds DEF GetPriceHistory
<1>6. ASSUME NEW s \in Sources, NEW t \in 1..MaxTime, CreatePrice(s, t) PROVE IInv'
  BY <1>6 DEF CreatePrice, IInv, TablesInv, CallsInv,
       UpdatesLostToOverlapsOnly, DuplicatesOfRacesOnly
<1>7. CASE UNCHANGED vars
  BY <1>7 DEF IInv, TablesInv, CallsInv, UpdatesLostToOverlapsOnly, DuplicatesOfRacesOnly
<1> QED
  BY <1>1, <1>2, <1>3, <1>4, <1>5, <1>6, <1>7, <1>8, InvokeHolds, MergeHolds, WriteHolds,
     FindHolds, CreateHolds, DeleteHolds DEF Next

(* What the services know of each other's calls: nothing but what is in    *)
(* the tables.                                                             *)
THEOREM Invariance == Spec => []IInv
BY InitHolds, StepHolds, PTL DEF Spec

(* Preferences are allowed ones, whoever merged them and whatever was lost *)
(* on the way.                                                             *)
THEOREM TypeCorrect == Spec => []TypeOK
<1>1. IInv => TypeOK
  <2> SUFFICES ASSUME IInv PROVE TypeOK
    OBVIOUS
  <2>1. \A u \in Users : preferences[u] # NULL =>
          \A key \in DOMAIN preferences[u] :
            /\ key \in validPreferenceKeys
            /\ key = "default_currency" => isValidCurrency(preferences[u][key])
            /\ key = "risk_tolerance" => isValidRiskTolerance(preferences[u][key])
    BY DEF IInv, TablesInv, Valid
  <2> QED
    BY <2>1 DEF IInv, TablesInv, CallsInv, CallInv, TypeOK
<1> QED
  BY <1>1, Invariance, PTL

(* An update of preferences is lost to one that overlapped it, and to      *)
(* nothing else.                                                           *)
THEOREM LostToOverlaps == Spec => []UpdatesLostToOverlapsOnly
<1>1. IInv => UpdatesLostToOverlapsOnly
  BY DEF IInv
<1> QED
  BY <1>1, Invariance, PTL

(* A second asset of a symbol and a type comes of a race, or of a page     *)
(* that did not hold the first, and of nothing else.                       *)
THEOREM DuplicatesOfRaces == Spec => []DuplicatesOfRacesOnly
<1>1. IInv => DuplicatesOfRacesOnly
  BY DEF IInv
<1> QED
  BY <1>1, Invariance, PTL

-----------------------------------------------------------------------------
(* What the answers say.                                                   *)

(* An answer that fits is given, or none.                                  *)
LEMMA StepFits == IInv /\ AnswersFit /\ [Next]_vars => AnswersFit'
<1> SUFFICES ASSUME IInv, AnswersFit, [Next]_vars PROVE AnswersFit'
  OBVIOUS
<1>1. ASSUME answer' = NoAnswer PROVE AnswersFit'
  BY <1>1 DEF AnswersFit, NoAnswer
<1>2. ASSUME NEW op, NEW code, answer' = [op |-> op, code |-> code],
             code # "ok" \/ op \notin {"FindOrCreateAsset", "FindSimilarAssets", "GetLatestPrice",
                                       "GetPriceHistory"}
      PROVE  AnswersFit'
  BY <1>2 DEF AnswersFit
<1>3. ASSUME NEW c \in Calls, Invoke(c) PROVE AnswersFit'
  BY <1>1, <1>3 DEF Invoke, Begin
<1>4. ASSUME NEW c \in Calls, StorageFails(c) PROVE AnswersFit'
  BY <1>2, <1>4 DEF StorageFails, Answer, FailureCode
<1>5. ASSUME NEW c \in Calls, UpdateUserPreferences(c) PROVE AnswersFit'
  BY <1>1, <1>2, <1>5 DEF UpdateUserPreferences, Answer, Go
<1>6. ASSUME NEW c \in Calls, UpdateUser(c) PROVE AnswersFit'
  BY <1>2, <1>6 DEF UpdateUser, Answer, Is
<1>7. ASSUME NEW c \in Calls, GetUserNotificationChannels(c) PROVE AnswersFit'
  BY <1>7 DEF GetUserNotificationChannels, Answer, Is, AnswersFit
<1>8. ASSUME NEW c \in Calls, FindOrCreateAsset(c) PROVE AnswersFit'
  <2>1. CASE answer' = NoAnswer
    BY <1>1, <2>1
  <2>2. CASE \E a :
               /\ Matches(assets[a], call[c].want)
               /\ answer' = [op |-> call[c].op, code |-> "ok", id |-> a, want |-> call[c].want]
    <3>1. assets' = assets /\ call[c].op = "FindOrCreateAsset"
      BY <1>8 DEF FindOrCreateAsset, Is
    <3> QED
      BY <2>2, <3>1 DEF AnswersFit
  <2> QED
    BY <1>8, <2>1, <2>2 DEF FindOrCreateAsset, Answer, Go
<1>9. ASSUME NEW c \in Calls, CreateAsset(c) PROVE AnswersFit'
  <2> DEFINE want == call[c].want
  <2>1. PICK id \in AssetIds \ DOMAIN assets :
          /\ assets' = [a \in DOMAIN assets \cup {id} |->
                          IF a = id THEN [symbol |-> want.symbol, type |-> want.type,
                                          name |-> GenerateAssetName(want.symbol, want.type),
                                          chains |-> {}]
                          ELSE assets[a]]
          /\ \/ answer' = [op |-> call[c].op, code |-> "ok", id |-> id, want |-> want]
             \/ answer' = [op |-> call[c].op, code |-> FailureCode(call[c])]
    BY <1>9 DEF CreateAsset, Answer
  <2>2. call[c].op = "FindOrCreateAsset" /\ want \in Wanted
    BY <1>9 DEF CreateAsset, Is, IInv, CallsInv, CallInv
  <2>3. Matches(assets'[id], want)
    BY <2>1, <2>2, WantedAssumption DEF Matches
  <2>4. FailureCode(call[c]) # "ok"
    BY DEF FailureCode
  <2>5. CASE answer' = [op |-> call[c].op, code |-> "ok", id |-> id, want |-> want]
    BY <2>2, <2>3, <2>5 DEF AnswersFit
  <2> QED
    BY <1>2, <2>1, <2>4, <2>5
<1>10. ASSUME NEW c \in Calls, EnrichAssetData(c) PROVE AnswersFit'
  BY <1>1, <1>10 DEF EnrichAssetData, Go
<1>11. ASSUME NEW c \in Calls, FindSimilarAssets(c) PROVE AnswersFit'
  <2> DEFINE id == call[c].id
  <2>1. /\ call[c].op = "FindSimilarAssets" /\ assets' = assets
        /\ id \in DOMAIN assets /\ call[c].asset = assets[id]
    BY <1>11 DEF FindSimilarAssets, Is, IInv, CallsInv, CallInv
  <2>2. PICK ids : /\ ids \subseteq {a \in DOMAIN assets \ {id} :
                                       areAssetsSimilar(call[c].asset, assets[a])}
                   /\ answer' = [op |-> call[c].op, code |-> "ok", id |-> id, ids |-> ids]
    BY <1>11 DEF FindSimilarAssets, Answer, FirstPage
  <2>3. \A a \in ids : assets[a].type = assets[id].type
    BY <2>1, <2>2 DEF areAssetsSimilar
  <2> QED
    BY <2>1, <2>2, <2>3 DEF AnswersFit
<1>12. ASSUME NEW c \in Calls, GetLatestPrice(c) PROVE AnswersFit'
  <2>1. /\ call[c].op = "GetLatestPrice" /\ prices' = prices
        /\ \A q \in prices : 1 <= q.time /\ q.time <= MaxTime
    BY <1>12, PageAssumption DEF GetLatestPrice, Is, IInv, TablesInv
  <2>2. CASE answer' = [op |-> call[c].op, code |-> "Unknown"]
    BY <1>2, <2>2
  <2>3. ASSUME NEW page \in ListPriceHistory(1, MaxTime),
               NEW p \in page, p.source = call[c].source,
               \A q \in page : q.source = call[c].source => q.time <= p.time,
               answer' = [op |-> call[c].op, code |-> "ok", source |-> call[c].source,
                          price |-> p, whole |-> Whole(page, 1, MaxTime)]
        PROVE  AnswersFit'
    <3>1. page \subseteq prices
      BY DEF ListPriceHistory, FirstPage
    <3>2. Whole(page, 1, MaxTime) =>
            \A q \in prices : q.source = p.source => q.time <= p.time
      BY <2>1, <2>3 DEF Whole
    <3> QED
      BY <2>1, <2>3, <3>1, <3>2 DEF AnswersFit
  <2> QED
    BY <1>12, <2>2, <2>3 DEF GetLatestPrice, Answer
<1>16. ASSUME NEW c \in Calls, GetPriceHistory(c) PROVE AnswersFit'
  <2> DEFINE k == call[c]
             own(page) == {p \in page : k.source \in {p.source, NULL}}
             meant == {p \in prices : /\ k.source \in {p.source, NULL}
                                      /\ k.from <= p.time /\ p.time <= k.to}
  <2>1. PICK page \in ListPriceHistory(k.from, k.to) :
          answer' = [op |-> k.op, code |-> "ok", source |-> k.source,
                     from |-> k.from, to |-> k.to, prices |-> own(page),
                     whole |-> Whole(page, k.from, k.to)]
    BY <1>16 DEF GetPriceHistory, Answer
  <2>2. k.op = "GetPriceHistory" /\ prices' = prices
    BY <1>16 DEF GetPriceHistory, Is
  <2>3. own(page) \subseteq meant
    BY DEF ListPriceHistory, FirstPage
  <2>4. Whole(page, k.from, k.to) => meant \subseteq own(page)
    BY DEF Whole
  <2> QED
    BY <2>1, <2>2, <2>3, <2>4 DEF AnswersFit
<1>13. ASSUME NEW u \in Users, DeleteUser(u) PROVE AnswersFit'
  BY <1>1, <1>13 DEF DeleteUser
<1>14. ASSUME NEW s \in Sources, NEW t \in 1..MaxTime, CreatePrice(s, t) PROVE AnswersFit'
  BY <1>1, <1>14 DEF CreatePrice
<1>15. CASE UNCHANGED vars
  BY <1>15 DEF AnswersFit
<1> QED
  BY <1>3, <1>4, <1>5, <1>6, <1>7, <1>8, <1>9, <1>10, <1>11, <1>12, <1>13, <1>14, <1>15,
     <1>16 DEF Next

(* An answer is about what was asked for: of prices, those of the source,  *)
(* which are all of them, or the newest of all, if the page left nothing   *)
(* out.                                                                    *)
THEOREM Fitting == Spec => []AnswersFit
<1>1. Init => AnswersFit
  BY DEF Init, AnswersFit, NoAnswer
<1> QED
  BY <1>1, StepFits, Invariance, PTL DEF Spec
=============================================================================
