------------------------------ MODULE MCLegacy ------------------------------
(* Small instances of Legacy: updates of different keys and of the same    *)
(* key, one of them with a currency that is none; a symbol in both cases,  *)
(* its wrapped form, and stocks of the same and of another symbol.         *)
EXTENDS Legacy

CONSTANTS c1, c2, a1, a2, a3

MCCalls == {c1, c2}
MCAssetIds == {a1, a2, a3}

MCUpdates ==
    {[timezone |-> "CET"],
     [risk_tolerance |-> "moderate", telegram_notifications |-> "true"],
     [timezone |-> "UTC", default_currency |-> "GBP"], [theme |-> "dark"]}

Symbol(text, case) == [text |-> text, case |-> case]
MCWanted ==
    {[symbol |-> Symbol({"btc"}, "lower"), type |-> "cryptocurrency"],
     [symbol |-> Symbol({"btc"}, "upper"), type |-> "cryptocurrency"],
     [symbol |-> Symbol({"w", "btc"}, "lower"), type |-> "cryptocurrency"],
     [symbol |-> Symbol({"btc"}, "lower"), type |-> "stock"],
     [symbol |-> Symbol({"aapl"}, "upper"), type |-> "stock"]}

MCOldAssets ==
    {[symbol |-> NULL, type |-> "stock", name |-> {"gold", "co"}, chains |-> {}],
     [symbol |-> Symbol({"dai"}, "upper"), type |-> "cryptocurrency",
      name |-> {"dai"}, chains |-> {"ethereum"}]}

MCKnownNames == {"btc"} :> {"bitcoin"} @@ {"aapl"} :> {"apple", "co"}
MCShortWords == {"co"}

Interchangeable == Permutations(MCCalls) \cup Permutations(MCAssetIds)
=============================================================================
