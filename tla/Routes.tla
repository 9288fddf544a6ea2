------------------------------- MODULE Routes -------------------------------
(* The procedures that the API declares, and what the mux and the routers  *)
(* of the services make of each: the number of statements it comes to.     *)
EXTENDS Naturals

PortfolioProcedures ==
    {"CreatePortfolio", "GetPortfolio", "UpdatePortfolio", "DeletePortfolio",
     "ListPortfolios", "CalculatePortfolioValue", "GetPortfolioPerformance",
     "CreateHolding", "GetHolding", "UpdateHolding", "ListHoldings",
     "CreateAccount", "GetAccount", "UpdateAccount", "DeleteAccount",
     "ListAccounts", "CreateTransaction", "GetTransaction",
     "UpdateTransaction", "ListTransactions"}

MarketDataProcedures ==
    {"CreateAsset", "GetAsset", "UpdateAsset", "DeleteAsset", "ListAssets",
     "EnrichAssetData", "FindSimilarAssets", "CreatePrice", "CreatePrices",
     "GetLatestPrice", "ListPriceHistory", "ListPricesByInterval",
     "DeletePrice", "DeletePrices", "FetchExternalPrices"}

AutomationProcedures ==
    {"CreateRule", "GetRule", "UpdateRule", "DeleteRule", "ListRules",
     "ExecuteRule", "ExecuteRuleAsync", "CancelRuleExecution", "ValidateRule",
     "SimulateRule", "EnableRule", "DisableRule", "PauseRule", "ResumeRule",
     "CreateRuleExecution", "GetRuleExecution", "UpdateRuleExecution",
     "ListRuleExecutions"}

Procedures == {"health"} \cup PortfolioProcedures \cup MarketDataProcedures
                         \cup AutomationProcedures


(* Procedures whose handler in the service answers Unimplemented.          *)
PortfolioStubs  == {"CalculatePortfolioValue", "GetPortfolioPerformance"}
MarketDataStubs == {"EnrichAssetData", "FindSimilarAssets", "FetchExternalPrices"}

(* The quotes of a bulk creation: each takes three statements.             *)
CONSTANT QuotesPerBulk
ASSUME QuotesAssumption == QuotesPerBulk \in Nat

(* The methods of the stores the services call, and the statements, hence  *)
(* connections of the pool, that each needs one after the other.           *)
PortfolioStatements ==
    [GetPortfolio |-> 1, CreatePortfolio |-> 2, UpdatePortfolio |-> 2,
     DeletePortfolio |-> 1, ListPortfolios |-> 2,
     GetAccount |-> 1, CreateAccount |-> 2, UpdateAccount |-> 2,
     DeleteAccount |-> 1, ListAccounts |-> 2,
     GetHolding |-> 1, CreateHolding |-> 4, UpdateHolding |-> 3,
     ListHoldings |-> 4,
     GetTransaction |-> 1, CreateTransaction |-> 3, UpdateTransaction |-> 2,
     ListTransactions |-> 3]

MarketDataStatements ==
    [GetAsset |-> 1, CreateAsset |-> 1, UpdateAsset |-> 1, DeleteAsset |-> 1,
     ListAssets |-> 1, CreatePrice |-> 3, CreatePrices |-> 3 * QuotesPerBulk,
     GetLatestPrice |-> 3, ListPriceHistory |-> 3, DeletePrice |-> 1,
     DeletePrices |-> 3]

(* The methods of the two services.                                        *)
PortfolioHandler(p) == IF p \in PortfolioStubs THEN 0 ELSE PortfolioStatements[p]

MarketDataHandler(p) ==
    IF p \in MarketDataStubs THEN 0
    ELSE MarketDataStatements[IF p = "ListPricesByInterval"
                              THEN "ListPriceHistory" ELSE p]

(* The routers: a method for each procedure, and NotFound, which needs no  *)
(* statement either, for other paths.                                      *)
NewPortfolioServiceHandler(p) ==
    IF p \in PortfolioProcedures THEN PortfolioHandler(p) ELSE 0

NewMarketDataServiceHandler(p) ==
    IF p \in MarketDataProcedures THEN MarketDataHandler(p) ELSE 0

(* The mux has /health and the two services.  The automation service is    *)
(* declared and not mounted: its procedures are not found.                 *)
mux(p) ==
    IF p \in PortfolioProcedures THEN NewPortfolioServiceHandler(p)
    ELSE IF p \in MarketDataProcedures THEN NewMarketDataServiceHandler(p)
    ELSE 0
=============================================================================
