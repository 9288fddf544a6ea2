------------------------------ MODULE MCServer ------------------------------
(* Small instances of Server.                                              *)
EXTENDS Server

CONSTANTS r1, r2, h1

MCRequests == {r1, r2, h1}
MCH2C == {h1}

(* Procedures that need no connection, one, and two in a row.              *)
MCCalled == {"health", "EnrichAssetData", "CreateRule", "GetAsset", "UpdatePortfolio"}
=============================================================================
