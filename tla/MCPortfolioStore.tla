--------------------------- MODULE MCPortfolioStore ---------------------------
(* Small instances of PortfolioStore: one has a user and an asset to begin *)
(* with, the other starts from nothing.                                    *)
EXTENDS PortfolioLedger, TLC

Symmetry == Permutations(Calls)
=============================================================================
