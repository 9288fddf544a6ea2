---------------------------- MODULE PortfolioLedger ----------------------------
(* The tables of PortfolioStore as a Ledger: the columns that protect the  *)
(* row they refer to are what a row needs, those that a deletion sets to   *)
(* NULL are its tags.  The calls are hidden.                               *)
EXTENDS PortfolioStore

Needs == [x \in Rows |-> IF x \in live THEN References(x) ELSE {}]

Tags == [x \in Rows |-> CASE x \in Holdings -> {portfolioId[x]} \ {NULL}
                          [] x \in Transactions -> {assetId[x]} \ {NULL}
                          [] OTHER -> {}]

L == INSTANCE Ledger WITH Entry <- Rows, Founding <- Seeded, entries <- live,
                          ever <- born, needs <- Needs, tags <- Tags

(* Every statement is one step of the ledger or none: the lookups, the     *)
(* answers, the faults and a crash leave it alone, and each write acts at  *)
(* once and on what is there at that moment.                               *)
ImplementsLedger == L!Spec
=============================================================================
