------------------------------ MODULE PriceLedger ------------------------------
(* Assets and prices as a Ledger: a price needs its asset and its base.    *)
EXTENDS PriceStore

Entries == Assets \cup Prices

Needs == [x \in Entries |-> IF x \in stored THEN {quote[x].asset, quote[x].base} ELSE {}]

Untagged == [x \in Entries |-> {}]

L == INSTANCE Ledger WITH Entry <- Entries, Founding <- Assets,
                          entries <- assets \cup stored, ever <- Assets \cup drawn,
                          needs <- Needs, tags <- Untagged

(* Every statement is one step of the ledger or none, that of a deletion   *)
(* by criteria a step of many prices at once.  A bulk creation is a step   *)
(* for each of its prices.                                                 *)
ImplementsLedger == L!Spec

(* No price refers to an asset that is gone.                               *)
PricesRefer == \A i \in stored : {quote[i].asset, quote[i].base} \subseteq assets
================================================================================
