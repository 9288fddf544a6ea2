----------------------------- MODULE MCPriceStore -----------------------------
(* Small instances of PriceStore: quotes of two sources for the same       *)
(* instant, without a time, and with an id that is no uuid.                *)
EXTENDS PriceLedger, TLC

CONSTANTS btc, usd, bad, s1, s2

Symmetry == Permutations(Calls) \cup Permutations(Prices)

At1(s) == [asset |-> btc, base |-> usd, source |-> s, time |-> 1]
At2(s) == [At1(s) EXCEPT !.time = 2]
Now(s) == [At1(s) EXCEPT !.time = NULL]

MCCreates == {At1(s1), Now(s1)}
MCBulks == {<<At1(s2), At2(s2)>>, <<[At2(s1) EXCEPT !.asset = bad], At2(s1)>>}

Of(a, b) == [NoFilter EXCEPT !.asset = a, !.base = b]
FewCreates == {At1(s1)}
FewBulks == {<<Now(s2), At1(s1)>>}
FewFilters == {Of(btc, usd)}

MCFilters == {Of(btc, usd), NoFilter, [NoFilter EXCEPT !.asset = btc, !.to = 1]}
=============================================================================
