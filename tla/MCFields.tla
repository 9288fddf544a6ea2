------------------------------ MODULE MCFields ------------------------------
(* Small instances of Fields.                                              *)
EXTENDS Fields, TLC

Typed(v) == [type_url |-> "t", value |-> v]

MCMessages ==
    [portfolios |->
       {[name |-> "a", description |-> "x", data |-> Typed("m")],
        [name |-> "b", description |-> "", data |-> Typed("")],
        [name |-> "c", description |-> NULL, data |-> Typed("broken")]},
     accounts |->
       {[name |-> "a", description |-> "x", type |-> 1, data |-> "m"],
        [name |-> "a", description |-> "", type |-> 4, data |-> "n"],
        [name |-> "", description |-> NULL, type |-> 5, data |-> "n"]},
     holdings |->
       {[amount |-> 1, decimals |-> 0], [amount |-> -1, decimals |-> 2],
        [amount |-> 0, decimals |-> 0]},
     transactions |->
       {[type |-> 1, status |-> 0, data |-> "m"], [type |-> 5, status |-> 5, data |-> "n"],
        [type |-> 0, status |-> 6, data |-> "n"]},
     assets |->
       {[symbol |-> "s", name |-> "a", type |-> 1, tags |-> "t"],
        [symbol |-> "", name |-> "b", type |-> 6, tags |-> "u"],
        [symbol |-> NULL, name |-> "", type |-> 7, tags |-> "u"]},
     prices |->
       {[interval |-> "1d", decimals |-> 2, last |-> 7, open |-> 0],
        [interval |-> "", decimals |-> 0, last |-> -1, open |-> NULL]},
     users |->
       {[email |-> "e", name |-> "a", preferences |-> "n "],
        [email |-> "f", name |-> "b", preferences |-> NULL],
        [email |-> "e", name |-> "c", preferences |-> "broken"]}]

MCBroken == {"broken"}

(* Blanks are not kept.                                                    *)
MCRespelled == [s \in {"n "} |-> "n"]

MCMasks ==
    [portfolios   |-> {<< >>, << "name", "user_id" >>, << "data", "description" >>,
                       << "name", "name" >>},
     accounts     |-> {<< "name" >>, << "type" >>, << "description", "data" >>},
     holdings     |-> {<< >>, << "amount" >>, << "decimals", "amount" >>},
     transactions |-> {<< "status" >>, << "data" >>, << "type", "type" >>},
     assets       |-> {<< "symbol" >>, << "name", "type" >>, << "tags", "tags" >>},
     prices       |-> {},
     users        |-> {<< "email" >>, << "preferences" >>}]

CONSTANTS u1, u2

(* Two users can want one email; of the others one row says it all.        *)
MCUuids == [t \in AllTables |-> IF t = "users" THEN {u1, u2} ELSE {u1}]

Interchangeable == Permutations(Calls) \cup Permutations({u1, u2})
=============================================================================
