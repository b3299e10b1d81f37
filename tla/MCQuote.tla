------------------------------ MODULE MCQuote ------------------------------
(* An instance of QuoteEngine for TLC: four levels, two inventory buckets,   *)
(* tables that push the prices past either side of the book.                 *)
EXTENDS QuoteEngine

LoadNumbers == 0 .. 3
LoadTables  == [l \in LoadNumbers |-> [b \in 0 .. 1 |-> IF b = 0 THEN -(2 * l) ELSE 2 * l]]
Inventories == {-2, 1}
BankTops    == {[bidOn |-> TRUE, askOn |-> TRUE, bid |-> 1, ask |-> 2],
                [bidOn |-> TRUE, askOn |-> TRUE, bid |-> 3, ask |-> 0]}
=============================================================================
