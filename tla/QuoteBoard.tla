----------------------------- MODULE QuoteBoard -----------------------------
(***************************************************************************)
(* What the market-data block promises the CPU, with no sequence numbers:  *)
(* a board that shows one quote, replaced in one step, and a reader that   *)
(* copies the whole board in one step or holds nothing.  Quotes may be     *)
(* missed; a mixture of two quotes never exists.                           *)
(***************************************************************************)
CONSTANTS Quotes, NoQuote

VARIABLES board, taken

Init == board = NoQuote /\ taken = NoQuote

Post == \E q \in Quotes : board' = q /\ UNCHANGED taken

Take == taken' = board /\ UNCHANGED board

Forget == taken' = NoQuote /\ UNCHANGED board

Next == Post \/ Take \/ Forget

Spec == Init /\ [][Next]_<<board, taken>>
=============================================================================
