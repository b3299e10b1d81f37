------------------------------- MODULE MCBook -------------------------------
(* An instance of BookBank for TLC: three-bit quantities, of which the feed  *)
(* sends the changes that saturate (3 + 3 + 3) and clamp (3 - 4) a level.    *)
EXTENDS BookBank

FeedDeltas == {-4, 3}
=============================================================================
