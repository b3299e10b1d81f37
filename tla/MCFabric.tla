------------------------------ MODULE MCFabric ------------------------------
(* Instances of Fabric for TLC. *)
EXTENDS Fabric

\* Two quotes that differ in both words and stay inside a threshold of 9.
QuotesCalm == {<<1, 2>>, <<3, 5>>}

\* Quotes that breach a threshold of 1 both ways.
QuotesMoving == {<<1, 2>>, <<4, 5>>}
=============================================================================
