--------------------------- MODULE MCTrailingStop ---------------------------
EXTENDS TrailingStop

\* Ties that come out differently for one factor and the next, and from one
\* entry price to the next.
MixedHalfUp == [e \in Entries |-> [k \in Factors |-> (e + (k \div 10)) % 2 = 0]]
MixedMeets  == [e \in Entries |-> [k \in Factors |-> (e + (k \div 20)) % 2 = 0]]
=============================================================================
