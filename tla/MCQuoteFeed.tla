---------------------------- MODULE MCQuoteFeed ----------------------------
EXTENDS QuoteFeed, TLC

CONSTANT MaxQuotes     \* bound on the market times of a history

\* A history of MaxQuotes quotes is checked and not continued.
Bound == Cardinality(DOMAIN seen) < MaxQuotes

\* Nothing tells two callers apart.
CallerSymmetry == Permutations(Callers)
=============================================================================
