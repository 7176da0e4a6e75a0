------------------------------- MODULE MCPayout -------------------------------
EXTENDS Payout, TLC

CONSTANTS a, b,   \* the bridges
          t1, t2  \* tokens of quotes

\* One owner asks for a refund once, or twice.
OneQuote  == {<<a, t1>>}
TwoQuotes == {<<a, t1>>, <<a, t2>>}

Symmetry == Permutations({t1, t2}) \cup Permutations(Payouts)
=============================================================================
