--------------------------- MODULE MCGitHubElection --------------------------
EXTENDS GitHubElection

CONSTANTS h1, h2

NoSkew  == [h \in Host |-> 0]
\* h2's clock is one tick ahead.
OneSkew == [h \in Host |-> IF h = h2 THEN 1 ELSE 0]

\* The hosts are alike when their clocks agree: what h1 eventually does, h2
\* does too.
AnElectionEnds     == ElectionEnds(h1)
ALeaseIsKeptAlive  == LeaseStaysAlive(h1)
=============================================================================
