---------------------------- MODULE MCDistributor ----------------------------
EXTENDS Distributor

\* A statistic that fits the Width-bit unsigned the reduction callback
\* takes, and one that does not.
MCPartials == {1, 2 ^ Width + 1}

=============================================================================
