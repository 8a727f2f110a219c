------------------------------ MODULE MCStaking ------------------------------
EXTENDS Staking

\* One account with enough for two bonds at the minimum, one with a single one.
FourAndTwo == [a \in Accounts |-> IF a = "a" THEN 4 ELSE 2]
=============================================================================
