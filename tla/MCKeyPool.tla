----------------------------- MODULE MCKeyPool ------------------------------
EXTENDS KeyPoolHistory

CONSTANTS k0, k1, k2

ThreeKeys == {k0, k1, k2}
ThreeApiKeys == [e \in 0 .. 2 |-> CASE e = 0 -> k0 [] e = 1 -> k1 [] e = 2 -> k2]

OneCooldown == {1}
=============================================================================
