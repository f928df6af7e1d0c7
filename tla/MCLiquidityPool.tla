--------------------------- MODULE MCLiquidityPool ---------------------------
(***************************************************************************)
(* Two providers, three book units to the milli-HBD, two days of dormancy, *)
(* and a walk of two days at most.                                         *)
(***************************************************************************)
EXTENDS PoolHistory, TLC

CONSTANTS alice, bob

\* No call tells one provider from another.
AccountSymmetry == Permutations({alice, bob})

MCFunds == [lc |-> 5, hbd |-> 6]

\* The days 0, 1 and 3.
MCHeights == {1, 9, 25}

\* The reward halves with the second era.
MCDayReward == [d \in Days |-> IF d < 2 THEN 4 ELSE 2]
=============================================================================
