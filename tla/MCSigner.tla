------------------------------ MODULE MCSigner ------------------------------
(***************************************************************************)
(* An account that can pay one full advance slice and its own call, and a  *)
(* day on which more mints mature than an ordinary call may retire.        *)
(***************************************************************************)
EXTENDS Signer

\* Thousands of credits: the table, a dry run's gas and the measured cost.
MCLimits == [claim |-> 7, mint |-> 7, vote |-> 7, swap |-> 3, payout |-> 4, advance |-> 10]
MCGas    == [claim |-> 2, mint |-> 2, vote |-> 1, swap |-> 1, payout |-> 1, advance |-> 7]
MCCost   == [claim |-> 4, mint |-> 4, vote |-> 4, swap |-> 1, payout |-> 1, advance |-> 21,
             increaseAllowance |-> 1]

MCPosts == <<"p1">>

\* Three mints mature on day 0, one of them the user's.
MCDue == [d \in 0..1 |-> IF d = 0 THEN 3 ELSE 0]
=============================================================================
