---------------------------- MODULE MCMigration ----------------------------
(***************************************************************************)
(* Two holders with staked power that matures on day 2, one burned         *)
(* account, and days of eight heights; the claim window ends with day 5.   *)
(***************************************************************************)
EXTENDS ClaimPage

MCSnapshot ==
  [a \in Accounts |-> CASE a = "alice" -> [liquid |-> 1, staked |-> 4]
                         [] a = "bob"   -> [liquid |-> 0, staked |-> 3]
                         [] a = "carol" -> [liquid |-> 2, staked |-> 1]
                         [] OTHER       -> [liquid |-> 0, staked |-> 0]]

\* Genesis, a day before maturity, maturity, the bleed and the deadline; the
\* step from 17 or less to 33 is more than one walk can catch up.
MCHeights == {1, 9, 17, 33, 41}

MCTrees == {{"alice", "bob", "carol"}, {"alice"}}

MCBatches == {<<"alice", "bob">>, <<"bob">>, <<"carol">>}

MCMaxMints == [a \in Accounts |-> 1]
=============================================================================
