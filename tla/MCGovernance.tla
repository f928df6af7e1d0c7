----------------------------- MODULE MCGovernance -----------------------------
(***************************************************************************)
(* Five holders for four seats and a group of three, so that a full board  *)
(* leaves somebody out and three members can vote.                         *)
(***************************************************************************)
EXTENDS GovernanceViews

MCAccounts == 1 .. 5

\* For the cost of one offer: four holders, three seats, a group of two.
FixAccounts == 1 .. 4
=============================================================================
