---------------------------- MODULE MCTokenLedger ----------------------------
(***************************************************************************)
(* Small instances of TokenLedger: two holders and the null account.  Of   *)
(* the snapshot's positions one is liquid and staked, one liquid only, and *)
(* null's own position is a liquid burn.                                   *)
(***************************************************************************)
EXTENDS TokenLedger

CONSTANTS alice, bob, null

MCAccounts == {alice, bob, null}

MCSnapshot ==
  [a \in MCAccounts |-> IF a = alice THEN [liquid |-> 1, staked |-> 1]
                        ELSE [liquid |-> 1, staked |-> 0]]
=============================================================================
