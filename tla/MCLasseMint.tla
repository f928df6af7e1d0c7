---------------------------- MODULE MCLasseMint ----------------------------
(***************************************************************************)
(* A small LasseMint: eight heights a day, two days of grace and bleed, an *)
(* era of two days, chunks of one entry.                                   *)
(***************************************************************************)
EXTENDS MintViews

MCSnapshot == [a \in Accounts |-> IF a = "alice" THEN [liquid |-> 4, staked |-> 2]
                                  ELSE [liquid |-> 3, staked |-> 0]]

\* Day boundaries and one height inside each day.
MCHeights == {1, 5, 9, 17, 25, 33}

MCFunding == {<<"all", 4>>}

MCMaxMints == [a \in Accounts |-> IF a = "alice" THEN 2 ELSE 1]
=============================================================================
