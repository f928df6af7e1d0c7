------------------------- MODULE MCTransactionIndex -------------------------
(***************************************************************************)
(* Small logs for TransactionIndex; the constants are all in the configs.  *)
(* Two requests differ by their names only, but the temporal properties    *)
(* forbid taking them as symmetric.                                        *)
(***************************************************************************)
EXTENDS TransactionIndex
=============================================================================
