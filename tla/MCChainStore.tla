---------------------------- MODULE MCChainStore ----------------------------
(***************************************************************************)
(* Two nodes that may fail twice between them, one probe, a restored       *)
(* session that is left for another account, one poll or press refreshing  *)
(* at a time beside the refresh of a sign-in.                              *)
(***************************************************************************)
EXTENDS ChainStore
=============================================================================
