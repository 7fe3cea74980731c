---------------------------- MODULE MCWalletAdapter ----------------------------
(****************************************************************************)
(* A small instance of WalletAdapter.                                       *)
(****************************************************************************)
EXTENDS WalletAdapter

CONSTANTS k1, k2, k3
=============================================================================
