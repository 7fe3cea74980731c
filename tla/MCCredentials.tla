----------------------------- MODULE MCCredentials -----------------------------
(****************************************************************************)
(* A small instance of Credentials.                                         *)
(****************************************************************************)
EXTENDS Credentials

ThreeRuns == 1..3
=============================================================================
