------------------------------ MODULE MCLiveClient -----------------------------
(****************************************************************************)
(* Small instances of LiveClient.                                           *)
(****************************************************************************)
EXTENDS LiveClient, TLC

CONSTANTS f1, f2, c1, c2, t1, s1, s2, p1, p2

\* The page starts with one of the matches, of another score, and without the other.
Demo == (f1 :> [status |-> "live", shown |-> 1]) @@ (f2 :> Absent)

\* With TxODDS, a request that fails, a dial that fails and a restart, which loses the open
\* connections; with a simulation, no request but a connection that breaks on its own.  A dial
\* that fails and a restart exhaust the retries.
Each(n) == [failed |-> n[1], refused |-> n[2], broken |-> n[3], restarted |-> n[4]]
MCQueue  == (TRUE :> 1) @@ (FALSE :> 3)
MCFaults == (TRUE :> Each(<<1, 1, 0, 1>>)) @@ (FALSE :> Each(<<0, 1, 1, 1>>))
=============================================================================
