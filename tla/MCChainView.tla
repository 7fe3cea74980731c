------------------------------ MODULE MCChainView ------------------------------
(****************************************************************************)
(* Small instances of ChainView and Pages.                                  *)
(****************************************************************************)
EXTENDS Pages, TLC

CONSTANTS alice, bob, WalletSize, r1, r2, l1, l2

\* The other wallet of the portfolio has no tokens.
MCInitialWallet == [u \in Users |-> IF u = alice THEN WalletSize ELSE 0]

\* A market of the home or the away side, which a lead settles.
Goals(home, away) == (<<1, 4>> :> home) @@ (<<2, 4>> :> away)
Lead      == {[fixture_id |-> MatchId, score |-> Goals(1, 0)]}
OneX2     == build1X2Predicates(1, 2, 4)
TwoWay    == {[num_outcomes |-> 2, betting_close_ts |-> 1,
               predicates |-> <<OneX2[1], OneX2[3]>>]}
=============================================================================
