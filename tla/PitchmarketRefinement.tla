------------------------- MODULE PitchmarketRefinement -------------------------
(****************************************************************************)
(* The program keeps the promise of PariMutuel.  Its vault, its running     *)
(* totals, its clock and the oracle are hidden; the winner is the winning   *)
(* outcome of a resolved market, since a refund has none.                   *)
(****************************************************************************)
EXTENDS Pitchmarket

Promise == INSTANCE PariMutuel WITH
  Nobody          <- NoUser,
  InitialHoldings <- InitialWallet,
  RakeNumerator   <- PROTOCOL_FEE_BPS,
  RakeDenominator <- BPS_DENOMINATOR,
  phase           <- status,
  organizer       <- authority,
  stakes          <- stake_per_outcome,
  winner          <- IF status = "Resolved" THEN winning_outcome ELSE 0,
  paid            <- {u \in Users : claimed[u]},
  holdings        <- wallet

\* Every step of the program is a step the promise allows, or one it does not see: the
\* payouts computed from the stored totals are those computed from the stakes, however
\* bets, resolution, cancellation, claims and transfers to the vault interleave.
ImplementsPariMutuel == Promise!Spec

\* Seen from outside, a market of the program is created once and settled once: the life
\* that SyncRelayer relies on for the market of each fixture.
Lifecycle == INSTANCE MarketLifecycle WITH
  Markets <- {MatchId},
  phase   <- [m \in {MatchId} |-> status],
  verdict <- [m \in {MatchId} |-> winning_outcome]
ImplementsLifecycle == Lifecycle!Spec
=============================================================================
