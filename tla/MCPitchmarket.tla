---------------------------- MODULE MCPitchmarket ----------------------------
(****************************************************************************)
(* Small instances of Pitchmarket.                                          *)
(****************************************************************************)
EXTENDS PitchmarketRefinement, TLC

CONSTANTS WalletSize, CloseTimes

MCInitialWallet == [u \in Users |-> WalletSize]
UserSymmetry    == Permutations(Users)

\* The stats of a 1X2 market: goals of either side (keys 1 and 2), over the full time (4).
HalfTime == 1
FullTime == 4
Goals(period, home, away) == (<<1, period>> :> home) @@ (<<2, period>> :> away)

Match == 7
Other == 8

Committed(fixture, score) == [fixture_id |-> fixture, score |-> score]
LeadCommitment == {Committed(Match, Goals(FullTime, 1, 0))}
\* A lead and a draw, as committed in play or at the end, and the score of another fixture.
MCCommitments  == LeadCommitment \cup {Committed(Match, Goals(FullTime, 1, 1)),
                                      Committed(Other, Goals(FullTime, 0, 1))}
\* Also a score of the first half only.
AllCommitments == MCCommitments \cup {Committed(Match, Goals(HalfTime, 0, 1))}

OneX2   == build1X2Predicates(1, 2, FullTime)
\* A home or away winner only: a draw proves neither.
TwoWay  == <<OneX2[1], OneX2[3]>>
\* Total goals over 0 or at most 1 (they overlap), by code values the program maps to its
\* defaults, and the first side scoring at all, which uses one stat.
Totals  == <<[OneX2[1] EXCEPT !.op = Add], [OneX2[3] EXCEPT !.op = Add, !.threshold = 2],
             [OneX2[1] EXCEPT !.use_stat_b = FALSE]>>

Args(predicateLists) ==
  {[num_outcomes |-> Len(list), betting_close_ts |-> close, predicates |-> list] :
     list \in predicateLists, close \in CloseTimes}
TwoWayArgs == Args({TwoWay})
\* Markets of all shapes, and calls that create_market rejects.
MixedArgs  == Args({OneX2, TwoWay, Totals})
                \cup {[num_outcomes |-> 3, betting_close_ts |-> 1, predicates |-> TwoWay],
                      [num_outcomes |-> 1, betting_close_ts |-> 1, predicates |-> <<OneX2[1]>>]}

=============================================================================
