----------------------------- MODULE MCSyncRelayer -----------------------------
(****************************************************************************)
(* Small instances of SyncRelayer and Scripts.                              *)
(****************************************************************************)
EXTENDS Scripts, TLC

CONSTANTS p1, p2, f1, f2

OneGoal == {<<0, 0>>, <<1, 0>>}
HomeWin == {<<1, 0>>}

\* Other markets: the goals of the two sides exchanged, any period of them; more than one goal.
Exchanged == build1X2Predicates(AWAY_KEY, HOME_KEY, InPlay)
Goals     == [DefaultSpec EXCEPT !.stat_a_key = HOME_KEY, !.stat_b_key = AWAY_KEY,
                                 !.period = FULL_TIME, !.use_stat_b = TRUE]
OverUnder == <<Goals, [Goals EXCEPT !.threshold = 1, !.comparison = LessThan]>>
Strangers == {Exchanged, OverUnder}
Stranger  == {Exchanged}

\* One match, that may be brought forward by a tick.
Single      == (f1 :> 0)
SingleLater == (f1 :> 1)

\* One match today and one tomorrow, which is not listed yet; or one that ends after the day's run.
TodayAndTomorrow == (f1 :> 0) @@ (f2 :> 5)
LateOnly         == (f1 :> 2)
=============================================================================
