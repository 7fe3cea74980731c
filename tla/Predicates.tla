------------------------------- MODULE Predicates -------------------------------
(****************************************************************************)
(* How an outcome is decided against a committed score: the PredicateSpec   *)
(* stored per outcome (state.rs), the TxODDS predicate that resolve builds  *)
(* from it (resolve.rs), its evaluation by validate_stat (the local stub    *)
(* evaluates it the way the deployed oracle is called), and the three       *)
(* predicates of a 1X2 market (shared/src/index.ts).                        *)
(*                                                                          *)
(* A stat is a pair <<key, period>>; a score is a function from the stats   *)
(* that were committed to their values.                                     *)
(****************************************************************************)
EXTENDS Integers, Sequences

\* Codes of PredicateSpec.comparison and PredicateSpec.op.
GreaterThan == 0
LessThan    == 1
EqualTo     == 2
Add         == 0
Subtract    == 1

DefaultSpec == [stat_a_key |-> 0, stat_b_key |-> 0, period |-> 0, use_stat_b |-> FALSE,
                op |-> Add, threshold |-> 0, comparison |-> GreaterThan]

PredicateSpec == [stat_a_key : Nat, stat_b_key : Nat, period : Int, use_stat_b : BOOLEAN,
                  op : 0..255, threshold : Int, comparison : 0..255]

StatA(spec) == <<spec.stat_a_key, spec.period>>
StatB(spec) == <<spec.stat_b_key, spec.period>>

\* The stats a resolver must supply for spec: the second one only if it is used.
NoStat == <<>>
StatsBound(spec, a, b) == a = StatA(spec) /\ (spec.use_stat_b => b = StatB(spec))

\* Any op code but Add subtracts.
Combined(spec, score, a, b) ==
  CASE ~spec.use_stat_b                  -> score[a]
    [] spec.use_stat_b /\ spec.op = Add  -> score[a] + score[b]
    [] spec.use_stat_b /\ spec.op # Add  -> score[a] - score[b]

\* A draw proves a home win too.
ComparesFault(comparison, value, threshold) ==
  \/ comparison = GreaterThan /\ value >= threshold
  \/ comparison = LessThan /\ value < threshold
  \/ comparison \notin {GreaterThan, LessThan} /\ value = threshold

\* Any comparison code but GreaterThan and LessThan tests equality.
Compares(comparison, value, threshold) ==
  \/ comparison = GreaterThan /\ value > threshold
  \/ comparison = LessThan /\ value < threshold
  \/ comparison \notin {GreaterThan, LessThan} /\ value = threshold

\* What validate_stat answers for the predicate of spec and the supplied stats.
Evaluates(spec, score, a, b) ==
  Compares(spec.comparison, Combined(spec, score, a, b), spec.threshold)

\* The outcome that spec stands for is true of score, which commits its stats.
Holds(spec, score) ==
  /\ StatA(spec) \in DOMAIN score
  /\ spec.use_stat_b => StatB(spec) \in DOMAIN score
  /\ Evaluates(spec, score, StatA(spec), StatB(spec))

\* Home, Draw, Away: (home - away) compared with 0.
build1X2Predicates(homeKey, awayKey, period) ==
  LET base(comparison) ==
        [stat_a_key |-> homeKey, stat_b_key |-> awayKey, period |-> period,
         use_stat_b |-> TRUE, op |-> Subtract, threshold |-> 0, comparison |-> comparison]
  IN  <<base(GreaterThan), base(EqualTo), base(LessThan)>>
=============================================================================
