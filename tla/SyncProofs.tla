------------------------------ MODULE SyncProofs ------------------------------
(****************************************************************************)
(* Theorems about SyncRelayer and Scripts: the passes of the market sync    *)
(* and the scripts that run beside them, for any number of passes, fixtures *)
(* and failures and any schedule.                                           *)
(****************************************************************************)
EXTENDS Scripts, TLAPS

Statuses  == {"NotCreated", "Open", "Resolved", "Refunded"}
Stored    == {<<>>, FullTime1X2} \cup OtherPredicates
Markets   == [status : Statuses, close : Nat, winner : Outcomes,
              authority : {"none", "admin", "stranger"}, predicates : Stored]
Schedules == UNION {[S -> Nat] : S \in SUBSET Fixtures}
Places    == {"idle", "listing", "next", "creating", "sequencing", "proving", "resolving",
              "validating", "checking", "waiting", "status", "reading back"}
Locals    == [at : Places, started : Int, todo : Schedules,
              fixture : Fixtures \cup {NoFixture}, seq : Nat,
              tx : Transactions \cup {NoTx},
              created : SUBSET Fixtures, resolved : SUBSET Fixtures, errors : SUBSET Fixtures,
              script : {"sync", "create", "resolve", "prove", "e2e"},
              about : Fixtures \cup {NoFixture},
              told : [status : {"none"} \cup Statuses, winner : Outcomes]]

\* The relayer's transactions: a market of its own, or a resolution that rests on an event of
\* the fixture.
Creations(f)   == [kind : {"create"}, fixture : {f}, close : Nat, authority : {"admin"},
                   predicates : {FullTime1X2}]
Resolutions(f) == {ResolveTx(f, w, feed[f][i]) : w \in Outcomes, i \in 1 .. Len(feed[f])}
WellFounded(tx) == \E f \in Fixtures : tx \in Creations(f) \cup Resolutions(f)

\* Those and everybody else's.
AllCreations(f)   == Creations(f) \cup OtherMarkets(f)
AllResolutions(f) == UNION {OtherProofs(f, feed[f][i]) : i \in 1 .. Len(feed[f])}

Types ==
  /\ market \in [Fixtures -> Markets]
  /\ \A f \in Fixtures : /\ market[f].status = "NotCreated" => market[f].winner = 0
                         /\ market[f].authority = "admin" => market[f].predicates = FullTime1X2
  /\ \A tx \in orphans : WellFounded(tx)
  /\ start \in [Fixtures -> Nat] /\ feed \in [Fixtures -> Seq(Events)]
  /\ now \in 0 .. MaxTime /\ failures \in 0 .. MaxFailures
  /\ pass \in [Passes -> Locals]

\* What a pass or a script relies on where it stands, across the await before it.
Relies(p) ==
  LET local == pass[p] IN
  /\ local.started \in -1 .. now
  /\ local.at \in {"creating", "sequencing", "proving", "resolving"} => local.fixture \in Fixtures
  /\ local.at = "proving" => local.seq \in 1 .. Len(feed[local.fixture])
  /\ local.at = "creating" => local.tx \in Creations(local.fixture)
  /\ local.at = "resolving" => local.tx \in Resolutions(local.fixture)
  /\ local.script \in {"prove", "e2e"} => local.about \in Fixtures
  /\ local.at \in {"checking", "waiting", "status", "reading back"} =>
       local.script \in {"prove", "e2e"}
  /\ local.at \in {"waiting", "status"} =>
       local.fixture = local.about /\ market[local.about].status # "NotCreated"
  /\ local.at = "status" => local.seq \in 1 .. Len(feed[local.about])
  /\ local.at = "reading back" => Settled(local.about)
  /\ local.told # NoReport => local.about \in Fixtures

IInv ==
  /\ Types /\ \A p \in Passes : Relies(p)
  /\ ReportsAreTrue /\ VerdictIsFullTime

-----------------------------------------------------------------------------
(****************************************************************************)
(* The program                                                              *)
(****************************************************************************)
\* What the stored predicate of the winner says of the stats supplied, it says of the score.
LEMMA AcceptsWhatHolds ==
  ASSUME NEW f \in Fixtures, NEW event \in Events, NEW tx \in OtherProofs(f, event), Accepts(tx)
  PROVE  /\ tx.winner + 1 \in DOMAIN market[f].predicates
         /\ Holds(market[f].predicates[tx.winner + 1], Score(event))
<1> DEFINE spec  == market[f].predicates[tx.winner + 1]
           score == Score(event)
           a     == tx.stats[1]
           b     == tx.stats[2]
<1>1. /\ tx.fixture = f /\ tx.event = event
      /\ a \in DOMAIN score /\ b \in DOMAIN score
  <2>1. PICK w \in Outcomes, stats \in (DOMAIN score) \X (DOMAIN score) :
          tx = [ResolveTx(f, w, event) EXCEPT !.stats = stats]
    BY DEF OtherProofs
  <2> HIDE DEF score
  <2>2. stats[1] \in DOMAIN score /\ stats[2] \in DOMAIN score
    OBVIOUS
  <2> QED
    BY <2>1, <2>2 DEF ResolveTx
<1>2. /\ tx.winner + 1 \in DOMAIN market[f].predicates
      /\ StatsBound(spec, a, b) /\ Evaluates(spec, score, a, b)
  BY <1>1 DEF Accepts
<1> HIDE DEF spec, score, a, b
<1>3. a = StatA(spec) /\ (spec.use_stat_b => b = StatB(spec))
  BY <1>2 DEF StatsBound
<1>4. Combined(spec, score, a, b) = Combined(spec, score, StatA(spec), StatB(spec))
  BY <1>3 DEF Combined
<1>5. Evaluates(spec, score, StatA(spec), StatB(spec))
  BY <1>2, <1>4 DEF Evaluates
<1>6. Holds(spec, score)
  BY <1>1, <1>3, <1>5 DEF Holds
<1> QED
  BY <1>2, <1>6 DEF spec, score

\* The predicates of the relayer's markets hold of full-time scores alone, and each of those
\* that its outcome wins.
LEMMA FullTimeWinner ==
  ASSUME NEW w \in Outcomes, NEW event \in Events, w + 1 \in DOMAIN FullTime1X2,
         Holds(FullTime1X2[w + 1], Score(event))
  PROVE  event.period = FULL_TIME /\ w = Winning(event)
<1> DEFINE spec  == FullTime1X2[w + 1]
           score == Score(event)
           a     == <<HOME_KEY, FULL_TIME>>
           b     == <<AWAY_KEY, FULL_TIME>>
           base(comparison) ==
             [stat_a_key |-> HOME_KEY, stat_b_key |-> AWAY_KEY, period |-> FULL_TIME,
              use_stat_b |-> TRUE, op |-> Subtract, threshold |-> 0, comparison |-> comparison]
<1>1. /\ w = 0 \/ w = 1 \/ w = 2
      /\ spec = base(IF w = 0 THEN GreaterThan ELSE IF w = 1 THEN EqualTo ELSE LessThan)
  <2>1. FullTime1X2 = <<base(GreaterThan), base(EqualTo), base(LessThan)>>
    BY DEF FullTime1X2, build1X2Predicates
  <2> HIDE DEF base
  <2>2. DOMAIN <<base(GreaterThan), base(EqualTo), base(LessThan)>> = 1 .. 3
    OBVIOUS
  <2>3. w \in Nat /\ w + 1 \in 1 .. 3
    BY <2>1, <2>2 DEF Outcomes, MAX_OUTCOMES
  <2>4. w = 0 \/ w = 1 \/ w = 2
    BY <2>3
  <2> QED
    BY <2>1, <2>4
<1>2. a \in DOMAIN score /\ b \in DOMAIN score /\ Evaluates(spec, score, a, b)
  BY <1>1 DEF Holds, StatA, StatB
<1> HIDE DEF spec
<1>3. event.period = FULL_TIME
  BY <1>2 DEF Score, HOME_KEY, AWAY_KEY
<1>4. event.goals[1] \in Nat /\ event.goals[2] \in Nat
  BY FixturesAssumption DEF Events
<1>5. score[a] = event.goals[1] /\ score[b] = event.goals[2]
  BY <1>3 DEF Score, HOME_KEY, AWAY_KEY
<1> HIDE DEF score, a, b
<1>6. Combined(spec, score, a, b) = event.goals[1] - event.goals[2]
  BY <1>1, <1>5 DEF Combined, Subtract, Add
<1>7. Compares(spec.comparison, event.goals[1] - event.goals[2], 0)
  BY <1>1, <1>2, <1>6 DEF Evaluates
<1>8. \/ w = 0 /\ event.goals[1] > event.goals[2]
      \/ w = 1 /\ event.goals[1] = event.goals[2]
      \/ w = 2 /\ event.goals[1] < event.goals[2]
  BY <1>1, <1>4, <1>7 DEF Compares, GreaterThan, EqualTo, LessThan
<1> QED
  BY <1>3, <1>4, <1>8 DEF Winning

\* What a market says of its verdict, and an event that bears it out.
BornOut(authority, predicates, winner, event) ==
  IF authority = "admin"
  THEN event.period = FULL_TIME /\ winner = Winning(event)
  ELSE Holds(predicates[winner + 1], Score(event))

\* How a transaction, or a cancellation, moves a market on.
Kept(f) == /\ market'[f].authority = market[f].authority
           /\ market'[f].predicates = market[f].predicates
Created(f) ==
  /\ market[f].status = "NotCreated" /\ market'[f].status = "Open" /\ market'[f].winner = 0
  /\ market'[f].authority = "admin" => market'[f].predicates = FullTime1X2
Resolved(f) ==
  /\ market[f].status = "Open" /\ market'[f].status \in {"Resolved", "Refunded"}
  /\ market'[f].close = market[f].close /\ now >= market[f].close /\ Kept(f)
  /\ \E i \in 1 .. Len(feed[f]) :
       BornOut(market[f].authority, market[f].predicates, market'[f].winner, feed[f][i])
Cancelled(f) ==
  /\ market[f].status = "Open" /\ market'[f].status = "Refunded"
  /\ market'[f].winner = market[f].winner /\ Kept(f)
OnlyMarket(f) == market' \in [Fixtures -> Markets] /\ \A g \in Fixtures \ {f} : market'[g] = market[g]

LEMMA ExecuteCreates ==
  ASSUME Types, NEW f \in Fixtures, NEW tx \in AllCreations(f), Execute(tx)
  PROVE  OnlyMarket(f) /\ Created(f)
<1> DEFINE new == [status |-> "Open", close |-> tx.close, winner |-> 0,
                   authority |-> tx.authority, predicates |-> tx.predicates]
<1>1. /\ tx.kind = "create" /\ tx.fixture = f /\ tx.close \in Nat
      /\ tx.authority \in {"admin", "stranger"} /\ tx.predicates \in Stored
      /\ tx.authority = "admin" => tx.predicates = FullTime1X2
  BY FixturesAssumption DEF AllCreations, Creations, OtherMarkets, Stored
<1>2. market[f].status = "NotCreated" /\ market' = [market EXCEPT ![f] = new]
  BY <1>1 DEF Execute, Valid
<1>3. new \in Markets
  BY <1>1 DEF Markets, Statuses, Outcomes, MAX_OUTCOMES
<1>4. /\ new.status = "Open" /\ new.winner = 0
      /\ new.authority = "admin" => new.predicates = FullTime1X2
  BY <1>1
<1> HIDE DEF new
<1> QED
  BY <1>2, <1>3, <1>4 DEF OnlyMarket, Created, Types

LEMMA ExecuteResolves ==
  ASSUME Types, NEW f \in Fixtures, NEW tx \in AllResolutions(f), Execute(tx)
  PROVE  OnlyMarket(f) /\ Resolved(f)
<1>1. PICK i \in 1 .. Len(feed[f]) : tx \in OtherProofs(f, feed[f][i])
  BY DEF AllResolutions
<1>2. /\ tx.kind = "resolve" /\ tx.fixture = f /\ tx.winner \in Outcomes
      /\ feed[f][i] \in Events
  <2> DEFINE keys == DOMAIN Score(feed[f][i])
  <2>1. PICK w \in Outcomes, stats \in keys \X keys :
               tx = [ResolveTx(f, w, feed[f][i]) EXCEPT !.stats = stats]
    BY <1>1 DEF OtherProofs
  <2> QED
    BY <2>1 DEF ResolveTx, Types
<1>3. /\ market[f].status = "Open" /\ now >= market[f].close /\ Accepts(tx)
  BY <1>2 DEF Execute, Valid
<1>4. PICK status \in {"Resolved", "Refunded"} :
        market' = [market EXCEPT ![f].status = status, ![f].winner = tx.winner]
  BY <1>2 DEF Execute
<1>5. market[f] \in Markets
  BY DEF Types
<1>6. /\ market'[f].status = status /\ market'[f].winner = tx.winner
      /\ market'[f].close = market[f].close /\ market'[f] \in Markets /\ Kept(f)
      /\ \A g \in Fixtures \ {f} : market'[g] = market[g]
  BY <1>2, <1>4, <1>5 DEF Types, Markets, Statuses, Kept
<1>7. OnlyMarket(f)
  BY <1>4, <1>6 DEF OnlyMarket, Types
<1>8. BornOut(market[f].authority, market[f].predicates, tx.winner, feed[f][i])
  <2>1. /\ tx.winner + 1 \in DOMAIN market[f].predicates
        /\ Holds(market[f].predicates[tx.winner + 1], Score(feed[f][i]))
    BY <1>1, <1>2, <1>3, AcceptsWhatHolds
  <2>2. CASE market[f].authority = "admin"
    <3>1. market[f].predicates = FullTime1X2
      BY <2>2 DEF Types
    <3> QED
      BY <1>2, <2>1, <2>2, <3>1, FullTimeWinner DEF BornOut
  <2>3. CASE market[f].authority # "admin"
    BY <2>1, <2>3 DEF BornOut
  <2> QED
    BY <2>2, <2>3
<1> QED
  BY <1>3, <1>6, <1>7, <1>8 DEF Resolved

-----------------------------------------------------------------------------
(****************************************************************************)
(* What a step may do to what others rely on and have reported              *)
(****************************************************************************)
Onward ==
  /\ now <= now'
  /\ \A f \in Fixtures :
       /\ market[f].status # "NotCreated" => market'[f].status # "NotCreated"
       /\ Settled(f) => market'[f] = market[f]
       /\ Len(feed[f]) <= Len(feed'[f])
       /\ \A i \in 1 .. Len(feed[f]) : feed'[f][i] = feed[f][i]

LEMMA StillWellFounded ==
  ASSUME Types, Onward, NEW f \in Fixtures, Len(feed'[f]) \in Nat
  PROVE  Resolutions(f) \subseteq Resolutions(f)'
<1>1. Len(feed[f]) \in Nat
  BY DEF Types
<1> QED
  BY <1>1 DEF Resolutions, ResolveTx, Onward

LEMMA StillRelies ==
  ASSUME IInv, Types', Onward, NEW q \in Passes, pass'[q] = pass[q]
  PROVE  Relies(q)'
<1>1. Relies(q) /\ pass[q] \in Locals
  BY DEF IInv, Types
<1>2. now \in Int /\ now' \in Int /\ now <= now'
  BY DEF IInv, Types, Onward
<1>3. \A f \in Fixtures : /\ Len(feed[f]) \in Nat /\ Len(feed'[f]) \in Nat
                          /\ 1 .. Len(feed[f]) \subseteq 1 .. Len(feed'[f])
                          /\ Resolutions(f) \subseteq Resolutions(f)'
                          /\ Settled(f) => Settled(f)'
  BY StillWellFounded DEF Onward, IInv, Types, Settled
<1>4. pass'[q].started \in -1 .. now'
  <2>1. pass[q].started \in -1 .. now
    BY <1>1 DEF Relies
  <2> QED
    BY <1>2, <2>1
<1>5. /\ pass[q].at = "proving" => pass[q].seq \in 1 .. Len(feed'[pass[q].fixture])
      /\ pass[q].at = "resolving" => pass[q].tx \in Resolutions(pass[q].fixture)'
  BY <1>1, <1>3 DEF Relies
<1>6. /\ pass[q].at \in {"waiting", "status"} => market'[pass[q].about].status # "NotCreated"
      /\ pass[q].at = "status" => pass[q].seq \in 1 .. Len(feed'[pass[q].about])
      /\ pass[q].at = "reading back" => Settled(pass[q].about)'
  BY <1>1, <1>3 DEF Relies, Onward
<1> QED
  BY <1>1, <1>4, <1>5, <1>6 DEF Relies, Creations

ToldTrue(p) ==
  pass[p].told # NoReport =>
    LET f == pass[p].about IN
    Settled(f) /\ pass[p].told = [status |-> market[f].status, winner |-> market[f].winner]

LEMMA StillTold ==
  ASSUME Onward, NEW q \in Passes, ToldTrue(q),
         pass[q].about \in Fixtures, pass'[q].about = pass[q].about, pass'[q].told = pass[q].told
  PROVE  ToldTrue(q)'
<1>1. CASE pass[q].told # NoReport
  <2>1. Settled(pass[q].about) /\ market'[pass[q].about] = market[pass[q].about]
    BY <1>1 DEF ToldTrue, Onward
  <2> QED
    BY <1>1, <2>1 DEF ToldTrue, Settled
<1>2. CASE pass[q].told = NoReport
  BY <1>2 DEF ToldTrue
<1> QED
  BY <1>1, <1>2

LEMMA StillTrue ==
  ASSUME IInv, Onward, NEW q \in Passes, pass'[q] = pass[q]
  PROVE  /\ \A f \in pass'[q].created : market'[f].status # "NotCreated"
         /\ \A f \in pass'[q].resolved : Settled(f)'
         /\ ToldTrue(q)'
<1>1. /\ \A f \in pass[q].created : f \in Fixtures /\ market[f].status # "NotCreated"
      /\ \A f \in pass[q].resolved : f \in Fixtures /\ Settled(f)
  BY DEF IInv, Types, Locals, Places, ReportsAreTrue
<1>2. ToldTrue(q)'
  <2>1. ToldTrue(q) /\ Relies(q)
    BY DEF IInv, ReportsAreTrue, ToldTrue
  <2>2. CASE pass[q].told # NoReport
    BY <2>1, <2>2, StillTold DEF Relies
  <2>3. CASE pass[q].told = NoReport
    BY <2>3 DEF ToldTrue
  <2> QED
    BY <2>2, <2>3
<1> QED
  BY <1>1, <1>2 DEF Settled, Onward

\* The program, TxODDS or the clock moves on.
LEMMA WorldMoves ==
  ASSUME IInv, Types', Onward, VerdictIsFullTime', UNCHANGED pass
  PROVE  IInv'
<1>1. \A q \in Passes : Relies(q)'
  BY StillRelies
<1>2. \A q \in Passes : /\ \A f \in pass'[q].created : market'[f].status # "NotCreated"
                        /\ \A f \in pass'[q].resolved : Settled(f)'
                        /\ ToldTrue(q)'
  BY StillTrue
<1>3. ReportsAreTrue'
  BY <1>2 DEF IInv, ReportsAreTrue, ToldTrue
<1> QED
  BY <1>1, <1>3 DEF IInv

\* A pass moves on, and claims no change but one that this step has made.
NewlyCreated  == {f \in Fixtures : market[f].status = "NotCreated" /\ market'[f].status # "NotCreated"}
NewlyResolved == {f \in Fixtures : market[f].status = "Open" /\ market'[f].status \in {"Resolved", "Refunded"}}

LEMMA PassMoves ==
  ASSUME IInv, Types', Onward, VerdictIsFullTime', NEW p \in Passes,
         \A q \in Passes \ {p} : pass'[q] = pass[q],
         Relies(p)',
         pass'[p].created \subseteq pass[p].created \cup NewlyCreated,
         pass'[p].resolved \subseteq pass[p].resolved \cup NewlyResolved,
         ToldTrue(p)'
  PROVE  IInv'
<1>1. \A q \in Passes : Relies(q)'
  BY StillRelies
<1>2. ASSUME NEW q \in Passes
      PROVE  /\ \A f \in pass[q].created : f \in Fixtures /\ market[f].status # "NotCreated"
             /\ \A f \in pass[q].resolved : f \in Fixtures /\ Settled(f)
  BY <1>2 DEF IInv, Types, Locals, Places, ReportsAreTrue
<1>3. ASSUME NEW q \in Passes
      PROVE  /\ \A f \in pass'[q].created : market'[f].status # "NotCreated"
             /\ \A f \in pass'[q].resolved : Settled(f)'
             /\ ToldTrue(q)'
  <2>1. CASE q # p
    BY <2>1, StillTrue
  <2>2. CASE q = p
    BY <1>2, <2>2 DEF NewlyCreated, NewlyResolved, Onward, Settled
  <2> QED
    BY <2>1, <2>2
<1>4. ASSUME NEW q \in Passes, NEW r \in Passes \ {q}
      PROVE  /\ pass'[q].created \cap pass'[r].created = {}
             /\ pass'[q].resolved \cap pass'[r].resolved = {}
  <2>1. /\ pass[q].created \cap pass[r].created = {}
        /\ pass[q].resolved \cap pass[r].resolved = {}
    BY <1>4 DEF IInv, ReportsAreTrue
  <2> QED
    BY <1>2, <1>4, <2>1 DEF NewlyCreated, NewlyResolved, Settled
<1>5. ReportsAreTrue'
  BY <1>3, <1>4 DEF ReportsAreTrue, ToldTrue
<1> QED
  BY <1>1, <1>5 DEF IInv

-----------------------------------------------------------------------------
\* One market is created, settled or cancelled.
Moves(f) == OnlyMarket(f) /\ (Created(f) \/ Resolved(f) \/ Cancelled(f))

LEMMA MarketMoves ==
  ASSUME IInv, NEW f \in Fixtures, Moves(f), UNCHANGED <<txodds, now>>
  PROVE  /\ market' \in [Fixtures -> Markets]
         /\ \A g \in Fixtures :
              /\ market'[g].status = "NotCreated" => market'[g].winner = 0
              /\ market'[g].authority = "admin" => market'[g].predicates = FullTime1X2
         /\ Onward /\ VerdictIsFullTime'
<1>1. /\ market' \in [Fixtures -> Markets] /\ feed' = feed /\ now' = now
      /\ \A g \in Fixtures \ {f} : market'[g] = market[g]
  BY DEF Moves, OnlyMarket, txodds
<1>2. \A g \in Fixtures :
        /\ market'[g].status = "NotCreated" => market'[g].winner = 0
        /\ market'[g].authority = "admin" => market'[g].predicates = FullTime1X2
  BY <1>1 DEF Moves, Created, Resolved, Cancelled, Kept, IInv, Types
<1>3. now <= now' /\ \A g \in Fixtures : Len(feed[g]) <= Len(feed'[g])
  BY <1>1 DEF IInv, Types
<1>4. Onward
  BY <1>1, <1>3 DEF Onward, Moves, Created, Resolved, Cancelled, Settled
<1>5. VerdictIsFullTime'
  <2> SUFFICES ASSUME NEW g \in Fixtures, market'[g].status = "Resolved"
               PROVE  /\ now' >= market'[g].close
                      /\ \E i \in 1 .. Len(feed'[g]) :
                           BornOut(market'[g].authority, market'[g].predicates,
                                   market'[g].winner, feed'[g][i])
    BY DEF VerdictIsFullTime, BornOut
  <2>1. CASE g = f
    BY <1>1, <2>1 DEF Moves, Created, Resolved, Cancelled, Kept
  <2>2. CASE g # f
    BY <1>1, <2>2 DEF IInv, VerdictIsFullTime, BornOut
  <2> QED
    BY <2>1, <2>2
<1> QED
  BY <1>1, <1>2, <1>4, <1>5

LEMMA RelayersToo ==
  ASSUME Types, NEW f \in Fixtures
  PROVE  Creations(f) \subseteq AllCreations(f) /\ Resolutions(f) \subseteq AllResolutions(f)
<1>1. Creations(f) \subseteq AllCreations(f)
  BY DEF AllCreations
<1>2. ASSUME NEW tx \in Resolutions(f) PROVE tx \in AllResolutions(f)
  <2>1. PICK w \in Outcomes, i \in 1 .. Len(feed[f]) : tx = ResolveTx(f, w, feed[f][i])
    BY DEF Resolutions
  <2> DEFINE event == feed[f][i]
             stats == <<<<HOME_KEY, event.period>>, <<AWAY_KEY, event.period>>>>
  <2>2. stats \in (DOMAIN Score(event)) \X (DOMAIN Score(event))
    BY DEF Score
  <2> HIDE DEF event
  <2>3. tx = [ResolveTx(f, w, event) EXCEPT !.stats = stats]
    BY <2>1 DEF ResolveTx, event
  <2> HIDE DEF stats
  <2>4. tx \in OtherProofs(f, event)
    BY <2>2, <2>3 DEF OtherProofs
  <2> USE DEF event
  <2> QED
    BY <2>4 DEF AllResolutions
<1> QED
  BY <1>1, <1>2

LEMMA ExecuteMoves ==
  ASSUME IInv, NEW f \in Fixtures, NEW tx \in AllCreations(f) \cup AllResolutions(f), Execute(tx)
  PROVE  Moves(f)
BY ExecuteCreates, ExecuteResolves DEF IInv, Moves

LEMMA RelayerMoves ==
  ASSUME IInv, NEW f \in Fixtures, NEW tx \in Creations(f) \cup Resolutions(f), Execute(tx)
  PROVE  Moves(f)
BY ExecuteMoves, RelayersToo DEF IInv

-----------------------------------------------------------------------------
(****************************************************************************)
(* The steps of the program, of TxODDS and of the clock                     *)
(****************************************************************************)
LEMMA StillTyped ==
  ASSUME IInv, Onward, feed' \in [Fixtures -> Seq(Events)],
         NEW tx, WellFounded(tx)
  PROVE  WellFounded(tx)'
BY StillWellFounded DEF IInv, WellFounded, Creations

LEMMA LandLateStep ==
  ASSUME IInv, NEW tx \in orphans, LandLate(tx)
  PROVE  IInv'
<1>1. PICK f \in Fixtures : tx \in Creations(f) \cup Resolutions(f)
  BY DEF IInv, Types, WellFounded
<1>2. CASE Execute(tx)
  <2>1. /\ market' \in [Fixtures -> Markets] /\ Onward /\ VerdictIsFullTime'
        /\ \A g \in Fixtures :
             /\ market'[g].status = "NotCreated" => market'[g].winner = 0
             /\ market'[g].authority = "admin" => market'[g].predicates = FullTime1X2
    BY <1>1, <1>2, RelayerMoves, MarketMoves DEF LandLate
  <2>2. Types'
    BY <2>1, StillTyped DEF IInv, Types, LandLate, txodds
  <2> QED
    BY <2>1, <2>2, WorldMoves DEF LandLate
<1>3. CASE UNCHANGED market
  <2>1. Onward /\ VerdictIsFullTime'
    BY <1>3 DEF LandLate, IInv, Types, Onward, VerdictIsFullTime, txodds
  <2>2. Types'
    BY <1>3, <2>1, StillTyped DEF IInv, Types, LandLate, txodds
  <2> QED
    BY <2>1, <2>2, WorldMoves DEF LandLate
<1> QED
  BY <1>2, <1>3 DEF LandLate

LEMMA OthersMoves ==
  ASSUME IInv, NEW f \in Fixtures, Others(f)
  PROVE  Moves(f)
<1>1. CASE \E tx \in OtherMarkets(f) : Execute(tx)
  BY <1>1, ExecuteMoves DEF AllCreations
<1>2. CASE \E i \in 1 .. Len(feed[f]) : \E tx \in OtherProofs(f, feed[f][i]) : Execute(tx)
  BY <1>2, ExecuteMoves DEF AllResolutions
<1>3. CASE /\ market[f].status = "Open"
           /\ market' = [market EXCEPT ![f].status = "Refunded"]
  BY <1>3 DEF Moves, OnlyMarket, Cancelled, Kept, IInv, Types, Markets, Statuses
<1> QED
  BY <1>1, <1>2, <1>3 DEF Others

LEMMA OthersStep ==
  ASSUME IInv, NEW f \in Fixtures, Others(f)
  PROVE  IInv'
<1>1. Moves(f)
  BY OthersMoves
<1>2. /\ market' \in [Fixtures -> Markets] /\ Onward /\ VerdictIsFullTime'
      /\ \A g \in Fixtures :
           /\ market'[g].status = "NotCreated" => market'[g].winner = 0
           /\ market'[g].authority = "admin" => market'[g].predicates = FullTime1X2
  BY <1>1, MarketMoves DEF Others
<1>3. Types'
  BY <1>2, StillTyped DEF IInv, Types, Others, txodds
<1> QED
  BY <1>2, <1>3, WorldMoves DEF Others

LEMMA PublishStep ==
  ASSUME IInv, NEW f \in Fixtures, NEW event \in Events, Publish(f, event)
  PROVE  IInv'
<1>1. /\ feed' \in [Fixtures -> Seq(Events)] /\ UNCHANGED <<market, orphans, now, pass, failures, start>>
      /\ \A g \in Fixtures : /\ Len(feed[g]) \in Nat /\ Len(feed'[g]) \in Nat
                             /\ Len(feed[g]) <= Len(feed'[g])
                             /\ \A i \in 1 .. Len(feed[g]) : feed'[g][i] = feed[g][i]
  BY DEF Publish, IInv, Types, chain
<1>2. Onward /\ now \in Int
  BY <1>1 DEF Onward, IInv, Types
<1>3. VerdictIsFullTime'
  <2>1. \A g \in Fixtures : 1 .. Len(feed[g]) \subseteq 1 .. Len(feed'[g])
    BY <1>1
  <2>2. ASSUME NEW g \in Fixtures, market[g].status = "Resolved"
        PROVE  /\ now >= market[g].close
               /\ \E i \in 1 .. Len(feed'[g]) :
                    BornOut(market[g].authority, market[g].predicates, market[g].winner, feed'[g][i])
    <3>1. PICK i \in 1 .. Len(feed[g]) :
            BornOut(market[g].authority, market[g].predicates, market[g].winner, feed[g][i])
      BY <2>2 DEF IInv, VerdictIsFullTime, BornOut
    <3>2. i \in 1 .. Len(feed'[g]) /\ feed'[g][i] = feed[g][i]
      BY <1>1, <2>1
    <3>3. now >= market[g].close
      BY <2>2 DEF IInv, VerdictIsFullTime
    <3> QED
      BY <3>1, <3>2, <3>3
  <2> QED
    BY <1>1, <2>2 DEF VerdictIsFullTime, BornOut
<1>4. Types'
  BY <1>1, <1>2, StillTyped DEF IInv, Types
<1> QED
  BY <1>1, <1>2, <1>3, <1>4, WorldMoves

LEMMA MoveStep ==
  ASSUME IInv, NEW f \in Fixtures, Move(f)
  PROVE  IInv'
<1>1. /\ start' \in [Fixtures -> Nat] /\ UNCHANGED <<market, orphans, feed, now, pass, failures>>
  BY FixturesAssumption DEF Move, IInv, Types, chain
<1>2. Onward /\ VerdictIsFullTime'
  BY <1>1 DEF Onward, IInv, Types, VerdictIsFullTime
<1>3. Types'
  BY <1>1, <1>2, StillTyped DEF IInv, Types
<1> QED
  BY <1>1, <1>2, <1>3, WorldMoves

LEMMA TickStep ==
  ASSUME IInv, Tick
  PROVE  IInv'
<1>1. /\ now \in Nat /\ now' = now + 1 /\ now' \in 0 .. MaxTime
      /\ UNCHANGED <<market, orphans, start, feed, pass, failures>>
  <2>1. MaxTime \in Nat
    BY FixturesAssumption
  <2> QED
    BY <2>1 DEF Tick, IInv, Types, chain, txodds
<1>2. Onward
  BY <1>1 DEF Onward, IInv, Types
<1>3. VerdictIsFullTime'
  <2>1. \A f \in Fixtures : market[f].close \in Nat
    BY DEF IInv, Types, Markets
  <2> QED
    BY <1>1, <2>1 DEF IInv, VerdictIsFullTime
<1>4. Types'
  BY <1>1, <1>2, StillTyped DEF IInv, Types
<1> QED
  BY <1>1, <1>2, <1>3, <1>4, WorldMoves

-----------------------------------------------------------------------------
(****************************************************************************)
(* The steps of a pass or a script                                          *)
(****************************************************************************)
OnlyPass(p) == pass' \in [Passes -> Locals] /\ \A q \in Passes \ {p} : pass'[q] = pass[q]

\* What a pass or a script is about, and what it has reported.
Continues(p, local) ==
  /\ local.started = pass[p].started /\ local.script = pass[p].script
  /\ local.about = pass[p].about /\ local.told = pass[p].told
  /\ local.created = pass[p].created /\ local.resolved = pass[p].resolved

LEMMA FailuresAreBounded ==
  ASSUME failures \in 0 .. MaxFailures, UNCHANGED failures \/ Fails
  PROVE  failures' \in 0 .. MaxFailures
<1>1. MaxFailures \in Nat
  BY FixturesAssumption
<1> QED
  BY <1>1 DEF Fails

LEMMA Replaces ==
  ASSUME IInv, NEW p \in Passes, NEW local \in Locals, pass' = [pass EXCEPT ![p] = local]
  PROVE  OnlyPass(p) /\ pass'[p] = local
BY DEF OnlyPass, IInv, Types

\* A step that changes nothing but the locals of p, and maybe gives up a transaction.
LEMMA QuietStep ==
  ASSUME IInv, NEW p \in Passes, OnlyPass(p), UNCHANGED <<market, txodds, now>>,
         UNCHANGED failures \/ Fails,
         \A tx \in orphans' : WellFounded(tx),
         Relies(p)', ToldTrue(p)',
         pass'[p].created \subseteq pass[p].created, pass'[p].resolved \subseteq pass[p].resolved
  PROVE  IInv'
<1>1. failures' \in 0 .. MaxFailures
  BY FailuresAreBounded DEF IInv, Types
<1>2. Onward
  BY DEF Onward, IInv, Types, txodds
<1>3. VerdictIsFullTime'
  BY DEF IInv, VerdictIsFullTime, txodds
<1>4. \A tx \in orphans' : WellFounded(tx)'
  BY <1>2, StillTyped DEF IInv, Types, txodds
<1>5. Types'
  BY <1>1, <1>4 DEF IInv, Types, OnlyPass, txodds
<1> QED
  BY <1>2, <1>3, <1>5, PassMoves DEF OnlyPass

LEMMA AtRestIsTyped == AtRest \in Locals
<1>1. <<>> \in [{} -> Nat]
  OBVIOUS
<1>2. <<>> \in Schedules
  BY <1>1 DEF Schedules
<1> QED
  BY <1>2 DEF AtRest, Locals, Places, NoReport, Outcomes, MAX_OUTCOMES

\* The step of a loop over the fixtures.
LEMMA ContinueStep ==
  ASSUME IInv, NEW p \in Passes, NEW local \in Locals, Continue(p, local), Continues(p, local),
         UNCHANGED <<market, txodds, now>>, UNCHANGED failures \/ Fails,
         \A tx \in orphans' : WellFounded(tx)
  PROVE  IInv'
<1>1. OnlyPass(p) /\ pass'[p].at = "next" /\ Continues(p, pass'[p])
  BY DEF Continue, Continues, OnlyPass, IInv, Types, Locals, Places
<1>2. Relies(p) /\ ToldTrue(p)
  BY DEF IInv, ReportsAreTrue, ToldTrue
<1>3. Relies(p)'
  BY <1>1, <1>2 DEF Relies, Continues
<1>4. ToldTrue(p)'
  BY <1>1, <1>2 DEF ToldTrue, Continues, Settled
<1> QED
  BY <1>1, <1>3, <1>4, QuietStep DEF Continues

\* The step to the next await.
LEMMA AwaitStep ==
  ASSUME IInv, NEW p \in Passes, OnlyPass(p), Continues(p, pass'[p]), Relies(p)',
         UNCHANGED <<chain, txodds, now>>, UNCHANGED failures \/ Fails
  PROVE  IInv'
<1>1. Relies(p) /\ ToldTrue(p)
  BY DEF IInv, ReportsAreTrue, ToldTrue
<1>2. ToldTrue(p)'
  BY <1>1 DEF ToldTrue, Continues, Settled, chain
<1>3. \A tx \in orphans' : WellFounded(tx)
  BY DEF IInv, Types, chain
<1> QED
  BY <1>2, <1>3, QuietStep DEF Continues, chain

LEMMA BeginStep ==
  ASSUME IInv, NEW p \in Passes, Begin(p) \/ StartWatch(p)
  PROVE  IInv'
<1>1. now \in Int /\ now \in -1 .. now
  BY DEF IInv, Types
<1>2. /\ OnlyPass(p)
      /\ pass'[p] = [AtRest EXCEPT !.at = "listing", !.started = now]
  <2>1. pass' = [pass EXCEPT ![p] = [AtRest EXCEPT !.at = "listing", !.started = now]]
    BY DEF Begin, StartWatch, Started
  <2>2. [AtRest EXCEPT !.at = "listing", !.started = now] \in Locals
    BY <1>1, AtRestIsTyped DEF Locals, Places
  <2> QED
    BY <2>1, <2>2, Replaces
<1>3. /\ pass'[p].at = "listing" /\ pass'[p].started = now /\ pass'[p].script = "sync"
      /\ pass'[p].told = NoReport /\ pass'[p].created = {} /\ pass'[p].resolved = {}
  BY <1>2 DEF AtRest
<1>4. Relies(p)' /\ ToldTrue(p)'
  BY <1>1, <1>3 DEF Relies, ToldTrue, Begin, StartWatch
<1>5. \A tx \in orphans' : WellFounded(tx)
  BY DEF Begin, StartWatch, chain, IInv, Types
<1> QED
  BY <1>2, <1>3, <1>4, <1>5, QuietStep DEF Begin, StartWatch, chain

LEMMA ListFixturesStep ==
  ASSUME IInv, NEW p \in Passes, ListFixtures(p)
  PROVE  IInv'
<1>1. [f \in Listed |-> start[f]] \in Schedules
  <2>1. [f \in Listed |-> start[f]] \in [Listed -> Nat] /\ Listed \in SUBSET Fixtures
    BY DEF Listed, IInv, Types
  <2> QED
    BY <2>1 DEF Schedules
<1>2. PICK local : /\ pass' = [pass EXCEPT ![p] = local]
                   /\ \/ local = [pass[p] EXCEPT !.at = "next", !.todo = [f \in Listed |-> start[f]]]
                      \/ local = [pass[p] EXCEPT !.at = "idle"]
  BY DEF ListFixtures, IInv, Types
<1>3. local \in Locals /\ Continues(p, local) /\ local.at \in {"next", "idle"}
  <2>1. pass[p] \in Locals
    BY DEF IInv, Types
  <2>2. CASE local = [pass[p] EXCEPT !.at = "next", !.todo = [f \in Listed |-> start[f]]]
    BY <1>1, <2>1, <2>2 DEF Locals, Places, Continues
  <2>3. CASE local = [pass[p] EXCEPT !.at = "idle"]
    BY <2>1, <2>3 DEF Locals, Places, Continues
  <2> QED
    BY <1>2, <2>2, <2>3
<1>4. OnlyPass(p) /\ pass'[p] = local
  BY <1>2, <1>3, Replaces
<1>5. Relies(p)'
  BY <1>3, <1>4 DEF Relies, Continues, ListFixtures, IInv
<1> QED
  BY <1>3, <1>4, <1>5, AwaitStep DEF ListFixtures

LEMMA ReturnStep ==
  ASSUME IInv, NEW p \in Passes, Return(p)
  PROVE  IInv'
<1>1. PICK local : /\ pass' = [pass EXCEPT ![p] = local]
                   /\ local = [pass[p] EXCEPT !.at = "idle", !.errors = {}]
  BY DEF Return, IInv, Types
<1>2. local \in Locals /\ Continues(p, local) /\ local.at = "idle"
  <2>1. pass[p] \in Locals
    BY DEF IInv, Types
  <2> QED
    BY <1>1, <2>1 DEF Locals, Places, Continues
<1>3. OnlyPass(p) /\ pass'[p] = local
  BY <1>1, <1>2, Replaces
<1>4. Relies(p)'
  BY <1>2, <1>3 DEF Relies, Continues, Return, IInv
<1> QED
  BY <1>2, <1>3, <1>4, AwaitStep DEF Return

LEMMA SchedulesShrink ==
  ASSUME NEW todo \in Schedules, NEW f
  PROVE  /\ [g \in DOMAIN todo \ {f} |-> todo[g]] \in Schedules
         /\ DOMAIN todo \subseteq Fixtures /\ (f \in DOMAIN todo => todo[f] \in Nat)
<1>1. PICK S \in SUBSET Fixtures : todo \in [S -> Nat]
  BY DEF Schedules
<1>2. [g \in S \ {f} |-> todo[g]] \in [S \ {f} -> Nat]
  BY <1>1
<1> QED
  BY <1>1, <1>2 DEF Schedules

LEMMA CheckMarketStep ==
  ASSUME IInv, NEW p \in Passes, NEW f \in DOMAIN pass[p].todo, CheckMarket(p, f),
         pass[p].at = "next"
  PROVE  IInv'
<1> DEFINE rest == [pass[p] EXCEPT !.todo = [g \in DOMAIN @ \ {f} |-> @[g]], !.fixture = f]
           tx   == CreateTx(f, pass[p].todo[f])
<1>1. pass[p] \in Locals /\ Relies(p) /\ pass[p].todo \in Schedules
  BY DEF IInv, Types, Locals, Places
<1>2. f \in Fixtures /\ pass[p].todo[f] \in Nat
  BY <1>1, SchedulesShrink
<1>3. rest \in Locals /\ Continues(p, rest) /\ rest.fixture = f
  BY <1>1, <1>2, SchedulesShrink DEF Locals, Places, Continues
<1>4. tx \in Creations(f) /\ tx \in Transactions
  BY <1>2 DEF Creations, CreateTx, Transactions
<1> HIDE DEF rest, tx
<1>5. CASE Continue(p, rest) /\ UNCHANGED failures
  BY <1>3, <1>5, ContinueStep DEF CheckMarket, chain, IInv, Types
<1>6. ASSUME NEW local \in Locals, pass' = [pass EXCEPT ![p] = local], Continues(p, local),
             local.at \in {"creating", "sequencing", "idle"},
             local.at # "idle" => local.fixture = f,
             local.at = "creating" => local.tx = tx,
             UNCHANGED failures \/ Fails
      PROVE  IInv'
  <2>1. OnlyPass(p) /\ pass'[p] = local
    BY <1>6, Replaces
  <2>2. UNCHANGED <<chain, txodds, now>>
    BY DEF CheckMarket
  <2>3. Creations(f)' = Creations(f)
    BY DEF Creations, FullTime1X2, build1X2Predicates
  <2>4. Relies(p)'
    <3>1. pass'[p].at = "creating" => pass'[p].fixture = f /\ pass'[p].tx = tx
      BY <1>6, <2>1
    <3>2. (pass[p].at = "creating" => pass[p].tx \in Creations(pass[p].fixture))'
      BY <1>4, <2>3, <3>1
    <3> QED
      BY <1>1, <1>2, <1>6, <2>1, <2>2, <3>2 DEF Relies, Continues
  <2> QED
    BY <1>6, <2>1, <2>2, <2>4, AwaitStep
<1>7. CASE /\ pass' = [pass EXCEPT ![p] = [rest EXCEPT !.at = "creating", !.tx = tx]]
           /\ UNCHANGED failures
  <2> DEFINE local == [rest EXCEPT !.at = "creating", !.tx = tx]
  <2>1. local \in Locals /\ Continues(p, local)
    BY <1>3, <1>4 DEF Locals, Places, Continues
  <2>2. local.at = "creating" /\ local.fixture = f /\ local.tx = tx
    BY <1>3 DEF Locals, Places
  <2> QED
    BY <1>6, <1>7, <2>1, <2>2
<1>8. CASE pass' = [pass EXCEPT ![p] = [rest EXCEPT !.at = "sequencing"]] /\ UNCHANGED failures
  <2> DEFINE local == [rest EXCEPT !.at = "sequencing"]
  <2>1. local \in Locals /\ Continues(p, local)
    BY <1>3 DEF Locals, Places, Continues
  <2>2. local.at = "sequencing" /\ local.fixture = f
    BY <1>3 DEF Locals, Places
  <2> QED
    BY <1>6, <1>8, <2>1, <2>2
<1>9. CASE /\ pass' = [pass EXCEPT ![p] = [rest EXCEPT !.at = "idle", !.todo = <<>>,
                                                      !.fixture = NoFixture, !.errors = {}]]
           /\ Fails
  <2> DEFINE local == [rest EXCEPT !.at = "idle", !.todo = <<>>,
                                   !.fixture = NoFixture, !.errors = {}]
  <2>1. <<>> \in Schedules
    BY AtRestIsTyped DEF AtRest, Locals, Places
  <2>2. local \in Locals /\ Continues(p, local) /\ local.at = "idle"
    BY <1>3, <2>1 DEF Locals, Places, Continues
  <2> QED
    BY <1>6, <1>9, <2>2
<1> QED
  BY <1>5, <1>7, <1>8, <1>9 DEF CheckMarket, rest, tx

LEMMA LatestSeqStep ==
  ASSUME IInv, NEW p \in Passes, LatestSeq(p)
  PROVE  IInv'
<1>1. pass[p] \in Locals /\ Relies(p) /\ pass[p].fixture \in Fixtures
  BY DEF IInv, Types, Relies, LatestSeq
<1>2. CASE Continue(p, pass[p])
  <2>1. Continues(p, pass[p])
    BY DEF Continues
  <2> QED
    BY <1>1, <1>2, <2>1, ContinueStep DEF LatestSeq, chain, IInv, Types
<1>3. CASE /\ feed[pass[p].fixture] # <<>>
           /\ pass' = [pass EXCEPT ![p].at = "proving", ![p].seq = Len(feed[pass[p].fixture])]
           /\ UNCHANGED failures
  <2>1. PICK local : /\ pass' = [pass EXCEPT ![p] = local]
                     /\ local = [pass[p] EXCEPT !.at = "proving", !.seq = Len(feed[pass[p].fixture])]
    BY <1>3 DEF IInv, Types
  <2>2. Len(feed[pass[p].fixture]) \in 1 .. Len(feed[pass[p].fixture])
    BY <1>1, <1>3 DEF IInv, Types
  <2>3. /\ local \in Locals /\ Continues(p, local)
        /\ local.at = "proving" /\ local.fixture = pass[p].fixture
        /\ local.seq \in 1 .. Len(feed[local.fixture])
    <3>1. Len(feed[pass[p].fixture]) \in Nat
      BY <2>2
    <3>2. local \in Locals /\ Continues(p, local)
      BY <1>1, <2>1, <3>1 DEF Locals, Places, Continues
    <3>3. /\ local.at = "proving" /\ local.fixture = pass[p].fixture
          /\ local.seq = Len(feed[pass[p].fixture])
      BY <1>1, <2>1 DEF Locals, Places
    <3> QED
      BY <2>2, <3>2, <3>3
  <2>4. OnlyPass(p) /\ pass'[p] = local
    BY <2>1, <2>3, Replaces
  <2>5. Relies(p)'
    BY <1>1, <2>3, <2>4 DEF Relies, Continues, LatestSeq, txodds
  <2> QED
    BY <1>3, <2>3, <2>4, <2>5, AwaitStep DEF LatestSeq
<1> QED
  BY <1>2, <1>3 DEF LatestSeq

\* A fixture whose step has thrown.
LEMMA ErrorStep ==
  ASSUME IInv, NEW p \in Passes, Error(p), pass[p].fixture \in Fixtures,
         UNCHANGED <<market, txodds, now>>, UNCHANGED failures \/ Fails,
         \A tx \in orphans' : WellFounded(tx)
  PROVE  IInv'
<1> DEFINE local == [pass[p] EXCEPT !.errors = @ \cup {pass[p].fixture}]
<1>1. pass[p] \in Locals
  BY DEF IInv, Types
<1>2. local \in Locals /\ Continues(p, local)
  BY <1>1 DEF Locals, Places, Continues
<1> QED
  BY <1>2, ContinueStep DEF Error

LEMMA FetchProofStep ==
  ASSUME IInv, NEW p \in Passes, FetchProof(p)
  PROVE  IInv'
<1> DEFINE f     == pass[p].fixture
           event == feed[f][pass[p].seq]
           tx    == ResolveTx(f, Winning(event), event)
<1>1. /\ pass[p] \in Locals /\ Relies(p) /\ f \in Fixtures
      /\ pass[p].seq \in 1 .. Len(feed[f]) /\ pass[p].at = "proving"
  BY DEF IInv, Types, Relies, FetchProof
<1>2. CASE Error(p) /\ Fails
  BY <1>1, <1>2, ErrorStep DEF FetchProof, chain, IInv, Types
<1>3. CASE /\ pass' = [pass EXCEPT ![p].at = "resolving", ![p].tx = tx]
           /\ UNCHANGED failures
  <2>1. event \in Events
    BY <1>1 DEF IInv, Types
  <2>2. Winning(event) \in Outcomes
    <3>1. event.goals[1] \in Nat /\ event.goals[2] \in Nat
      BY <2>1, FixturesAssumption DEF Events
    <3> QED
      BY <3>1 DEF Winning, Outcomes, MAX_OUTCOMES
  <2>3. tx \in Resolutions(f)
    BY <1>1, <2>2 DEF Resolutions
  <2>4. tx \in Transactions
    BY <1>1, <2>1, <2>2 DEF Transactions
  <2> HIDE DEF tx
  <2>5. PICK local : /\ pass' = [pass EXCEPT ![p] = local]
                     /\ local = [pass[p] EXCEPT !.at = "resolving", !.tx = tx]
    BY <1>3 DEF IInv, Types
  <2>6. /\ local \in Locals /\ Continues(p, local)
        /\ local.at = "resolving" /\ local.fixture = f /\ local.tx = tx
    BY <1>1, <2>4, <2>5 DEF Locals, Places, Continues
  <2>7. OnlyPass(p) /\ pass'[p] = local
    BY <2>5, <2>6, Replaces
  <2>8. ASSUME NEW g \in Fixtures PROVE Resolutions(g)' = Resolutions(g)
    BY DEF Resolutions, FetchProof, txodds
  <2>9. Relies(p)'
    <3>1. (pass[p].tx \in Resolutions(pass[p].fixture))'
      BY <1>1, <2>3, <2>6, <2>7, <2>8
    <3> QED
      BY <1>1, <2>6, <2>7, <3>1 DEF Relies, Continues, FetchProof
  <2> QED
    BY <1>3, <2>6, <2>7, <2>9, AwaitStep DEF FetchProof
<1> QED
  BY <1>2, <1>3 DEF FetchProof

\* The transaction that a pass waits for is one that the program may be sent.
LEMMA SendsWellFounded ==
  ASSUME IInv, NEW p \in Passes, pass[p].at \in {"creating", "resolving"}
  PROVE  /\ pass[p].fixture \in Fixtures
         /\ pass[p].at = "creating" => pass[p].tx \in Creations(pass[p].fixture)
         /\ pass[p].at = "resolving" => pass[p].tx \in Resolutions(pass[p].fixture)
         /\ WellFounded(pass[p].tx)
BY DEF IInv, Relies, WellFounded

LEMMA ConfirmedStep ==
  ASSUME IInv, NEW p \in Passes, Confirmed(p)
  PROVE  IInv'
<1> DEFINE f  == pass[p].fixture
           tx == pass[p].tx
<1>1. /\ pass[p] \in Locals /\ Relies(p) /\ ToldTrue(p)
      /\ pass[p].at \in {"creating", "resolving"} /\ f \in Fixtures
      /\ UNCHANGED <<orphans, feed, now, start, failures>> /\ Execute(tx)
  BY SendsWellFounded DEF IInv, Types, ReportsAreTrue, ToldTrue, Confirmed, txodds
<1>2. Moves(f)
  BY <1>1, SendsWellFounded, RelayerMoves
<1>3. /\ market' \in [Fixtures -> Markets] /\ Onward /\ VerdictIsFullTime'
      /\ \A g \in Fixtures :
           /\ market'[g].status = "NotCreated" => market'[g].winner = 0
           /\ market'[g].authority = "admin" => market'[g].predicates = FullTime1X2
  BY <1>1, <1>2, MarketMoves DEF txodds
<1>4. ASSUME NEW local \in Locals, Continue(p, local),
             local.started = pass[p].started, local.script = pass[p].script,
             local.about = pass[p].about, local.told = pass[p].told,
             local.created \subseteq pass[p].created \cup NewlyCreated,
             local.resolved \subseteq pass[p].resolved \cup NewlyResolved
      PROVE  IInv'
  <2>2. /\ OnlyPass(p) /\ pass'[p].at = "next"
        /\ pass'[p].started = pass[p].started /\ pass'[p].script = pass[p].script
        /\ pass'[p].about = pass[p].about /\ pass'[p].told = pass[p].told
        /\ pass'[p].created = local.created /\ pass'[p].resolved = local.resolved
    BY <1>4 DEF Continue, OnlyPass, IInv, Types, Locals, Places
  <2>3. Relies(p)'
    BY <1>1, <2>2 DEF Relies
  <2>4. ToldTrue(p)'
    <3>1. CASE pass[p].told = NoReport
      BY <2>2, <3>1 DEF ToldTrue
    <3>2. CASE pass[p].told # NoReport
      BY <1>1, <1>3, <2>2, <3>2, StillTold DEF Relies
    <3> QED
      BY <3>1, <3>2
  <2>5. Types'
    BY <1>1, <1>3, <2>2, StillTyped DEF IInv, Types, OnlyPass
  <2> QED
    BY <1>3, <1>4, <2>2, <2>3, <2>4, <2>5, PassMoves DEF OnlyPass
<1>5. CASE pass[p].at = "creating" /\ Continue(p, [pass[p] EXCEPT !.created = @ \cup {f}])
  <2> DEFINE local == [pass[p] EXCEPT !.created = @ \cup {f}]
  <2>1. Created(f)
    BY <1>1, <1>5, SendsWellFounded, ExecuteCreates, RelayersToo DEF IInv
  <2>2. f \in NewlyCreated
    BY <1>1, <2>1 DEF NewlyCreated, Created
  <2>3. /\ local \in Locals /\ local.started = pass[p].started /\ local.script = pass[p].script
        /\ local.about = pass[p].about /\ local.told = pass[p].told
        /\ local.created = pass[p].created \cup {f} /\ local.resolved = pass[p].resolved
    BY <1>1 DEF Locals, Places
  <2> QED
    BY <1>4, <1>5, <2>2, <2>3
<1>6. CASE pass[p].at = "resolving" /\ Continue(p, [pass[p] EXCEPT !.resolved = @ \cup {f}])
  <2> DEFINE local == [pass[p] EXCEPT !.resolved = @ \cup {f}]
  <2>1. Resolved(f)
    BY <1>1, <1>6, SendsWellFounded, ExecuteResolves, RelayersToo DEF IInv
  <2>2. f \in NewlyResolved
    BY <1>1, <2>1 DEF NewlyResolved, Resolved
  <2>3. /\ local \in Locals /\ local.started = pass[p].started /\ local.script = pass[p].script
        /\ local.about = pass[p].about /\ local.told = pass[p].told
        /\ local.created = pass[p].created /\ local.resolved = pass[p].resolved \cup {f}
    BY <1>1 DEF Locals, Places
  <2> QED
    BY <1>4, <1>6, <2>2, <2>3
<1> QED
  BY <1>5, <1>6 DEF Confirmed

LEMMA RefusedStep ==
  ASSUME IInv, NEW p \in Passes, Refused(p)
  PROVE  IInv'
BY SendsWellFounded, ErrorStep DEF Refused, chain, IInv, Types

LEMMA TimedOutStep ==
  ASSUME IInv, NEW p \in Passes, TimedOut(p)
  PROVE  IInv'
BY SendsWellFounded, ErrorStep DEF TimedOut, IInv, Types

-----------------------------------------------------------------------------
(****************************************************************************)
(* The steps of the scripts alone                                           *)
(****************************************************************************)
LEMMA GoesTo ==
  ASSUME IInv, NEW p \in Passes, NEW local \in Locals, NEW place \in Places, Goes(p, place, local)
  PROVE  /\ OnlyPass(p) /\ pass'[p].at = place
         /\ Continues(p, local) => Continues(p, pass'[p])
         /\ pass'[p].started = local.started /\ pass'[p].fixture = local.fixture
         /\ pass'[p].seq = local.seq /\ pass'[p].tx = local.tx
         /\ pass'[p].script = local.script /\ pass'[p].about = local.about
         /\ pass'[p].created = local.created /\ pass'[p].resolved = local.resolved
         /\ pass'[p].told = local.told
<1>1. [local EXCEPT !.at = place] \in Locals
  BY DEF Locals
<1>2. OnlyPass(p) /\ pass'[p] = [local EXCEPT !.at = place]
  BY <1>1, Replaces DEF Goes
<1> QED
  BY <1>2 DEF Locals, Continues

\* A script goes on from a place to the next one.
LEMMA GoesStep ==
  ASSUME IInv, NEW p \in Passes, NEW local \in Locals, NEW place \in Places,
         Goes(p, place, local), Continues(p, local),
         UNCHANGED <<chain, txodds, now>>, UNCHANGED failures \/ Fails,
         place \in {"idle", "creating", "sequencing", "proving", "waiting", "status",
                    "reading back"},
         place \in {"creating", "sequencing", "proving"} => local.fixture \in Fixtures,
         place = "proving" => local.seq \in 1 .. Len(feed[local.fixture]),
         place = "creating" => local.tx \in Creations(local.fixture),
         place \in {"waiting", "status", "reading back"} => local.script \in {"prove", "e2e"},
         place \in {"waiting", "status"} =>
           local.fixture = local.about /\ market[local.about].status # "NotCreated",
         place = "status" => local.seq \in 1 .. Len(feed[local.about]),
         place = "reading back" => Settled(local.about)
  PROVE  IInv'
<1>1. Relies(p)
  BY DEF IInv
<1>2. /\ OnlyPass(p) /\ pass'[p].at = place /\ Continues(p, pass'[p])
      /\ pass'[p].fixture = local.fixture /\ pass'[p].seq = local.seq /\ pass'[p].tx = local.tx
      /\ pass'[p].script = local.script /\ pass'[p].about = local.about
  BY GoesTo
<1>3. market' = market /\ feed' = feed /\ now' = now
  BY DEF chain, txodds
<1>4. Relies(p)'
  BY <1>1, <1>2, <1>3 DEF Relies, Continues, Creations, Settled
<1> QED
  BY <1>2, <1>4, AwaitStep

LEMMA ExitStep ==
  ASSUME IInv, NEW p \in Passes, Exit(p), UNCHANGED <<chain, txodds, now>>,
         UNCHANGED failures \/ Fails
  PROVE  IInv'
<1> DEFINE local == [pass[p] EXCEPT !.fixture = NoFixture, !.seq = 0]
<1>1. pass[p] \in Locals
  BY DEF IInv, Types
<1>2. local \in Locals /\ Continues(p, local)
  BY <1>1 DEF Locals, Continues
<1> HIDE DEF local
<1>3. Goes(p, "idle", local) /\ "idle" \in Places
  BY DEF Exit, local, Places
<1> QED
  BY <1>2, <1>3, GoesStep

LEMMA RunScriptStep ==
  ASSUME IInv, NEW p \in Passes, NEW script \in {"create", "resolve", "prove", "e2e"},
         NEW f \in Fixtures, RunScript(p, script, f)
  PROVE  IInv'
<1> DEFINE begun == [AtRest EXCEPT !.started = now, !.script = script, !.about = f]
           tx    == CreateTx(f, now + CLOSE_IN_MIN)
<1>1. now \in Nat /\ now \in -1 .. now
  BY DEF IInv, Types
<1>2. /\ begun \in Locals /\ begun.started = now /\ begun.script = script /\ begun.about = f
      /\ begun.created = {} /\ begun.resolved = {} /\ begun.told = NoReport
  <2>1. /\ AtRest.created = {} /\ AtRest.resolved = {} /\ AtRest.told = NoReport
    BY DEF AtRest
  <2>2. begun \in Locals
    <3>1. [AtRest EXCEPT !.started = now] \in Locals
      BY <1>1, AtRestIsTyped DEF Locals
    <3>2. [AtRest EXCEPT !.started = now, !.script = script] \in Locals
      BY <3>1 DEF Locals
    <3> QED
      BY <3>2 DEF Locals
  <2> QED
    BY <2>1, <2>2, AtRestIsTyped DEF Locals
<1>3. tx \in Creations(f) /\ tx \in Transactions
  BY <1>1, ScriptsAssumption DEF CreateTx, Creations, Transactions
<1> HIDE DEF begun, tx
<1>4. ASSUME NEW local \in Locals, NEW place \in {"creating", "validating", "checking"},
             Goes(p, place, local),
             local.started = now, local.script = script, local.about = f,
             local.created = {}, local.resolved = {}, local.told = NoReport,
             place = "creating" => local.fixture = f /\ local.tx = tx,
             place = "checking" => script \in {"prove", "e2e"}
      PROVE  IInv'
  <2>1. place \in Places
    BY DEF Places
  <2>2. /\ OnlyPass(p) /\ pass'[p].at = place
        /\ pass'[p].started = now /\ pass'[p].fixture = local.fixture /\ pass'[p].tx = local.tx
        /\ pass'[p].script = script /\ pass'[p].about = f
        /\ pass'[p].created = {} /\ pass'[p].resolved = {} /\ pass'[p].told = NoReport
    BY <1>4, <2>1, GoesTo
  <2>3. Relies(p)' /\ ToldTrue(p)'
    BY <1>1, <1>3, <1>4, <2>2 DEF Relies, ToldTrue, RunScript, Creations
  <2>4. \A t \in orphans' : WellFounded(t)
    BY DEF RunScript, chain, IInv, Types
  <2> QED
    BY <2>2, <2>3, <2>4, QuietStep DEF RunScript, chain
<1>5. CASE Goes(p, "creating", [begun EXCEPT !.fixture = f, !.tx = tx])
  <2> DEFINE local == [begun EXCEPT !.fixture = f, !.tx = tx]
  <2>1. /\ local \in Locals /\ local.started = now /\ local.script = script /\ local.about = f
        /\ local.created = {} /\ local.resolved = {} /\ local.told = NoReport
        /\ local.fixture = f /\ local.tx = tx
    BY <1>2, <1>3 DEF Locals
  <2> HIDE DEF local
  <2> QED
    BY <1>4, <1>5, <2>1 DEF local
<1>6. CASE script = "resolve" /\ Goes(p, "validating", begun)
  BY <1>2, <1>4, <1>6
<1>7. CASE script \in {"prove", "e2e"} /\ Goes(p, "checking", begun)
  BY <1>2, <1>4, <1>7
<1> QED
  BY <1>5, <1>6, <1>7 DEF RunScript, begun, tx

LEMMA CheckExistsStep ==
  ASSUME IInv, NEW p \in Passes, CheckExists(p)
  PROVE  IInv'
<1> DEFINE f     == pass[p].about
           local == [pass[p] EXCEPT !.fixture = f]
           tx    == CreateTx(f, now + CLOSE_SOON)
<1>1. /\ pass[p] \in Locals /\ Relies(p) /\ f \in Fixtures /\ now \in Nat
      /\ pass[p].script \in {"prove", "e2e"}
  <2>1. pass[p] \in Locals /\ Relies(p) /\ now \in Nat
    BY DEF IInv, Types
  <2> QED
    BY <2>1 DEF Relies, CheckExists
<1>2. /\ local \in Locals /\ Continues(p, local) /\ local.fixture = f /\ local.about = f
      /\ local.script = pass[p].script
  BY <1>1 DEF Locals, Continues
<1>3. tx \in Creations(f) /\ tx \in Transactions
  BY <1>1, ScriptsAssumption DEF CreateTx, Creations, Transactions
<1> HIDE DEF local, tx
<1>4. CASE Exit(p)
  BY <1>4, ExitStep DEF CheckExists
<1>5. CASE Goes(p, "sequencing", local) /\ UNCHANGED failures
  BY <1>1, <1>2, <1>5, GoesStep DEF CheckExists, Places
<1>6. CASE Goes(p, "waiting", local) /\ market[f].status # "NotCreated" /\ UNCHANGED failures
  BY <1>1, <1>2, <1>6, GoesStep DEF CheckExists, Places
<1>7. CASE Goes(p, "creating", [local EXCEPT !.tx = tx]) /\ UNCHANGED failures
  <2> DEFINE sent == [local EXCEPT !.tx = tx]
  <2>1. sent \in Locals /\ Continues(p, sent) /\ sent.fixture = f /\ sent.tx = tx
    BY <1>2, <1>3 DEF Locals, Continues
  <2> HIDE DEF sent
  <2> QED
    BY <1>1, <1>3, <1>7, <2>1, GoesStep DEF CheckExists, Places, sent
<1> QED
  BY <1>4, <1>5, <1>6, <1>7 DEF CheckExists, local, tx

LEMMA PlaceBetsStep ==
  ASSUME IInv, NEW p \in Passes, PlaceBets(p)
  PROVE  IInv'
<1> DEFINE f     == pass[p].about
           local == [pass[p] EXCEPT !.fixture = f]
<1>1. /\ pass[p] \in Locals /\ f \in Fixtures /\ market[f].status # "NotCreated"
  BY DEF IInv, Types, ReportsAreTrue, Relies, PlaceBets
<1>2. /\ local \in Locals /\ Continues(p, local) /\ local.fixture = f /\ local.about = f
      /\ local.script = pass[p].script
  BY <1>1 DEF Locals, Continues
<1> HIDE DEF local
<1>3. CASE Exit(p)
  BY <1>3, ExitStep DEF PlaceBets
<1>4. CASE Goes(p, "waiting", local) /\ UNCHANGED failures
  BY <1>1, <1>2, <1>4, GoesStep DEF PlaceBets, Places
<1> QED
  BY <1>3, <1>4 DEF PlaceBets, local

LEMMA WaitForCloseStep ==
  ASSUME IInv, NEW p \in Passes, WaitForClose(p)
  PROVE  IInv'
<1> DEFINE f == pass[p].about
<1>1. /\ pass[p] \in Locals /\ pass[p].script \in {"prove", "e2e"} /\ f \in Fixtures
      /\ pass[p].fixture = f /\ market[f].status # "NotCreated"
  BY DEF IInv, Types, Relies, WaitForClose
<1>2. CASE Exit(p)
  BY <1>2, ExitStep DEF WaitForClose
<1>3. ASSUME NEW seq \in 1 .. Len(feed[f]), Goes(p, "status", [pass[p] EXCEPT !.seq = seq]),
             UNCHANGED failures
      PROVE  IInv'
  <2> DEFINE local == [pass[p] EXCEPT !.seq = seq]
  <2>1. seq \in Nat
    BY DEF IInv, Types
  <2>2. /\ local \in Locals /\ Continues(p, local) /\ local.fixture = f /\ local.about = f
        /\ local.script = pass[p].script /\ local.seq = seq
    BY <1>1, <2>1 DEF Locals, Continues
  <2> HIDE DEF local
  <2> QED
    BY <1>1, <1>3, <2>2, GoesStep DEF WaitForClose, Places, local
<1> QED
  BY <1>2, <1>3 DEF WaitForClose

LEMMA CheckOpenStep ==
  ASSUME IInv, NEW p \in Passes, CheckOpen(p)
  PROVE  IInv'
<1> DEFINE f == pass[p].about
<1>1. /\ pass[p] \in Locals /\ pass[p].script \in {"prove", "e2e"} /\ f \in Fixtures
      /\ pass[p].fixture = f /\ market[f].status # "NotCreated"
      /\ pass[p].seq \in 1 .. Len(feed[f]) /\ Continues(p, pass[p])
  BY DEF IInv, Types, Relies, CheckOpen, Continues
<1>2. CASE Exit(p)
  BY <1>2, ExitStep DEF CheckOpen
<1>3. CASE Goes(p, "proving", pass[p]) /\ UNCHANGED failures
  BY <1>1, <1>3, GoesStep DEF CheckOpen, Places
<1>4. CASE market[f].status # "Open" /\ Goes(p, "reading back", pass[p]) /\ UNCHANGED failures
  <2>1. Settled(f)
    BY <1>1, <1>4 DEF IInv, Types, Markets, Statuses, Settled
  <2> QED
    BY <1>1, <1>4, <2>1, GoesStep DEF CheckOpen, Places
<1> QED
  BY <1>2, <1>3, <1>4 DEF CheckOpen

LEMMA ReadBackStep ==
  ASSUME IInv, NEW p \in Passes, ReadBack(p)
  PROVE  IInv'
<1> DEFINE f     == pass[p].about
           told  == [status |-> market[f].status, winner |-> market[f].winner]
           local == [pass[p] EXCEPT !.fixture = NoFixture, !.seq = 0, !.told = told]
<1>1. pass[p] \in Locals /\ Relies(p) /\ f \in Fixtures /\ Settled(f)
  <2>1. pass[p] \in Locals /\ Relies(p) /\ \A g \in pass[p].resolved : Settled(g)
    BY DEF IInv, Types, ReportsAreTrue
  <2>2. f \in Fixtures /\ (pass[p].at = "reading back" => Settled(f))
    BY <2>1 DEF Relies, ReadBack
  <2>3. pass[p].at = "reading back" \/ f \in pass[p].resolved
    BY DEF ReadBack
  <2> QED
    BY <2>1, <2>2, <2>3
<1>2. CASE Exit(p)
  BY <1>2, ExitStep DEF ReadBack
<1>3. CASE Goes(p, "idle", local) /\ UNCHANGED failures
  <2>1. told \in [status : {"none"} \cup Statuses, winner : Outcomes]
    BY <1>1 DEF IInv, Types, Markets
  <2> HIDE DEF told
  <2>2. /\ local \in Locals /\ local.told = told
        /\ local.started = pass[p].started /\ local.script = pass[p].script /\ local.about = f
        /\ local.created = pass[p].created /\ local.resolved = pass[p].resolved
    BY <1>1, <2>1 DEF Locals
  <2> HIDE DEF local
  <2>3. /\ OnlyPass(p) /\ pass'[p].at = "idle" /\ pass'[p].told = told
        /\ pass'[p].started = pass[p].started /\ pass'[p].script = pass[p].script
        /\ pass'[p].about = f /\ pass'[p].created = pass[p].created
        /\ pass'[p].resolved = pass[p].resolved
    BY <1>3, <2>2, GoesTo DEF Places
  <2>4. Relies(p)'
    BY <1>1, <2>3 DEF Relies, ReadBack
  <2>5. ToldTrue(p)'
    BY <1>1, <2>3 DEF ToldTrue, ReadBack, chain, told, Settled
  <2>6. \A tx \in orphans' : WellFounded(tx)
    BY DEF ReadBack, chain, IInv, Types
  <2> QED
    BY <1>3, <2>3, <2>4, <2>5, <2>6, QuietStep DEF ReadBack, chain
<1> QED
  BY <1>2, <1>3 DEF ReadBack

LEMMA EndStep ==
  ASSUME IInv, NEW p \in Passes, End(p)
  PROVE  IInv'
<1> DEFINE local == [pass[p] EXCEPT !.errors = {}]
<1>1. pass[p] \in Locals
  BY DEF IInv, Types
<1>2. local \in Locals /\ Continues(p, local)
  BY <1>1 DEF Locals, Continues
<1> HIDE DEF local
<1> QED
  BY <1>2, GoesStep DEF End, local, Places

-----------------------------------------------------------------------------
LEMMA InitIInv == Init => IInv
<1> SUFFICES ASSUME Init PROVE IInv
  OBVIOUS
<1>1. MaxTime \in Nat /\ MaxFailures \in Nat
  BY FixturesAssumption
<1>2. market \in [Fixtures -> Markets]
  BY DEF Init, NoMarket, Markets, Stored, Statuses, Outcomes, MAX_OUTCOMES
<1>3. start \in [Fixtures -> Nat] /\ feed \in [Fixtures -> Seq(Events)]
  BY FixturesAssumption DEF Init
<1>4. Types
  BY <1>1, <1>2, <1>3, AtRestIsTyped DEF Init, NoMarket, Types
<1>5. \A p \in Passes : Relies(p)
  <2> SUFFICES ASSUME NEW p \in Passes PROVE Relies(p)
    OBVIOUS
  <2>1. /\ pass[p].at = "idle" /\ pass[p].started = -1 /\ pass[p].script = "sync"
        /\ pass[p].told = NoReport /\ -1 \in -1 .. now
    BY DEF Init, AtRest
  <2> QED
    BY <2>1 DEF Relies
<1>6. ReportsAreTrue
  BY DEF Init, ReportsAreTrue, AtRest
<1>7. VerdictIsFullTime
  BY DEF Init, NoMarket, VerdictIsFullTime
<1> QED
  BY <1>4, <1>5, <1>6, <1>7 DEF IInv

LEMMA PassStepIInv ==
  ASSUME IInv, NEW p \in Passes, PassStep(p)
  PROVE  IInv'
BY ListFixturesStep, ReturnStep, LatestSeqStep, FetchProofStep, ConfirmedStep, RefusedStep,
   TimedOutStep, CheckMarketStep DEF PassStep

LEMMA ScriptStepIInv ==
  ASSUME IInv, NEW p \in Passes, ScriptStep(p)
  PROVE  IInv'
BY CheckExistsStep, PlaceBetsStep, WaitForCloseStep, CheckOpenStep, ReadBackStep, EndStep,
   LatestSeqStep, FetchProofStep, ConfirmedStep, RefusedStep, TimedOutStep,
   ExitStep DEF ScriptStep, ResolveMarket1X2

LEMMA StutterIInv == IInv /\ UNCHANGED vars => IInv'
<1> SUFFICES ASSUME IInv, UNCHANGED vars PROVE IInv'
  OBVIOUS
<1>1. Onward /\ VerdictIsFullTime'
  BY DEF vars, Onward, IInv, Types, VerdictIsFullTime
<1>2. Types'
  BY <1>1, StillTyped DEF vars, IInv, Types
<1> QED
  BY <1>1, <1>2, WorldMoves DEF vars

LEMMA NextIInv == IInv /\ [Next]_vars => IInv'
<1> SUFFICES ASSUME IInv, [Next]_vars PROVE IInv'
  OBVIOUS
<1>1. ASSUME NEW p \in Passes, StartWatch(p) \/ Begin(p) \/ PassStep(p) PROVE IInv'
  BY <1>1, BeginStep, PassStepIInv
<1>2. ASSUME NEW tx \in orphans, LandLate(tx) PROVE IInv'
  BY <1>2, LandLateStep
<1>3. ASSUME NEW f \in Fixtures, \/ Others(f) \/ Move(f)
                                 \/ \E event \in Events : Publish(f, event)
      PROVE IInv'
  BY <1>3, OthersStep, MoveStep, PublishStep
<1> QED
  BY <1>1, <1>2, <1>3, TickStep, StutterIInv DEF Next

LEMMA ScriptNextIInv == IInv /\ [ScriptNext]_vars => IInv'
<1> SUFFICES ASSUME IInv, [ScriptNext]_vars PROVE IInv'
  OBVIOUS
<1>1. ASSUME NEW p \in Operators, NEW f \in Fixtures,
             NEW script \in {"create", "resolve", "prove", "e2e"}, RunScript(p, script, f)
      PROVE IInv'
  BY <1>1, RunScriptStep, ScriptsAssumption
<1>2. ASSUME NEW p \in Passes, StartWatch(p) \/ Begin(p) \/ PassStep(p) \/ ScriptStep(p) PROVE IInv'
  BY <1>2, BeginStep, PassStepIInv, ScriptStepIInv
<1>3. ASSUME NEW tx \in orphans, LandLate(tx) PROVE IInv'
  BY <1>3, LandLateStep
<1>4. ASSUME NEW f \in Fixtures, \/ Others(f) \/ Move(f)
                                 \/ \E event \in Events : Publish(f, event)
      PROVE IInv'
  BY <1>4, OthersStep, MoveStep, PublishStep
<1> QED
  BY <1>1, <1>2, <1>3, <1>4, TickStep, StutterIInv DEF ScriptNext

\* The loop of sync.ts.
WatchOK == watch \in {"off", "first tick", "ticking"}

LEMMA WatchMoves ==
  ASSUME WatchOK, [Next]_vars \/ [ScriptNext]_vars
  PROVE  WatchOK'
<1>1. ASSUME NEW p \in Passes, PassStep(p) \/ ScriptStep(p) PROVE WatchOK'
  <2>1. CASE ListFixtures(p) \/ Return(p) \/ \E f \in DOMAIN pass[p].todo : CheckMarket(p, f)
    BY <2>1 DEF WatchOK, ListFixtures, Return, CheckMarket, Resolves, Rejects
  <2>2. CASE \/ LatestSeq(p) \/ FetchProof(p) \/ Confirmed(p) \/ Refused(p) \/ TimedOut(p)
             \/ ResolveMarket1X2(p) \/ CheckExists(p) \/ PlaceBets(p) \/ WaitForClose(p)
             \/ CheckOpen(p) \/ ReadBack(p) \/ End(p)
    BY <2>2 DEF WatchOK, LatestSeq, FetchProof, Confirmed, Refused, TimedOut, ResolveMarket1X2,
       CheckExists, PlaceBets, WaitForClose, CheckOpen, ReadBack, End
  <2> QED
    BY <1>1, <2>1, <2>2 DEF PassStep, ScriptStep
<1>2. CASE \E p \in Passes : StartWatch(p) \/ Begin(p)
  BY <1>2 DEF WatchOK, StartWatch, Begin
<1>3. CASE \/ \E p \in Operators, f \in Fixtures, script \in {"create", "resolve", "prove", "e2e"} :
                RunScript(p, script, f)
           \/ \E tx \in orphans : LandLate(tx)
           \/ \E f \in Fixtures : \/ Others(f) \/ Move(f)
                                  \/ \E event \in Events : Publish(f, event)
           \/ Tick \/ UNCHANGED vars
  BY <1>3 DEF WatchOK, RunScript, LandLate, Others, Move, Publish, Tick, vars
<1> QED
  BY <1>1, <1>2, <1>3 DEF Next, ScriptNext

LEMMA InitWatch == Init => WatchOK
BY DEF Init, WatchOK

LEMMA Invariance == Spec => [](IInv /\ WatchOK)
BY InitIInv, NextIInv, InitWatch, WatchMoves, PTL DEF Spec

LEMMA ScriptInvariance == ScriptSpec => [](IInv /\ WatchOK)
BY InitIInv, ScriptNextIInv, InitWatch, WatchMoves, PTL DEF ScriptSpec

LEMMA IInvImplies == IInv /\ WatchOK => TypeOK /\ ReportsAreTrue /\ VerdictIsFullTime
<1> SUFFICES ASSUME IInv, WatchOK PROVE TypeOK
  BY DEF IInv
<1>1. /\ market \in [Fixtures -> [status : {"NotCreated", "Open", "Resolved", "Refunded"},
                                  close : Nat, winner : Outcomes,
                                  authority : {"none", "admin", "stranger"},
                                  predicates : {<<>>, FullTime1X2} \cup OtherPredicates]]
      /\ start \in [Fixtures -> Nat] /\ feed \in [Fixtures -> Seq(Events)]
      /\ now \in 0 .. MaxTime /\ failures \in 0 .. MaxFailures
      /\ watch \in {"off", "first tick", "ticking"}
  BY DEF IInv, Types, Markets, Stored, Statuses, WatchOK
<1>2. orphans \subseteq Transactions
  <2> SUFFICES ASSUME NEW tx \in orphans PROVE tx \in Transactions
    OBVIOUS
  <2>1. PICK f \in Fixtures : tx \in Creations(f) \cup Resolutions(f)
    BY DEF IInv, Types, WellFounded
  <2>2. CASE tx \in Creations(f)
    BY <2>2 DEF Creations, Transactions
  <2>3. CASE tx \in Resolutions(f)
    <3>1. PICK w \in Outcomes, i \in 1 .. Len(feed[f]) : tx = ResolveTx(f, w, feed[f][i])
      BY <2>3 DEF Resolutions
    <3>2. feed[f][i] \in Events
      BY DEF IInv, Types
    <3> QED
      BY <3>1, <3>2 DEF Transactions
  <2> QED
    BY <2>1, <2>2, <2>3
<1>3. ASSUME NEW p \in Passes
      PROVE  LET local == pass[p] IN
             /\ local.at \in {"idle", "listing", "next", "creating", "sequencing", "proving",
                              "resolving", "validating", "checking", "waiting",
                              "status", "reading back"}
             /\ local.started \in -1 .. now
             /\ DOMAIN local.todo \subseteq Fixtures
             /\ local.fixture \in Fixtures \cup {NoFixture}
             /\ local.tx \in Transactions \cup {NoTx}
             /\ local.created \cup local.resolved \subseteq Fixtures
             /\ local.errors \subseteq Fixtures
             /\ local.script \in {"sync", "create", "resolve", "prove", "e2e"}
             /\ local.about \in Fixtures \cup {NoFixture}
             /\ local.told \in [status : {"none", "NotCreated", "Open", "Resolved", "Refunded"},
                                winner : Outcomes]
  <2>1. pass[p] \in Locals /\ pass[p].started \in -1 .. now
    BY DEF IInv, Types, Relies
  <2>2. DOMAIN pass[p].todo \subseteq Fixtures
    BY <2>1, SchedulesShrink DEF Locals
  <2>3. {"none"} \cup Statuses = {"none", "NotCreated", "Open", "Resolved", "Refunded"}
    BY DEF Statuses
  <2> QED
    BY <2>1, <2>2, <2>3 DEF Locals, Places
<1> QED
  BY <1>1, <1>2, <1>3 DEF TypeOK

-----------------------------------------------------------------------------
(****************************************************************************)
(* The steps as those of the lifecycle that Pitchmarket is proved to        *)
(* implement: what this model lets the program do is no more than that.     *)
(****************************************************************************)
Lifecycle == INSTANCE MarketLifecycle WITH
  Markets <- Fixtures,
  phase   <- [f \in Fixtures |-> market[f].status],
  verdict <- [f \in Fixtures |-> market[f].winner]

LEMMA StepMoves ==
  ASSUME IInv, [Next]_vars \/ [ScriptNext]_vars
  PROVE  UNCHANGED market \/ \E f \in Fixtures : Moves(f)
<1>1. ASSUME NEW p \in Passes, PassStep(p) \/ ScriptStep(p)
      PROVE  UNCHANGED market \/ \E f \in Fixtures : Moves(f)
  <2>1. CASE Confirmed(p)
    <3>1. /\ pass[p].fixture \in Fixtures
          /\ pass[p].tx \in Creations(pass[p].fixture) \cup Resolutions(pass[p].fixture)
      BY <2>1, SendsWellFounded DEF Confirmed
    <3> QED
      BY <2>1, <3>1, RelayerMoves DEF Confirmed
  <2>2. CASE ~Confirmed(p)
    BY <1>1, <2>2 DEF PassStep, ScriptStep, ListFixtures, Return, LatestSeq, FetchProof, Refused,
       TimedOut, CheckMarket, ResolveMarket1X2, CheckExists, PlaceBets, WaitForClose, CheckOpen,
       ReadBack, End, chain
  <2> QED
    BY <2>1, <2>2
<1>2. ASSUME NEW tx \in orphans, LandLate(tx)
      PROVE  UNCHANGED market \/ \E f \in Fixtures : Moves(f)
  BY <1>2, RelayerMoves DEF LandLate, IInv, Types, WellFounded
<1>3. ASSUME NEW f \in Fixtures, Others(f)
      PROVE  Moves(f)
  BY <1>3, OthersMoves
<1>4. CASE \/ \E p \in Passes : StartWatch(p) \/ Begin(p)
           \/ \E p \in Operators, f \in Fixtures, script \in {"create", "resolve", "prove", "e2e"} :
                RunScript(p, script, f)
           \/ \E f \in Fixtures : Move(f) \/ \E event \in Events : Publish(f, event)
           \/ Tick \/ UNCHANGED vars
  BY <1>4 DEF StartWatch, Begin, RunScript, Move, Publish, Tick, chain, vars
<1> QED
  BY <1>1, <1>2, <1>3, <1>4 DEF Next, ScriptNext

LEMMA MovesRefine ==
  ASSUME IInv, NEW f \in Fixtures, Moves(f)
  PROVE  Lifecycle!Next
<1> DEFINE phase   == [g \in Fixtures |-> market[g].status]
           verdict == [g \in Fixtures |-> market[g].winner]
<1>1. /\ phase' = [phase EXCEPT ![f] = market'[f].status]
      /\ verdict' = [verdict EXCEPT ![f] = market'[f].winner]
      /\ phase[f] = market[f].status /\ verdict[f] = market[f].winner
      /\ market'[f].winner = market[f].winner => UNCHANGED verdict
  BY DEF Moves, OnlyMarket
<1>2. market'[f].winner \in Outcomes /\ (market[f].status = "NotCreated" => market[f].winner = 0)
  BY DEF Moves, OnlyMarket, Markets, IInv, Types
<1> HIDE DEF phase, verdict
<1>3. CASE Created(f)
  <2>1. phase[f] = "NotCreated" /\ phase' = [phase EXCEPT ![f] = "Open"] /\ UNCHANGED verdict
    BY <1>1, <1>2, <1>3 DEF Created
  <2>2. Lifecycle!Create(f)
    BY <2>1 DEF Lifecycle!Create, Lifecycle!Becomes, phase, verdict
  <2> QED
    BY <2>2 DEF Lifecycle!Next
<1>4. CASE Resolved(f)
  <2>1. /\ phase[f] = "Open"
        /\ \/ phase' = [phase EXCEPT ![f] = "Resolved"]
           \/ phase' = [phase EXCEPT ![f] = "Refunded"]
        /\ \E o \in Outcomes : verdict' = [verdict EXCEPT ![f] = o]
    BY <1>1, <1>2, <1>4 DEF Resolved
  <2>2. Lifecycle!Settle(f)
    BY <2>1 DEF Lifecycle!Settle, Lifecycle!Becomes, phase, verdict
  <2> QED
    BY <2>2 DEF Lifecycle!Next
<1>5. CASE Cancelled(f)
  <2>1. phase[f] = "Open" /\ phase' = [phase EXCEPT ![f] = "Refunded"] /\ UNCHANGED verdict
    BY <1>1, <1>5 DEF Cancelled
  <2>2. Lifecycle!Cancel(f)
    BY <2>1 DEF Lifecycle!Cancel, Lifecycle!Becomes, phase, verdict
  <2> QED
    BY <2>2 DEF Lifecycle!Next
<1> QED
  BY <1>3, <1>4, <1>5 DEF Moves

LEMMA StepRefines == IInv /\ ([Next]_vars \/ [ScriptNext]_vars) => [Lifecycle!Next]_(Lifecycle!vars)
<1> SUFFICES ASSUME IInv, [Next]_vars \/ [ScriptNext]_vars
             PROVE  Lifecycle!Next \/ UNCHANGED Lifecycle!vars
  BY DEF Lifecycle!vars
<1>1. CASE UNCHANGED market
  BY <1>1 DEF Lifecycle!vars
<1>2. CASE \E f \in Fixtures : Moves(f)
  BY <1>2, MovesRefine
<1> QED
  BY <1>1, <1>2, StepMoves

LEMMA InitRefines == Init => Lifecycle!Init
BY DEF Init, NoMarket, Lifecycle!Init, Outcomes, MAX_OUTCOMES

\* Passes, scripts and other callers take each market through the program's lifecycle.
LEMMA WithinTheLifecycle == ScriptSpec => Lifecycle!Spec
BY InitRefines, StepRefines, ScriptInvariance, PTL DEF ScriptSpec, Lifecycle!Spec

-----------------------------------------------------------------------------
(****************************************************************************)
(* The theorems                                                             *)
(****************************************************************************)
\* Whatever passes, scripts and late transactions overlap, the markets, the transactions on
\* their way and the locals keep their types: runSyncOnce and the scripts.
THEOREM TypeCorrect == ScriptSpec => []TypeOK
BY ScriptInvariance, IInvImplies, PTL

\* What overlapping passes and scripts report as created, resolved or told is true, and no
\* two claim the same change: the result of runSyncOnce, and what the scripts print.
THEOREM ReportsAreTrueHolds == ScriptSpec => []ReportsAreTrue
BY ScriptInvariance, IInvImplies, PTL

\* The verdict of a market that the relayer created is that of a full-time score of its
\* fixture, proved after the betting closed, whoever resolved it, with whatever stats, and
\* whatever scores were read in play; that of anybody else's market is one that its own
\* predicates allow: createMarket1X2, resolveMarketReal and resolve_handler.
THEOREM VerdictIsFullTimeHolds == ScriptSpec => []VerdictIsFullTime
BY ScriptInvariance, IInvImplies, PTL

\* All of this of the market sync without the scripts.
THEOREM SyncAlone == Spec => [](TypeOK /\ ReportsAreTrue /\ VerdictIsFullTime)
BY Invariance, IInvImplies, PTL
=============================================================================
