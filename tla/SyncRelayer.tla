------------------------------ MODULE SyncRelayer ------------------------------
(****************************************************************************)
(* The market sync of the relayer: passes of runSyncOnce (syncOnce.ts) that *)
(* list the TxODDS fixtures, create a market for each one that has none and *)
(* resolve the open market of each one that has finished.                   *)
(*                                                                          *)
(* A pass is asynchronous: what happens between two awaits is one action,   *)
(* and other passes, other users of the program, TxODDS and the clock act   *)
(* at every await.  sync.ts starts a pass on every interval whether or not  *)
(* the last one is over, once its first pass is over; syncDaily.ts runs one *)
(* pass, by hand.                                                           *)
(*                                                                          *)
(* The program is reduced to the life of each market, without its money     *)
(* (Pitchmarket): it is created by anyone, with the predicates and the      *)
(* close that he likes, and settled once.                                   *)
(****************************************************************************)
EXTENDS Integers, Sequences, FiniteSets, Predicates

CONSTANTS
  Passes,           \* the passes that may be under way at once
  Watch,            \* those of them that are ticks of sync.ts; the others are runs of syncDaily.ts
  Fixtures,         \* the World Cup fixtures
  Kickoff, Moved,   \* [Fixtures -> Nat]: their first StartTime, and the one they may be moved to
  DAY,              \* the ticks of a UTC day
  LISTED_DAYS,      \* how many days ahead the TxODDS fixtures snapshot looks
  RunAt,            \* the ticks of a day at which passes are started
  FINISHED_AFTER,   \* FINISHED_AFTER_MS
  Scorelines,       \* the scores of matches at full time: pairs of goals
  InPlayScores,     \* those that are published in play
  OtherPredicates,  \* the predicates of markets that others create, one for each outcome
  OtherCloses,      \* the closes of those markets
  MaxEvents,        \* bound of a fixture's score events
  MaxFailures,      \* bound of the failing requests and lost transactions
  MaxTime,          \* bound of the clock
  Prompt            \* TRUE: passes are done within the tick in which they start

HOME_KEY     == 1
AWAY_KEY     == 2
FULL_TIME    == 4
InPlay       == 2      \* any other period
MAX_OUTCOMES == 8
Outcomes     == 0 .. MAX_OUTCOMES - 1
Events       == [period : {InPlay}, goals : InPlayScores]
                  \cup [period : {FULL_TIME}, goals : Scorelines]

ASSUME FixturesAssumption ==
  /\ Watch \subseteq Passes
  /\ Kickoff \in [Fixtures -> Nat] /\ Moved \in [Fixtures -> Nat]
  /\ DAY \in Nat \ {0} /\ LISTED_DAYS \in Nat /\ RunAt \subseteq 0 .. DAY - 1
  /\ Scorelines \subseteq Nat \X Nat /\ InPlayScores \subseteq Nat \X Nat
  /\ OtherPredicates \subseteq Seq(PredicateSpec) /\ OtherCloses \subseteq Nat
  /\ \A predicates \in OtherPredicates : Len(predicates) \in 2 .. MAX_OUTCOMES
  /\ {FINISHED_AFTER, MaxEvents, MaxFailures, MaxTime} \subseteq Nat /\ Prompt \in BOOLEAN

NoFixture == "none"
NoTx      == [kind |-> "none"]
NoReport  == [status |-> "none", winner |-> 0]
NoMarket  == [status |-> "NotCreated", close |-> 0, winner |-> 0, authority |-> "none",
              predicates |-> <<>>]

VARIABLES
  market,    \* [Fixtures -> status, betting_close_ts, winner, authority, predicates], on the chain
  orphans,   \* transactions whose pass has given them up, and that may still land
  start,     \* StartTime of each fixture, in the TxODDS fixtures
  feed,      \* the score events of each fixture, in the order of their seq
  now,
  watch,     \* sync.ts: not running, in its first tick, or ticking on the interval
  pass,      \* the local variables of each pass, or of the script (Scripts.tla) that runs instead
  failures   \* how many requests have failed so far

vars   == <<market, orphans, start, feed, now, watch, pass, failures>>
chain  == <<market, orphans>>
txodds == <<start, feed>>

AtRest == [at |-> "idle", started |-> -1, todo |-> <<>>, fixture |-> NoFixture, seq |-> 0,
           tx |-> NoTx, created |-> {}, resolved |-> {}, errors |-> {},
           script |-> "sync", about |-> NoFixture, told |-> NoReport]

(****************************************************************************)
(* The program, and transactions of it                                      *)
(****************************************************************************)
Score(event) == [stat \in {<<HOME_KEY, event.period>>, <<AWAY_KEY, event.period>>} |->
                   IF stat[1] = HOME_KEY THEN event.goals[1] ELSE event.goals[2]]

\* The winner that resolveMarketReal submits with a proof of event.  The fault: the goal
\* difference stands for its outcome.
WinningFault(event) == event.goals[2] - event.goals[1]
Winning(event) == CASE event.goals[1] > event.goals[2] -> 0
                    [] event.goals[1] = event.goals[2] -> 1
                    [] event.goals[1] < event.goals[2] -> 2

\* The market that createMarket1X2 asks for.  The fault: running scores decide it.
CreateTxFault(f, close) ==
  [kind |-> "create", fixture |-> f, close |-> close, authority |-> "admin",
   predicates |-> build1X2Predicates(HOME_KEY, AWAY_KEY, InPlay)]
FullTime1X2 == build1X2Predicates(HOME_KEY, AWAY_KEY, FULL_TIME)
CreateTx(f, close) ==
  [kind |-> "create", fixture |-> f, close |-> close, authority |-> "admin",
   predicates |-> FullTime1X2]

\* The relayer proves the goals of the home side, then those of the other side.
ResolveTx(f, winner, event) ==
  [kind |-> "resolve", fixture |-> f, winner |-> winner, event |-> event,
   stats |-> <<<<HOME_KEY, event.period>>, <<AWAY_KEY, event.period>>>>]

\* The winner must be an outcome of the market, and the stored predicate of that outcome must
\* be of the stats that are supplied, and true of them.
Accepts(tx) ==
  LET predicates == market[tx.fixture].predicates
      spec       == predicates[tx.winner + 1]
      a          == tx.stats[1]
      b          == tx.stats[2]
  IN  /\ tx.winner + 1 \in DOMAIN predicates
      /\ StatsBound(spec, a, b) /\ Evaluates(spec, Score(tx.event), a, b)

\* A transaction that is executed meets the market as it is then.
Valid(tx) ==
  \/ tx.kind = "create" /\ market[tx.fixture].status = "NotCreated"
  \/ /\ tx.kind = "resolve" /\ market[tx.fixture].status = "Open"
     /\ now >= market[tx.fixture].close /\ Accepts(tx)

\* Without a stake on the winner the market is refunded.
Execute(tx) ==
  /\ Valid(tx)
  /\ \/ /\ tx.kind = "create"
        /\ market' = [market EXCEPT ![tx.fixture] =
                        [status |-> "Open", close |-> tx.close, winner |-> 0,
                         authority |-> tx.authority, predicates |-> tx.predicates]]
     \/ /\ tx.kind = "resolve"
        /\ \E status \in {"Resolved", "Refunded"} :
             market' = [market EXCEPT ![tx.fixture].status = status,
                                      ![tx.fixture].winner = tx.winner]

-----------------------------------------------------------------------------
Init ==
  /\ market = [f \in Fixtures |-> NoMarket]
  /\ orphans = {}
  /\ start = Kickoff /\ feed = [f \in Fixtures |-> <<>>] /\ now = 0 /\ watch = "off"
  /\ pass = [p \in Passes |-> AtRest] /\ failures = 0

\* A request, or a transaction, that fails.
Fails == failures < MaxFailures /\ failures' = failures + 1

\* The next iteration of the loop over the fixtures; what the last one found out is dropped.
Continue(p, local) ==
  pass' = [pass EXCEPT ![p] = [local EXCEPT !.at = "next", !.fixture = NoFixture, !.seq = 0,
                                            !.tx = NoTx]]
Error(p) == Continue(p, [pass[p] EXCEPT !.errors = @ \cup {pass[p].fixture}])

\* TxODDS lists the fixtures that start today (UTC) or later.
Listed == {f \in Fixtures :
             start[f] \div DAY \in now \div DAY .. (now \div DAY) + LISTED_DAYS}

\* sync.ts is started by hand, and its first tick with it; `now` is read once.
Started(p) == pass' = [pass EXCEPT ![p] = [AtRest EXCEPT !.at = "listing", !.started = now]]
StartWatch(p) ==
  /\ p \in Watch /\ watch = "off" /\ pass[p].at = "idle"
  /\ Started(p) /\ watch' = "first tick"
  /\ UNCHANGED <<chain, txodds, now, failures>>

\* The first tick is awaited before the interval is set, and its rejection, which nobody
\* catches, ends the process; those of later ticks are caught.  The fault: those are not.
FirstTick(p) == p \in Watch /\ watch = "first tick"
Resolves(p)  == watch' = IF FirstTick(p) THEN "ticking" ELSE watch
RejectsFault(p) == watch' = IF p \in Watch THEN "off" ELSE watch
Rejects(p)   == watch' = IF FirstTick(p) THEN "off" ELSE watch

\* The interval, or the hour at which the operator runs syncDaily.ts.
Due(p) ==
  /\ now % DAY \in RunAt /\ pass[p].started # now
  /\ p \in Watch => watch = "ticking"
Begin(p) ==
  /\ Due(p) /\ pass[p].at = "idle"
  /\ Started(p)
  /\ UNCHANGED <<chain, txodds, now, watch, failures>>

ListFixtures(p) ==
  /\ pass[p].at = "listing"
  /\ \/ /\ pass' = [pass EXCEPT ![p].at = "next", ![p].todo = [f \in Listed |-> start[f]]]
        /\ UNCHANGED <<watch, failures>>
     \/ /\ Fails /\ Resolves(p)
        /\ pass' = [pass EXCEPT ![p].at = "idle"]
  /\ UNCHANGED <<chain, txodds, now>>

\* The errors are logged, and looked at no more.
Return(p) ==
  /\ pass[p].at = "next" /\ DOMAIN pass[p].todo = {}
  /\ Resolves(p)
  /\ pass' = [pass EXCEPT ![p].at = "idle", ![p].errors = {}]
  /\ UNCHANGED <<chain, txodds, now, failures>>

\* fetchNullable of the next fixture's market.  If it fails, the pass is rejected.
CheckMarket(p, f) ==
  LET startMs  == pass[p].todo[f]
      finished == pass[p].started > startMs + FINISHED_AFTER
      rest     == [pass[p] EXCEPT !.todo = [g \in DOMAIN @ \ {f} |-> @[g]], !.fixture = f]
  IN
  /\ \/ /\ market[f].status = "NotCreated"
        /\ pass' = [pass EXCEPT ![p] = [rest EXCEPT !.at = "creating",
                                                    !.tx = CreateTx(f, startMs)]]
        /\ UNCHANGED <<watch, failures>>
     \/ /\ market[f].status = "Open" /\ finished
        /\ pass' = [pass EXCEPT ![p] = [rest EXCEPT !.at = "sequencing"]]
        /\ UNCHANGED <<watch, failures>>
     \/ /\ market[f].status # "NotCreated" /\ (market[f].status # "Open" \/ ~finished)
        /\ Continue(p, rest)
        /\ UNCHANGED <<watch, failures>>
     \/ /\ Fails /\ Rejects(p)
        /\ pass' = [pass EXCEPT ![p] = [rest EXCEPT !.at = "idle", !.todo = <<>>,
                                                    !.fixture = NoFixture, !.errors = {}]]
  /\ UNCHANGED <<chain, txodds, now>>

\* latestSeq: null, and the fixture is skipped, if there is no event or the request fails.
\* The fault: the first event is taken for the last.
LatestSeqFault(p) ==
  LET f == pass[p].fixture IN
  /\ pass[p].at = "sequencing"
  /\ \/ /\ feed[f] # <<>>
        /\ pass' = [pass EXCEPT ![p].at = "proving", ![p].seq = 1]
        /\ UNCHANGED failures
     \/ feed[f] = <<>> /\ Continue(p, pass[p]) /\ UNCHANGED failures
     \/ Fails /\ Continue(p, pass[p])
  /\ UNCHANGED <<chain, txodds, now, watch>>
LatestSeq(p) ==
  LET f == pass[p].fixture IN
  /\ pass[p].at = "sequencing"
  /\ \/ /\ feed[f] # <<>>
        /\ pass' = [pass EXCEPT ![p].at = "proving", ![p].seq = Len(feed[f])]
        /\ UNCHANGED failures
     \/ feed[f] = <<>> /\ Continue(p, pass[p]) /\ UNCHANGED failures
     \/ Fails /\ Continue(p, pass[p])
  /\ UNCHANGED <<chain, txodds, now, watch>>

\* The reads of resolveMarketReal: the market's authority and mint, which never change, the
\* fee account, and the proof of the event with that seq, of whatever period it is.
FetchProof(p) ==
  LET f     == pass[p].fixture
      event == feed[f][pass[p].seq]
  IN
  /\ pass[p].at = "proving"
  /\ \/ /\ pass' = [pass EXCEPT ![p].at = "resolving",
                                ![p].tx = ResolveTx(f, Winning(event), event)]
        /\ UNCHANGED failures
     \/ Fails /\ Error(p)
  /\ UNCHANGED <<chain, txodds, now, watch>>

\* rpc() resolves: the transaction was executed.  The fault: the result is filled in as the
\* transaction is sent, whatever becomes of it.
ConfirmedFault(p) ==
  LET f == pass[p].fixture IN
  /\ pass[p].at \in {"creating", "resolving"}
  /\ Execute(pass[p].tx) \/ UNCHANGED market
  /\ \/ pass[p].at = "creating" /\ Continue(p, [pass[p] EXCEPT !.created = @ \cup {f}])
     \/ pass[p].at = "resolving" /\ Continue(p, [pass[p] EXCEPT !.resolved = @ \cup {f}])
  /\ UNCHANGED <<orphans, txodds, now, watch, failures>>
Confirmed(p) ==
  LET f == pass[p].fixture IN
  /\ pass[p].at \in {"creating", "resolving"}
  /\ Execute(pass[p].tx)
  /\ \/ pass[p].at = "creating" /\ Continue(p, [pass[p] EXCEPT !.created = @ \cup {f}])
     \/ pass[p].at = "resolving" /\ Continue(p, [pass[p] EXCEPT !.resolved = @ \cup {f}])
  /\ UNCHANGED <<orphans, txodds, now, watch, failures>>

\* rpc() throws: the program refuses the transaction, or the node does not take it.
Refused(p) ==
  /\ pass[p].at \in {"creating", "resolving"}
  /\ \/ ~Valid(pass[p].tx) /\ UNCHANGED failures
     \/ Fails
  /\ Error(p)
  /\ UNCHANGED <<chain, txodds, now, watch>>

\* rpc() throws because the confirmation is late or lost; the transaction is on its way.
TimedOut(p) ==
  /\ pass[p].at \in {"creating", "resolving"}
  /\ Fails
  /\ orphans' = orphans \cup {pass[p].tx}
  /\ Error(p)
  /\ UNCHANGED <<market, txodds, now, watch>>

PassStep(p) ==
  \/ ListFixtures(p) \/ Return(p) \/ LatestSeq(p) \/ FetchProof(p)
  \/ Confirmed(p) \/ Refused(p) \/ TimedOut(p)
  \/ pass[p].at = "next" /\ \E f \in DOMAIN pass[p].todo : CheckMarket(p, f)

(****************************************************************************)
(* The environment                                                          *)
(****************************************************************************)
\* The transaction lands after all, or it is refused or expires.
LandLate(tx) ==
  /\ Execute(tx) \/ UNCHANGED market
  /\ orphans' = orphans \ {tx}
  /\ UNCHANGED <<txodds, now, watch, pass, failures>>

\* Anyone may create the market of a fixture, with predicates and a close of his own, and
\* crank a resolution, with any stats of any event; the authority may cancel.
OtherMarkets(f) ==
  [kind : {"create"}, fixture : {f}, close : OtherCloses, authority : {"stranger"},
   predicates : OtherPredicates]
OtherProofs(f, event) ==
  {[ResolveTx(f, w, event) EXCEPT !.stats = stats] :
     w \in Outcomes, stats \in (DOMAIN Score(event)) \X (DOMAIN Score(event))}
Others(f) ==
  /\ \/ \E tx \in OtherMarkets(f) : Execute(tx)
     \/ /\ market[f].status = "Open"
        /\ \E i \in 1 .. Len(feed[f]) : \E tx \in OtherProofs(f, feed[f][i]) : Execute(tx)
     \/ /\ market[f].status = "Open"
        /\ market' = [market EXCEPT ![f].status = "Refunded"]
  /\ UNCHANGED <<orphans, txodds, now, watch, pass, failures>>

\* Scores of a match that has started; those of full time may be corrected.
Publish(f, event) ==
  /\ now >= start[f] /\ Len(feed[f]) < MaxEvents
  /\ \A i \in 1 .. Len(feed[f]) : feed[f][i].period = FULL_TIME => event.period = FULL_TIME
  /\ feed' = [feed EXCEPT ![f] = Append(@, event)]
  /\ UNCHANGED <<chain, start, now, watch, pass, failures>>

Move(f) ==
  /\ start[f] = Kickoff[f] /\ now < start[f] /\ start[f] # Moved[f]
  /\ start' = [start EXCEPT ![f] = Moved[f]]
  /\ UNCHANGED <<chain, feed, now, watch, pass, failures>>

Tick ==
  /\ now < MaxTime
  /\ Prompt => \A p \in Passes : pass[p].at = "idle" /\ ~Due(p)
  /\ now' = now + 1
  /\ UNCHANGED <<chain, txodds, watch, pass, failures>>

Next ==
  \/ \E p \in Passes : StartWatch(p) \/ Begin(p) \/ PassStep(p)
  \/ \E tx \in orphans : LandLate(tx)
  \/ \E f \in Fixtures : \/ Others(f) \/ Move(f)
                         \/ \E event \in Events : Publish(f, event)
  \/ Tick

Spec == Init /\ [][Next]_vars

\* Timers fire, the daily run is kept, and every request is answered, if only with an error;
\* time passes.  Nobody else has to act (sync.ts need not be started, nor started again), and
\* no transaction that was given up has to land.
Fairness == /\ WF_vars(Tick)
            /\ \A p \in Passes : WF_vars(Begin(p)) /\ WF_vars(PassStep(p))

FairSpec == Spec /\ Fairness

-----------------------------------------------------------------------------
(****************************************************************************)
(* Properties                                                               *)
(****************************************************************************)
Transactions ==
  [kind : {"create"}, fixture : Fixtures, close : Nat, authority : {"admin"},
   predicates : {FullTime1X2}]
    \cup {ResolveTx(f, w, event) : f \in Fixtures, w \in Outcomes, event \in Events}

\* The market accounts, the transactions on their way and the locals of passes and scripts.
TypeOK ==
  /\ market \in [Fixtures -> [status : {"NotCreated", "Open", "Resolved", "Refunded"},
                              close : Nat, winner : Outcomes,
                              authority : {"none", "admin", "stranger"},
                              predicates : {<<>>, FullTime1X2} \cup OtherPredicates]]
  /\ orphans \subseteq Transactions
  /\ start \in [Fixtures -> Nat] /\ feed \in [Fixtures -> Seq(Events)]
  /\ now \in 0 .. MaxTime /\ watch \in {"off", "first tick", "ticking"}
  /\ failures \in 0 .. MaxFailures
  /\ \A p \in Passes :
       LET local == pass[p] IN
       /\ local.at \in {"idle", "listing", "next", "creating", "sequencing", "proving",
                        "resolving", "validating", "checking", "waiting",
                        "status", "reading back"}
       /\ local.started \in -1 .. now
       /\ DOMAIN local.todo \subseteq Fixtures
       /\ local.fixture \in Fixtures \cup {NoFixture}
       /\ local.tx \in Transactions \cup {NoTx}
       /\ local.created \cup local.resolved \subseteq Fixtures
       /\ local.errors \subseteq Fixtures
       /\ local.script \in {"sync", "create", "resolve", "prove", "e2e"}
       /\ local.about \in Fixtures \cup {NoFixture}
       /\ local.told \in [status : {"none", "NotCreated", "Open", "Resolved", "Refunded"},
                          winner : Outcomes]

Settled(f) == market[f].status \in {"Resolved", "Refunded"}

\* What passes and scripts that overlap report is true and no two claim the same change: a
\* fixture is `created` or `resolved` by at most one of them, its market is on the chain, and
\* a script that ends well has told the final status and winner.
ReportsAreTrue ==
  \A p \in Passes :
    /\ \A f \in pass[p].created : market[f].status # "NotCreated"
    /\ \A f \in pass[p].resolved : Settled(f)
    /\ \A q \in Passes \ {p} : /\ pass[p].created \cap pass[q].created = {}
                               /\ pass[p].resolved \cap pass[q].resolved = {}
    /\ pass[p].told # NoReport =>
         LET f == pass[p].about IN
         Settled(f) /\ pass[p].told = [status |-> market[f].status, winner |-> market[f].winner]

\* A market that the relayer created has, as its verdict, the winner of a full-time score of
\* its fixture, proved after its betting closed, whichever pass, late transaction or outside
\* cranker resolved it, with whatever stats, and whatever scores were read in play.  One that
\* somebody else created before the relayer did is resolved by the passes just the same; its
\* verdict is only what its own predicates say of some score.
VerdictIsFullTime ==
  \A f \in Fixtures : market[f].status = "Resolved" =>
    /\ now >= market[f].close
    /\ \E i \in 1 .. Len(feed[f]) :
         IF market[f].authority = "admin"
         THEN feed[f][i].period = FULL_TIME /\ market[f].winner = Winning(feed[f][i])
         ELSE Holds(market[f].predicates[market[f].winner + 1], Score(feed[f][i]))

Finished(f) ==
  /\ market[f].status = "Open" /\ market[f].predicates = FullTime1X2
  /\ now >= market[f].close /\ now > start[f] + FINISHED_AFTER
  /\ feed[f] # <<>> /\ feed[f][Len(feed[f])].period = FULL_TIME

\* A fixture that is listed gets its market, in spite of any failure that does not repeat
\* until the fixture is no longer listed, once the loop of sync.ts is past its first tick
\* (a first tick that is rejected ends it).
ListedFixturesGetMarkets ==
  \A f \in Fixtures :
    (LET later == now + 1 + (MaxFailures - failures) IN
     /\ watch = "ticking"
     /\ later <= MaxTime /\ start[f] \div DAY >= later \div DAY
     /\ f \in Listed)
      ~> market[f].status # "NotCreated"

\* A match that ends early enough on the UTC day of its kickoff, and whose market asks for
\* the full-time result, is settled by a later pass of such a loop, in spite of failing
\* requests, late corrections and transactions given up on the way.
EarlyMatchesSettle ==
  \A f \in Fixtures :
    (LET later == now + 1 + (MaxFailures - failures) IN
     watch = "ticking" /\ Finished(f) /\ later <= MaxTime /\ start[f] \div DAY = later \div DAY)
      ~> Settled(f)

(****************************************************************************)
(* What the comments and the documents say and the code does not do.        *)
(****************************************************************************)
\* AUTO_SYNC.md, of a pass each day: "Resolves any market whose match has finished".  (Of
\* the days that the bound of the clock leaves, one whole day is left to do it.)
FinishedMatchesSettle ==
  \A f \in Fixtures : Finished(f) /\ now + DAY < MaxTime ~> Settled(f)
=============================================================================
