---------------------------------- MODULE Pages ---------------------------------
(****************************************************************************)
(* The pages of the app over the program: a match, with its bet box         *)
(* (ChainView), the wallet's portfolio (app/portfolio/page.tsx), and the    *)
(* protocol's totals on the home page (useProtocolStats.ts).                *)
(*                                                                          *)
(* One page is open in a behaviour.  Whether other pages bet and claim is   *)
(* up to Pitchmarket's own steps.                                           *)
(****************************************************************************)
EXTENDS ChainView

CONSTANT Loads   \* the runs of load, of the portfolio, that may be under way at once

VARIABLES
  route,        \* which page is open
  publicKey,    \* the wallet that is connected, if any
  wagers,       \* the wagers on the page; owner is the model's, the page has none
  loading,
  loads,        \* by run of load: where it is, whose position it reads, what it has found
  busy,         \* the claim that is under way
  stats         \* useProtocolStats: its one reading, and the totals on the page

portfolio == <<publicKey, wagers, loading, loads, busy>>
match     == <<chain, reads, position, fetches, task>>   \* the portfolio has demoWinner, too
pagesVars == <<vars, page, route, portfolio, stats>>

(****************************************************************************)
(* The portfolio                                                            *)
(****************************************************************************)
NoOne  == "no one"
NoLoad == [at |-> "idle", owner |-> NoOne, found |-> {}]
Free   == [at |-> "idle", owner |-> NoOne, load |-> NoOne]

WagersOf(u) ==
  {[owner |-> u, outcome |-> o, stake |-> stake_per_outcome[u][o], claimed |-> claimed[u]] :
     o \in {o \in Outcomes : stake_per_outcome[u][o] > 0}}

\* The page is opened now, with the demo markets of its build, as in OpenMatch.
OpenPortfolio ==
  /\ publicKey = {} /\ wagers = {} /\ \A l \in Loads : loads[l] = NoLoad
  /\ status = "Resolved" /\ demoWinner' = {winning_outcome}
  /\ UNCHANGED <<vars, publicKey, wagers, loading, loads, busy, failures>>

\* load, of the wallet of the rendering that calls it.
BeginLoad(l, u) ==
  /\ loads[l].at = "idle"
  /\ loads' = [loads EXCEPT ![l] = [at |-> "asked", owner |-> u, found |-> {}]]
  /\ loading' = TRUE

\* A wallet is connected, or another one chosen; the effect of the new load runs.
Connect(u, l) ==
  /\ publicKey # {u}
  /\ publicKey' = {u} /\ BeginLoad(l, u)
  /\ UNCHANGED <<vars, demoWinner, wagers, busy, failures>>

\* Nothing is cleared.
Disconnect ==
  /\ publicKey # {} /\ publicKey' = {}
  /\ UNCHANGED <<vars, demoWinner, wagers, loading, loads, busy, failures>>

\* fetchPosition turns an error into no position.
AnswerLoad(l) ==
  LET found(set) == loads' = [loads EXCEPT ![l].at = "answered", ![l].found = set] IN
  /\ loads[l].at = "asked"
  /\ \/ found(WagersOf(loads[l].owner)) /\ UNCHANGED failures
     \/ found({}) /\ Fails
  /\ UNCHANGED <<vars, demoWinner, publicKey, wagers, loading, busy>>

\* setWagers, setLoading; the load of a claim ends it.
TakeLoad(l) ==
  /\ loads[l].at = "answered"
  /\ wagers' = loads[l].found /\ loading' = FALSE
  /\ loads' = [loads EXCEPT ![l] = NoLoad]
  /\ busy' = IF busy.load = l THEN Free ELSE busy
  /\ UNCHANGED <<vars, demoWinner, publicKey, failures>>

\* The button of a wager, which claims for the wallet that is connected.
OnClaimWager ==
  /\ publicKey # {} /\ ~loading /\ busy = Free
  /\ \E w \in wagers : ~w.claimed /\ demoWinner = {w.outcome}
  /\ \E u \in publicKey : busy' = [at |-> "sent", owner |-> u, load |-> NoOne]
  /\ UNCHANGED <<vars, demoWinner, publicKey, wagers, loading, loads, failures>>

ClaimConfirmed(l) ==
  /\ busy.at = "sent"
  /\ Claim(busy.owner)
  /\ BeginLoad(l, busy.owner)
  /\ busy' = [busy EXCEPT !.at = "loading", !.load = l]
  /\ UNCHANGED <<demoWinner, publicKey, wagers, failures>>

ClaimRejected ==
  /\ busy.at = "sent" /\ busy' = Free
  /\ UNCHANGED <<vars, demoWinner, publicKey, wagers, loading, loads, failures>>

Portfolio ==
  \/ \E l \in Loads : \/ \E u \in Users : Connect(u, l)
                      \/ AnswerLoad(l) \/ TakeLoad(l) \/ ClaimConfirmed(l)
  \/ OpenPortfolio \/ Disconnect \/ OnClaimWager \/ ClaimRejected

(****************************************************************************)
(* The totals on the home page                                              *)
(****************************************************************************)
\* Without a market there is nothing to count.
Totals ==
  [volume |-> total_pool, open |-> status = "Open",
   settled |-> status \notin {"NotCreated", "Open"},
   traders |-> Cardinality({u \in Users : StakeOf(u) > 0})]
EMPTY == [volume |-> 0, open |-> FALSE, settled |-> FALSE, traders |-> 0]

\* Both requests are answered in one step, or one of them fails.
AnswerStats ==
  /\ stats.at = "asked"
  /\ \/ stats' = [stats EXCEPT !.at = "answered", !.found = Totals] /\ UNCHANGED failures
     \/ stats' = [stats EXCEPT !.at = "done"] /\ Fails
  /\ UNCHANGED vars
TakeStats ==
  /\ stats.at = "answered"
  /\ stats' = [at |-> "done", found |-> EMPTY, shown |-> stats.found]
  /\ UNCHANGED <<vars, failures>>

Home == AnswerStats \/ TakeStats

-----------------------------------------------------------------------------
\* The match page is mounted, or it is not there at all.
PagesInit ==
  /\ route \in {"match", "portfolio", "home"}
  /\ IF route = "match" THEN ViewInit ELSE AwayInit
  /\ publicKey = {} /\ wagers = {} /\ loading = FALSE
  /\ loads = [l \in Loads |-> NoLoad] /\ busy = Free
  /\ stats = [at |-> "asked", found |-> EMPTY, shown |-> EMPTY]

PagesNext ==
  /\ \/ Page /\ UNCHANGED <<portfolio, stats>>
     \/ route = "portfolio" /\ Portfolio /\ UNCHANGED <<match, stats>>
     \/ route = "home" /\ Home /\ UNCHANGED <<match, demoWinner, portfolio>>
     \/ Next /\ UNCHANGED <<page, portfolio, stats>>
  /\ UNCHANGED route

PagesSpec     == PagesInit /\ [][PagesNext]_pagesVars
PagesFairSpec == PagesSpec /\ ViewFairness

-----------------------------------------------------------------------------
(****************************************************************************)
(* Properties                                                               *)
(****************************************************************************)
\* The state of every page.  A portfolio that loads has a load under way, and a claim that
\* waits for its load has one.
PagesTypeOK ==
  /\ ViewTypeOK
  /\ Cardinality(publicKey) <= 1 /\ publicKey \subseteq Users
  /\ loading => \E l \in Loads : loads[l].at # "idle"
  /\ busy.at = "loading" => loads[busy.load].owner = busy.owner
  /\ stats.at \in {"asked", "answered", "done"}

\* The outcome that the bet box and the theater show as the winner is the one that the program
\* has stored, for good, in whatever order late answers and the feed's markets arrive; and a
\* market that the home page counts as settled takes no bets any more.  This says nothing of
\* the match page's "On-chain verified", which goes by the feed's full time, nor that a winner
\* was proved: a cancelled market has one on the page (RefundedMeansNoWinner).
ShownSettlementIsTrue ==
  /\ \A w \in Winner : status \in {"Resolved", "Refunded"} /\ w = winning_outcome
  /\ stats.shown.settled => status \in {"Resolved", "Refunded"}

\* A stake that a page shows is really in the market: the bet box's and the portfolio's are
\* the stakes of the wallet that they were read for, and the totals are no more than all of
\* them.  No reading is ahead of the chain.
ShownStakesAreReal ==
  /\ \A p \in position, o \in Outcomes :
       /\ p.stakes[o] <= stake_per_outcome[Viewer][o]
       /\ p.claimed => claimed[Viewer]
  /\ \A w \in wagers : /\ w.stake <= stake_per_outcome[w.owner][w.outcome]
                       /\ w.claimed => claimed[w.owner]
  /\ stats.shown.volume <= total_pool \/ status = "Resolved"
  /\ stats.shown.traders <= Cardinality({u \in Users : StakeOf(u) > 0})

\* The match page comes to show the market as it is, with all of its bettors, and stays right:
\* overlapping refreshes whose answers arrive out of order, and failures, are made good.
PageCatchesUp ==
  <>[](route = "match" => chain = {ChainMarket})

\* A winner whose stake the page has read is offered the claim in the end, or is paid, however
\* old the market is that the page had before: whichever outcome it is, 0 among them.  One
\* whose read failed or was overtaken is not: nothing in BetBox.tsx reads the position again.
WinnersAreOffered ==
  <>[](/\ route = "match" /\ status = "Resolved"
       /\ \E p \in position : p.stakes[winning_outcome] > 0
       => claimed[Viewer] \/ OffersClaim)

(****************************************************************************)
(* What a page says and the code does not do.                               *)
(****************************************************************************)
\* The portfolio's heading, "Your on-chain World Cup positions", beside the address of the
\* wallet: the wagers under it are that wallet's.
PositionsAreYours ==
  ~loading => \A u \in publicKey, w \in wagers : w.owner = u
=============================================================================
