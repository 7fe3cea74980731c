------------------------------ MODULE PagesProofs ------------------------------
(****************************************************************************)
(* Theorems about Pages, for every value of its constants.                  *)
(****************************************************************************)
EXTENDS Pages, PitchmarketProofs

AtMostOne(S) == \A x, y \in S : x = y

Bettors == {u \in Users : StakeOf(u) > 0}

Positions == [stakes : [Outcomes -> Nat], claimed : BOOLEAN]
Wagers    == [owner : Users, outcome : Outcomes, stake : Nat, claimed : BOOLEAN]
Counts    == [volume : Nat, open : BOOLEAN, settled : BOOLEAN, traders : Nat]

(****************************************************************************)
(* What was read once may be old, but it stays true.  A market that was     *)
(* read as settled is so for good; stakes and totals only grow.             *)
(****************************************************************************)
TrueMarket(m) ==
  /\ m \in Markets
  /\ m.status \in {"Resolved", "Refunded"} => m.status = status /\ m.winningOutcome = winning_outcome

TruePosition(p) ==
  /\ p \in Positions
  /\ \A o \in Outcomes : p.stakes[o] <= stake_per_outcome[Viewer][o]
  /\ p.claimed => claimed[Viewer]

TrueWager(w) ==
  /\ w \in Wagers
  /\ w.stake <= stake_per_outcome[w.owner][w.outcome]
  /\ w.claimed => claimed[w.owner]

TrueCounts(t) ==
  /\ t \in Counts
  /\ t.settled => Settled
  /\ t.volume <= total_pool \/ status = "Resolved"
  /\ t.traders <= Cardinality(Bettors)

TrueWinner(o) == o = winning_outcome /\ status = "Resolved"

(****************************************************************************)
(* The inductive invariant, by what the pages keep                          *)
(****************************************************************************)
ReadIsTrue(e) ==
  /\ e \in [at : {"idle", "asked", "answered", "away"}, market : SUBSET Markets]
  /\ AtMostOne(e.market) /\ \A m \in e.market : TrueMarket(m)
  /\ e.market # {} <=> e.at = "answered"

MarketIsTrue ==
  /\ AtMostOne(chain) /\ \A m \in chain : TrueMarket(m)
  /\ DOMAIN reads = Refreshes /\ \A r \in Refreshes : ReadIsTrue(reads[r])

FetchIsTrue(e) ==
  /\ e \in [at : {"asked", "answered", "done"}, position : SUBSET Positions]
  /\ AtMostOne(e.position) /\ \A p \in e.position : TruePosition(p)

PositionIsTrue ==
  /\ AtMostOne(position) /\ \A p \in position : TruePosition(p)
  /\ DOMAIN fetches = {"mount", "after"} /\ \A f \in {"mount", "after"} : FetchIsTrue(fetches[f])

\* A box that is not busy waits for nothing.
Tasks == [kind : {"bet", "claim"}, outcome : Outcomes, amount : Nat, sent : BOOLEAN]
BoxIsBusy ==
  /\ task \in {Idle, Away} \cup Tasks
  /\ task \in {Idle, Away} => fetches["after"].at = "done"
  /\ task \in Tasks => (task.sent <=> fetches["after"].at = "done")

LoadIsTrue(e) ==
  /\ e \in [at : {"idle", "asked", "answered"}, owner : Users \cup {NoOne}, found : SUBSET Wagers]
  /\ \A w \in e.found : TrueWager(w)
  /\ e.at # "idle" => e.owner \in Users

DemoIsTrue == \A o \in demoWinner : TrueWinner(o)

WagersAreTrue ==
  /\ \A w \in wagers : TrueWager(w)
  /\ DOMAIN loads = Loads /\ \A l \in Loads : LoadIsTrue(loads[l])

LoadsAreUnderWay ==
  /\ publicKey \subseteq Users /\ AtMostOne(publicKey)
  /\ loading => \E l \in Loads : loads[l].at # "idle"
  /\ busy \in [at : {"idle", "sent", "loading"}, owner : Users \cup {NoOne}, load : Loads \cup {NoOne}]
  /\ busy.at = "sent" => busy.owner \in Users
  /\ busy.at = "loading" => /\ busy.load \in Loads /\ loads[busy.load].at # "idle"
                            /\ loads[busy.load].owner = busy.owner

CountsAreTrue ==
  /\ stats \in [at : {"asked", "answered", "done"}, found : Counts, shown : Counts]
  /\ TrueCounts(stats.found) /\ TrueCounts(stats.shown)

PInv ==
  /\ MarketIsTrue /\ PositionIsTrue /\ BoxIsBusy
  /\ DemoIsTrue /\ WagersAreTrue /\ LoadsAreUnderWay /\ CountsAreTrue
  /\ failures \in 0 .. MaxFailures
-----------------------------------------------------------------------------
(****************************************************************************)
(* What a step of the program leaves true                                   *)
(****************************************************************************)
\* Stakes and claims are never taken back, nor the pool before it is raked.
LEMMA StakesGrow ==
  ASSUME IInv, [Next]_vars
  PROVE  /\ \A u \in Users, o \in Outcomes : stake_per_outcome[u][o] <= stake_per_outcome'[u][o]
         /\ \A u \in Users : claimed[u] => claimed'[u]
         /\ total_pool <= total_pool' \/ status' = "Resolved"
<1>1. /\ Types /\ Phases
      /\ \A u \in Users, o \in Outcomes : stake_per_outcome[u][o] \in Nat
      /\ total_pool \in Nat /\ claimed \in [Users -> BOOLEAN]
  BY DEF IInv, Types, Stakes
<1>2. ASSUME NEW u \in Users, NEW o \in Outcomes, NEW n \in 0 .. wallet[u] + 1, PlaceBet(u, o, n)
      PROVE  /\ \A v \in Users, p \in Outcomes : stake_per_outcome[v][p] <= stake_per_outcome'[v][p]
             /\ claimed' = claimed /\ total_pool <= total_pool'
  <2>1. /\ stake_per_outcome' = [stake_per_outcome EXCEPT ![u][o] = @ + n]
        /\ claimed' = claimed /\ total_pool' = total_pool + n /\ n \in Nat
    BY <1>1, <1>2 DEF PlaceBet, AddStake, Types
  <2>2. stake_per_outcome \in Stakes
    BY <1>1 DEF Types
  <2>3. ASSUME NEW v \in Users, NEW p \in Outcomes
        PROVE  stake_per_outcome[v][p] <= stake_per_outcome'[v][p]
    <3>1. stake_per_outcome'[v][p] = stake_per_outcome[v][p]
            \/ stake_per_outcome'[v][p] = stake_per_outcome[v][p] + n
      BY <2>1, <2>2 DEF Stakes
    <3> QED
      BY <1>1, <2>1, <3>1
  <2> QED
    BY <1>1, <2>1, <2>3
<1>3. CASE \E u \in Users, o \in Outcomes : \E n \in 0 .. wallet[u] + 1 : PlaceBet(u, o, n)
  BY <1>2, <1>3
<1>4. CASE \E u \in Users : Claim(u) \/ ClaimRefund(u)
  <2>1. PICK u \in Users : /\ claimed' = [claimed EXCEPT ![u] = TRUE]
                           /\ stake_per_outcome' = stake_per_outcome /\ total_pool' = total_pool
    BY <1>4 DEF Claim, ClaimRefund, PayOut, pools
  <2> QED
    BY <1>1, <2>1
<1>5. CASE ~ \/ \E u \in Users, o \in Outcomes : \E n \in 0 .. wallet[u] + 1 : PlaceBet(u, o, n)
             \/ \E u \in Users : Claim(u) \/ ClaimRefund(u)
  <2>1. UNCHANGED <<stake_per_outcome, claimed>>
    BY <1>5 DEF Next, Instruction, Environment, CreateMarket, CancelMarket, Refund, Resolve,
                ResolveNoWinner, ResolveWinner, Tick, CommitScore, Donate, vars, positions
  <2>2. total_pool' = total_pool \/ status' = "Resolved"
    BY <1>1, <1>5
       DEF Next, Instruction, Environment, CreateMarket, CancelMarket, Refund, Resolve, Phases,
           ResolveNoWinner, ResolveWinner, Tick, CommitScore, Donate, vars, pools
  <2> QED
    BY <1>1, <2>1, <2>2
<1> QED
  BY <1>3, <1>4, <1>5

\* So no bettor is lost.
LEMMA BettorsGrow ==
  ASSUME IInv, IInv', [Next]_vars
  PROVE  /\ Cardinality(Bettors) \in Nat /\ Cardinality(Bettors') \in Nat
         /\ Cardinality(Bettors) <= Cardinality(Bettors')
<1>1. ASSUME NEW u \in Users
      PROVE  StakeOf(u) \in Nat /\ StakeOf(u)' \in Nat /\ StakeOf(u) <= StakeOf(u)'
  <2> DEFINE f == stake_per_outcome[u]
             h == stake_per_outcome'[u]
  <2>1. f \in [Outcomes -> Nat] /\ h \in [Outcomes -> Nat] /\ \A o \in Outcomes : f[o] <= h[o]
    BY StakesGrow DEF IInv, Types, Stakes
  <2> HIDE DEF f, h
  <2>2. f \in [Outcomes -> Int] /\ h \in [Outcomes -> Int]
    BY <2>1
  <2>3. SumFunction(f) \in Nat /\ SumFunction(h) \in Nat /\ SumFunction(f) <= SumFunction(h)
    BY <2>1, <2>2, SumMonotone, SumType, Finiteness
  <2> QED
    BY <2>3 DEF StakeOf, f, h
<1>2. Bettors \subseteq Bettors' /\ Bettors' \subseteq Users
  BY <1>1 DEF Bettors
<1> HIDE DEF Bettors
<1> QED
  BY <1>2, Finiteness, FS_Subset, FS_CardinalityType

\* What was true of the accounts stays true of them.
LEMMA TruthLasts ==
  ASSUME IInv, IInv', [Next]_vars
  PROVE  /\ \A m : TrueMarket(m) => TrueMarket(m)'
         /\ \A p : TruePosition(p) => TruePosition(p)'
         /\ \A w : TrueWager(w) => TrueWager(w)'
         /\ \A t : TrueCounts(t) => TrueCounts(t)'
         /\ \A o : TrueWinner(o) => TrueWinner(o)'
<1>1. Settled => UNCHANGED <<status, winning_outcome, total_pool>>
  BY SettledStays DEF pools
<1>2. /\ \A u \in Users, o \in Outcomes : stake_per_outcome[u][o] <= stake_per_outcome'[u][o]
      /\ \A u \in Users : claimed[u] => claimed'[u]
      /\ total_pool <= total_pool' \/ status' = "Resolved"
  BY StakesGrow
<1>3. /\ \A u \in Users, o \in Outcomes : /\ stake_per_outcome[u][o] \in Nat
                                          /\ stake_per_outcome'[u][o] \in Nat
      /\ total_pool \in Nat /\ total_pool' \in Nat /\ Viewer \in Users
  BY ViewAssumption DEF IInv, Types, Stakes
<1>4. ASSUME NEW m, TrueMarket(m) PROVE TrueMarket(m)'
  BY <1>1, <1>4 DEF TrueMarket, Settled, Markets
<1>5. ASSUME NEW p, TruePosition(p) PROVE TruePosition(p)'
  <2>1. /\ p \in Positions /\ (p.claimed => claimed[Viewer])
        /\ \A o \in Outcomes : p.stakes[o] \in Nat /\ p.stakes[o] <= stake_per_outcome[Viewer][o]
    BY <1>5 DEF TruePosition, Positions
  <2>2. \A o \in Outcomes : p.stakes[o] <= stake_per_outcome'[Viewer][o]
    BY <1>2, <1>3, <2>1
  <2> QED
    BY <1>2, <1>3, <2>1, <2>2 DEF TruePosition
<1>6. ASSUME NEW w, TrueWager(w) PROVE TrueWager(w)'
  <2>1. /\ w \in Wagers /\ w.owner \in Users /\ w.outcome \in Outcomes /\ w.stake \in Nat
        /\ w.stake <= stake_per_outcome[w.owner][w.outcome] /\ (w.claimed => claimed[w.owner])
    BY <1>6 DEF TrueWager, Wagers
  <2>2. w.stake <= stake_per_outcome'[w.owner][w.outcome]
    BY <1>2, <1>3, <2>1
  <2> QED
    BY <1>2, <2>1, <2>2 DEF TrueWager
<1>7. ASSUME NEW t, TrueCounts(t) PROVE TrueCounts(t)'
  <2>1. /\ t \in Counts /\ t.volume \in Nat /\ t.traders \in Nat
        /\ (t.settled => Settled) /\ (t.volume <= total_pool \/ status = "Resolved")
        /\ t.traders <= Cardinality(Bettors)
    BY <1>7 DEF TrueCounts, Counts
  <2>2. t.traders <= Cardinality(Bettors')
    BY <2>1, BettorsGrow
  <2>3. t.settled => Settled'
    BY <1>1, <2>1 DEF Settled
  <2>4. t.volume <= total_pool' \/ status' = "Resolved"
    BY <1>1, <1>2, <1>3, <2>1 DEF Settled
  <2> QED
    BY <2>1, <2>2, <2>3, <2>4 DEF TrueCounts
<1>8. ASSUME NEW o, TrueWinner(o) PROVE TrueWinner(o)'
  BY <1>1, <1>8 DEF TrueWinner, Settled
<1> QED
  BY <1>4, <1>5, <1>6, <1>7, <1>8
\* What is read now is true.
LEMMA ReadingIsTrue ==
  ASSUME IInv
  PROVE  /\ TrueMarket(ChainMarket)
         /\ AtMostOne(Position) /\ \A p \in Position : TruePosition(p)
         /\ \A u \in Users : \A w \in WagersOf(u) : TrueWager(w)
         /\ TrueCounts(Totals)
<1>1. Types /\ TypeOK /\ Viewer \in Users
  BY InRange, ViewAssumption DEF IInv
<1>2. Cardinality(Bettors) \in 0 .. Cardinality(Users)
  <2>1. Bettors \subseteq Users
    BY DEF Bettors
  <2> HIDE DEF Bettors
  <2> QED
    BY <2>1, Finiteness, FS_Subset, FS_CardinalityType
<1>3. TrueMarket(ChainMarket)
  BY <1>1, <1>2 DEF TrueMarket, ChainMarket, Markets, TypeOK, Bettors
<1>4. AtMostOne(Position) /\ \A p \in Position : TruePosition(p)
  <2>1. stake_per_outcome[Viewer] \in [Outcomes -> Nat] /\ claimed[Viewer] \in BOOLEAN
    BY <1>1 DEF Types, Stakes
  <2>2. AtMostOne(Position)
    BY DEF Position, AtMostOne
  <2>3. ASSUME NEW p \in Position PROVE TruePosition(p)
    <3>1. p = [stakes |-> stake_per_outcome[Viewer], claimed |-> claimed[Viewer]]
      BY DEF Position
    <3> QED
      BY <2>1, <3>1 DEF TruePosition, Positions
  <2> QED
    BY <2>2, <2>3
<1>5. ASSUME NEW u \in Users, NEW w \in WagersOf(u) PROVE TrueWager(w)
  <2>1. PICK o \in Outcomes :
          w = [owner |-> u, outcome |-> o, stake |-> stake_per_outcome[u][o], claimed |-> claimed[u]]
    BY DEF WagersOf
  <2>2. stake_per_outcome[u][o] \in Nat /\ claimed[u] \in BOOLEAN
    BY <1>1 DEF Types, Stakes
  <2> QED
    BY <2>1, <2>2 DEF TrueWager, Wagers
<1>6. TrueCounts(Totals)
  <2>1. Totals = [volume |-> total_pool, open |-> status = "Open",
                  settled |-> status \notin {"NotCreated", "Open"}, traders |-> Cardinality(Bettors)]
    BY DEF Totals, Bettors
  <2>2. total_pool \in Nat /\ Cardinality(Bettors) \in Nat /\ Cardinality(Users) \in Nat
    BY <1>1, <1>2, Finiteness, FS_CardinalityType DEF Types
  <2>3. status \notin {"NotCreated", "Open"} => Settled
    BY <1>1 DEF Types, Settled
  <2>4. Totals \in Counts
    BY <2>1, <2>2 DEF Counts
  <2>5. /\ Totals.volume = total_pool /\ Totals.traders = Cardinality(Bettors)
        /\ Totals.settled = (status \notin {"NotCreated", "Open"})
    BY <2>1
  <2>6. Totals.volume <= total_pool /\ Totals.traders <= Cardinality(Bettors)
    BY <2>2, <2>5
  <2> QED
    BY <2>3, <2>4, <2>5, <2>6 DEF TrueCounts
<1> QED
  BY <1>3, <1>4, <1>5, <1>6

\* An entry of a page's requests stays true, too.
LEMMA EntriesLast ==
  ASSUME IInv, IInv', [Next]_vars
  PROVE  /\ \A e : ReadIsTrue(e) => ReadIsTrue(e)'
         /\ \A e : FetchIsTrue(e) => FetchIsTrue(e)'
         /\ \A e : LoadIsTrue(e) => LoadIsTrue(e)'
<1>1. ASSUME NEW e, ReadIsTrue(e) PROVE ReadIsTrue(e)'
  BY <1>1, TruthLasts DEF ReadIsTrue
<1>2. ASSUME NEW e, FetchIsTrue(e) PROVE FetchIsTrue(e)'
  BY <1>2, TruthLasts DEF FetchIsTrue
<1>3. ASSUME NEW e, LoadIsTrue(e) PROVE LoadIsTrue(e)'
  BY <1>3, TruthLasts DEF LoadIsTrue
<1> QED
  BY <1>1, <1>2, <1>3

\* The entries that requests begin and end with.
LEMMA BlankEntries ==
  /\ ReadIsTrue(Unread) /\ ReadIsTrue(Reading)
  /\ FetchIsTrue(Asked) /\ FetchIsTrue(Done)
  /\ LoadIsTrue(NoLoad)
<1>1. ReadIsTrue(Unread) /\ ReadIsTrue(Reading)
  BY DEF ReadIsTrue, Unread, Reading, AtMostOne
<1>2. FetchIsTrue(Asked) /\ FetchIsTrue(Done)
  BY DEF FetchIsTrue, Asked, Done, AtMostOne
<1>3. LoadIsTrue(NoLoad)
  BY DEF LoadIsTrue, NoLoad
<1> QED
  BY <1>1, <1>2, <1>3
-----------------------------------------------------------------------------
(****************************************************************************)
(* The steps                                                                *)
(****************************************************************************)
LEMMA StepKinds ==
  ASSUME [PagesNext]_pagesVars
  PROVE  \/ Page /\ UNCHANGED <<portfolio, stats>>
         \/ Portfolio /\ UNCHANGED <<match, stats>>
         \/ Home /\ UNCHANGED <<match, demoWinner, portfolio>>
         \/ [Next]_vars /\ UNCHANGED <<page, portfolio, stats>>
BY DEF PagesNext, pagesVars

\* Whatever a page does is a step of the program or none.
LEMMA PagesTakeSteps ==
  ASSUME IInv, PInv, [PagesNext]_pagesVars
  PROVE  [Next]_vars
<1>1. CASE Page
  <2>1. CASE Confirmed
    <3>1. task \in Tasks
      BY <2>1 DEF Confirmed, PInv, BoxIsBusy
    <3>2. /\ task.outcome \in Outcomes /\ task.amount \in Nat /\ Viewer \in Users
          /\ wallet[Viewer] \in Nat
      BY <3>1, ViewAssumption DEF Tasks, IInv, Types
    <3>3. CASE PlaceBet(Viewer, task.outcome, task.amount)
      <4>1. task.amount \in 0 .. wallet[Viewer] + 1
        BY <3>2, <3>3 DEF PlaceBet, Deposit
      <4> QED
        BY <3>2, <3>3, <4>1 DEF Next, Instruction
    <3>4. CASE Claim(Viewer)
      BY <3>2, <3>4 DEF Next, Instruction
    <3> QED
      BY <2>1, <3>3, <3>4 DEF Confirmed
  <2>2. CASE ~Confirmed
    <3>1. UNCHANGED vars
      BY <1>1, <2>2 DEF Page, Refresh, Answer, AnswerRead, TakeMarkets, FailRead, AnswerFetch, TakeFetch,
                        OnBet, OnClaim, Begin, Rejected, OpenMatch, TakeFeed
    <3> QED
      BY <3>1
  <2> QED
    BY <2>1, <2>2
<1>2. CASE Portfolio
  <2>1. CASE \E l \in Loads : ClaimConfirmed(l)
    <3>1. busy.owner \in Users /\ Claim(busy.owner)
      BY <2>1 DEF ClaimConfirmed, PInv, LoadsAreUnderWay
    <3> QED
      BY <3>1 DEF Next, Instruction
  <2>2. CASE ~ \E l \in Loads : ClaimConfirmed(l)
    <3>1. UNCHANGED vars
      BY <1>2, <2>2 DEF Portfolio, Connect, AnswerLoad, TakeLoad, OpenPortfolio, Disconnect,
                        OnClaimWager, ClaimRejected
    <3> QED
      BY <3>1
  <2> QED
    BY <2>1, <2>2
<1>3. CASE Home
  BY <1>3 DEF Home, AnswerStats, TakeStats
<1> QED
  BY <1>1, <1>2, <1>3, StepKinds

\* The market of the match page and the reads under way for it.
LEMMA MarketHolds ==
  ASSUME IInv, IInv', [Next]_vars, PInv, [PagesNext]_pagesVars
  PROVE  MarketIsTrue'
<1> DEFINE Now == [at |-> "answered", market |-> {ChainMarket}]
<1>1. /\ MarketIsTrue /\ DOMAIN reads = Refreshes
      /\ \A r \in Refreshes : ReadIsTrue(reads[r])
  BY DEF PInv, MarketIsTrue
<1>2. \/ UNCHANGED <<chain, reads>>
      \/ \E r \in Refreshes : \E e \in {Unread, Reading, Now} :
           /\ reads' = [reads EXCEPT ![r] = e] /\ chain' \in {chain, reads[r].market}
  <2>1. CASE Page
    <3>1. CASE \E r \in Refreshes : Refresh(r) \/ Answer(r) \/ FailRead(r)
      BY <3>1 DEF Refresh, Answer, AnswerRead, TakeMarkets, FailRead
    <3>2. CASE \E f \in DOMAIN fetches : AnswerFetch(f) \/ TakeFetch(f)
      BY <3>2 DEF AnswerFetch, TakeFetch
    <3>3. CASE OpenMatch \/ TakeFeed
      BY <3>3 DEF OpenMatch, TakeFeed
    <3>4. CASE (\E outcome \in Outcomes, amount \in 1 .. wallet[Viewer] : OnBet(outcome, amount))
               \/ OnClaim \/ Confirmed \/ Rejected
      BY <3>4 DEF OnBet, OnClaim, Begin, Confirmed, Rejected
    <3> QED
      BY <2>1, <3>1, <3>2, <3>3, <3>4 DEF Page
  <2>2. CASE ~Page
    BY <2>2, StepKinds DEF match, page
  <2> QED
    BY <2>1, <2>2
<1>3. ReadIsTrue(Now)
  <2>1. TrueMarket(ChainMarket) /\ ChainMarket \in Markets
    BY ReadingIsTrue DEF TrueMarket
  <2> HIDE DEF Now
  <2>2. Now.at = "answered" /\ Now.market = {ChainMarket}
        /\ Now \in [at : {"idle", "asked", "answered", "away"}, market : SUBSET Markets]
    BY <2>1 DEF Now
  <2> QED
    BY <2>1, <2>2 DEF ReadIsTrue, AtMostOne
<1> HIDE DEF Now
<1>4. /\ DOMAIN reads' = Refreshes
      /\ \A r \in Refreshes : ReadIsTrue(reads'[r])
  BY <1>1, <1>2, <1>3, BlankEntries
<1>5. AtMostOne(chain') /\ \A m \in chain' : TrueMarket(m)
  BY <1>1, <1>2 DEF MarketIsTrue, ReadIsTrue, AtMostOne
<1>6. (\A r \in Refreshes : ReadIsTrue(reads[r]))'
  BY <1>4, EntriesLast
<1>7. (AtMostOne(chain) /\ \A m \in chain : TrueMarket(m))'
  BY <1>5, TruthLasts
<1> QED
  BY <1>4, <1>5, <1>6, <1>7 DEF MarketIsTrue, AtMostOne
\* The position of the bet box and the fetches under way for it.
LEMMA PositionHolds ==
  ASSUME IInv, IInv', [Next]_vars, PInv, [PagesNext]_pagesVars
  PROVE  PositionIsTrue'
<1> DEFINE Answers == {[at |-> "answered", position |-> p] : p \in {Position, {}}}
<1>1. /\ PositionIsTrue /\ DOMAIN fetches = {"mount", "after"}
      /\ \A f \in {"mount", "after"} : FetchIsTrue(fetches[f])
  BY DEF PInv, PositionIsTrue
<1>2. \/ UNCHANGED <<position, fetches>>
      \/ \E f \in {"mount", "after"} : \E e \in {Done, [fetches[f] EXCEPT !.at = "asked"]} \cup Answers :
           /\ fetches' = [fetches EXCEPT ![f] = e] /\ position' \in {position, fetches[f].position}
  <2>1. CASE Page
    <3>1. CASE \E r \in Refreshes : Refresh(r) \/ Answer(r) \/ FailRead(r)
      BY <3>1 DEF Refresh, Answer, AnswerRead, TakeMarkets, FailRead
    <3>2. ASSUME NEW f \in DOMAIN fetches, AnswerFetch(f) \/ TakeFetch(f)
          PROVE  \E e \in {Done} \cup Answers :
                   /\ fetches' = [fetches EXCEPT ![f] = e] /\ position' \in {position, fetches[f].position}
      BY <3>2 DEF AnswerFetch, TakeFetch
    <3>3. CASE OpenMatch \/ TakeFeed
      BY <3>3 DEF OpenMatch, TakeFeed
    <3>4. CASE Confirmed
      BY <3>4 DEF Confirmed
    <3>5. CASE (\E outcome \in Outcomes, amount \in 1 .. wallet[Viewer] : OnBet(outcome, amount))
               \/ OnClaim \/ Rejected
      BY <3>5 DEF OnBet, OnClaim, Begin, Rejected
    <3> QED
      BY <1>1, <2>1, <3>1, <3>2, <3>3, <3>4, <3>5 DEF Page
  <2>2. CASE ~Page
    BY <2>2, StepKinds DEF match, page
  <2> QED
    BY <2>1, <2>2
<1>3. \A e \in Answers : FetchIsTrue(e)
  <2>1. ASSUME NEW p \in {Position, {}} PROVE FetchIsTrue([at |-> "answered", position |-> p])
    <3> DEFINE e == [at |-> "answered", position |-> p]
    <3>1. AtMostOne(p) /\ \A x \in p : TruePosition(x)
      BY ReadingIsTrue DEF AtMostOne
    <3>2. p \in SUBSET Positions
      BY <3>1 DEF TruePosition
    <3>3. e.at = "answered" /\ e.position = p
          /\ e \in [at : {"asked", "answered", "done"}, position : SUBSET Positions]
      BY <3>2
    <3> HIDE DEF e
    <3>4. FetchIsTrue(e)
      BY <3>1, <3>3 DEF FetchIsTrue
    <3> QED
      BY <3>4 DEF e
  <2> QED
    BY <2>1
<1> HIDE DEF Answers
<1>4. \A f \in {"mount", "after"} : FetchIsTrue([fetches[f] EXCEPT !.at = "asked"])
  <2> SUFFICES ASSUME NEW f \in {"mount", "after"}
               PROVE  FetchIsTrue([fetches[f] EXCEPT !.at = "asked"])
    OBVIOUS
  <2> DEFINE e == fetches[f]
             g == [e EXCEPT !.at = "asked"]
  <2>1. /\ e \in [at : {"asked", "answered", "done"}, position : SUBSET Positions]
        /\ AtMostOne(e.position) /\ \A p \in e.position : TruePosition(p)
    BY <1>1 DEF FetchIsTrue
  <2> HIDE DEF e
  <2>2. /\ g \in [at : {"asked", "answered", "done"}, position : SUBSET Positions]
        /\ g.position = e.position
    BY <2>1
  <2> HIDE DEF g
  <2>3. FetchIsTrue(g)
    BY <2>1, <2>2 DEF FetchIsTrue
  <2> QED
    BY <2>3 DEF e, g
<1>5. /\ DOMAIN fetches' = {"mount", "after"}
      /\ \A f \in {"mount", "after"} : FetchIsTrue(fetches'[f])
  <2>1. CASE UNCHANGED <<position, fetches>>
    BY <2>1, <1>1
  <2>2. ASSUME NEW f \in {"mount", "after"},
               NEW e \in {Done, [fetches[f] EXCEPT !.at = "asked"]} \cup Answers,
               fetches' = [fetches EXCEPT ![f] = e]
        PROVE  /\ DOMAIN fetches' = {"mount", "after"}
               /\ \A g \in {"mount", "after"} : FetchIsTrue(fetches'[g])
    <3>1. FetchIsTrue(e)
      BY <1>3, <1>4, BlankEntries
    <3> QED
      BY <1>1, <2>2, <3>1
  <2> QED
    BY <1>2, <2>1, <2>2
<1>6. AtMostOne(position') /\ \A p \in position' : TruePosition(p)
  BY <1>1, <1>2 DEF PositionIsTrue, FetchIsTrue, AtMostOne
<1>7. (\A f \in {"mount", "after"} : FetchIsTrue(fetches[f]))'
  BY <1>5, EntriesLast
<1>8. (AtMostOne(position) /\ \A p \in position : TruePosition(p))'
  BY <1>6, TruthLasts
<1> QED
  BY <1>5, <1>7, <1>8 DEF PositionIsTrue

\* The bet box: it waits for its transaction or for the position that is read after it.
LEMMA BoxHolds ==
  ASSUME IInv, PInv, [PagesNext]_pagesVars
  PROVE  BoxIsBusy'
<1>1. /\ BoxIsBusy /\ DOMAIN fetches = {"mount", "after"}
      /\ \A f \in {"mount", "after"} : DOMAIN fetches[f] = {"at", "position"}
      /\ fetches["mount"] \in [at : {"asked", "answered", "done"}, position : SUBSET Positions]
      /\ fetches["after"] \in [at : {"asked", "answered", "done"}, position : SUBSET Positions]
  BY DEF PInv, PositionIsTrue, FetchIsTrue
<1>2. Done.at = "done" /\ Idle \notin Tasks /\ Away \notin Tasks /\ Idle # Away
  BY DEF Done, Idle, Away, Tasks
<1>3. CASE UNCHANGED <<task, fetches>>
  BY <1>1, <1>3 DEF BoxIsBusy
<1>4. ASSUME NEW f \in DOMAIN fetches, AnswerFetch(f) PROVE BoxIsBusy'
  <2>1. /\ fetches[f].at = "asked" /\ task' = task
        /\ \E p : fetches' = [fetches EXCEPT ![f] = [at |-> "answered", position |-> p]]
    BY <1>4 DEF AnswerFetch
  <2>2. fetches'["after"].at = "done" <=> fetches["after"].at = "done"
    BY <1>1, <2>1
  <2> QED
    BY <1>1, <2>1, <2>2 DEF BoxIsBusy
<1>5. ASSUME NEW f \in DOMAIN fetches, TakeFetch(f) PROVE BoxIsBusy'
  <2>1. /\ fetches' = [fetches EXCEPT ![f] = Done] /\ fetches[f].at = "answered"
        /\ task' = IF f = "after" THEN Idle ELSE task
    BY <1>5 DEF TakeFetch
  <2>2. CASE f = "after"
    <3>1. task' = Idle /\ fetches'["after"].at = "done"
      BY <1>1, <1>2, <2>1, <2>2
    <3> QED
      BY <1>2, <3>1 DEF BoxIsBusy
  <2>3. CASE f # "after"
    <3>1. task' = task /\ fetches'["after"] = fetches["after"]
      BY <1>1, <2>1, <2>3
    <3> QED
      BY <1>1, <3>1 DEF BoxIsBusy
  <2> QED
    BY <2>2, <2>3
<1>6. ASSUME NEW kind \in {"bet", "claim"}, NEW o \in Outcomes, NEW n \in Nat, Begin(kind, o, n)
      PROVE  BoxIsBusy'
  <2>1. /\ task = Idle /\ task' = [kind |-> kind, outcome |-> o, amount |-> n, sent |-> TRUE]
        /\ fetches' = fetches
    BY <1>6 DEF Begin
  <2>2. task' \in Tasks /\ task'.sent = TRUE
    BY <2>1 DEF Tasks
  <2>3. fetches'["after"].at = "done"
    BY <1>1, <2>1 DEF BoxIsBusy
  <2> QED
    BY <1>2, <2>2, <2>3 DEF BoxIsBusy
<1>7. CASE Confirmed
  <2>1. /\ task \in Tasks /\ task' = [task EXCEPT !.sent = FALSE]
        /\ fetches' = [fetches EXCEPT !["after"].at = "asked"]
    BY <1>1, <1>7 DEF Confirmed, BoxIsBusy
  <2>2. task' \in Tasks /\ task'.sent = FALSE
    BY <2>1 DEF Tasks
  <2>3. fetches'["after"].at = "asked"
    BY <1>1, <2>1
  <2> QED
    BY <1>2, <2>2, <2>3 DEF BoxIsBusy
<1>8. CASE Rejected
  <2>1. /\ task \in Tasks /\ task.sent /\ task' = Idle /\ fetches' = fetches
    BY <1>1, <1>8 DEF Rejected, BoxIsBusy
  <2> QED
    BY <1>1, <1>2, <2>1 DEF BoxIsBusy
<1>9. CASE OpenMatch \/ TakeFeed
  BY <1>3, <1>9 DEF OpenMatch, TakeFeed
<1>10. CASE Page
  <2>1. CASE \E r \in Refreshes : Refresh(r) \/ Answer(r) \/ FailRead(r)
    BY <1>3, <2>1 DEF Refresh, Answer, AnswerRead, TakeMarkets, FailRead
  <2>2. ASSUME NEW outcome \in Outcomes, NEW amount \in 1 .. wallet[Viewer], OnBet(outcome, amount)
        PROVE  BoxIsBusy'
    <3>1. amount \in Nat
      BY ViewAssumption DEF IInv, Types
    <3> QED
      BY <1>6, <2>2, <3>1 DEF OnBet
  <2>3. CASE OnClaim
    BY <1>6, <2>3, ZeroInOutcomes DEF OnClaim
  <2> QED
    BY <1>10, <1>4, <1>5, <1>7, <1>8, <1>9, <2>1, <2>2, <2>3 DEF Page
<1>11. CASE ~Page
  BY <1>3, <1>11, StepKinds DEF match, page
<1> QED
  BY <1>10, <1>11
\* The winner that the demo markets name.
LEMMA DemoHolds ==
  ASSUME IInv, IInv', [Next]_vars, PInv, [PagesNext]_pagesVars
  PROVE  DemoIsTrue'
<1>1. DemoIsTrue
  BY DEF PInv
<1>2. demoWinner' = demoWinner \/ \A o \in demoWinner' : TrueWinner(o)
  <2>1. CASE Page
    BY <2>1 DEF Page, Refresh, Answer, AnswerRead, TakeMarkets, FailRead, AnswerFetch, TakeFetch,
                OnBet, OnClaim, Begin, Confirmed, Rejected, OpenMatch, TakeFeed, TrueWinner
  <2>2. CASE Portfolio
    BY <2>2 DEF Portfolio, Connect, AnswerLoad, TakeLoad, OpenPortfolio, Disconnect, OnClaimWager,
                ClaimConfirmed, ClaimRejected, TrueWinner
  <2> QED
    BY <2>1, <2>2, StepKinds DEF page
<1>3. \A o \in demoWinner' : TrueWinner(o)
  BY <1>1, <1>2 DEF DemoIsTrue
<1>4. (\A o \in demoWinner : TrueWinner(o))'
  BY <1>3, TruthLasts
<1> QED
  BY <1>4 DEF DemoIsTrue

\* The portfolio: the wagers on it, and those that its loads have found.
LEMMA WagersHold ==
  ASSUME IInv, IInv', [Next]_vars, PInv, [PagesNext]_pagesVars
  PROVE  WagersAreTrue'
<1>1. WagersAreTrue /\ LoadsAreUnderWay /\ DOMAIN loads = Loads /\ \A l \in Loads : LoadIsTrue(loads[l])
  BY DEF PInv, WagersAreTrue
<1>2. CASE UNCHANGED portfolio
  <2>1. UNCHANGED <<wagers, loads>>
    BY <1>2 DEF portfolio
  <2>2. (\A w \in wagers : TrueWager(w))'
    BY <1>1, <2>1, TruthLasts DEF WagersAreTrue
  <2>3. (\A l \in Loads : LoadIsTrue(loads[l]))'
    BY <1>1, <2>1, EntriesLast
  <2> QED
    BY <1>1, <2>1, <2>2, <2>3 DEF WagersAreTrue
<1>3. ASSUME NEW l \in Loads, NEW e, LoadIsTrue(e), loads' = [loads EXCEPT ![l] = e],
             wagers' \in {wagers, loads[l].found}
      PROVE  WagersAreTrue'
  <2>1. DOMAIN loads' = Loads /\ \A k \in Loads : LoadIsTrue(loads'[k])
    BY <1>1, <1>3
  <2>2. \A w \in wagers' : TrueWager(w)
    BY <1>1, <1>3 DEF WagersAreTrue, LoadIsTrue
  <2>3. (\A w \in wagers : TrueWager(w))'
    BY <1>1, <1>3, <2>2, TruthLasts DEF WagersAreTrue
  <2>4. (\A k \in Loads : LoadIsTrue(loads[k]))'
    BY <2>1, EntriesLast
  <2> QED
    BY <2>1, <2>3, <2>4 DEF WagersAreTrue
<1>4. ASSUME NEW l \in Loads, NEW u \in Users, BeginLoad(l, u),
             UNCHANGED wagers
      PROVE  WagersAreTrue'
  <2> DEFINE e == [at |-> "asked", owner |-> u, found |-> {}]
  <2>1. LoadIsTrue(e)
    BY DEF LoadIsTrue
  <2>2. loads' = [loads EXCEPT ![l] = e]
    BY <1>4 DEF BeginLoad
  <2> HIDE DEF e
  <2> QED
    BY <1>3, <1>4, <2>1, <2>2
<1>5. ASSUME NEW l \in Loads, AnswerLoad(l) PROVE WagersAreTrue'
  <2> DEFINE x == loads[l]
  <2>1. PICK set \in {WagersOf(x.owner), {}} :
          loads' = [loads EXCEPT ![l].at = "answered", ![l].found = set]
    BY <1>5 DEF AnswerLoad
  <2>2. /\ x \in [at : {"idle", "asked", "answered"}, owner : Users \cup {NoOne}, found : SUBSET Wagers]
        /\ x.owner \in Users
    BY <1>1, <1>5 DEF LoadIsTrue, AnswerLoad
  <2>3. (\A w \in set : TrueWager(w)) /\ set \in SUBSET Wagers
    <3>1. \A w \in set : TrueWager(w)
      BY <2>1, <2>2, ReadingIsTrue
    <3> QED
      BY <3>1 DEF TrueWager
  <2> DEFINE y == [x EXCEPT !.at = "answered"]
             e == [y EXCEPT !.found = set]
             Entries == [at : {"idle", "asked", "answered"}, owner : Users \cup {NoOne},
                         found : SUBSET Wagers]
  <2>4. loads' = [loads EXCEPT ![l] = e]
    BY <1>1, <2>1
  <2> HIDE DEF x
  <2>5. y \in Entries /\ y.owner = x.owner
    BY <2>2
  <2> HIDE DEF y
  <2>6. e \in Entries /\ e.owner = x.owner /\ e.found = set
    BY <2>3, <2>5
  <2> HIDE DEF e
  <2>7. LoadIsTrue(e)
    BY <2>2, <2>3, <2>6 DEF LoadIsTrue
  <2>8. UNCHANGED wagers
    BY <1>5 DEF AnswerLoad
  <2> QED
    BY <1>3, <2>4, <2>7, <2>8
<1>6. ASSUME NEW l \in Loads, TakeLoad(l) PROVE WagersAreTrue'
  BY <1>3, <1>6, BlankEntries DEF TakeLoad
<1>7. CASE OpenPortfolio \/ Disconnect \/ OnClaimWager \/ ClaimRejected
  <2>1. UNCHANGED <<wagers, loads>>
    BY <1>7 DEF OpenPortfolio, Disconnect, OnClaimWager, ClaimRejected
  <2>2. (\A w \in wagers : TrueWager(w))'
    BY <1>1, <2>1, TruthLasts DEF WagersAreTrue
  <2>3. (\A l \in Loads : LoadIsTrue(loads[l]))'
    BY <1>1, <2>1, EntriesLast
  <2> QED
    BY <1>1, <2>1, <2>2, <2>3 DEF WagersAreTrue
<1>8. ASSUME NEW l \in Loads, ClaimConfirmed(l) PROVE WagersAreTrue'
  <2>1. busy.owner \in Users
    BY <1>1, <1>8 DEF ClaimConfirmed, LoadsAreUnderWay
  <2> QED
    BY <1>4, <1>8, <2>1 DEF ClaimConfirmed
<1>9. ASSUME NEW u \in Users, NEW l \in Loads, Connect(u, l) PROVE WagersAreTrue'
  BY <1>4, <1>9 DEF Connect
<1>10. CASE Portfolio
  BY <1>5, <1>6, <1>7, <1>8, <1>9, <1>10 DEF Portfolio
<1> QED
  BY <1>2, <1>10, StepKinds

\* What the portfolio waits for.
LEMMA LoadsHold ==
  ASSUME PInv, [PagesNext]_pagesVars
  PROVE  LoadsAreUnderWay'
<1> DEFINE Busy == [at : {"idle", "sent", "loading"}, owner : Users \cup {NoOne}, load : Loads \cup {NoOne}]
<1>1. /\ LoadsAreUnderWay /\ DOMAIN loads = Loads /\ \A l \in Loads : LoadIsTrue(loads[l])
      /\ publicKey \subseteq Users /\ AtMostOne(publicKey)
      /\ busy \in Busy
      /\ busy.at = "sent" => busy.owner \in Users
      /\ busy.at = "loading" => /\ busy.load \in Loads /\ loads[busy.load].at # "idle"
                                /\ loads[busy.load].owner = busy.owner
  BY DEF PInv, WagersAreTrue, LoadsAreUnderWay
<1>2. Free \in Busy /\ Free.at = "idle"
  BY DEF Free
<1> HIDE DEF Busy
<1>3. CASE UNCHANGED portfolio
  BY <1>1, <1>3 DEF portfolio, LoadsAreUnderWay
<1>4. ASSUME NEW l \in Loads, NEW u \in Users, BeginLoad(l, u)
      PROVE  /\ loads'[l].at = "asked" /\ loads'[l].owner = u /\ loads[l].at = "idle" /\ loading' = TRUE
             /\ \A k \in Loads : k # l => loads'[k] = loads[k]
  BY <1>1, <1>4 DEF BeginLoad
<1>5. ASSUME NEW u \in Users, NEW l \in Loads, Connect(u, l) PROVE LoadsAreUnderWay'
  <2>1. publicKey' = {u} /\ busy' = busy /\ BeginLoad(l, u)
    BY <1>5 DEF Connect
  <2>2. publicKey' \subseteq Users /\ AtMostOne(publicKey')
    BY <2>1 DEF AtMostOne
  <2>3. busy'.at = "loading" => /\ busy'.load \in Loads /\ loads'[busy'.load].at # "idle"
                                /\ loads'[busy'.load].owner = busy'.owner
    BY <1>1, <1>4, <2>1
  <2>4. \E k \in Loads : loads'[k].at # "idle"
    BY <1>4, <2>1
  <2> QED
    BY <1>1, <2>1, <2>2, <2>3, <2>4 DEF LoadsAreUnderWay, Busy, AtMostOne
<1>6. ASSUME NEW l \in Loads, AnswerLoad(l) PROVE LoadsAreUnderWay'
  <2>1. /\ loads[l].at = "asked" /\ UNCHANGED <<publicKey, loading, busy>>
        /\ \E set : loads' = [loads EXCEPT ![l].at = "answered", ![l].found = set]
    BY <1>6 DEF AnswerLoad
  <2>2. DOMAIN loads[l] = {"at", "owner", "found"}
    BY <1>1 DEF LoadIsTrue
  <2>3. /\ loads'[l].at = "answered" /\ loads'[l].owner = loads[l].owner
        /\ \A k \in Loads : k # l => loads'[k] = loads[k]
    BY <1>1, <2>1, <2>2
  <2>4. \A k \in Loads : /\ loads[k].at # "idle" => loads'[k].at # "idle"
                         /\ loads'[k].owner = loads[k].owner
    BY <2>3
  <2> QED
    BY <1>1, <2>1, <2>4 DEF LoadsAreUnderWay
<1>7. ASSUME NEW l \in Loads, TakeLoad(l) PROVE LoadsAreUnderWay'
  <2>1. /\ loading' = FALSE /\ loads' = [loads EXCEPT ![l] = NoLoad] /\ publicKey' = publicKey
        /\ busy' = IF busy.load = l THEN Free ELSE busy
    BY <1>7 DEF TakeLoad
  <2>2. CASE busy.load = l
    <3>1. busy' = Free
      BY <2>1, <2>2
    <3> QED
      BY <1>1, <1>2, <2>1, <3>1 DEF LoadsAreUnderWay, Busy
  <2>3. CASE busy.load # l
    <3>1. busy' = busy /\ \A k \in Loads : k # l => loads'[k] = loads[k]
      BY <1>1, <2>1, <2>3
    <3> QED
      BY <1>1, <2>1, <2>3, <3>1 DEF LoadsAreUnderWay
  <2> QED
    BY <2>2, <2>3
<1>8. ASSUME NEW l \in Loads, ClaimConfirmed(l) PROVE LoadsAreUnderWay'
  <2>1. /\ busy.at = "sent" /\ busy.owner \in Users /\ BeginLoad(l, busy.owner)
        /\ busy' = [busy EXCEPT !.at = "loading", !.load = l] /\ publicKey' = publicKey
    BY <1>1, <1>8 DEF ClaimConfirmed
  <2>2. busy' \in Busy /\ busy'.at = "loading" /\ busy'.load = l /\ busy'.owner = busy.owner
    BY <1>1, <2>1 DEF Busy
  <2>3. loads'[l].at = "asked" /\ loads'[l].owner = busy.owner
    BY <1>4, <2>1
  <2> QED
    BY <1>1, <2>1, <2>2, <2>3 DEF LoadsAreUnderWay, Busy
<1>9. CASE OnClaimWager
  <2>1. PICK u \in publicKey : busy' = [at |-> "sent", owner |-> u, load |-> NoOne]
    BY <1>9 DEF OnClaimWager
  <2>2. busy' \in Busy /\ busy'.at = "sent" /\ busy'.owner \in Users
    BY <1>1, <2>1 DEF Busy
  <2>3. UNCHANGED <<publicKey, loading, loads>>
    BY <1>9 DEF OnClaimWager
  <2> QED
    BY <1>1, <2>2, <2>3 DEF LoadsAreUnderWay, Busy
<1>10. CASE ClaimRejected
  <2>1. busy' = Free /\ UNCHANGED <<publicKey, loading, loads>>
    BY <1>10 DEF ClaimRejected
  <2> QED
    BY <1>1, <1>2, <2>1 DEF LoadsAreUnderWay, Busy
<1>11. CASE OpenPortfolio \/ Disconnect
  <2>1. publicKey' \in {publicKey, {}} /\ UNCHANGED <<loading, loads, busy>>
    BY <1>11 DEF OpenPortfolio, Disconnect
  <2> QED
    BY <1>1, <2>1 DEF LoadsAreUnderWay, AtMostOne
<1>12. CASE Portfolio
  BY <1>5, <1>6, <1>7, <1>8, <1>9, <1>10, <1>11, <1>12 DEF Portfolio
<1> QED
  BY <1>3, <1>12, StepKinds

\* The totals of the home page, and the bound of the failures.
LEMMA CountsHold ==
  ASSUME IInv, IInv', [Next]_vars, PInv, [PagesNext]_pagesVars
  PROVE  CountsAreTrue'
<1> DEFINE Stats == [at : {"asked", "answered", "done"}, found : Counts, shown : Counts]
<1>1. stats \in Stats /\ TrueCounts(stats.found) /\ TrueCounts(stats.shown)
  BY DEF PInv, CountsAreTrue
<1>2. TrueCounts(EMPTY) /\ TrueCounts(Totals) /\ EMPTY \in Counts /\ Totals \in Counts
  <2>1. EMPTY \in Counts /\ EMPTY.settled = FALSE /\ EMPTY.volume = 0 /\ EMPTY.traders = 0
    BY DEF EMPTY, Counts
  <2>2. total_pool \in Nat /\ Cardinality(Bettors) \in Nat
    BY BettorsGrow DEF IInv, Types
  <2>3. EMPTY.volume <= total_pool /\ EMPTY.traders <= Cardinality(Bettors)
    BY <2>1, <2>2
  <2> QED
    BY <2>1, <2>3, ReadingIsTrue DEF TrueCounts
<1>3. stats' \in Stats /\ TrueCounts(stats'.found) /\ TrueCounts(stats'.shown)
  <2>1. CASE UNCHANGED stats
    BY <1>1, <2>1
  <2>2. CASE AnswerStats
    <3>1. \/ stats' = [stats EXCEPT !.at = "answered", !.found = Totals]
          \/ stats' = [stats EXCEPT !.at = "done"]
      BY <2>2 DEF AnswerStats
    <3> QED
      BY <1>1, <1>2, <3>1
  <2>3. CASE TakeStats
    <3>1. stats' = [at |-> "done", found |-> EMPTY, shown |-> stats.found]
      BY <2>3 DEF TakeStats
    <3> QED
      BY <1>1, <1>2, <3>1
  <2> QED
    BY <2>1, <2>2, <2>3, StepKinds DEF Home
<1> HIDE DEF Stats
<1>4. TrueCounts(stats.found)' /\ TrueCounts(stats.shown)'
  BY <1>3, TruthLasts
<1> QED
  BY <1>3, <1>4 DEF CountsAreTrue, Stats

LEMMA FailuresBounded ==
  ASSUME PInv, [PagesNext]_pagesVars
  PROVE  failures' \in 0 .. MaxFailures
<1>1. failures' = failures \/ Fails
  <2>1. CASE Page
    BY <2>1 DEF Page, Refresh, Answer, AnswerRead, TakeMarkets, FailRead, AnswerFetch, TakeFetch,
                OnBet, OnClaim, Begin, Confirmed, Rejected, OpenMatch, TakeFeed
  <2>2. CASE Portfolio
    BY <2>2 DEF Portfolio, Connect, AnswerLoad, TakeLoad, OpenPortfolio, Disconnect, OnClaimWager,
                ClaimConfirmed, ClaimRejected
  <2>3. CASE Home
    BY <2>3 DEF Home, AnswerStats, TakeStats
  <2> QED
    BY <2>1, <2>2, <2>3, StepKinds DEF page
<1> QED
  BY <1>1, ViewAssumption DEF PInv, Fails
-----------------------------------------------------------------------------
(****************************************************************************)
(* The theorems                                                             *)
(****************************************************************************)
LEMMA InitPInv == PagesInit => PInv
<1> SUFFICES ASSUME PagesInit PROVE PInv
  OBVIOUS
<1>1. IInv
  BY InitIInv DEF PagesInit, ViewInit, AwayInit
<1>2. MarketIsTrue
  <2>1. chain = {} /\ DOMAIN reads = Refreshes
        /\ \A r \in Refreshes : reads[r] \in {Unread, [at |-> "away", market |-> {}]}
    BY DEF PagesInit, ViewInit, AwayInit, Mounted
  <2>2. ReadIsTrue([at |-> "away", market |-> {}])
    BY DEF ReadIsTrue, AtMostOne
  <2> QED
    BY <2>1, <2>2, BlankEntries DEF MarketIsTrue, AtMostOne
<1>3. PositionIsTrue /\ BoxIsBusy
  <2>1. /\ position = {} /\ task \in {Idle, Away}
        /\ fetches \in {[mount |-> Asked, after |-> Done], [mount |-> Done, after |-> Done]}
    BY DEF PagesInit, ViewInit, AwayInit, Mounted
  <2>2. /\ DOMAIN fetches = {"mount", "after"} /\ fetches["after"] = Done
        /\ fetches["mount"] \in {Asked, Done}
    BY <2>1
  <2>3. Done.at = "done" /\ Idle \notin Tasks /\ Away \notin Tasks
    BY DEF Done, Idle, Away, Tasks
  <2>4. PositionIsTrue
    BY <2>1, <2>2, BlankEntries DEF PositionIsTrue, AtMostOne
  <2> QED
    BY <2>1, <2>2, <2>3, <2>4 DEF BoxIsBusy
<1>4. WagersAreTrue /\ LoadsAreUnderWay
  <2>1. /\ publicKey = {} /\ wagers = {} /\ loading = FALSE
        /\ loads = [l \in Loads |-> NoLoad] /\ busy = Free
    BY DEF PagesInit
  <2>2. WagersAreTrue
    BY <2>1, BlankEntries DEF WagersAreTrue
  <2>3. LoadsAreUnderWay
    BY <2>1 DEF LoadsAreUnderWay, Free, AtMostOne
  <2> QED
    BY <2>2, <2>3
<1>5. CountsAreTrue
  <2>1. stats = [at |-> "asked", found |-> EMPTY, shown |-> EMPTY]
    BY DEF PagesInit
  <2>2. EMPTY \in Counts /\ EMPTY.settled = FALSE /\ EMPTY.volume = 0 /\ EMPTY.traders = 0
    BY DEF EMPTY, Counts
  <2>3. total_pool \in Nat /\ Cardinality(Bettors) \in Nat
    <3>1. IsFiniteSet(Bettors)
      <4>1. Bettors \subseteq Users
        BY DEF Bettors
      <4> QED
        BY <4>1, Finiteness, FS_Subset
    <3> QED
      BY <1>1, <3>1, FS_CardinalityType DEF IInv, Types
  <2>4. EMPTY.volume <= total_pool /\ EMPTY.traders <= Cardinality(Bettors)
    BY <2>2, <2>3
  <2>5. TrueCounts(EMPTY)
    BY <2>2, <2>4 DEF TrueCounts
  <2> QED
    BY <2>1, <2>2, <2>5 DEF CountsAreTrue
<1>6. failures \in 0 .. MaxFailures
  BY ViewAssumption DEF PagesInit, ViewInit, AwayInit
<1>7. DemoIsTrue
  BY DEF PagesInit, ViewInit, AwayInit, DemoIsTrue
<1> QED
  BY <1>2, <1>3, <1>4, <1>5, <1>6, <1>7 DEF PInv

\* The program's own invariant holds beside the pages', whose reads it makes true.
LEMMA PagesInvariance == PagesSpec => [](IInv /\ PInv)
<1>1. PagesInit => IInv /\ PInv
  BY InitIInv, InitPInv DEF PagesInit, ViewInit, AwayInit
<1>2. IInv /\ PInv /\ [PagesNext]_pagesVars => (IInv /\ PInv)'
  <2> SUFFICES ASSUME IInv, PInv, [PagesNext]_pagesVars PROVE IInv' /\ PInv'
    OBVIOUS
  <2>1. [Next]_vars
    BY PagesTakeSteps
  <2>2. IInv'
    BY <2>1, NextIInv
  <2>3. MarketIsTrue' /\ PositionIsTrue' /\ BoxIsBusy'
    BY <2>1, <2>2, MarketHolds, PositionHolds, BoxHolds
  <2>4. DemoIsTrue' /\ WagersAreTrue' /\ LoadsAreUnderWay' /\ CountsAreTrue'
    BY <2>1, <2>2, DemoHolds, WagersHold, LoadsHold, CountsHold
  <2>5. failures' \in 0 .. MaxFailures
    BY FailuresBounded
  <2>6. MaxFailures' = MaxFailures
    OBVIOUS
  <2> QED
    BY <2>2, <2>3, <2>4, <2>5, <2>6 DEF PInv
<1> QED
  BY <1>1, <1>2, PTL DEF PagesSpec

LEMMA OneCounts ==
  ASSUME NEW S, AtMostOne(S)
  PROVE  Cardinality(S) <= 1
<1>1. CASE S = {}
  BY <1>1, FS_EmptySet
<1>2. CASE S # {}
  <2>1. PICK x \in S : S = {x}
    BY <1>2 DEF AtMostOne
  <2>2. Cardinality({x}) = 1
    BY FS_Singleton
  <2> QED
    BY <2>1, <2>2
<1> QED
  BY <1>1, <1>2

\* The pages keep their types, and a busy box, a loading portfolio and a claim that waits
\* for its load each wait for something that is under way: BetBox.tsx, portfolio/page.tsx.
THEOREM PagesTypeCorrect == PagesSpec => []PagesTypeOK
<1>1. IInv /\ PInv => PagesTypeOK
  <2> SUFFICES ASSUME IInv, PInv PROVE PagesTypeOK
    OBVIOUS
  <2>1. \A view \in {chain} \cup {reads[r].market : r \in Refreshes} :
          view \subseteq Markets /\ Cardinality(view) <= 1
    <3>1. chain \subseteq Markets /\ Cardinality(chain) <= 1
      BY OneCounts DEF PInv, MarketIsTrue, TrueMarket
    <3>2. ASSUME NEW r \in Refreshes
          PROVE  reads[r].market \subseteq Markets /\ Cardinality(reads[r].market) <= 1
      <4>1. ReadIsTrue(reads[r])
        BY DEF PInv, MarketIsTrue
      <4> QED
        BY <4>1, OneCounts DEF ReadIsTrue
    <3> QED
      BY <3>1, <3>2
  <2>2. \A r \in Refreshes : reads[r].market # {} <=> reads[r].at = "answered"
    BY DEF PInv, MarketIsTrue, ReadIsTrue
  <2>3. Cardinality(position) <= 1
    BY OneCounts DEF PInv, PositionIsTrue
  <2>4. task \in {Idle, Away} \/ (task.sent <=> fetches["after"].at = "done")
    BY DEF PInv, BoxIsBusy
  <2>5. ViewTypeOK
    BY <2>1, <2>2, <2>3, <2>4 DEF ViewTypeOK, PInv
  <2>6. Cardinality(publicKey) <= 1 /\ publicKey \subseteq Users
    BY OneCounts DEF PInv, LoadsAreUnderWay
  <2>7. /\ loading => \E l \in Loads : loads[l].at # "idle"
        /\ busy.at = "loading" => loads[busy.load].owner = busy.owner
    BY DEF PInv, LoadsAreUnderWay
  <2>8. stats.at \in {"asked", "answered", "done"}
    BY DEF PInv, CountsAreTrue
  <2> QED
    BY <2>5, <2>6, <2>7, <2>8 DEF PagesTypeOK
<1> QED
  BY <1>1, PagesInvariance, PTL

\* The winner that the bet box and the theater show is the program's, and what the home page
\* counts as settled is, however late the answer it comes from: useOnchainMarkets.ts:88-110 and
\* useProtocolStats.ts:56-62, with demo markets whose winners are right.
THEOREM ShownSettlementIsTrueHolds == PagesSpec => []ShownSettlementIsTrue
<1>1. PInv => ShownSettlementIsTrue
  <2> SUFFICES ASSUME PInv PROVE ShownSettlementIsTrue
    OBVIOUS
  <2>1. ASSUME NEW w \in Winner PROVE status \in {"Resolved", "Refunded"} /\ w = winning_outcome
    <3>1. CASE \E m \in Accounts : m.status # "Open"
      <4>1. PICK m \in chain : m.status \notin {"NotCreated", "Open"}
        BY <3>1 DEF Accounts
      <4>2. AtMostOne(chain) /\ TrueMarket(m)
        BY DEF PInv, MarketIsTrue
      <4>3. m.status = status /\ m.winningOutcome = winning_outcome
            /\ status \in {"Resolved", "Refunded"}
        BY <4>1, <4>2 DEF TrueMarket, Markets
      <4>4. w = m.winningOutcome
        BY <3>1, <4>2 DEF Winner, Accounts, AtMostOne
      <4> QED
        BY <4>3, <4>4
    <3>2. CASE ~ \E m \in Accounts : m.status # "Open"
      BY <3>2 DEF Winner, PInv, DemoIsTrue, TrueWinner
    <3> QED
      BY <3>1, <3>2
  <2>2. stats.shown.settled => status \in {"Resolved", "Refunded"}
    BY DEF PInv, CountsAreTrue, TrueCounts, Settled
  <2> QED
    BY <2>1, <2>2 DEF ShownSettlementIsTrue
<1> QED
  BY <1>1, PagesInvariance, PTL

\* No page shows a stake, a claim or a total that the market does not have: a reading is behind
\* the chain, never ahead of it.
THEOREM ShownStakesAreRealHolds == PagesSpec => []ShownStakesAreReal
<1>1. PInv => ShownStakesAreReal
  <2> SUFFICES ASSUME PInv PROVE ShownStakesAreReal
    OBVIOUS
  <2>1. \A p \in position, o \in Outcomes :
          /\ p.stakes[o] <= stake_per_outcome[Viewer][o]
          /\ p.claimed => claimed[Viewer]
    BY DEF PInv, PositionIsTrue, TruePosition
  <2>2. \A w \in wagers : /\ w.stake <= stake_per_outcome[w.owner][w.outcome]
                          /\ w.claimed => claimed[w.owner]
    BY DEF PInv, WagersAreTrue, TrueWager
  <2>3. /\ stats.shown.volume <= total_pool \/ status = "Resolved"
        /\ stats.shown.traders <= Cardinality({u \in Users : StakeOf(u) > 0})
    BY DEF PInv, CountsAreTrue, TrueCounts, Bettors
  <2> QED
    BY <2>1, <2>2, <2>3 DEF ShownStakesAreReal
<1> QED
  BY <1>1, PagesInvariance, PTL

\* The pages only read the chain and send transactions: with every page open beside it, the
\* program runs as it does alone, so what is proved of Pitchmarket holds of both together
\* (actions.ts, BetBox.tsx, portfolio/page.tsx).
THEOREM PagesRunTheProgram == PagesSpec => Spec
<1>1. PagesInit => Init
  BY DEF PagesInit, ViewInit, AwayInit
<1>2. IInv /\ PInv /\ [PagesNext]_pagesVars => [Next]_vars
  BY PagesTakeSteps
<1> QED
  BY <1>1, <1>2, PagesInvariance, PTL DEF PagesSpec, Spec
===============================================================================
