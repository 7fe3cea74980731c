-------------------------------- MODULE ChainView ------------------------------
(****************************************************************************)
(* A page of the app that reads the program's accounts: the market as       *)
(* useOnchainMarkets.ts polls it and applyChainState shows it, the bet box  *)
(* of BetBox.tsx with the transactions of actions.ts, composed with the     *)
(* program.                                                                 *)
(*                                                                          *)
(* Every request is answered with the accounts of one moment and applied at *)
(* a later one.  The optional values of the code are sets of at most one    *)
(* element.  The viewer may also bet and claim on another page: those are   *)
(* steps of Pitchmarket, as is a transaction that lands after the page has  *)
(* given it up.                                                             *)
(****************************************************************************)
EXTENDS Pitchmarket

CONSTANTS
  Viewer,        \* the wallet that is connected
  Refreshes,     \* the runs of refresh in useOnchainMarkets that may overlap
  MaxFailures    \* bound of the requests that fail

ASSUME ViewAssumption == Viewer \in Users /\ MaxFailures \in Nat

VARIABLES
  chain,       \* the market and its bettors, as the page last read them
  reads,       \* by run: where it is, and the answer to its requests
  position,    \* BetBox: the viewer's position, if the page has one
  fetches,     \* the reads of the position: on mount and after a transaction
  task,        \* what the bet box is busy with
  demoWinner,  \* winningOutcome of the market that the page has without the chain
  failures

page == <<chain, reads, position, fetches, task, demoWinner, failures>>
viewVars == <<vars, page>>

Fails == failures < MaxFailures /\ failures' = failures + 1

(****************************************************************************)
(* useOnchainMarkets.ts                                                     *)
(****************************************************************************)
\* The market and the number of its positions, which the two requests of a run read.
ChainMarket == [status |-> status, totalPool |-> total_pool, poolPerOutcome |-> pool_per_outcome,
                winningOutcome |-> winning_outcome,
                bettors |-> Cardinality({u \in Users : StakeOf(u) > 0})]

Unread  == [at |-> "idle", market |-> {}]
Reading == [at |-> "asked", market |-> {}]

\* applyChainState: the winning outcome of an account that is not open, and without one that
\* of the market below it.  The fault: an open account is taken for its winner, too.
Accounts == {m \in chain : m.status # "NotCreated"}
WinnerFault == IF Accounts = {} THEN demoWinner ELSE {m.winningOutcome : m \in Accounts}
Winner ==
  IF \E m \in Accounts : m.status # "Open" THEN {m.winningOutcome : m \in Accounts} ELSE demoWinner

IsSettled == Winner # {}

\* A refresh is due every twelve seconds, whether or not the last one is over.  The fault:
\* it only runs once.
RefreshFault(r) ==
  /\ reads[r].at = "idle" /\ chain = {}
  /\ reads' = [reads EXCEPT ![r] = Reading]
  /\ UNCHANGED <<vars, chain, position, fetches, task, demoWinner, failures>>
Refresh(r) ==
  /\ reads[r].at = "idle"
  /\ reads' = [reads EXCEPT ![r] = Reading]
  /\ UNCHANGED <<vars, chain, position, fetches, task, demoWinner, failures>>

\* Both requests of Promise.all are answered, in one step: no property tells their order.
AnswerRead(r) ==
  /\ reads[r].at = "asked"
  /\ reads' = [reads EXCEPT ![r] = [at |-> "answered", market |-> {ChainMarket}]]
  /\ UNCHANGED <<vars, chain, position, fetches, task, demoWinner, failures>>

\* One of them fails, and the last reading stays.
FailRead(r) ==
  /\ reads[r].at = "asked" /\ Fails
  /\ reads' = [reads EXCEPT ![r] = Unread]
  /\ UNCHANGED <<vars, chain, position, fetches, task, demoWinner>>

TakeMarkets(r) ==
  /\ reads[r].at = "answered"
  /\ chain' = reads[r].market
  /\ reads' = [reads EXCEPT ![r] = Unread]
  /\ UNCHANGED <<vars, position, fetches, task, demoWinner, failures>>

(****************************************************************************)
(* BetBox.tsx and actions.ts                                                *)
(****************************************************************************)
Idle  == [kind |-> "idle"]
Away  == [kind |-> "away"]     \* another page is open
Asked == [at |-> "asked", position |-> {}]
Done  == [at |-> "done", position |-> {}]

\* fetchPosition: none when there is no account, and when the request fails.
Position == IF StakeOf(Viewer) = 0
            THEN {} ELSE {[stakes |-> stake_per_outcome[Viewer], claimed |-> claimed[Viewer]]}
AnswerFetch(f) ==
  /\ fetches[f].at = "asked"
  /\ \/ /\ fetches' = [fetches EXCEPT ![f] = [at |-> "answered", position |-> Position]]
        /\ UNCHANGED failures
     \/ Fails /\ fetches' = [fetches EXCEPT ![f] = [at |-> "answered", position |-> {}]]
  /\ UNCHANGED <<vars, chain, reads, position, task, demoWinner>>

\* A bet ends with another refresh of the market, a claim does not.  The bound: it is left out
\* when all of Refreshes are busy.  The fault: the box stays busy.
TakeFetchFault(f) ==
  /\ fetches[f].at = "answered"
  /\ position' = fetches[f].position
  /\ fetches' = [fetches EXCEPT ![f] = Done]
  /\ UNCHANGED <<vars, chain, reads, task, demoWinner, failures>>
TakeFetch(f) ==
  LET free == {r \in Refreshes : reads[r].at = "idle"} IN
  /\ fetches[f].at = "answered"
  /\ position' = fetches[f].position
  /\ fetches' = [fetches EXCEPT ![f] = Done]
  /\ task' = IF f = "after" THEN Idle ELSE task
  /\ IF f = "after" /\ task.kind = "bet" /\ free # {}
     THEN \E r \in free : reads' = [reads EXCEPT ![r] = Reading]
     ELSE UNCHANGED reads
  /\ UNCHANGED <<vars, chain, demoWinner, failures>>

\* The fault: an outcome is tested as if 0, the home side, were none.
HasWinningStakeFault == \E w \in Winner, p \in position : w # 0 /\ p.stakes[w] > 0
HasWinningStake      == \E w \in Winner, p \in position : p.stakes[w] > 0
OffersClaim == HasWinningStake /\ \A p \in position : ~p.claimed

\* The fault: the stake is shown before the program has taken it.
BeginFault(kind, outcome, amount) ==
  /\ task = Idle
  /\ task' = [kind |-> kind, outcome |-> outcome, amount |-> amount, sent |-> TRUE]
  /\ position' = {[stakes |-> [stake_per_outcome[Viewer] EXCEPT ![outcome] = @ + amount],
                   claimed |-> FALSE]}
  /\ UNCHANGED <<vars, chain, reads, fetches, demoWinner, failures>>
Begin(kind, outcome, amount) ==
  /\ task = Idle
  /\ task' = [kind |-> kind, outcome |-> outcome, amount |-> amount, sent |-> TRUE]
  /\ UNCHANGED <<vars, chain, reads, position, fetches, demoWinner, failures>>
OnBet(outcome, amount) == ~IsSettled /\ Begin("bet", outcome, amount)
OnClaim                == OffersClaim /\ Begin("claim", 0, 0)

\* The transaction is confirmed, and the position is read again.
Confirmed ==
  /\ task \notin {Idle, Away} /\ task.sent
  /\ \/ task.kind = "bet" /\ PlaceBet(Viewer, task.outcome, task.amount)
     \/ task.kind = "claim" /\ Claim(Viewer)
  /\ task' = [task EXCEPT !.sent = FALSE]
  /\ fetches' = [fetches EXCEPT !["after"].at = "asked"]
  /\ UNCHANGED <<chain, reads, position, demoWinner, failures>>

\* The wallet or the program refuses it, or its confirmation is late: an error is shown.
Rejected ==
  /\ task \notin {Idle, Away} /\ task.sent
  /\ task' = Idle
  /\ UNCHANGED <<vars, chain, reads, position, fetches, demoWinner, failures>>

(****************************************************************************)
(* The page                                                                 *)
(****************************************************************************)
\* The page is mounted, and everything is asked for.
Mounted ==
  [chain |-> {}, reads |-> [r \in Refreshes |-> Unread],
   fetches |-> [mount |-> Asked, after |-> Done]]

ViewInit ==
  /\ Init
  /\ chain = Mounted.chain /\ reads = Mounted.reads /\ fetches = Mounted.fetches
  /\ position = {} /\ task = Idle /\ demoWinner = {} /\ failures = 0

\* Another page is open: nothing of this one runs.
AwayInit ==
  /\ Init
  /\ chain = {} /\ position = {} /\ task = Away /\ demoWinner = {} /\ failures = 0
  /\ reads = [r \in Refreshes |-> [at |-> "away", market |-> {}]]
  /\ fetches = [mount |-> Done, after |-> Done]

\* The page is opened now, with the demo markets of its build: a market that had been resolved
\* by then may have its winner in them.  (An entry that names another one is not modelled.)
OpenMatch ==
  /\ chain = {} /\ position = {} /\ task = Idle
  /\ reads = Mounted.reads /\ fetches = Mounted.fetches
  /\ status = "Resolved" /\ demoWinner' = {winning_outcome}
  /\ UNCHANGED <<vars, chain, reads, position, fetches, task, failures>>

\* useLiveMarkets: the feed's markets replace the demo markets, and none of them has a winner.
TakeFeed ==
  /\ task # Away /\ demoWinner # {} /\ demoWinner' = {}
  /\ UNCHANGED <<vars, chain, reads, position, fetches, task, failures>>

Answer(r) == AnswerRead(r) \/ TakeMarkets(r)
Page ==
  \/ \E r \in Refreshes : Refresh(r) \/ Answer(r) \/ FailRead(r)
  \/ \E f \in DOMAIN fetches : AnswerFetch(f) \/ TakeFetch(f)
  \/ \E outcome \in Outcomes, amount \in 1 .. wallet[Viewer] : OnBet(outcome, amount)
  \/ OnClaim \/ Confirmed \/ Rejected
  \/ OpenMatch \/ TakeFeed

\* Timers fire, and requests are answered or fail.  What becomes of a position or a transaction
\* that the page waits for is left open.
ViewFairness ==
  \A r \in Refreshes : WF_viewVars(Refresh(r)) /\ WF_viewVars(Answer(r))

-----------------------------------------------------------------------------
(****************************************************************************)
(* Properties                                                               *)
(****************************************************************************)
Markets ==
  [status : {"NotCreated", "Open", "Resolved", "Refunded"}, totalPool : 0 .. MaxU64,
   poolPerOutcome : [Outcomes -> 0 .. MaxU64], winningOutcome : Outcomes,
   bettors : 0 .. Cardinality(Users)]

\* The page's state: a bet box that is busy waits for exactly one thing, the transaction or
\* the position it reads after it.
ViewTypeOK ==
  /\ \A view \in {chain} \cup {reads[r].market : r \in Refreshes} :
       view \subseteq Markets /\ Cardinality(view) <= 1
  /\ \A r \in Refreshes : reads[r].market # {} <=> reads[r].at = "answered"
  /\ Cardinality(position) <= 1
  /\ task \in {Idle, Away} \/ (task.sent <=> fetches["after"].at = "done")
  /\ failures \in 0 .. MaxFailures

(****************************************************************************)
(* What a comment of the app says and the program does not do.              *)
(****************************************************************************)
\* useOnchainMarkets.ts: "refunded" is the path the program "takes when nobody staked the
\* winning outcome".
RefundedMeansNoWinner ==
  \A m \in chain : m.status = "Refunded" => m.poolPerOutcome[m.winningOutcome] = 0
=============================================================================
