# Verdict: specifications, model checking and proofs

Verdict is a pari-mutuel prediction market for football matches. A Solana program
(`programs/pitchmarket`) holds the stakes and settles a market only on a Merkle proof of the score
that TxODDS commits on-chain; a relayer creates the markets and cranks their resolution; an indexer
and a serverless function feed live scores to a web app, which also reads the chain directly. This
directory models the parts with logic of their own in TLA+, checks them with TLC on small
instances, and proves all their invariants, action properties and refinements with TLAPS for every
instance.

Source paths are relative to the root of the repository.

- [1. The system](#1-the-system)
- [2. The modules](#2-the-modules)
- [3. How the models correspond to the code](#3-how-the-models-correspond-to-the-code)
- [4. What the runs check](#4-what-the-runs-check)
- [5. Fairness](#5-fairness)
- [6. What is proved](#6-what-is-proved)
- [7. Where the code and its documents disagree](#7-where-the-code-and-its-documents-disagree)
- [8. What is not modelled](#8-what-is-not-modelled)
- [9. Plan](#9-plan)

## 1. The system

### Components

| Component | State it keeps | Operations | Talks to |
|---|---|---|---|
| On-chain program, `programs/pitchmarket` | `Market` (status, winner, pools, terms), a `Position` per bettor, a token vault | `create_market`, `place_bet`, `resolve`, `claim`, `cancel_market`, `claim_refund` | token program (transfers), TxODDS program (CPI), the clock |
| Oracle interface, `txodds.rs`, `programs/txodds_stub` | none; the roots are TxODDS's | `validate_stat` | called by `resolve` |
| Shared library, `shared/src` | none | `build1X2Predicates`, PDAs, proof conversion, message types | relayer, indexer, app |
| Market sync, `relayer/src/syncOnce.ts`, `sync.ts`, `scripts/syncDaily.ts` | nothing but the locals of a pass | one pass: list, create, resolve | TxODDS REST, Solana RPC |
| Manual relayer, `relayer/src/resolveMarket.ts`, `scripts/*` | none | create, resolve, create-bet-resolve-claim, started by hand beside the sync | as above |
| TxODDS credentials, `relayer/src/txoddsAuth.ts`, `scripts/subscribe.ts` | `relayer/.env` | guest token, subscribe, activate, save | TxODDS, Solana, the file system |
| Indexer, `indexer/src` | `MarketStore` in memory, `liveIds` | poll fixtures, poll scores, simulate, broadcast | TxODDS REST, WebSocket clients |
| Hosted feed, `api/markets.ts` | none; a CDN cache in front of it | one request | TxODDS REST, the app |
| Live feed of the app, `useLiveMarkets.ts` | `byId`, `attempts`, `live` | dial, retry, apply snapshot and update; or poll | indexer or hosted feed |
| On-chain views, `useOnchainMarkets.ts`, `BetBox.tsx`, `actions.ts`, `portfolio/page.tsx`, `useProtocolStats.ts` | the last reading of the chain, the viewer's position or wagers, `busy`, the totals | refresh, bet, claim, load the portfolio, count the totals | Solana RPC, the wallet |
| OKX wallet adapter, `okxWalletAdapter.ts` | `_connecting`, `_publicKey`, `_provider`, the registered handler | connect, disconnect, the provider's event | browser extension, the pages |
| Presentation, the rest of `app/src` | none | render | as above |

### What is hard, and what makes each part correct

- **Program.** Everything is atomic, so the hard part is long sequences: several bettors, several
  bets each, a resolve racing a cancel, claims in any order, tokens sent to the vault by
  strangers, and integer arithmetic (floors, u64, an unchecked i64 sum). It is correct when the
  vault always covers what is owed, nobody is paid twice, the verdict is one that TxODDS proved
  after the close, settlement is final, and nobody's money is stuck.
- **Market sync.** Passes are asynchronous and overlap (`setInterval` does not wait, and the daily
  script may run beside the loop); between a read of a market and the transaction there are
  several awaits; a transaction that "failed" may still land; TxODDS publishes scores in play,
  corrects them, moves kickoffs, and lists only the fixtures of today and later. It is correct
  when a market of its own is created and settled once, with a full-time score, the summaries are
  true, and what is listed or finished is dealt with in the end.
- **Indexer and pages.** Polls overlap and answers arrive late; updates and snapshots share one
  socket per page; the process and the connections restart; the retries are limited. It is correct
  when no page drifts from the store and the latest score reaches every page.
- **Hosted feed.** A function behind a cache, errors answered with 200 and cached like anything
  else, polls that overtake each other. It is correct when no failure blanks a page and what is
  stale is replaced.
- **Manual scripts.** A script is a straight line of awaits beside the passes of the sync, and
  somebody else may create, resolve or cancel between any two of them. It is correct when it ends
  with an error or with the truth.
- **Credentials.** The script that obtains them empties `.env`, writes it and appends to it, and may be
  killed in between, or run twice at once; the readers look once. It is correct when a reader takes
  the JWT and the token of one session from it, and running it again repairs whatever was left behind.
- **On-chain views.** Refreshes overlap, the position is read at other moments than the market, a
  transaction can land after the page has given it up, wallets change while the portfolio loads. It
  is correct when a page never shows a winner, stake or total that is not so, and a winner whose
  position it has read is offered the claim.
- **Wallet adapter.** Calls overlap across awaits, and the extension ends sessions on its own. It
  is correct when it never offers a session that is over and the page learns of every end.

The hazards of the code, line by line, are in `PROJECT.json` with the properties aimed at each.

## 2. The modules

| Module | What it is |
|---|---|
| `Predicates` | the stored predicates, their binding to stats, their evaluation by the oracle, `build1X2Predicates` |
| `Pitchmarket` | one market of the program: six instructions, the clock, TxODDS's commitments; EXTENDS `Predicates` |
| `PariMutuel` | abstract: what a market promises, stated over the stakes alone |
| `MarketLifecycle` | abstract: a market as everything outside the program sees it |
| `PitchmarketRefinement` | the two refinement mappings of `Pitchmarket` |
| `SyncRelayer` | passes of the market sync, over many fixtures, and the loop of `sync.ts`; of the program, who may create and what `resolve` demands; EXTENDS `Predicates` |
| `Scripts` | the scripts run by hand, each in the place of a pass; EXTENDS `SyncRelayer` |
| `Credentials` | runs of `subscribe`, the chain and TxODDS as far as they need them, `relayer/.env`, and what readers find in it and in their own file |
| `Indexer` | the store, the passes of the real feed, the simulation, the broadcast, restarts |
| `HostedFeed` | the serverless function and its cache, composed with the same TxODDS; EXTENDS `Indexer` |
| `LiveClient` | the pages with either feed: the composition that is checked; EXTENDS `HostedFeed` |
| `ChainView` | the match page over the chain, with its bet box; EXTENDS `Pitchmarket`, the whole of it |
| `Pages` | the portfolio and the home page's totals beside it: the composition that is checked; EXTENDS `ChainView` |
| `WalletAdapter` | the adapter between the page and the extension |
| `SumTheorems` | lemmas about sums over finite sets |
| `PitchmarketProofs`, `RefinementProofs`, `SyncProofs`, `CredentialsProofs`, `FeedProofs`, `PagesProofs`, `WalletProofs` | the proofs about the module of the name (section 6); `SyncProofs` is about `Scripts`, `FeedProofs` about `LiveClient` |
| `MC...` | instances: constants as model values, small sets of arguments |

Two seams join the models. `Pitchmarket` is shown to implement `MarketLifecycle` (created once,
settled once), and the markets of `SyncRelayer` keep within it (the lemma `WithinTheLifecycle` of
`SyncProofs`; this says that its reduced program is no more liberal, not that the relayer does
anything right). And `Pages` has every step of `Pitchmarket` among its own, and is proved to take no others
(`PagesRunTheProgram`).

A definition named `...Fault` is the one after it with a plausible mistake in it. No
specification uses one; they exist so that each property can be seen to fail when the code has
that mistake (`mutants` in `PROJECT.json`).

## 3. How the models correspond to the code

`PROJECT.json` maps every definition to its lines. The conventions, and what is abstracted:

**Pitchmarket.** An action is one instruction; the failing conditions of the handler (`require!`,
account constraints, checked arithmetic, failing CPIs) are the negation of its guard, because a
failed instruction changes nothing. The variables bear the field names of `state.rs`.
- *One market.* Accounts of another market have other PDA seeds, so they cannot be passed for this
  one's; other markets share only the bettors' wallets.
- *One token account per user*, and the authority's is the `fee_destination`: `resolve` demands that
  the authority own it. A position that was never opened has no stake; `claim` and `claim_refund`
  fail on both.
- *Arithmetic.* u64, u128 and i64 are bounded by `MaxU64`, `(MaxU64+1)^2 - 1` and `MaxI64`, casts
  are modulo, checked additions are guards, the unchecked sum of `cancel_market` is a guard because
  overflow-checks are on in release (`Cargo.toml`). The supply of a mint is a u64
  (`UsersAssumption`).
- *The oracle.* A commitment is a fixture with a score, a function from stats to values; a proof
  exists for exactly what was committed, and all stats of one proof come from one event. TxODDS may
  commit scores in play, of other fixtures and of other periods.
- *Tokens from strangers.* `Donate` sends tokens to the vault outside the program.

**SyncRelayer.** A pass runs to its next await in one action; the record `pass[p]` holds its locals.
- The fixtures are taken in any order; `resolveMarketReal`'s reads of authority and mint (which
  never change) and of the fee account are joined with the read of the proof; both can fail.
- A transaction is executed and confirmed, refused, or its confirmation is lost: then it is among
  `orphans` and may land at any later time, or never.
- `Others` is everybody else: a resolution by anyone with any proof, the authority's cancel, and the
  creation of a fixture's market by a stranger, with predicates and a close of his own
  (`OtherPredicates`, `OtherCloses`). Each market keeps its predicates and its authority, and a
  resolution is tested against the stored predicates (`Accepts`). As in the code, a pass that finds a
  stranger's market takes it for the relayer's and resolves it without a look at its predicates.
- `Watch` are the passes that are ticks of `sync.ts`, the others runs of `syncDaily.ts`. The first tick
  is awaited without a `catch` (`sync.ts:25`): if it is rejected the process ends, and nobody starts
  it again; a rejection of a later tick is caught (`Rejects`, `Resolves`).
- `Listed` is the fixtures snapshot asked for without a start day, which `deps/txodds-docs.yaml`
  (lines 234-237) says begins with the current UTC day.
- `Prompt` states when passes are short against a tick. It is FALSE where races are checked and TRUE
  where liveness is.

**Scripts.** A script has the locals of a pass and uses the sync's steps where it calls the same
functions (`createMarket`, `resolveMarketReal`). The constants `CLOSE_IN_MIN` and `CLOSE_SOON` are
its close times in ticks. Its bets are `Pitchmarket`'s business, so only their failure matters.
`resolve` ends before it sends anything (section 7). What a script prints of a market is `told`.

**Credentials.** A run of `subscribe` is a process that goes from request to request and may be
killed between any two steps.
- `writeFileSync` is two steps, as it empties the file and then writes it: another run may read or
  write in between, and a kill may leave the file empty. What it writes goes to the start of the
  file, over what another run has put there meanwhile; `appendFileSync` is one step.
- A JWT and a token are the number of the run that obtained them, 0 being an earlier day's. TxODDS
  binds a token to the JWT it was activated with. The chain keeps which runs have subscribed; a
  subscription whose confirmation was given up may land later (`LandLate`).
- The files of an earlier day have either variable, both or none, each with a value or empty
  (`EarlierFiles`). A reader is a function of its own file and `relayer/.env` (`Reads`): the indexer's
  own comes first, variable by variable; the relayer has no second file.

**Indexer, HostedFeed, LiveClient.** A handler of the Node process runs to its next await.
- Score and clock of a match are one number, how many of its events they reflect.
- `Put` sets markets and broadcasts each update in the same action, as the event emitter does; the
  order of the updates of one synchronous loop is not told apart.
- `FixturePasses`, `ScorePasses` and `Polls` are slots for runs that overlap.
- `hasCreds` is chosen at the start: with credentials TxODDS is asked for `Fixtures`; without, the
  indexer simulates `Seeds`, and the hosted function answers nothing.
- `faults` counts failed requests, refused dials, broken connections and restarts, each with a
  bound of its own (`MaxFaults`, which depends on `hasCreds`, as does `MaxQueue`).
- The cache of the hosted feed serves any answer it holds, fresh or stale, may be passed over, and
  may lose it at any time; error answers are cached, as their status is 200.
- `site` is `resolveWsUrl`: with an indexer the page dials, without one it polls. After
  `MAX_RETRIES` dials without success it stops for good, as in the code.

**ChainView.** The market account and the list of positions are answered together (no property
relates a pool to a count of bettors); an answer is applied any time after it was read.
- A transaction that lands after the page has shown an error is a step of `Pitchmarket`: the viewer
  bets and claims elsewhere too.
- The refresh after a bet is left out when all slots of `Refreshes` are busy.
- The winner on the page is that of the market account once it is no longer open, and before that
  the `winningOutcome` of the market without the chain (`Winner`): the page may be opened with a demo
  entry that has one (`OpenMatch`), and the feed's markets, which have none, replace it (`TakeFeed`).
  A demo entry is data of the build and taken to be right.
- The position is read on mount and after a transaction, and never again, as in the code.

**Pages.** One page is open in a behaviour (`route`); everything that happens elsewhere is a step of
`Pitchmarket`.
- The portfolio knows the markets of `DEMO_MARKETS` only; here that is the one market. Its winner
  there (`demoWinner`) is data of the build: it may be set when the page is opened if the market is
  resolved by then, and is taken to be right, as the comment in `demoMarkets.ts` says of it.
- `Loads` are the runs of `load` that may be under way at once; each holds the wallet of the rendering
  it was called in. `owner` of a wager is the model's: the page keeps no such thing, which is the
  point of `PositionsAreYours`.
- The two requests of `useProtocolStats` are answered in one step, and never again.

**WalletAdapter.** `_publicKey` and `_provider` are set and cleared together and are one flag. The
callers are the wallet provider of the library and its button: nothing is assumed of them but that
they call `connect` and `disconnect`, at any time. The extension answers connects in any order (its
user is in no hurry), what it says is delivered in order, and it has the optional `off`. The signing
methods change no state and are left out.

## 4. What the runs check

All runs finish with a complete search. Deadlock is not checked in any: time, events, failures and
restarts are bounded by constants, so every instance comes to a state where nothing is left to do.

| Run | Instance | Shows |
|---|---|---|
| `betting` | 3 bettors with 2 tokens, 2 outcomes, fee 1/4, symmetry in the bettors (safety only) | types, `PoolsMatchPositions`, `Solvency`, `DustBound`, `Conservation`, `BetsNeverOverflow`, `WinnersCanClaim`, `BettorsCanReclaim`, `SettlementIsFinal`, `PaidOnce`; implements `PariMutuel` and `MarketLifecycle` |
| `verdicts` | 2 bettors, markets of every shape (1X2, gaps, overlaps, one stat), rejected calls, close times now, soon and at the end of time, all sets of commitments | `VerdictIsProved`, `OneX2IsUnambiguous`, `FundsNeverStuck` |
| `sync_races` | 2 overlapping passes, or a pass and any script, one match that may be moved, a market of a stranger, a failure or late transaction, a correction; 2.4 million states | summaries, verdicts and what scripts tell are true, the relayer's own markets get full-time verdicts |
| `sync_watch` | the loop of `sync.ts`, started at any time, a tick of it at every tick of a day and the start of the next, a match today and one that is listed from tomorrow on, a stranger's markets, one failure | once the first tick is over (and unless it was rejected), listed fixtures get markets; matches that end on the UTC day of their kickoff are settled |
| `credentials` | 3 runs, a failure or lost answer, a kill, every kind of file before | readers find a pair (unless their own file has one variable only), a run that is done stays saved, another run repairs |
| `feed` | sites with and without an indexer, with and without credentials. TxODDS: one match, overlapping score passes and polls, one each of: failed request, refused dial, restart. Simulation: two matches, one each of: refused dial, lost connection, restart | pages mirror the store, are never blank, and come to show the latest score if they stay open and have not given up; until the indexer is restarted no page of a simulation goes back in time, every page sees its end, giving up takes dials that came to nothing |
| `view` | any of the three pages, one bettor and a second wallet, 2 overlapping refreshes or loads, one failure, every step of the program | a shown winner, stake or total is true; the match page catches up; a winner whose position it has read is offered the claim there |
| `wallet` | 3 calls under way at once, 3 connects | no session that is over is offered, the page learns of every end |
| `late_close`, `sync_daily`, `view_refund`, `portfolio` | | violations: section 7 |

*Why the bounds are enough.* Three bettors are the fewest with two winners of unequal stakes and a
loser, so that floors, dust and the order of claims matter; fee 1/4 on pools up to 6 is floored, for small
pools to zero; `MaxU64 = 6` is the supply itself, so an overflow guard that could ever bite would.
Whatever depends on sizes is proved for all of them (section 6). Two passes are the fewest that
overlap, and with runs at ticks 0 and 2 (`RunAt`) the transaction that one loses lands during the
retry of the other, before or after the match ends; a script takes the place of the second, so every
script meets every step of a pass.
In `sync_watch`, `Watch` has one pass: a tick is over within its tick of the clock there (`Prompt`).
Tomorrow's match is first listed (`LISTED_DAYS = 0`) to a loop that is long past its first tick, with
two ticks left for it: one to fail and one to make good.
Two score passes can apply their answers in either order, one fault of each kind hits every step of
every pass, and a refused dial and one cut off by a restart are exactly as many as exhaust the
retries, with TxODDS as in the simulation.
Three runs of `subscribe` are two that overlap, with a kill or a failure in either, and one that
repairs. A
third connect in `wallet` reaches the extension beside the first only through the early return of a
second call.

*What the bounds hide.* `PagesShowTheScore` and `EarlyMatchesSettle` say that what goes wrong is made
good after the last failure: with failures forever nothing is promised, and nothing could be.
`ChainView` has one bettor, who is also the authority (the second wallet of `Pages` holds no tokens);
the program with several bettors is checked in `betting`. With TxODDS one message is under way to a
page at a time, and a connection is only lost to a restart; queues of three, and connections that
break on their own, are those of the simulation. There is one match, so that every match listed is
among those `slice(0, 6)` leaves (`realFeed.ts:60`); `PagesShowTheScore` is stated for matches that are
(`Followed`). A page that has given up stays open and is never told the score again
(`useLiveMarkets.ts:71`); the property excepts it.

## 5. Fairness

| Assumed | Why the code or its platform justifies it |
|---|---|
| the clock advances (`Tick`) | up to the bound, Solana's and the machine's clock do |
| someone other than the authority cancels once it is allowed; whoever can be paid comes for it (`FundsNeverStuck`) | both are open to anyone with an interest; the property is about the program leaving the way open |
| intervals start passes, requests are answered or fail (`SyncRelayer`, `Indexer`) | `setInterval`, of `sync.ts` only once its first tick is over; every await has a network timeout |
| the match page's refreshes are started and answered, or fail | `setInterval` (`useOnchainMarkets.ts`); nothing is assumed of positions and transactions |
| a page's dials, messages and polls are dealt with, and so are calls of the function | event loop; the browser fails a dial that nobody answers |
| a cached answer expires | `s-maxage=15, stale-while-revalidate=45` |
| a simulated minute passes again and again (strong fairness) | the clock moves on in half of the ticks (`Math.random() < 0.5`) |
| the extension answers `disconnect`, and its messages are delivered | it needs nobody's consent; nothing is assumed of `connect`, which does |
| a run of `subscribe` that was started goes on (`RerunRenews`) | every await of it ends; nobody has to start one, and a kill or a failure ends it too |

Nothing is assumed of whoever starts `sync.ts`, of players, TxODDS's publishing, outside crankers,
strangers' markets, scripts, late transactions, failures, kills or restarts, nor of the portfolio,
which promises nothing in the end.

## 6. What is proved

Every invariant, action property and refinement that a passing run checks is also a theorem, for
every value of the constants that the `ASSUME`s allow. TLC shows them on a small instance first; the
proof removes the bounds of section 4.

*The program* (`PitchmarketProofs`, `RefinementProofs`): any finite set of users, distribution of
the supply, fee, bound of the integers, arguments and commitments.

| Theorem | Statement |
|---|---|
| `TypeCorrect` | every amount fits its u64, every field its type |
| `PoolsMatchPositionsHolds` | the running totals are the sums over the positions, net of the fee after resolution |
| `SolvencyHolds` | the vault covers all that is owed, whatever was claimed in whatever order |
| `DustBoundHolds` | what the floors leave in the vault is less than a unit a winner |
| `ConservationHolds` | tokens are neither made nor destroyed |
| `WinnersCanClaimHolds`, `BettorsCanReclaimHolds`, `BetsNeverOverflowHolds` | no claim, refund or bet is turned away by arithmetic |
| `SettlementIsFinalHolds`, `PaidOnceHolds` | action properties: settled is settled; users gain only the fee or once what they are owed |
| `VerdictIsProvedHolds` | a verdict has a commitment of its own fixture behind it, after the close |
| `OneX2Trichotomy`, `OneX2IsUnambiguousHolds` | a score proves exactly one outcome of a 1X2 market |
| `Implementation` | `Pitchmarket` implements `PariMutuel` |
| `LifecycleImplementation` | `Pitchmarket` implements `MarketLifecycle` |

*The relayer* (`SyncProofs`, `CredentialsProofs`): any number of passes, scripts, fixtures, runs of
`subscribe`, failures and kills, any schedule of kickoffs and corrections.

| Theorem | Statement |
|---|---|
| `SyncProofs!TypeCorrect` | markets, transactions under way and the locals of every pass and script keep their types |
| `ReportsAreTrueHolds` | what passes and scripts report is so, and no two claim the same change |
| `VerdictIsFullTimeHolds` | a resolved market that the relayer created has the winner of a full-time score of its fixture, whoever resolved it; a stranger's has a verdict that its own predicates allow |
| `SyncAlone` | these three of `Spec` too, the passes without the scripts |
| `ReadersHoldAPairHolds` | the JWT and the token that a reader finds were issued together, unless its own file has just one of the two |
| `SavedCredsAreThereHolds` | the credentials of a finished run are there, unless a run is saving or was killed in it |

*The feeds* (`FeedProofs`): any number of pages, matches, passes, polls, retries, failures, lost
connections and restarts.

| Theorem | Statement |
|---|---|
| `FeedProofs!TypeCorrect` | types; a score is only asked of a market in the store, only an open socket has messages |
| `PagesMirrorStoreHolds` | what a connected page shows, with what is under way to it, is what the store holds |
| `PagesAreNeverBlankHolds` | no failure empties a page that polls |
| `GivesUpOnlyAfterRetriesHolds` | only dials that came to nothing add up to giving up |
| `SimulationOnlyAdvancesHolds` | action property: until a restart, no page of a simulation goes back in time |

*The pages over the chain* (`PagesProofs`) *and the wallet* (`WalletProofs`): any number of
overlapping refreshes, loads, calls and failures.

| Theorem | Statement |
|---|---|
| `PagesTypeCorrect` | types; what is busy waits for something that is under way |
| `ShownSettlementIsTrueHolds` | the outcome shown as the winner is the one the program has stored for good; what counts as settled takes no bets |
| `ShownStakesAreRealHolds` | no stake, claim or total is shown that the market does not have |
| `PagesRunTheProgram` | the pages with the program take only the program's steps, so the theorems of the program hold of both together |
| `WalletProofs!TypeCorrect` | a registered handler belongs to a connect that reached the extension; a connecting adapter waits for an answer |
| `SessionIsReal` | the OKX adapter offers no session that is over without the news of its end being under way |
| `PageIsTold` | the page shows a wallet that the adapter has forgotten only while a disconnect is under way |

*Assumptions.* They are the `ASSUME`s of the modules, which TLC evaluates in every run: finitely many
users, a supply that is a u64, a fee of at most the whole, between 2 and 256 outcomes; finitely many
matches, and demo data that is not empty (`Fallback # None`: `PagesAreNeverBlank` starts from it); runs
of `subscribe` finite in number and numbered from 1, as 0 is an earlier day's; the rest says that bounds are numbers and
arguments have their types.

### The arguments

*Program.* The inductive invariant is

    IInv == Types /\ Phases /\ PoolsMatchPositions /\ Solvency /\ Conservation

None of its parts is inductive alone. `Solvency` after a resolution needs that the floored shares of
all winners sum to at most the net pool (`SharesFitPool`), which holds only because the stored pool
of the winning outcome is the sum of the stakes on it (`PoolsMatchPositions`); a bet keeps
`PoolsMatchPositions` only in phase `Open`, where no fee has been taken and nobody has claimed
(`Phases`); and the u64 bounds of the totals and the vault follow from `Conservation` and the supply,
so `Types` is stated weaker than `TypeOK`, which is then derived. There is one lemma per instruction
and one for the environment.

*Dust.* `SharesLeaveDust` is the other half of `SharesFitPool`: each floor loses at most `w - 1` of the
numerator, `w` being the winning pool, and only for those with a stake on it, so the shares of `n`
winners fall short of the pool by less than `n`. From then on a claim takes from the vault and from
what is owed alike (`PayOutOwed`), so the difference keeps.

*Sums.* `SumTheorems` proves what is needed of `SumFunction` (unfolding, update of one entry,
monotonicity, scaling, rounding, a term is at most the sum). The library's induction theorems over finite sets
take an operator as an argument, which the backends cannot instantiate; the lemmas argue instead by a
least counterexample over the natural numbers, from the fold's definition.

*Refinement.* A step of the program is a step of the promise under the mapping of
`PitchmarketRefinement`; with `IInv`, the stored totals are the sums that `PariMutuel` computes, so
fee and share are its `Rake` and `Share`. Clock, commitments and the vault are hidden.

*Sync.* `Relies(p)` says what each pass takes for granted after each await: that a proof in hand is of
an event of its fixture, that a script past its check has a market that exists, that one which reads
back has a settled one. It survives the steps of the others because markets only move forward
(`StillRelies`). With it, and because the
program accepts only what the stored predicate of the winner says of some score (`AcceptsWhatHolds`),
which for the relayer's predicates is the winner at full time (`FullTimeWinner`), `ReportsAreTrue` and
`VerdictIsFullTime` become inductive.

*Credentials.* The file lacks one of the two variables or holds a pair that was issued
(`FileHoldsAPair`): what empties the file or writes over it takes the JWT with it, and both are
appended at once. Who is done is not undone (`LastSaved`): while some run is between emptying the
file and appending to it nothing is said, and the last one to append leaves its own pair.

*Feeds.* `Mirrors` is `PagesMirrorStore` by quantifiers: the last message about a match tells what the
store holds, and if there is none the page shows it. It is kept because whatever puts markets in the
store sends one update of each, of what the store then holds, to every open socket (`PutTells`), and
because a score is only put for a market that is there (`StoreHolds`). A dial
that is under way counts already, unless its connection was lost (`Dials`). For the simulation the
messages of a queue must be in order, and precede the store; and a page that still shows the demo data
must have a snapshot at the head of its queue (`Unstarted`), for an update alone would leave it with
half of the demo. A restart begins the simulation anew, which is why the property ends there.

*Pages.* Nothing a page has read need be current, so the invariant says of each reading what cannot
become false: that a settlement is final, a winner with it, and that stakes and totals only grow (`TrueMarket`,
`TruePosition`, `TrueWager`, `TrueCounts`). `TruthLasts` shows that it
stays true, by the argument of `SettlementIsFinal`; `ReadingIsTrue` that it is true of a new reading.
Every step of a page leaves the program alone or is an instruction (`PagesTakeSteps`), so the program's `IInv` holds beside it.

*Wallet adapter.* Neither property is inductive. A connect that is answered sets the key when the
answer is taken up, so the session must still be there or its end be behind the answer in the queue
(`EndFollows`); and an answer of a connect must not free a call that is disconnecting (`OneAnswer`).
The lemmas on the queue (`AddReply`, `AddEvent`, `TakeOne`) carry these through the actions. For the
types, handlers are counted against connects: those registered and those still to be answered are
together no more than reached the extension (`Counted`).

### What is only model-checked

Liveness: `FundsNeverStuck`, `ListedFixturesGetMarkets`, `EarlyMatchesSettle`, `RerunRenews`,
`PagesShowTheScore`, `SimulationEnds`, `PageCatchesUp`, `WinnersAreOffered` and `EndIsShown`. They rest
on fairness, that is on ENABLED, which the prover does not handle. They hold of the instances of
section 4, with the bounds given there.

## 7. Where the code and its documents disagree

Each is a run that TLC finds violated:

- `late_close` - `create_market` takes any i64 as the close; near its end, `cancel_market` aborts
  on `betting_close_ts + REFUND_GRACE_SECS` before it looks at who signs, so the authority cannot
  cancel "at any time while `Open`" (`cancel_market.rs:20`). `FundsNeverStuck` is checked for the
  markets whose grace period ends within the bound of the clock.
- `sync_daily` - run once a day (`docs/AUTO_SYNC.md:16`), a match that ends after that day's pass is
  not listed any more at the next and is never resolved by the sync. Anyone can still crank it, or
  cancel after the grace period.
- `view_refund` - the app takes every refunded market for one whose winner nobody backed
  (`useOnchainMarkets.ts:105`); a cancelled one is shown as won by outcome 0, with a claim button
  that fails, and the app has no call of `claim_refund`.
- `portfolio` - the portfolio's `load` awaits a position per market and then sets the wagers, whoever
  is connected by then. After a change of wallet both loads run, and the first wallet's answers may
  come last: they stay, under the second wallet's address and "Your on-chain World Cup positions"
  (`portfolio/page.tsx:77`). A claim there would be sent for the wallet that is connected.

Smaller observations, without a run:

- `claim.rs:64` says the vault "holds exactly what the winners are owed"; after the floors it holds up to one unit
  per winner more, which nobody can withdraw. `DustBound` bounds it.
- A fixture the indexer first saw before its kickoff keeps the status "upcoming" for as long as the
  process runs, while its score moves: `refreshFixtures` only adds (`realFeed.ts:62`), though its
  comment (line 47) says it keeps the list fresh. The hosted feed computes the status at every call.
- A page that polls keeps `live = true` when later answers are empty, as the early return
  (`useLiveMarkets.ts:44`) comes before `setLive`.
- A second call of the adapter's `connect` clears `_connecting` although the first is under way
  (the `finally` at `okxWalletAdapter.ts:115`). If a connect is answered while a disconnect is, the
  page can end up without the wallet that the adapter has; `PageKnowsTheWallet` states the direction
  that does hold.

- `runSyncOnce` "never throws" (`syncOnce.ts:39`), but reads each market outside any `try` (line 58):
  one failing read ends the pass and loses its summary; on the first tick of `sync.ts` (line 25),
  which has no `catch`, also the loop, and nothing is created or resolved until somebody starts it
  again. The model ends the loop there (`Rejects`), and the two liveness properties of the sync begin
  after the first tick.
- Anyone may create the market of a fixture before the relayer does, with other predicates and
  another close (`create_market.rs:11-39`). A pass takes it for the relayer's own and proposes the
  outcome that stands in the place of the full-time result: the program accepts it if the predicate
  stored there is true of the score, and refuses it at every pass if not.
- `relayer/src/resolveMarket.ts` passes no `feeDestination`, which `resolve` demands and the client
  cannot derive (`pitchmarket-idl.ts:463`): the script `resolve` ends with an error before it sends
  anything. `resolveReal.ts` passes it.
- The portfolio offers a claim only on the winner that `DEMO_MARKETS` was built with: a market settled
  since is "in play" there, and its winners find the claim on the match page only.
- The match page says "On-chain verified" of every final match (`match/page.tsx:54`), also when it is
  the live feed that says so and the market is open; `ShownSettlementIsTrue` is about the winner alone.
- The bet box reads the position on mount and after a transaction only, and takes a failed read for
  no position (`BetBox.tsx:33-41`, `actions.ts:39`): a winner whose read failed, or was overtaken by a
  bet made elsewhere, stays without the claim button that `BetBox.tsx:14` promises, until the page is
  reloaded. `WinnersAreOffered` is about those whose position was read.
- `useProtocolStats.ts:59` counts cancelled and refunded markets as "settled against a TxODDS proof"
  (line 12; "by proof" in `VolumeCard.tsx:39`).
- An `indexer/.env` that is a copy of `.env.example` has an empty token, which hides the relayer's: the
  indexer simulates although the relayer is subscribed. With the token filled in (the example lists no
  `TXODDS_JWT`) it takes the JWT from `relayer/.env` (`indexer/src/txoddsData.ts:6-7`), and sends the
  JWT of one session with the token of another. `ReadersHoldAPair` excepts a file with just one of
  the two, and covers all others.
- Two runs of `subscribe` that overlap can lose the other settings of `relayer/.env`: one reads the
  file (`subscribe.ts:29`) after the other has emptied it and before it has written it.

## 8. What is not modelled

- *Merkle proofs and the deployed TxODDS program*: external; it accepts what was committed.
- *PDA derivation, byte conversions, the generated IDL*: encodings without control.
- *Of the manual relayer*: `statProof.ts` and `goldenTest.ts`, which print what TxODDS answers,
  `betTest.ts`, which is one `place_bet`, and `index.ts`, which lists fixtures.
- *Of the credentials*: that the JWT expires after 30 days, to which no code reacts. The other settings of
  `.env` are one flag.
- *Over/under markets* (`MarketKind.OverUnder` is a code that no source creates; the program itself, and `verdicts`, take any predicates).
- *The rest of the app* (leaderboard and welcome page, layout, animation, countdown, styles): no
  state that anything depends on.
- `indexer/src/liveFeed.ts` is inert: nothing calls it.
- *Reorganisations of the chain, rent and compute limits, and RPC nodes that disagree.*

## 9. Plan

Done: program; sync; indexer with its pages; on-chain view; hosted feed; wallet adapter; credentials;
scripts; portfolio and totals; and the proofs of their safety properties.

Next:
1. Abstract specifications of the feeds (a page shows a past of the store) and of the adapter (a
   session that is announced once and ended once), as refinements.
2. Several viewers in `ChainView`, a bettor who is not the authority, and a wallet that changes under
   the bet box.
3. The order of the list kept in a pass of the sync.
