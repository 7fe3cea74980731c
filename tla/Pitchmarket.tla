------------------------------ MODULE Pitchmarket ------------------------------
(****************************************************************************)
(* One market of the on-chain program programs/pitchmarket: its Market      *)
(* account, its vault, the bettors' Position accounts and token accounts,   *)
(* the clock and the scores TxODDS has committed.                           *)
(*                                                                          *)
(* Every action is one instruction of the program, executed atomically as   *)
(* the runtime executes it: a handler that fails any require!, constraint,  *)
(* checked operation or CPI changes nothing, so its failing conditions are  *)
(* the negation of the action's guard.  The accounts of another market have *)
(* other addresses (the PDA seeds hold the match id, the kind, the market   *)
(* key and the bettor key) and cannot be passed in the place of this one's. *)
(****************************************************************************)
EXTENDS Integers, Sequences, FiniteSets, Functions, Predicates

CONSTANTS
  Users,            \* the signers; each has one token account of the market's mint
  InitialWallet,    \* [Users -> Nat]: the mint's supply, as it is distributed at first
  MAX_OUTCOMES,     \* constants.rs
  PROTOCOL_FEE_BPS,
  BPS_DENOMINATOR,
  REFUND_GRACE_SECS,
  MaxU64, MaxI64,   \* the largest u64 and i64
  MatchId,          \* the market's match_id, as the fixture id of its PDA seeds
  Commitments,      \* the scores TxODDS may commit: [fixture_id, score] records
  CreateArgs,       \* the arguments create_market may be called with
  MaxTime,          \* bound of the clock
  MaxDonation       \* bound of the tokens sent to the vault outside the program

Outcomes == 0 .. MAX_OUTCOMES - 1
NoUser   == "none"

ASSUME UsersAssumption ==
  /\ IsFiniteSet(Users) /\ NoUser \notin Users
  /\ InitialWallet \in [Users -> Nat]
  /\ MaxU64 \in Nat /\ SumFunction(InitialWallet) <= MaxU64   \* an SPL supply is a u64
ASSUME ConstantsAssumption ==
  /\ MAX_OUTCOMES \in Nat /\ 2 <= MAX_OUTCOMES /\ MAX_OUTCOMES <= 256
  /\ PROTOCOL_FEE_BPS \in Nat
  /\ BPS_DENOMINATOR \in Nat \ {0} /\ PROTOCOL_FEE_BPS <= BPS_DENOMINATOR
  /\ BPS_DENOMINATOR <= MaxU64
  /\ REFUND_GRACE_SECS \in Nat
ASSUME ClockAssumption ==
  MaxI64 \in Nat /\ MaxTime \in Nat /\ MaxTime <= MaxI64 /\ MaxDonation \in Nat
ASSUME ArgsAssumption ==
  /\ \A args \in CreateArgs :
       /\ args.num_outcomes \in 0..255
       /\ args.betting_close_ts \in Int /\ args.betting_close_ts <= MaxI64
       /\ args.predicates \in Seq(PredicateSpec)
  /\ \A c \in Commitments : /\ DOMAIN c.score \subseteq Nat \X Int
                            /\ \A s \in DOMAIN c.score : c.score[s] \in Int

VARIABLES
  \* Market
  status, winning_outcome, num_outcomes, betting_close_ts, total_pool, pool_per_outcome,
  predicates, authority,
  \* Positions, by bettor.  A position that was never opened has no stake: claim and
  \* claim_refund fail on both alike.
  stake_per_outcome, claimed,
  \* token accounts
  wallet, vault,
  \* environment: the tokens sent to the vault outside the program, the clock, TxODDS
  donated, now, committed

vars == <<status, winning_outcome, num_outcomes, betting_close_ts, total_pool,
          pool_per_outcome, predicates, authority, stake_per_outcome, claimed,
          wallet, vault, donated, now, committed>>

terms       == <<num_outcomes, betting_close_ts, predicates, authority>>
pools       == <<total_pool, pool_per_outcome>>
positions   == <<stake_per_outcome, claimed>>
environment == <<donated, now, committed>>

(****************************************************************************)
(* Arithmetic of the program                                                *)
(*                                                                          *)
(* A definition named ...Fault is the one after it with a plausible mistake *)
(* in it; the specification uses none of them.                              *)
(****************************************************************************)
MaxU128  == (MaxU64 + 1) * (MaxU64 + 1) - 1
AsU64(x) == x % (MaxU64 + 1)

StakeOf(u) == SumFunction(stake_per_outcome[u])
Fee(pool)  == AsU64((pool * PROTOCOL_FEE_BPS) \div BPS_DENOMINATOR)

\* Dividing before multiplying.
PayoutFault(u) == AsU64(stake_per_outcome[u][winning_outcome]
                          * (total_pool \div pool_per_outcome[winning_outcome]))
Payout(u)      == AsU64((stake_per_outcome[u][winning_outcome] * total_pool)
                          \div pool_per_outcome[winning_outcome])

(****************************************************************************)
(* Token transfers, each signed by the bettor or by the market              *)
(****************************************************************************)
\* No transfer at all, and one that does not check the balance.
DepositSkippedFault(u, amount)  == UNCHANGED <<wallet, vault>>
DepositUnfundedFault(u, amount) == /\ wallet' = [wallet EXCEPT ![u] = @ - amount]
                                   /\ vault' = vault + amount
Deposit(u, amount) ==
  /\ amount <= wallet[u]
  /\ wallet' = [wallet EXCEPT ![u] = @ - amount]
  /\ vault' = vault + amount

\* A transfer that leaves the vault as it was.
WithdrawFault(u, amount) == /\ amount <= vault /\ UNCHANGED vault
                            /\ wallet' = [wallet EXCEPT ![u] = @ + amount]
Withdraw(u, amount) ==
  /\ amount <= vault
  /\ vault' = vault - amount
  /\ wallet' = [wallet EXCEPT ![u] = @ + amount]

(****************************************************************************)
(* The oracle: validate_stat over the committed scores                      *)
(****************************************************************************)
ValidateStat(spec, commitment, a, b) ==
  /\ commitment \in committed
  /\ a \in DOMAIN commitment.score
  /\ spec.use_stat_b => b \in DOMAIN commitment.score
  /\ Evaluates(spec, commitment.score, a, b)

-----------------------------------------------------------------------------
Init ==
  /\ status = "NotCreated" /\ winning_outcome = 0
  /\ num_outcomes = 0 /\ betting_close_ts = 0
  /\ predicates = [o \in Outcomes |-> DefaultSpec] /\ authority = NoUser
  /\ total_pool = 0 /\ pool_per_outcome = [o \in Outcomes |-> 0]
  /\ stake_per_outcome = [u \in Users |-> [o \in Outcomes |-> 0]]
  /\ claimed = [u \in Users |-> FALSE]
  /\ wallet = InitialWallet /\ vault = 0 /\ donated = 0
  /\ now = 0 /\ committed = {}

\* Anyone may create the market, once: init fails on an account that exists.  The close
\* time is taken as given.
CreateMarket(u, args) ==
  /\ status = "NotCreated"
  /\ args.num_outcomes \in 2 .. MAX_OUTCOMES
  /\ Len(args.predicates) = args.num_outcomes
  /\ status' = "Open" /\ winning_outcome' = 0
  /\ num_outcomes' = args.num_outcomes
  /\ betting_close_ts' = args.betting_close_ts
  /\ total_pool' = 0 /\ pool_per_outcome' = [o \in Outcomes |-> 0]
  /\ predicates' = [o \in Outcomes |-> IF o < Len(args.predicates)
                                       THEN args.predicates[o + 1] ELSE DefaultSpec]
  /\ authority' = u
  /\ UNCHANGED <<positions, wallet, vault, environment>>

\* The pools and the position, each with a checked addition.
AddStakeFault(u, outcome, amount) ==
  /\ pool_per_outcome' = [pool_per_outcome EXCEPT ![winning_outcome] = @ + amount]
  /\ total_pool' = total_pool + amount
  /\ stake_per_outcome' = [stake_per_outcome EXCEPT ![u][outcome] = @ + amount]
AddStake(u, outcome, amount) ==
  /\ pool_per_outcome[outcome] + amount <= MaxU64
  /\ total_pool + amount <= MaxU64
  /\ stake_per_outcome[u][outcome] + amount <= MaxU64
  /\ pool_per_outcome' = [pool_per_outcome EXCEPT ![outcome] = @ + amount]
  /\ total_pool' = total_pool + amount
  /\ stake_per_outcome' = [stake_per_outcome EXCEPT ![u][outcome] = @ + amount]

PlaceBet(u, outcome, amount) ==
  /\ status = "Open" /\ amount > 0 /\ outcome < num_outcomes
  /\ now < betting_close_ts
  /\ Deposit(u, amount)
  /\ AddStake(u, outcome, amount)
  /\ UNCHANGED <<status, winning_outcome, terms, claimed, environment>>

\* The checks of resolve and the oracle's answer, which every resolution passes.
ProvesFault(outcome, commitment, a, b) ==
  LET spec == predicates[outcome] IN
  /\ status = "Open" /\ outcome < num_outcomes
  /\ now >= betting_close_ts
  /\ StatsBound(spec, a, b)
  /\ ValidateStat(spec, commitment, a, b)
Proves(outcome, commitment, a, b) ==
  LET spec == predicates[outcome] IN
  /\ status = "Open" /\ outcome < num_outcomes
  /\ now >= betting_close_ts
  /\ commitment.fixture_id = MatchId
  /\ StatsBound(spec, a, b)
  /\ ValidateStat(spec, commitment, a, b)

\* Anyone may resolve.  Without a stake on the winning outcome everyone is refunded.
ResolveNoWinner(outcome, commitment, a, b) ==
  /\ Proves(outcome, commitment, a, b)
  /\ pool_per_outcome[outcome] = 0
  /\ winning_outcome' = outcome /\ status' = "Refunded"
  /\ UNCHANGED <<terms, pools, positions, wallet, vault, environment>>

\* The fee leaves the pool and goes to the authority's token account.  The faults: a fee of
\* the winning pool only, and one that total_pool does not show.
RakeStakeFault(outcome) == LET fee == Fee(pool_per_outcome[outcome]) IN
                           /\ total_pool' = total_pool - fee
                           /\ Withdraw(authority, fee)
RakeGrossFault(outcome) == Withdraw(authority, Fee(total_pool)) /\ UNCHANGED total_pool
Rake(outcome) ==
  LET fee == Fee(total_pool) IN
  /\ total_pool * PROTOCOL_FEE_BPS <= MaxU128
  /\ fee <= total_pool
  /\ total_pool' = total_pool - fee
  /\ Withdraw(authority, fee)

ResolveWinner(outcome, commitment, a, b) ==
  /\ Proves(outcome, commitment, a, b)
  /\ pool_per_outcome[outcome] # 0
  /\ winning_outcome' = outcome /\ status' = "Resolved"
  /\ Rake(outcome)
  /\ UNCHANGED <<pool_per_outcome, terms, positions, environment>>

Resolve(outcome, commitment, a, b) ==
  ResolveNoWinner(outcome, commitment, a, b) \/ ResolveWinner(outcome, commitment, a, b)

\* How claim and claim_refund end.
PayOutFault(u, amount) ==
  /\ Withdraw(u, amount)
  /\ UNCHANGED <<status, winning_outcome, terms, pools, positions, environment>>
PayOut(u, amount) ==
  /\ claimed' = [claimed EXCEPT ![u] = TRUE]
  /\ Withdraw(u, amount)
  /\ UNCHANGED <<status, winning_outcome, terms, pools, stake_per_outcome, environment>>

Claim(u) ==
  /\ status = "Resolved" /\ ~claimed[u]
  /\ stake_per_outcome[u][winning_outcome] > 0
  /\ stake_per_outcome[u][winning_outcome] * total_pool <= MaxU128
  /\ PayOut(u, Payout(u))

\* The i64 sum is computed, and panics on overflow, whoever signs.  The faults: a market
\* that is no longer open is cancelled too, and only the authority can cancel.
MayCancel(u) ==
  /\ betting_close_ts + REFUND_GRACE_SECS <= MaxI64
  /\ u = authority \/ now >= betting_close_ts + REFUND_GRACE_SECS
Refund ==
  /\ status' = "Refunded"
  /\ UNCHANGED <<winning_outcome, terms, pools, positions, wallet, vault, environment>>
CancelAnyFault(u)       == status \in {"Open", "Resolved"} /\ MayCancel(u) /\ Refund
CancelAuthorityFault(u) == status = "Open" /\ MayCancel(u) /\ u = authority /\ Refund
CancelMarket(u)         == status = "Open" /\ MayCancel(u) /\ Refund

\* The faults: a resolved market refunds too, and a refund can be had again.
RefundResolvedFault(u) == status # "Open" /\ ~claimed[u] /\ StakeOf(u) > 0 /\ PayOut(u, StakeOf(u))
RefundAgainFault(u)    == status = "Refunded" /\ StakeOf(u) > 0 /\ PayOut(u, StakeOf(u))
ClaimRefund(u) ==
  /\ status = "Refunded" /\ ~claimed[u]
  /\ StakeOf(u) > 0 /\ StakeOf(u) <= MaxU64
  /\ PayOut(u, StakeOf(u))

(****************************************************************************)
(* The environment                                                          *)
(****************************************************************************)
Tick ==
  /\ now < MaxTime
  /\ now' = now + 1
  /\ UNCHANGED <<status, winning_outcome, terms, pools, positions, wallet, vault,
                 donated, committed>>

\* TxODDS commits a score, of a match in play or of one that has ended.
CommitScore(commitment) ==
  /\ commitment \notin committed
  /\ committed' = committed \cup {commitment}
  /\ UNCHANGED <<status, winning_outcome, terms, pools, positions, wallet, vault,
                 donated, now>>

\* An SPL token account accepts tokens from anyone.
Donate(u) ==
  /\ status # "NotCreated"
  /\ wallet[u] > 0 /\ donated < MaxDonation
  /\ wallet' = [wallet EXCEPT ![u] = @ - 1]
  /\ vault' = vault + 1 /\ donated' = donated + 1
  /\ UNCHANGED <<status, winning_outcome, terms, pools, positions, now, committed>>

Instruction ==
  \/ \E u \in Users : \/ \E args \in CreateArgs : CreateMarket(u, args)
                      \/ \E o \in Outcomes, amount \in 0 .. wallet[u] + 1 : PlaceBet(u, o, amount)
                      \/ Claim(u) \/ CancelMarket(u) \/ ClaimRefund(u)
  \/ \E o \in Outcomes, c \in Commitments :
       \E a \in DOMAIN c.score, b \in DOMAIN c.score \cup {NoStat} : Resolve(o, c, a, b)

Environment ==
  \/ Tick
  \/ \E c \in Commitments : CommitScore(c)
  \/ \E u \in Users : Donate(u)

Next == Instruction \/ Environment

Spec == Init /\ [][Next]_vars

-----------------------------------------------------------------------------
(****************************************************************************)
(* Properties                                                               *)
(****************************************************************************)
Settled == status \in {"Resolved", "Refunded"}

\* The types of the accounts; every amount the program stores fits its u64.
TypeOK ==
  /\ status \in {"NotCreated", "Open", "Resolved", "Refunded"}
  /\ winning_outcome \in Outcomes
  /\ num_outcomes \in 0 .. MAX_OUTCOMES
  /\ betting_close_ts \in Int /\ betting_close_ts <= MaxI64
  /\ predicates \in [Outcomes -> PredicateSpec]
  /\ authority \in Users \cup {NoUser}
  /\ total_pool \in 0 .. MaxU64
  /\ pool_per_outcome \in [Outcomes -> 0 .. MaxU64]
  /\ stake_per_outcome \in [Users -> [Outcomes -> 0 .. MaxU64]]
  /\ claimed \in [Users -> BOOLEAN]
  /\ wallet \in [Users -> 0 .. MaxU64] /\ vault \in 0 .. MaxU64
  /\ donated \in Nat /\ now \in 0 .. MaxTime /\ committed \subseteq Commitments

\* What the market still owes a bettor: the stake back, or once it is resolved the
\* share of the net pool, until it is paid.
Owed(u) == CASE claimed[u]                         -> 0
             [] ~claimed[u] /\ status = "Resolved" -> Payout(u)
             [] ~claimed[u] /\ status # "Resolved" -> StakeOf(u)
TotalOwed   == SumFunction([u \in Users |-> Owed(u)])
TotalStaked == SumFunction([u \in Users |-> StakeOf(u)])

\* The running totals of the Market account are the sums over the Position accounts that
\* place_bet updates beside them; after resolve, total_pool is net of the fee of all stakes.
PoolsMatchPositions ==
  /\ \A o \in Outcomes :
       pool_per_outcome[o] = SumFunction([u \in Users |-> stake_per_outcome[u][o]])
  /\ total_pool = TotalStaked - (IF status = "Resolved" THEN Fee(TotalStaked) ELSE 0)

\* The vault covers everything the market still owes, whatever was claimed in whatever
\* order; before a payout in shares it holds that amount exactly.
Solvency ==
  /\ TotalOwed + donated <= vault
  /\ status # "Resolved" => vault = TotalOwed + donated

\* What the divisions of claim leave behind in the vault is less than one unit a winner.
DustBound ==
  status = "Resolved" =>
    vault - donated - TotalOwed
      < Cardinality({u \in Users : stake_per_outcome[u][winning_outcome] > 0})

\* No instruction makes or destroys tokens.
Conservation == SumFunction(wallet) + vault = SumFunction(InitialWallet)

\* No amount a bettor can pay makes place_bet's checked additions fail: an overflow guard
\* never turns a bet away.
BetsNeverOverflow ==
  status = "Open" => \A u \in Users, o \in Outcomes :
    /\ total_pool + wallet[u] <= MaxU64
    /\ pool_per_outcome[o] + wallet[u] <= MaxU64
    /\ stake_per_outcome[u][o] + wallet[u] <= MaxU64

\* A winner's claim never aborts in its arithmetic or its transfer and its cast to u64
\* loses nothing: every stake on the winning outcome can be turned into its share.
WinnersCanClaim ==
  status = "Resolved" => \A u \in Users :
    LET product == stake_per_outcome[u][winning_outcome] * total_pool IN
    stake_per_outcome[u][winning_outcome] > 0 /\ ~claimed[u] =>
      /\ product <= MaxU128
      /\ Payout(u) = product \div pool_per_outcome[winning_outcome]
      /\ Payout(u) <= vault

\* Nor does a refund: whoever has a stake in a refunded market can take all of it back.
BettorsCanReclaim ==
  status = "Refunded" => \A u \in Users :
    ~claimed[u] => StakeOf(u) <= MaxU64 /\ StakeOf(u) <= vault

\* A market whose predicates are the 1X2 ones of its first outcome's stats.
Is1X2 ==
  LET home == predicates[0]
      list == build1X2Predicates(home.stat_a_key, home.stat_b_key, home.period)
  IN  num_outcomes = 3 /\ \A i \in 1..3 : predicates[i - 1] = list[i]

\* A committed score of both sides proves exactly one outcome of a 1X2 market, the sign of
\* the goal difference: whoever cranks resolve with it has no choice.
OneX2IsUnambiguous ==
  Is1X2 => \A c \in committed :
    LET home == StatA(predicates[0])
        away == StatB(predicates[0])
        difference == c.score[home] - c.score[away]
    IN  {home, away} \subseteq DOMAIN c.score =>
          {o \in Outcomes : o < num_outcomes /\ Holds(predicates[o], c.score)}
            = {CASE difference > 0 -> 0
                 [] difference = 0 -> 1
                 [] difference < 0 -> 2}

\* A market is resolved only to an outcome some committed score of its own fixture proves,
\* and only once betting has closed.
VerdictIsProved ==
  status = "Resolved" =>
    /\ now >= betting_close_ts
    /\ winning_outcome < num_outcomes
    /\ \E c \in committed : /\ c.fixture_id = MatchId
                            /\ Holds(predicates[winning_outcome], c.score)

\* A settled market never changes again but for its payouts: of a resolve and a cancel that
\* race after the grace period the first decides, for every bettor alike.
SettlementIsFinal ==
  [][Settled => UNCHANGED <<status, winning_outcome, terms, pools, stake_per_outcome>>]_vars

\* Tokens reach a user from the market in two ways only: the fee, to the authority as the
\* market is resolved, and once per bettor what the market owes them.
PaidOnce ==
  [][\A u \in Users : wallet'[u] > wallet[u] =>
       \/ /\ ~claimed[u] /\ claimed'[u]
          /\ wallet'[u] - wallet[u] = Owed(u)
       \/ /\ status = "Open" /\ status' = "Resolved" /\ u = authority
          /\ wallet'[u] - wallet[u] = Fee(TotalStaked)]_vars

(****************************************************************************)
(* Liveness.  Time passes; someone other than the authority cancels when    *)
(* that is allowed; a bettor who can be paid comes for it.                  *)
(****************************************************************************)
AnyoneCancels == \E u \in Users : u # authority /\ CancelMarket(u)

Fairness ==
  /\ WF_vars(Tick)
  /\ WF_vars(AnyoneCancels)
  /\ \A u \in Users : WF_vars(Claim(u)) /\ WF_vars(ClaimRefund(u))

FairSpec == Spec /\ Fairness

\* "So funds are never stuck" (cancel_market.rs): every stake is in the end paid for, as a
\* share or as a refund, or lost to a winner, even if the authority and TxODDS do nothing, as
\* long as the clock reaches the end of the grace period.
FundsNeverStuck ==
  \A u \in Users :
    StakeOf(u) > 0 /\ betting_close_ts + REFUND_GRACE_SECS <= MaxTime
      ~> \/ claimed[u]
         \/ status = "Resolved" /\ stake_per_outcome[u][winning_outcome] = 0

(****************************************************************************)
(* What the comments of the program say and it does not do.                 *)
(****************************************************************************)
\* cancel_market.rs: "The market authority may cancel at any time while `Open`".
AuthorityMayCancel == status = "Open" => ENABLED CancelMarket(authority)
=============================================================================
