--------------------------- MODULE RefinementProofs ---------------------------
(****************************************************************************)
(* The program implements the promise of PariMutuel, and the lifecycle of   *)
(* MarketLifecycle: proofs of the properties of PitchmarketRefinement.      *)
(****************************************************************************)
EXTENDS PitchmarketRefinement, PitchmarketProofs

LEMMA InitRefines == Init => Promise!Init
<1> SUFFICES ASSUME Init PROVE Promise!Init
  OBVIOUS
<1>1. {u \in Users : claimed[u]} = {}
  BY DEF Init
<1> QED
  BY <1>1 DEF Init, Promise!Init

\* PariMutuel has an instance of the community module of its own.
LEMMA SameSum ==
  ASSUME NEW f
  PROVE  Promise!SumFunction(f) = SumFunction(f)
BY Zenon DEF SumFunction, SumFunctionOnSet, FoldFunctionOnSet, MapThenFoldSet,
   Promise!SumFunction, Promise!SumFunctionOnSet, Promise!FoldFunctionOnSet,
   Promise!MapThenFoldSet

\* The abstract quantities in terms of the program's, once all invariants hold.
LEMMA AbstractValues ==
  ASSUME IInv
  PROVE  /\ Promise!Pool = TotalStaked
         /\ \A u \in Users : Promise!StakeOf(u) = StakeOf(u)
         /\ \A o \in Outcomes : Promise!StakedOn(o) = pool_per_outcome[o]
         /\ Promise!Rake = Fee(TotalStaked)
<1>1. \A u \in Users : Promise!StakeOf(u) = StakeOf(u)
  BY SameSum, Zenon DEF Promise!StakeOf, StakeOf
<1>2. Promise!Pool = TotalStaked
  <2>1. [u \in Users |-> Promise!StakeOf(u)] = [u \in Users |-> StakeOf(u)]
    BY <1>1
  <2> QED
    BY <2>1, SameSum, Zenon DEF Promise!Pool, TotalStaked
<1>3. \A o \in Outcomes : Promise!StakedOn(o) = pool_per_outcome[o]
  <2>1. \A o \in Outcomes :
          pool_per_outcome[o] = SumFunction([u \in Users |-> stake_per_outcome[u][o]])
    BY DEF IInv, PoolsMatchPositions
  <2> QED
    BY <2>1, SameSum, Zenon DEF Promise!StakedOn
<1>4. TotalStaked \in Nat /\ TotalStaked <= MaxU64
  BY TypesSums DEF IInv, Phases
<1>5. Promise!Rake = Fee(TotalStaked)
  BY <1>2, <1>4, FeeFacts DEF Promise!Rake
<1> QED
  BY <1>1, <1>2, <1>3, <1>5

LEMMA ClaimRefines ==
  ASSUME IInv, NEW u \in Users, Claim(u)
  PROVE  Promise!Collect(u)
<1>1. /\ status = "Resolved" /\ ~claimed[u] /\ stake_per_outcome[u][winning_outcome] > 0
      /\ claimed' = [claimed EXCEPT ![u] = TRUE]
      /\ wallet' = [wallet EXCEPT ![u] = @ + Payout(u)]
      /\ UNCHANGED <<status, winning_outcome, authority, stake_per_outcome>>
  BY DEF Claim, PayOut, Withdraw, terms
<1>2. Types /\ winning_outcome \in Outcomes
  BY DEF IInv, Types
<1>3. Promise!Share(u, winning_outcome) = Payout(u)
  <2>1. total_pool = TotalStaked - Fee(TotalStaked)
    BY <1>1 DEF IInv, PoolsMatchPositions
  <2>2. Promise!Pool - Promise!Rake = total_pool
    BY <2>1, AbstractValues
  <2>3. Promise!StakedOn(winning_outcome) = pool_per_outcome[winning_outcome]
    BY <1>2, AbstractValues
  <2>4. Payout(u) = (stake_per_outcome[u][winning_outcome] * total_pool)
                      \div pool_per_outcome[winning_outcome]
    BY <1>1, OwedType
  <2> QED
    BY <2>2, <2>3, <2>4 DEF Promise!Share
<1>4. {v \in Users : claimed'[v]} = {v \in Users : claimed[v]} \cup {u}
  BY <1>1, <1>2 DEF Types
<1> QED
  BY <1>1, <1>3, <1>4 DEF Promise!Collect, Promise!Receive

LEMMA ClaimRefundRefines ==
  ASSUME IInv, NEW u \in Users, ClaimRefund(u)
  PROVE  Promise!Collect(u)
<1>1. /\ status = "Refunded" /\ ~claimed[u] /\ StakeOf(u) > 0
      /\ claimed' = [claimed EXCEPT ![u] = TRUE]
      /\ wallet' = [wallet EXCEPT ![u] = @ + StakeOf(u)]
      /\ UNCHANGED <<status, winning_outcome, authority, stake_per_outcome>>
  BY DEF ClaimRefund, PayOut, Withdraw, terms
<1>2. Promise!StakeOf(u) = StakeOf(u)
  BY AbstractValues
<1>3. {v \in Users : claimed'[v]} = {v \in Users : claimed[v]} \cup {u}
  BY <1>1 DEF IInv, Types
<1> QED
  BY <1>1, <1>2, <1>3 DEF Promise!Collect, Promise!Receive

LEMMA ResolveWinnerRefines ==
  ASSUME IInv, NEW o \in Outcomes, NEW c, NEW a, NEW b, ResolveWinner(o, c, a, b)
  PROVE  Promise!Win(o)
<1>1. /\ status = "Open" /\ status' = "Resolved" /\ winning_outcome' = o
      /\ pool_per_outcome[o] # 0
      /\ wallet' = [wallet EXCEPT ![authority] = @ + Fee(total_pool)]
      /\ UNCHANGED <<authority, stake_per_outcome, claimed>>
  BY DEF ResolveWinner, Rake, Withdraw, Proves, terms, positions
<1>2. Promise!StakedOn(o) > 0
  BY <1>1, AbstractValues DEF IInv, Types
<1>3. Fee(total_pool) = Promise!Rake
  <2>1. TotalStaked \in Nat
    BY TypesSums DEF IInv
  <2>2. total_pool = TotalStaked
    BY <1>1, <2>1 DEF IInv, PoolsMatchPositions
  <2> QED
    BY <2>2, AbstractValues
<1> QED
  BY <1>1, <1>2, <1>3 DEF Promise!Win, Promise!Receive

LEMMA PlaceBetRefines ==
  ASSUME IInv, NEW u \in Users, NEW o \in Outcomes, NEW n \in Nat, PlaceBet(u, o, n)
  PROVE  n \in 1 .. wallet[u] /\ Promise!Stake(u, o, n)
<1>1. /\ status = "Open" /\ n > 0 /\ n <= wallet[u]
      /\ wallet' = [wallet EXCEPT ![u] = @ - n]
      /\ stake_per_outcome' = [stake_per_outcome EXCEPT ![u][o] = @ + n]
      /\ UNCHANGED <<status, winning_outcome, authority, claimed>>
  BY DEF PlaceBet, Deposit, AddStake, terms
<1>2. wallet \in [Users -> Nat]
  BY DEF IInv, Types
<1>3. wallet[u] - n = wallet[u] + (-n)
  BY <1>2
<1>4. wallet' = [wallet EXCEPT ![u] = @ + (-n)]
  BY <1>1, <1>2, <1>3
<1>5. n \in 1 .. wallet[u]
  BY <1>1, <1>2
<1> QED
  BY <1>1, <1>4, <1>5 DEF Promise!Stake, Promise!Receive

LEMMA NextRefines == IInv /\ [Next]_vars => [Promise!Next]_(Promise!vars)
<1> SUFFICES ASSUME IInv, [Next]_vars PROVE [Promise!Next]_(Promise!vars)
  OBVIOUS
<1>1. ASSUME NEW u \in Users, NEW args \in CreateArgs, CreateMarket(u, args)
      PROVE  Promise!Open(u)
  BY <1>1 DEF CreateMarket, positions, Promise!Open
<1>2. ASSUME NEW u \in Users, NEW o \in Outcomes, NEW n \in 0 .. wallet[u] + 1, PlaceBet(u, o, n)
      PROVE  n \in 1 .. wallet[u] /\ Promise!Stake(u, o, n)
  <2>1. n \in Nat
    BY DEF IInv, Types
  <2> QED
    BY <1>2, <2>1, PlaceBetRefines
<1>3. ASSUME NEW o \in Outcomes, NEW c, NEW a, NEW b, ResolveNoWinner(o, c, a, b)
      PROVE  Promise!Void
  BY <1>3 DEF ResolveNoWinner, Proves, terms, positions, Promise!Void
<1>4. ASSUME NEW u \in Users, CancelMarket(u)
      PROVE  Promise!Void
  BY <1>4 DEF CancelMarket, Refund, terms, positions, Promise!Void
<1>5. ASSUME Tick \/ (\E c \in Commitments : CommitScore(c)) \/ UNCHANGED vars
      PROVE  UNCHANGED Promise!vars
  BY <1>5 DEF Tick, CommitScore, vars, terms, positions, Promise!vars
<1>6. ASSUME NEW u \in Users, Donate(u)
      PROVE  Promise!GiveAway(u)
  <2>1. /\ wallet \in [Users -> Nat] /\ wallet[u] > 0
        /\ wallet' = [wallet EXCEPT ![u] = @ - 1]
        /\ UNCHANGED <<status, winning_outcome, authority, stake_per_outcome, claimed>>
    BY <1>6 DEF Donate, terms, positions, IInv, Types
  <2>2. wallet' = [wallet EXCEPT ![u] = @ + (-1)]
    BY <2>1
  <2> QED
    BY <2>1, <2>2 DEF Promise!GiveAway, Promise!Receive
<1>7. CASE Instruction
  BY <1>1, <1>2, <1>3, <1>4, <1>7, ClaimRefines, ClaimRefundRefines, ResolveWinnerRefines
     DEF Instruction, Resolve, Promise!Next
<1>8. CASE Environment \/ UNCHANGED vars
  BY <1>5, <1>6, <1>8 DEF Environment, Promise!Next
<1> QED
  BY <1>7, <1>8 DEF Next

\* Every behaviour of the program, seen through the stakes, the users' tokens and who was
\* paid, is a behaviour the promise allows.
THEOREM Implementation == Spec => ImplementsPariMutuel
BY InitRefines, NextRefines, Invariance, PTL DEF Spec, Promise!Spec, ImplementsPariMutuel

\* An outcome is recorded with the settlement and never before.
NoVerdictYet == status \in {"NotCreated", "Open"} => winning_outcome = 0

LEMMA LifecycleStep ==
  NoVerdictYet /\ IInv /\ [Next]_vars => NoVerdictYet' /\ [Lifecycle!Next]_(Lifecycle!vars)
<1> SUFFICES ASSUME NoVerdictYet, IInv, [Next]_vars
             PROVE  NoVerdictYet' /\ [Lifecycle!Next]_(Lifecycle!vars)
  OBVIOUS
<1> USE DEF Lifecycle!Next, Lifecycle!vars, Lifecycle!Becomes, NoVerdictYet
<1>1. ASSUME NEW u \in Users, NEW args \in CreateArgs, CreateMarket(u, args)
      PROVE  NoVerdictYet' /\ Lifecycle!Create(MatchId)
  BY <1>1 DEF CreateMarket, Lifecycle!Create
<1>2. ASSUME NEW o \in Outcomes, NEW c, NEW a, NEW b, Resolve(o, c, a, b)
      PROVE  NoVerdictYet' /\ Lifecycle!Settle(MatchId)
  BY <1>2 DEF Resolve, ResolveWinner, ResolveNoWinner, Proves, Lifecycle!Settle
<1>3. ASSUME NEW u \in Users, CancelMarket(u)
      PROVE  NoVerdictYet' /\ Lifecycle!Cancel(MatchId)
  BY <1>3 DEF CancelMarket, Refund, Lifecycle!Cancel
<1>4. ASSUME NEW u \in Users, Claim(u) \/ ClaimRefund(u)
      PROVE  UNCHANGED <<status, winning_outcome>>
  BY <1>4 DEF Claim, ClaimRefund, PayOut
<1>5. ASSUME NEW u \in Users, NEW o, NEW n, PlaceBet(u, o, n)
      PROVE  UNCHANGED <<status, winning_outcome>>
  BY <1>5 DEF PlaceBet
<1>6. ASSUME Environment \/ UNCHANGED vars
      PROVE  UNCHANGED <<status, winning_outcome>>
  BY <1>6 DEF Environment, Tick, CommitScore, Donate, vars
<1>7. CASE Instruction
  BY <1>1, <1>2, <1>3, <1>4, <1>5, <1>7 DEF Instruction
<1> QED
  BY <1>6, <1>7 DEF Next

\* Whatever the stakes and the scores, a market is created at most once and settled at most
\* once: what SyncRelayer takes for granted of the market of each fixture.
THEOREM LifecycleImplementation == Spec => ImplementsLifecycle
<1>1. Init => NoVerdictYet /\ Lifecycle!Init
  BY ConstantsAssumption DEF Init, Lifecycle!Init, Outcomes, NoVerdictYet
<1> QED
  BY <1>1, LifecycleStep, Invariance, PTL
     DEF Spec, Lifecycle!Spec, ImplementsLifecycle
=============================================================================
