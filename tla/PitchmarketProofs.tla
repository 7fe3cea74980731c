--------------------------- MODULE PitchmarketProofs ---------------------------
(****************************************************************************)
(* Theorems about Pitchmarket, for every value of its constants.            *)
(****************************************************************************)
EXTENDS Pitchmarket, SumTheorems

(****************************************************************************)
(* The program's divisions                                                  *)
(****************************************************************************)
LEMMA Division ==
  ASSUME NEW x \in Nat, NEW d \in Nat, d > 0
  PROVE  /\ x \div d \in Nat
         /\ (x \div d) * d <= x
         /\ x \div d <= x
         /\ x % d \in Nat
         /\ x < d => x % d = x
  OBVIOUS

LEMMA Remainder ==
  ASSUME NEW x \in Nat, NEW d \in Nat, d > 0
  PROVE  x <= (x \div d) * d + (d - 1) /\ (x \div d) * d \in Nat
  OBVIOUS

LEMMA MulMono ==
  ASSUME NEW x \in Nat, NEW y \in Nat, NEW z \in Nat, x <= y
  PROVE  /\ x * z \in Nat /\ y * z \in Nat /\ x * z <= y * z
         /\ z * x \in Nat /\ z * y \in Nat /\ z * x <= z * y
  OBVIOUS

LEMMA MulCancel ==
  ASSUME NEW x \in Nat, NEW y \in Nat, NEW z \in Nat, z > 0, x * z <= y * z
  PROVE  x <= y
  OBVIOUS

LEMMA SquareBound ==
  /\ MaxU64 \in Nat
  /\ MaxU128 \in Nat
  /\ MaxU64 * MaxU64 <= MaxU128
BY UsersAssumption DEF MaxU128

\* The cast of the fee to u64 is exact, and the fee is at most the pool.
LEMMA FeeFacts ==
  ASSUME NEW T \in Nat, T <= MaxU64
  PROVE  /\ Fee(T) = (T * PROTOCOL_FEE_BPS) \div BPS_DENOMINATOR
         /\ Fee(T) \in Nat /\ Fee(T) <= T
         /\ T * PROTOCOL_FEE_BPS <= MaxU128
<1> DEFINE B == PROTOCOL_FEE_BPS
           D == BPS_DENOMINATOR
           q == (T * B) \div D
<1>1. B \in Nat /\ D \in Nat /\ D > 0 /\ B <= D /\ D <= MaxU64
  BY ConstantsAssumption
<1>2. MaxU64 \in Nat /\ MaxU128 \in Nat /\ MaxU64 * MaxU64 <= MaxU128
  BY SquareBound
<1> HIDE DEF B, D, q
<1>3. T * B \in Nat /\ T * B <= T * D
  BY <1>1, MulMono
<1>4. T * D <= T * MaxU64 /\ T * MaxU64 <= MaxU64 * MaxU64
  BY <1>1, <1>2, MulMono
<1>5. T * B <= MaxU128
  <2>1. T * D \in Nat /\ T * MaxU64 \in Nat /\ MaxU64 * MaxU64 \in Nat
    BY <1>1, <1>2, MulMono
  <2> QED
    BY <1>2, <1>3, <1>4, <2>1
<1>6. q \in Nat /\ q * D <= T * B
  BY <1>1, <1>3, Division DEF q
<1>7. q * D <= T * D
  <2>1. T * D \in Nat /\ q * D \in Nat
    BY <1>1, <1>6, MulMono
  <2> QED
    BY <1>3, <1>6, <2>1
<1>8. q <= T
  BY <1>1, <1>6, <1>7, MulCancel
<1>9. q % (MaxU64 + 1) = q
  <2>1. MaxU64 + 1 \in Nat /\ MaxU64 + 1 > 0 /\ q < MaxU64 + 1
    BY <1>2, <1>6, <1>8
  <2> QED
    BY <1>6, <2>1, Division
<1> QED
  BY <1>5, <1>6, <1>8, <1>9 DEF Fee, AsU64, q, B, D

\* A share of the pool: the product fits a u128, the quotient a u64, and w shares of one
\* unit never exceed the pool.
LEMMA ShareFacts ==
  ASSUME NEW s \in Nat, NEW w \in Nat, NEW p \in Nat, w > 0, s <= w, w <= MaxU64, p <= MaxU64
  PROVE  /\ AsU64((s * p) \div w) = (s * p) \div w
         /\ (s * p) \div w \in Nat /\ (s * p) \div w <= p
         /\ ((s * p) \div w) * w <= s * p
         /\ s * p <= MaxU128
<1> DEFINE q == (s * p) \div w
<1>1. MaxU64 \in Nat /\ MaxU128 \in Nat /\ MaxU64 * MaxU64 <= MaxU128
  BY SquareBound
<1> HIDE DEF q
<1>2. s * p \in Nat /\ w * p \in Nat /\ s * p <= w * p
  BY MulMono
<1>3. w * p <= MaxU64 * p /\ MaxU64 * p <= MaxU64 * MaxU64
  BY <1>1, MulMono
<1>4. s * p <= MaxU128
  <2>1. MaxU64 * p \in Nat /\ MaxU64 * MaxU64 \in Nat
    BY <1>1, MulMono
  <2> QED
    BY <1>1, <1>2, <1>3, <2>1
<1>5. q \in Nat /\ q * w <= s * p
  BY <1>2, Division DEF q
<1>6. q * w <= p * w
  <2>1. q * w \in Nat /\ p * w \in Nat /\ p * w = w * p
    BY <1>5, MulMono
  <2> QED
    BY <1>2, <1>5, <2>1
<1>7. q <= p
  BY <1>5, <1>6, MulCancel
<1>8. q % (MaxU64 + 1) = q
  <2>1. MaxU64 + 1 \in Nat /\ MaxU64 + 1 > 0 /\ q < MaxU64 + 1
    BY <1>1, <1>5, <1>7
  <2> QED
    BY <1>5, <2>1, Division
<1> QED
  BY <1>4, <1>5, <1>7, <1>8 DEF AsU64, q

(****************************************************************************)
(* The sums over the positions, for any stakes                              *)
(****************************************************************************)
Row(st, u)    == SumFunction(st[u])
Rows(st)      == SumFunction([u \in Users |-> Row(st, u)])
Column(st, o) == SumFunction([u \in Users |-> st[u][o]])
Stakes        == [Users -> [Outcomes -> Nat]]

LEMMA Finiteness == IsFiniteSet(Users) /\ IsFiniteSet(Outcomes)
<1>1. MAX_OUTCOMES - 1 \in Int
  BY ConstantsAssumption
<1> QED
  BY <1>1, FS_Interval, UsersAssumption DEF Outcomes

LEMMA StakeSums ==
  ASSUME NEW st \in Stakes
  PROVE  /\ \A u \in Users : Row(st, u) \in Nat
         /\ Rows(st) \in Nat
         /\ \A o \in Outcomes : Column(st, o) \in Nat
         /\ \A u \in Users, o \in Outcomes : st[u][o] <= Row(st, u) /\ st[u][o] <= Column(st, o)
         /\ \A u \in Users : Row(st, u) <= Rows(st)
         /\ \A o \in Outcomes : Column(st, o) <= Rows(st)
<1> USE Finiteness
<1> DEFINE rows == [u \in Users |-> Row(st, u)]
<1>1. \A u \in Users : st[u] \in [Outcomes -> Nat] /\ st[u] \in [Outcomes -> Int]
  BY DEF Stakes
<1>2. \A u \in Users : Row(st, u) \in Nat
  BY <1>1, SumType, Zenon DEF Row
<1>3. rows \in [Users -> Nat] /\ rows \in [Users -> Int]
  BY <1>2
<1>4. Rows(st) \in Nat
  BY <1>3, SumType, Zenon DEF Rows
<1>5. ASSUME NEW u \in Users
      PROVE  Row(st, u) <= Rows(st)
  <2> HIDE DEF rows
  <2>1. rows[u] <= SumFunction(rows)
    BY <1>3, SumBoundsTerm, Zenon
  <2> QED
    BY <2>1 DEF rows, Rows
<1>6. ASSUME NEW o \in Outcomes
      PROVE  /\ Column(st, o) \in Nat
             /\ Column(st, o) <= Rows(st)
             /\ \A u \in Users : st[u][o] <= Row(st, u) /\ st[u][o] <= Column(st, o)
  <2> DEFINE column == [u \in Users |-> st[u][o]]
  <2>1. column \in [Users -> Nat] /\ column \in [Users -> Int]
    BY <1>1
  <2>2. Column(st, o) \in Nat
    BY <2>1, SumType, Zenon DEF Column
  <2>3. \A u \in Users : st[u][o] <= Row(st, u)
    BY <1>1, SumBoundsTerm, Zenon DEF Row
  <2>4. \A u \in Users : column[u] <= rows[u]
    BY <2>3
  <2>5. SumFunction(column) <= SumFunction(rows)
    <3> HIDE DEF column, rows
    <3> QED
      BY <1>3, <2>1, <2>4, SumMonotone, Zenon
  <2>6. \A u \in Users : column[u] <= SumFunction(column)
    <3> HIDE DEF column
    <3> QED
      BY <2>1, SumBoundsTerm, Zenon
  <2> QED
    BY <2>2, <2>3, <2>5, <2>6 DEF Column, Rows
<1> QED
  BY <1>2, <1>4, <1>5, <1>6

\* A bet of n by u on outcome o adds n to the sums it is in.
LEMMA StakeUpdate ==
  ASSUME NEW st \in Stakes, NEW st2 \in Stakes,
         NEW u \in Users, NEW o \in Outcomes, NEW n \in Nat,
         st2[u][o] = st[u][o] + n,
         \A p \in Outcomes \ {o} : st2[u][p] = st[u][p],
         \A v \in Users \ {u} : st2[v] = st[v]
  PROVE  /\ Row(st2, u) = Row(st, u) + n
         /\ \A v \in Users \ {u} : Row(st2, v) = Row(st, v)
         /\ Rows(st2) = Rows(st) + n
         /\ Column(st2, o) = Column(st, o) + n
         /\ \A p \in Outcomes \ {o} : Column(st2, p) = Column(st, p)
<1> USE Finiteness
<1>2. /\ st[u] \in [Outcomes -> Int] /\ st2[u] \in [Outcomes -> Int]
      /\ st2[u][o] = st[u][o] + n /\ st[u][o] \in Nat
      /\ \A p \in Outcomes \ {o} : st2[u][p] = st[u][p]
      /\ \A v \in Users \ {u} : st2[v] = st[v]
  BY DEF Stakes
<1>3. Row(st2, u) = Row(st, u) + n
  <2> DEFINE f == st[u]
             h == st2[u]
  <2>0. f \in [Outcomes -> Int] /\ h \in [Outcomes -> Int] /\ \A p \in Outcomes \ {o} : h[p] = f[p]
    BY <1>2
  <2> HIDE DEF f, h
  <2>3. SumFunction(h) = SumFunction(f) - f[o] + h[o]
    BY <2>0, SumUpdate
  <2> USE DEF f, h
  <2>1. SumFunction(st2[u]) = SumFunction(st[u]) - st[u][o] + st2[u][o]
    BY <2>3
  <2>2. SumFunction(st[u]) \in Int
    BY <1>2, SumType, Zenon
  <2> QED
    BY <1>2, <2>1, <2>2 DEF Row
<1>4. \A v \in Users \ {u} : Row(st2, v) = Row(st, v)
  BY <1>2 DEF Row
<1>5. Rows(st2) = Rows(st) + n
  <2> DEFINE f == [v \in Users |-> Row(st, v)]
             h == [v \in Users |-> Row(st2, v)]
  <2>1. f \in [Users -> Int] /\ h \in [Users -> Int]
    BY StakeSums
  <2>2. h[u] = f[u] + n /\ \A v \in Users \ {u} : h[v] = f[v]
    BY <1>3, <1>4
  <2> HIDE DEF f, h
  <2>3. SumFunction(h) = SumFunction(f) - f[u] + h[u]
    BY <2>1, <2>2, SumUpdate
  <2>4. SumFunction(f) \in Int /\ f[u] \in Int
    BY <2>1, SumType, Zenon
  <2> QED
    BY <2>2, <2>3, <2>4 DEF Rows, f, h
<1>6. Column(st2, o) = Column(st, o) + n
  <2> DEFINE f == [v \in Users |-> st[v][o]]
             h == [v \in Users |-> st2[v][o]]
  <2>1. f \in [Users -> Int] /\ h \in [Users -> Int]
    BY DEF Stakes
  <2>2. h[u] = f[u] + n /\ \A v \in Users \ {u} : h[v] = f[v]
    BY <1>2
  <2> HIDE DEF f, h
  <2>3. SumFunction(h) = SumFunction(f) - f[u] + h[u]
    BY <2>1, <2>2, SumUpdate
  <2>4. SumFunction(f) \in Int /\ f[u] \in Int
    BY <2>1, SumType, Zenon
  <2> QED
    BY <2>2, <2>3, <2>4 DEF Column, f, h
<1>7. ASSUME NEW p \in Outcomes \ {o}
      PROVE  Column(st2, p) = Column(st, p)
  <2>1. \A v \in Users : st2[v][p] = st[v][p]
    BY <1>2
  <2>2. [v \in Users |-> st2[v][p]] = [v \in Users |-> st[v][p]]
    BY <2>1
  <2> QED
    BY <2>2, Zenon DEF Column
<1> QED
  BY <1>3, <1>4, <1>5, <1>6, <1>7

(****************************************************************************)
(* The inductive invariant.  Types leaves out the bounds of TypeOK, which   *)
(* follow from Conservation; Phases says which accounts are still blank and *)
(* bounds the stakes, which total_pool no longer shows once it is raked.    *)
(****************************************************************************)
Types ==
  /\ status \in {"NotCreated", "Open", "Resolved", "Refunded"}
  /\ winning_outcome \in Outcomes
  /\ num_outcomes \in 0 .. MAX_OUTCOMES
  /\ betting_close_ts \in Int /\ betting_close_ts <= MaxI64
  /\ predicates \in [Outcomes -> PredicateSpec]
  /\ authority \in Users \cup {NoUser}
  /\ total_pool \in Nat /\ pool_per_outcome \in [Outcomes -> Nat]
  /\ stake_per_outcome \in Stakes
  /\ claimed \in [Users -> BOOLEAN]
  /\ wallet \in [Users -> Nat] /\ vault \in Nat
  /\ donated \in Nat /\ now \in 0 .. MaxTime /\ committed \subseteq Commitments

Phases ==
  /\ status # "NotCreated" => authority \in Users
  /\ status = "NotCreated" => total_pool = 0 /\ pool_per_outcome = [o \in Outcomes |-> 0]
  /\ status \in {"NotCreated", "Open"} => \A u \in Users : claimed[u] = FALSE
  /\ status = "Resolved" => pool_per_outcome[winning_outcome] > 0
  /\ TotalStaked <= MaxU64

IInv == Types /\ Phases /\ PoolsMatchPositions /\ Solvency /\ Conservation

\* The sums of the properties are those of the lemmas above.
LEMMA SumNames ==
  /\ TotalStaked = Rows(stake_per_outcome)
  /\ \A u \in Users : StakeOf(u) = Row(stake_per_outcome, u)
  /\ \A o \in Outcomes :
       SumFunction([u \in Users |-> stake_per_outcome[u][o]]) = Column(stake_per_outcome, o)
BY Zenon DEF TotalStaked, StakeOf, Rows, Row, Column

LEMMA TypesSums ==
  ASSUME Types
  PROVE  /\ TotalStaked \in Nat
         /\ \A u \in Users : StakeOf(u) \in Nat /\ StakeOf(u) <= TotalStaked
         /\ \A u \in Users, o \in Outcomes : stake_per_outcome[u][o] <= StakeOf(u)
BY StakeSums, SumNames DEF Types

LEMMA ZeroInOutcomes == 0 \in Outcomes
BY ConstantsAssumption DEF Outcomes

LEMMA InitIInv == Init => IInv
<1> SUFFICES ASSUME Init PROVE IInv
  OBVIOUS
<1> USE DEF Init
<1>1. Types
  <2>1. DefaultSpec \in PredicateSpec
    BY DEF DefaultSpec, PredicateSpec, Add, GreaterThan
  <2>2. stake_per_outcome \in Stakes
    BY DEF Stakes
  <2>3. /\ 0 \in Outcomes /\ InitialWallet \in [Users -> Nat]
        /\ 0 <= MaxI64 /\ 0 \in 0 .. MaxTime /\ 0 \in 0 .. MAX_OUTCOMES
    BY ZeroInOutcomes, UsersAssumption, ConstantsAssumption, ClockAssumption
  <2> QED
    BY <2>1, <2>2, <2>3 DEF Types
<1>2. \A u \in Users : StakeOf(u) = 0
  <2> SUFFICES ASSUME NEW u \in Users PROVE StakeOf(u) = 0
    OBVIOUS
  <2>1. stake_per_outcome[u] = [o \in Outcomes |-> 0]
    OBVIOUS
  <2> QED
    BY <2>1, SumZero, Finiteness DEF StakeOf
<1>3. TotalStaked = 0
  <2>1. [u \in Users |-> StakeOf(u)] = [u \in Users |-> 0]
    BY <1>2
  <2> QED
    BY <2>1, SumZero, Finiteness DEF TotalStaked
<1>4. TotalOwed = 0
  <2>1. [u \in Users |-> Owed(u)] = [u \in Users |-> 0]
    BY <1>2 DEF Owed
  <2> QED
    BY <2>1, SumZero, Finiteness DEF TotalOwed
<1>5. Phases
  BY <1>3, UsersAssumption DEF Phases
<1>6. PoolsMatchPositions
  <2>1. ASSUME NEW o \in Outcomes
        PROVE  pool_per_outcome[o] = SumFunction([u \in Users |-> stake_per_outcome[u][o]])
    <3>1. [u \in Users |-> stake_per_outcome[u][o]] = [u \in Users |-> 0]
      OBVIOUS
    <3> QED
      BY <3>1, SumZero, Finiteness
  <2> QED
    BY <1>3, <2>1 DEF PoolsMatchPositions
<1>7. Solvency
  BY <1>4 DEF Solvency
<1>8. Conservation
  <2>1. SumFunction(InitialWallet) \in Nat
    BY UsersAssumption, SumType, Finiteness
  <2> QED
    BY <2>1 DEF Conservation
<1> QED
  BY <1>1, <1>5, <1>6, <1>7, <1>8 DEF IInv

(****************************************************************************)
(* One lemma per instruction                                                *)
(****************************************************************************)
\* A change of one entry of a function of naturals, and its sum.
LEMMA EntryUpdate ==
  ASSUME NEW f \in [Users -> Nat], NEW h \in [Users -> Nat], NEW u \in Users, NEW d \in Int,
         h[u] = f[u] + d, \A v \in Users \ {u} : h[v] = f[v]
  PROVE  /\ SumFunction(f) \in Nat /\ SumFunction(h) \in Nat
         /\ SumFunction(h) = SumFunction(f) + d
<1>1. f \in [Users -> Int] /\ h \in [Users -> Int]
  OBVIOUS
<1>2. SumFunction(h) = SumFunction(f) - f[u] + h[u]
  BY <1>1, SumUpdate, Finiteness, Zenon
<1>3. SumFunction(f) \in Nat /\ SumFunction(h) \in Nat
  BY SumType, Finiteness, Zenon
<1> QED
  BY <1>2, <1>3

LEMMA CreateMarketIInv ==
  ASSUME IInv, NEW u \in Users, NEW args \in CreateArgs, CreateMarket(u, args)
  PROVE  IInv'
<1> USE DEF IInv, CreateMarket, positions, environment
<1>1. Types'
  <2>1. args.num_outcomes \in 0 .. MAX_OUTCOMES
    BY ConstantsAssumption
  <2>2. args.betting_close_ts \in Int /\ args.betting_close_ts <= MaxI64
    BY ArgsAssumption
  <2>3. DefaultSpec \in PredicateSpec
    BY DEF DefaultSpec, PredicateSpec, Add, GreaterThan
  <2>4. predicates' \in [Outcomes -> PredicateSpec]
    <3>1. args.predicates \in Seq(PredicateSpec)
      BY ArgsAssumption
    <3>2. ASSUME NEW o \in Outcomes, o < Len(args.predicates)
          PROVE  args.predicates[o + 1] \in PredicateSpec
      <4>1. o + 1 \in 1 .. Len(args.predicates)
        BY <3>1, <3>2 DEF Outcomes
      <4> QED
        BY <3>1, <4>1
    <3> QED
      BY <2>3, <3>2
  <2> QED
    BY <2>1, <2>2, <2>4, ZeroInOutcomes DEF Types
<1>2. total_pool' = total_pool /\ pool_per_outcome' = pool_per_outcome
  BY DEF Phases
<1>3. TotalStaked' = TotalStaked
  BY DEF TotalStaked, StakeOf
<1>4. TotalOwed' = TotalOwed
  <2>1. \A v \in Users : Owed(v)' = Owed(v)
    BY DEF Owed, StakeOf
  <2>2. [v \in Users |-> Owed(v)]' = [v \in Users |-> Owed(v)]
    BY <2>1
  <2> QED
    BY <2>2 DEF TotalOwed
<1>5. Phases'
  BY <1>3 DEF Phases
<1>6. PoolsMatchPositions'
  BY <1>2, <1>3 DEF PoolsMatchPositions
<1>7. Solvency' /\ Conservation'
  BY <1>4 DEF Solvency, Conservation
<1> QED
  BY <1>1, <1>5, <1>6, <1>7

LEMMA PlaceBetIInv ==
  ASSUME IInv, NEW u \in Users, NEW outcome \in Outcomes, NEW amount \in Nat,
         PlaceBet(u, outcome, amount)
  PROVE  IInv'
<1> DEFINE st == stake_per_outcome
<1> USE DEF IInv, PlaceBet, Deposit, AddStake, terms, environment
<1>1. /\ st' \in Stakes
      /\ Row(st', u) = Row(st, u) + amount
      /\ \A v \in Users \ {u} : Row(st', v) = Row(st, v)
      /\ Rows(st') = Rows(st) + amount
      /\ Column(st', outcome) = Column(st, outcome) + amount
      /\ \A p \in Outcomes \ {outcome} : Column(st', p) = Column(st, p)
  <2>1. st \in Stakes
    BY DEF Types
  <2>2. /\ st' \in Stakes
        /\ st'[u][outcome] = st[u][outcome] + amount
        /\ \A p \in Outcomes \ {outcome} : st'[u][p] = st[u][p]
        /\ \A v \in Users \ {u} : st'[v] = st[v]
    BY <2>1 DEF Stakes
  <2> HIDE DEF IInv, PlaceBet, st
  <2> QED
    BY <2>1, <2>2, StakeUpdate
<1>2. Types'
  BY <1>1 DEF Types
<1>3. TotalStaked \in Nat /\ TotalStaked' = TotalStaked + amount
  BY <1>1, TypesSums, SumNames DEF TotalStaked, StakeOf, Rows, Row
<1>4. total_pool = TotalStaked /\ total_pool' = total_pool + amount
  BY <1>3 DEF PoolsMatchPositions
<1>5. TotalOwed = TotalStaked /\ TotalOwed' = TotalStaked'
  <2>1. \A v \in Users : claimed[v] = FALSE
    BY DEF Phases
  <2>2. \A v \in Users : Owed(v) = StakeOf(v) /\ Owed(v)' = StakeOf(v)'
    BY <2>1 DEF Owed, StakeOf
  <2>3. /\ [v \in Users |-> Owed(v)] = [v \in Users |-> StakeOf(v)]
        /\ [v \in Users |-> Owed(v)]' = [v \in Users |-> StakeOf(v)]'
    BY <2>2
  <2> QED
    BY <2>3 DEF TotalOwed, TotalStaked
<1>6. Phases'
  BY <1>3, <1>4 DEF Phases
<1>7. PoolsMatchPositions'
  <2>1. ASSUME NEW o \in Outcomes
        PROVE  pool_per_outcome'[o] = Column(st', o)
    <3>1. pool_per_outcome[o] = Column(st, o) /\ pool_per_outcome \in [Outcomes -> Nat]
      BY SumNames DEF PoolsMatchPositions, Types
    <3> QED
      BY <1>1, <3>1
  <2> QED
    BY <1>3, <1>4, <2>1 DEF PoolsMatchPositions, Column
<1>8. Solvency'
  BY <1>3, <1>5 DEF Solvency, Types
<1>9. Conservation'
  <2>1. /\ wallet'[u] = wallet[u] + (-amount) /\ wallet' \in [Users -> Nat]
        /\ \A v \in Users \ {u} : wallet'[v] = wallet[v]
    BY <1>2 DEF Types
  <2>2. SumFunction(wallet) \in Nat /\ SumFunction(wallet') = SumFunction(wallet) + (-amount)
    <3>1. wallet \in [Users -> Nat] /\ -amount \in Int
      BY DEF Types
    <3> HIDE DEF IInv, PlaceBet
    <3> QED
      BY <2>1, <3>1, EntryUpdate, ZenonT(40)
  <2> QED
    BY <2>2 DEF Conservation, Types
<1> QED
  BY <1>2, <1>6, <1>7, <1>8, <1>9

\* A market that is refunded, by cancel_market or for want of a winner, owes what it did.
LEMMA RefundIInv ==
  ASSUME IInv, status = "Open", status' = "Refunded", winning_outcome' \in Outcomes,
         UNCHANGED <<terms, pools, positions, wallet, vault, environment>>
  PROVE  IInv'
<1> USE DEF terms, pools, positions, environment
<1>1. Types'
  BY DEF IInv, Types
<1>2. TotalStaked' = TotalStaked
  BY DEF TotalStaked, StakeOf
<1>3. TotalOwed' = TotalOwed
  <2>1. \A v \in Users : claimed[v] = FALSE
    BY DEF IInv, Phases
  <2>2. \A v \in Users : Owed(v)' = Owed(v)
    BY <2>1 DEF Owed, StakeOf
  <2>3. [v \in Users |-> Owed(v)]' = [v \in Users |-> Owed(v)]
    BY <2>2
  <2> QED
    BY <2>3 DEF TotalOwed
<1>4. Phases'
  BY <1>2 DEF IInv, Phases
<1>5. PoolsMatchPositions'
  BY <1>2 DEF IInv, PoolsMatchPositions
<1>6. Solvency' /\ Conservation'
  BY <1>3 DEF IInv, Solvency, Conservation
<1> QED
  BY <1>1, <1>4, <1>5, <1>6 DEF IInv

\* What the winners are owed: at most the pool in all.
LEMMA SharesFitPool ==
  ASSUME NEW st \in Stakes, NEW o \in Outcomes, NEW p \in Nat, p <= MaxU64,
         Column(st, o) > 0, Column(st, o) <= MaxU64,
         NEW shares, shares = [u \in Users |-> AsU64((st[u][o] * p) \div Column(st, o))]
  PROVE  shares \in [Users -> Nat] /\ SumFunction(shares) \in Nat /\ SumFunction(shares) <= p
<1> DEFINE w == Column(st, o)
           stakes == [u \in Users |-> st[u][o]]
<1>1. w \in Nat /\ w > 0 /\ w <= MaxU64
  BY StakeSums
<1>2. ASSUME NEW u \in Users
      PROVE  /\ shares[u] \in Nat /\ shares[u] * w <= stakes[u] * p /\ stakes[u] \in Nat
  <2>1. st[u][o] \in Nat /\ st[u][o] <= w
    BY StakeSums DEF Stakes
  <2> HIDE DEF w
  <2>2. /\ AsU64((st[u][o] * p) \div w) \in Nat
        /\ AsU64((st[u][o] * p) \div w) * w <= st[u][o] * p
    BY <1>1, <2>1, ShareFacts
  <2> QED
    BY <2>1, <2>2 DEF w
<1>3. shares \in [Users -> Nat] /\ stakes \in [Users -> Nat]
  BY <1>2
<1>4. SumFunction(stakes) = w
  BY Zenon DEF Column
<1>5. SumFunction(shares) * w <= SumFunction(stakes) * p
  <2>1. shares \in [Users -> Int] /\ stakes \in [Users -> Int] /\ w \in Int /\ p \in Int
    BY <1>1, <1>3
  <2>2. \A u \in Users : shares[u] * w <= stakes[u] * p
    BY <1>2
  <2> HIDE DEF w, stakes
  <2> QED
    BY <2>1, <2>2, SumScaled, Finiteness
<1>6. SumFunction(shares) \in Nat
  BY <1>3, SumType, Finiteness
<1>7. SumFunction(shares) * w <= p * w
  <2>1. w * p = p * w
    BY <1>1
  <2> QED
    BY <1>4, <1>5, <2>1
<1>8. SumFunction(shares) <= p
  <2> HIDE DEF w, stakes
  <2> QED
    BY <1>1, <1>6, <1>7, MulCancel
<1> QED
  BY <1>3, <1>6, <1>8

\* What the divisions leave of a pool p that is shared out: less than a unit for each winner.
LEMMA SharesLeaveDust ==
  ASSUME NEW st \in Stakes, NEW o \in Outcomes, NEW p \in Nat, p <= MaxU64,
         Column(st, o) > 0, Column(st, o) <= MaxU64,
         NEW shares, shares = [u \in Users |-> AsU64((st[u][o] * p) \div Column(st, o))]
  PROVE  p - SumFunction(shares) < Cardinality({u \in Users : st[u][o] > 0})
<1> DEFINE w       == Column(st, o)
           stakes  == [u \in Users |-> st[u][o]]
           winners == {u \in Users : stakes[u] > 0}
           n       == Cardinality(winners)
           paid    == SumFunction(shares)
<1>1. w \in Nat /\ w > 0 /\ w <= MaxU64
  BY StakeSums
<1>2. ASSUME NEW u \in Users
      PROVE  /\ shares[u] \in Nat /\ stakes[u] \in Nat
             /\ stakes[u] * p <= shares[u] * w + (IF stakes[u] > 0 THEN w - 1 ELSE 0)
  <2> DEFINE s == st[u][o]
             x == s * p
             q == x \div w
  <2>1. s \in Nat /\ s <= w
    BY StakeSums DEF Stakes
  <2> HIDE DEF w, s
  <2>2. AsU64(q) = q /\ q \in Nat
    BY <1>1, <2>1, ShareFacts
  <2>3. x \in Nat /\ (s = 0 => x = 0)
    BY <2>1, MulMono
  <2>4. x <= q * w + (w - 1) /\ q * w \in Nat
    <3> HIDE DEF x
    <3> QED
      BY <1>1, <2>3, Remainder
  <2>5. s > 0 \/ x = 0
    BY <2>1, <2>3
  <2>6. shares[u] = q /\ stakes[u] = s
    BY <2>2 DEF w, s
  <2> HIDE DEF q, stakes
  <2>7. stakes[u] * p <= q * w + (IF stakes[u] > 0 THEN w - 1 ELSE 0)
    <3>1. stakes[u] * p = x
      BY <2>6
    <3> HIDE DEF x
    <3> QED
      BY <1>1, <2>1, <2>3, <2>4, <2>5, <2>6, <3>1
  <2> QED
    BY <2>1, <2>2, <2>6, <2>7
<1>3. shares \in [Users -> Nat] /\ stakes \in [Users -> Nat]
  BY <1>2
<1>4. SumFunction(stakes) = w
  BY Zenon DEF Column
<1>5. w * p <= paid * w + n * (w - 1)
  <2>1. \A u \in Users : stakes[u] * p <= shares[u] * w + (IF stakes[u] > 0 THEN w - 1 ELSE 0)
    BY <1>2
  <2> HIDE DEF w, stakes
  <2> QED
    BY <1>1, <1>3, <1>4, <2>1, SumRounded, Finiteness
<1>6. paid \in Nat /\ n \in Nat
  <2>1. IsFiniteSet(winners)
    BY Finiteness, FS_Subset
  <2> HIDE DEF winners
  <2> QED
    BY <1>3, <2>1, SumType, Finiteness, FS_CardinalityType
<1>7. n > 0
  <2>1. \E u \in Users : stakes[u] > 0
    <3> SUFFICES ASSUME \A u \in Users : ~(stakes[u] > 0) PROVE FALSE
      OBVIOUS
    <3>1. stakes = [u \in Users |-> 0]
      BY <1>2
    <3> HIDE DEF stakes, w
    <3>2. SumFunction([u \in Users |-> 0]) = 0
      BY SumZero, Finiteness
    <3> QED
      BY <1>1, <1>4, <3>1, <3>2
  <2>2. IsFiniteSet(winners) /\ winners # {}
    BY <2>1, Finiteness, FS_Subset
  <2> HIDE DEF winners
  <2> QED
    BY <1>6, <2>2, FS_EmptySet
<1>8. p - paid < n
  <2> HIDE DEF w, n, paid
  <2> SUFFICES ASSUME ~(p - paid < n) PROVE FALSE
    OBVIOUS
  <2>1. paid + n <= p /\ paid + n \in Nat
    BY <1>6
  <2>2. (paid + n) * w <= p * w
    BY <1>1, <2>1, MulMono
  <2>3. (paid + n) * w = paid * w + n * w /\ n * (w - 1) = n * w - n /\ p * w = w * p
    BY <1>1, <1>6
  <2>4. paid * w \in Nat /\ n * w \in Nat /\ p * w \in Nat
    BY <1>1, <1>6, MulMono
  <2> QED
    BY <1>5, <1>6, <1>7, <2>2, <2>3, <2>4
<1> QED
  BY <1>8

LEMMA ResolveIInv ==
  ASSUME IInv, NEW outcome \in Outcomes, NEW c \in Commitments, NEW a, NEW b,
         Resolve(outcome, c, a, b)
  PROVE  IInv'
<1>1. CASE ResolveNoWinner(outcome, c, a, b)
  <2>1. /\ status = "Open" /\ status' = "Refunded" /\ winning_outcome' \in Outcomes
        /\ UNCHANGED <<terms, pools, positions, wallet, vault, environment>>
    BY <1>1 DEF ResolveNoWinner, Proves
  <2> QED
    BY <2>1, RefundIInv
<1>2. CASE ResolveWinner(outcome, c, a, b)
  <2> DEFINE st  == stake_per_outcome
             fee == Fee(total_pool)
             w   == pool_per_outcome[outcome]
             net == total_pool - fee
  <2>1. /\ status = "Open" /\ status' = "Resolved" /\ winning_outcome' = outcome
        /\ total_pool' = net /\ vault' = vault - fee /\ fee <= vault /\ w # 0
        /\ wallet' = [wallet EXCEPT ![authority] = @ + fee]
        /\ UNCHANGED <<pool_per_outcome, num_outcomes, betting_close_ts, predicates, authority,
                       stake_per_outcome, claimed, donated, now, committed>>
    BY <1>2 DEF ResolveWinner, Rake, Withdraw, Proves, terms, positions, environment
  <2>2. Types /\ Phases /\ authority \in Users
    BY <2>1 DEF IInv, Phases
  <2>3. /\ total_pool = TotalStaked /\ TotalStaked \in Nat /\ TotalStaked <= MaxU64
        /\ st \in Stakes /\ TotalStaked = Rows(st)
        /\ w = Column(st, outcome)
    <3>1. TotalStaked \in Nat /\ TotalStaked <= MaxU64 /\ st \in Stakes
      BY <2>2, TypesSums DEF Phases, Types
    <3>2. total_pool = TotalStaked
      BY <2>1, <3>1 DEF IInv, PoolsMatchPositions
    <3>3. w = Column(st, outcome)
      BY SumNames DEF IInv, PoolsMatchPositions
    <3> QED
      BY <3>1, <3>2, <3>3, SumNames
  <2>4. fee \in Nat /\ fee <= total_pool /\ net \in Nat /\ net <= MaxU64
    <3>1. fee \in Nat /\ fee <= total_pool
      BY <2>3, FeeFacts
    <3>2. MaxU64 \in Nat
      BY SquareBound
    <3> HIDE DEF fee
    <3> QED
      BY <2>3, <3>1, <3>2
  <2>5. w \in Nat /\ w > 0 /\ w <= MaxU64
    <3>1. w \in Nat /\ w <= TotalStaked
      BY <2>3, StakeSums
    <3>2. MaxU64 \in Nat
      BY SquareBound
    <3> QED
      BY <2>1, <2>3, <3>1, <3>2
  <2>6. wallet' \in [Users -> Nat] /\ vault' \in Nat
        /\ wallet'[authority] = wallet[authority] + fee
        /\ \A v \in Users \ {authority} : wallet'[v] = wallet[v]
    <3> HIDE DEF fee
    <3> QED
      BY <2>1, <2>2, <2>4 DEF Types
  <2>7. Types'
    BY <2>1, <2>2, <2>4, <2>6 DEF Types
  <2>8. TotalStaked' = TotalStaked
    BY <2>1 DEF TotalStaked, StakeOf
  <2>9. Phases'
    BY <2>1, <2>2, <2>5, <2>8 DEF Phases
  <2>10. PoolsMatchPositions'
    <3>1. Fee(TotalStaked') = Fee(total_pool)
      BY <2>3, <2>8
    <3> QED
      BY <2>1, <2>3, <2>8, <3>1 DEF IInv, PoolsMatchPositions, Fee
  <2>11. Conservation'
    <3>1. wallet \in [Users -> Nat] /\ fee \in Int
      BY <2>2, <2>4 DEF Types
    <3> HIDE DEF fee
    <3>2. SumFunction(wallet) \in Nat /\ SumFunction(wallet') = SumFunction(wallet) + fee
      BY <2>2, <2>6, <3>1, EntryUpdate
    <3> QED
      BY <2>1, <2>2, <2>4, <3>2 DEF IInv, Conservation, Types
  <2>12. TotalOwed = TotalStaked
    <3>1. \A v \in Users : Owed(v) = StakeOf(v)
      BY <2>1, <2>2 DEF Owed, Phases
    <3>2. [v \in Users |-> Owed(v)] = [v \in Users |-> StakeOf(v)]
      BY <3>1
    <3> QED
      BY <3>2 DEF TotalOwed, TotalStaked
  <2>13. TotalOwed' <= net /\ TotalOwed' \in Nat
    <3> DEFINE shares == [u \in Users |-> AsU64((st[u][outcome] * net) \div w)]
    <3>1. \A v \in Users : Owed(v)' = AsU64((st[v][outcome] * net) \div w)
      BY <2>1, <2>2 DEF Owed, Payout, Phases, AsU64
    <3>2. [v \in Users |-> Owed(v)]' = shares
      BY <3>1
    <3>3. SumFunction(shares) <= net /\ SumFunction(shares) \in Nat
      <4> HIDE DEF net, w, st
      <4> QED
        BY <2>3, <2>4, <2>5, SharesFitPool
    <3> QED
      BY <3>2, <3>3 DEF TotalOwed
  <2>14. Solvency'
    <3>1. vault = TotalStaked + donated /\ donated \in Nat
      BY <2>1, <2>2, <2>12 DEF IInv, Solvency, Types
    <3> HIDE DEF fee
    <3> QED
      BY <2>1, <2>3, <2>4, <2>13, <3>1 DEF Solvency
  <2> QED
    BY <2>7, <2>9, <2>10, <2>11, <2>14 DEF IInv
<1> QED
  BY <1>1, <1>2 DEF Resolve

\* What is owed to a bettor is an amount, and a share of a resolved market is exact.
LEMMA OwedType ==
  ASSUME IInv
  PROVE  /\ \A u \in Users : Owed(u) \in Nat /\ StakeOf(u) \in Nat
         /\ TotalOwed \in Nat
         /\ status = "Resolved" =>
              \A u \in Users :
                LET s == stake_per_outcome[u][winning_outcome]
                    w == pool_per_outcome[winning_outcome]
                IN  /\ s \in Nat /\ w \in Nat /\ w > 0 /\ s <= w /\ w <= MaxU64
                    /\ total_pool \in Nat /\ total_pool <= MaxU64
                    /\ Payout(u) \in Nat
                    /\ Payout(u) = (s * total_pool) \div w
                    /\ s * total_pool <= MaxU128
<1>1. Types /\ Phases /\ PoolsMatchPositions
  BY DEF IInv
<1>2. \A u \in Users : StakeOf(u) \in Nat
  BY <1>1, TypesSums
<1>3. ASSUME status = "Resolved", NEW u \in Users
      PROVE  LET s == stake_per_outcome[u][winning_outcome]
                 w == pool_per_outcome[winning_outcome]
             IN  /\ s \in Nat /\ w \in Nat /\ w > 0 /\ s <= w /\ w <= MaxU64
                 /\ total_pool \in Nat /\ total_pool <= MaxU64
                 /\ Payout(u) \in Nat
                 /\ Payout(u) = (s * total_pool) \div w
                 /\ s * total_pool <= MaxU128
  <2> DEFINE st == stake_per_outcome
             s  == st[u][winning_outcome]
             w  == pool_per_outcome[winning_outcome]
  <2>1. /\ st \in Stakes /\ winning_outcome \in Outcomes /\ s \in Nat
        /\ w = Column(st, winning_outcome) /\ TotalStaked = Rows(st)
    BY <1>1, SumNames DEF Types, Stakes, PoolsMatchPositions
  <2>2. /\ w \in Nat /\ s <= w /\ w <= TotalStaked /\ TotalStaked \in Nat
    BY <2>1, StakeSums
  <2>3. w > 0 /\ TotalStaked <= MaxU64 /\ MaxU64 \in Nat
    BY <1>1, <1>3, SquareBound DEF Phases
  <2>4. total_pool \in Nat /\ total_pool <= TotalStaked
    <3>1. Fee(TotalStaked) \in Nat /\ Fee(TotalStaked) <= TotalStaked
      BY <2>2, <2>3, FeeFacts
    <3>2. total_pool = TotalStaked - Fee(TotalStaked)
      BY <1>1, <1>3 DEF PoolsMatchPositions
    <3> QED
      BY <2>2, <3>1, <3>2
  <2>5. w <= MaxU64 /\ total_pool <= MaxU64
    BY <2>2, <2>3, <2>4
  <2>6. /\ AsU64((s * total_pool) \div w) = (s * total_pool) \div w
        /\ (s * total_pool) \div w \in Nat
        /\ s * total_pool <= MaxU128
    <3> HIDE DEF s, w
    <3> QED
      BY <2>1, <2>2, <2>3, <2>4, <2>5, ShareFacts
  <2> QED
    BY <2>1, <2>2, <2>3, <2>4, <2>5, <2>6 DEF Payout
<1>4. \A u \in Users : Owed(u) \in Nat
  BY <1>1, <1>2, <1>3 DEF Owed, Types
<1>5. TotalOwed \in Nat
  <2>1. [u \in Users |-> Owed(u)] \in [Users -> Nat]
    BY <1>4
  <2> QED
    BY <2>1, SumType, Finiteness DEF TotalOwed
<1> QED
  BY <1>2, <1>3, <1>4, <1>5

\* A payout of what a bettor is owed lowers what is owed in all by that much.
LEMMA PayOutOwed ==
  ASSUME IInv, NEW u \in Users, ~claimed[u], NEW n \in Nat, n = Owed(u), PayOut(u, n)
  PROVE  TotalOwed \in Nat /\ TotalOwed' = TotalOwed - n
<1>0. /\ claimed' = [claimed EXCEPT ![u] = TRUE] /\ claimed \in [Users -> BOOLEAN]
      /\ UNCHANGED <<status, winning_outcome, total_pool, pool_per_outcome, stake_per_outcome>>
  BY DEF PayOut, IInv, Types, pools
<1> DEFINE f == [v \in Users |-> Owed(v)]
           h == [v \in Users |-> Owed(v)']
<1>1. claimed'[u] = TRUE /\ \A v \in Users \ {u} : claimed'[v] = claimed[v]
  BY <1>0
<1>2. Owed(u)' = 0
  BY <1>1 DEF Owed
<1>3. \A v \in Users \ {u} : Owed(v)' = Owed(v)
  BY <1>0, <1>1 DEF Owed, Payout, StakeOf, AsU64
<1>4. \A v \in Users : Owed(v) \in Nat
  BY OwedType DEF IInv
<1>5. f \in [Users -> Nat] /\ h \in [Users -> Nat]
  BY <1>2, <1>3, <1>4
<1>6. h[u] = f[u] + (-n) /\ \A v \in Users \ {u} : h[v] = f[v]
  BY <1>2, <1>3
<1> HIDE DEF f, h
<1>7. SumFunction(f) \in Nat /\ SumFunction(h) = SumFunction(f) + (-n)
  BY <1>5, <1>6, EntryUpdate
<1> QED
  BY <1>7 DEF f, h, TotalOwed

\* A bettor who takes what the market owes them takes it out of the vault once.
LEMMA PayOutIInv ==
  ASSUME IInv, status \in {"Resolved", "Refunded"}, NEW u \in Users, ~claimed[u],
         NEW n \in Nat, n = Owed(u), PayOut(u, n)
  PROVE  IInv'
<1>1. /\ n <= vault /\ vault' = vault - n
      /\ claimed' = [claimed EXCEPT ![u] = TRUE]
      /\ wallet' = [wallet EXCEPT ![u] = @ + n]
      /\ UNCHANGED <<status, winning_outcome, terms, pools, stake_per_outcome, environment>>
  BY DEF PayOut, Withdraw
<1> USE DEF terms, pools, environment
<1>2. Types
  BY DEF IInv
<1>3. /\ wallet \in [Users -> Nat] /\ wallet' \in [Users -> Nat] /\ vault' \in Nat
      /\ wallet'[u] = wallet[u] + n /\ \A v \in Users \ {u} : wallet'[v] = wallet[v]
  BY <1>1, <1>2 DEF Types
<1>4. Types'
  BY <1>1, <1>2, <1>3 DEF Types
<1>5. TotalStaked' = TotalStaked
  BY <1>1 DEF TotalStaked, StakeOf
<1>6. Phases'
  BY <1>1, <1>5 DEF IInv, Phases
<1>7. PoolsMatchPositions'
  BY <1>1, <1>5 DEF IInv, PoolsMatchPositions, Fee
<1>8. Conservation'
  <2>1. SumFunction(wallet) \in Nat /\ SumFunction(wallet') = SumFunction(wallet) + n
    <3>1. n \in Int
      OBVIOUS
    <3>2. wallet \in [Users -> Nat] /\ wallet' \in [Users -> Nat]
      BY <1>3
    <3>3. wallet'[u] = wallet[u] + n
      BY <1>3
    <3>4. \A v \in Users \ {u} : wallet'[v] = wallet[v]
      BY <1>3
    <3> HIDE DEF terms, pools, environment
    <3> QED
      BY <3>1, <3>2, <3>3, <3>4, EntryUpdate, ZenonT(40)
  <2> QED
    BY <1>1, <1>2, <2>1 DEF IInv, Conservation, Types
<1>9. TotalOwed \in Nat /\ TotalOwed' = TotalOwed - n
  BY PayOutOwed
<1>10. Solvency'
  BY <1>1, <1>2, <1>9 DEF IInv, Solvency, Types
<1> QED
  BY <1>4, <1>6, <1>7, <1>8, <1>10 DEF IInv

LEMMA ClaimIInv ==
  ASSUME IInv, NEW u \in Users, Claim(u)
  PROVE  IInv'
<1>1. status = "Resolved" /\ ~claimed[u] /\ PayOut(u, Payout(u))
  BY DEF Claim
<1>2. Owed(u) = Payout(u) /\ Payout(u) \in Nat
  BY <1>1, OwedType DEF Owed
<1> QED
  BY <1>1, <1>2, PayOutIInv

LEMMA ClaimRefundIInv ==
  ASSUME IInv, NEW u \in Users, ClaimRefund(u)
  PROVE  IInv'
<1>1. status = "Refunded" /\ ~claimed[u] /\ PayOut(u, StakeOf(u))
  BY DEF ClaimRefund
<1>2. Owed(u) = StakeOf(u) /\ StakeOf(u) \in Nat
  BY <1>1, OwedType DEF Owed
<1> QED
  BY <1>1, <1>2, PayOutIInv

LEMMA CancelMarketIInv ==
  ASSUME IInv, NEW u \in Users, CancelMarket(u)
  PROVE  IInv'
<1>1. /\ status = "Open" /\ status' = "Refunded" /\ winning_outcome' \in Outcomes
      /\ UNCHANGED <<terms, pools, positions, wallet, vault, environment>>
  BY DEF CancelMarket, Refund, IInv, Types
<1> QED
  BY <1>1, RefundIInv

\* What the market owes depends on the market and the positions alone.
LEMMA OwedKept ==
  ASSUME UNCHANGED <<status, winning_outcome, terms, pools, positions>>
  PROVE  TotalOwed' = TotalOwed
<1>1. \A v \in Users : Owed(v)' = Owed(v)
  BY DEF Owed, Payout, StakeOf, AsU64, terms, pools, positions
<1>2. [v \in Users |-> Owed(v)]' = [v \in Users |-> Owed(v)]
  BY <1>1
<1> QED
  BY <1>2 DEF TotalOwed

\* A step that leaves the market and the positions alone and moves d tokens into the vault.
LEMMA EnvironmentIInv ==
  ASSUME IInv, UNCHANGED <<status, winning_outcome, terms, pools, positions>>,
         NEW d \in Nat, vault' = vault + d, donated' = donated + d,
         wallet' \in [Users -> Nat], SumFunction(wallet') = SumFunction(wallet) - d,
         now' \in 0 .. MaxTime, committed' \subseteq Commitments
  PROVE  IInv'
<1> USE DEF terms, pools, positions
<1>1. Types
  BY DEF IInv
<1>2. Types'
  BY <1>1 DEF Types
<1>3. TotalStaked' = TotalStaked
  BY DEF TotalStaked, StakeOf
<1>4. TotalOwed' = TotalOwed /\ TotalOwed \in Nat
  BY OwedKept, OwedType
<1>5. Phases' /\ PoolsMatchPositions'
  BY <1>3 DEF IInv, Phases, PoolsMatchPositions, Fee
<1>6. Solvency'
  BY <1>1, <1>4 DEF IInv, Solvency, Types
<1>7. Conservation'
  <2>1. SumFunction(wallet) \in Nat
    BY <1>1, SumType, Finiteness DEF Types
  <2> QED
    BY <1>1, <2>1 DEF IInv, Conservation, Types
<1> QED
  BY <1>2, <1>5, <1>6, <1>7 DEF IInv

LEMMA NextIInv == IInv /\ [Next]_vars => IInv'
<1> SUFFICES ASSUME IInv, [Next]_vars PROVE IInv'
  OBVIOUS
<1>1. ASSUME NEW u \in Users, NEW args \in CreateArgs, CreateMarket(u, args)
      PROVE  IInv'
  BY <1>1, CreateMarketIInv
<1>2. ASSUME NEW u \in Users, NEW o \in Outcomes, NEW n \in 0 .. wallet[u] + 1,
             PlaceBet(u, o, n)
      PROVE  IInv'
  <2>1. n \in Nat
    BY DEF IInv, Types
  <2> QED
    BY <1>2, <2>1, PlaceBetIInv
<1>3. ASSUME NEW u \in Users, Claim(u) PROVE IInv'
  BY <1>3, ClaimIInv
<1>4. ASSUME NEW u \in Users, CancelMarket(u) PROVE IInv'
  BY <1>4, CancelMarketIInv
<1>5. ASSUME NEW u \in Users, ClaimRefund(u) PROVE IInv'
  BY <1>5, ClaimRefundIInv
<1>6. ASSUME NEW o \in Outcomes, NEW c \in Commitments, NEW a, NEW b, Resolve(o, c, a, b)
      PROVE  IInv'
  BY <1>6, ResolveIInv
<1>7. ASSUME \/ Tick
             \/ \E c \in Commitments : CommitScore(c)
             \/ UNCHANGED vars
      PROVE  IInv'
  <2>1. Types /\ ClockAssumption
    BY ClockAssumption DEF IInv
  <2>2. /\ UNCHANGED <<status, winning_outcome, terms, pools, positions>>
        /\ UNCHANGED <<wallet, vault, donated>>
        /\ now' \in 0 .. MaxTime /\ committed' \subseteq Commitments
    BY <1>7, <2>1, ClockAssumption
       DEF Tick, CommitScore, vars, Types, terms, pools, positions
  <2>3. SumFunction(wallet) \in Nat
    BY <2>1, SumType, Finiteness DEF Types
  <2>4. /\ 0 \in Nat /\ vault' = vault + 0 /\ donated' = donated + 0
        /\ wallet' \in [Users -> Nat] /\ SumFunction(wallet') = SumFunction(wallet) - 0
    BY <2>1, <2>2, <2>3 DEF Types
  <2> QED
    BY <2>2, <2>4, EnvironmentIInv
<1>8. ASSUME NEW u \in Users, Donate(u) PROVE IInv'
  <2>1. Types
    BY DEF IInv
  <2>2. /\ wallet' \in [Users -> Nat] /\ wallet'[u] = wallet[u] + (-1) /\ wallet \in [Users -> Nat]
        /\ \A v \in Users \ {u} : wallet'[v] = wallet[v]
    BY <1>8, <2>1 DEF Donate, Types
  <2>3. SumFunction(wallet) \in Nat /\ SumFunction(wallet') = SumFunction(wallet) + (-1)
    <3>1. -1 \in Int
      OBVIOUS
    <3> QED
      BY <2>2, <3>1, EntryUpdate, ZenonT(40)
  <2>4. /\ UNCHANGED <<status, winning_outcome, terms, pools, positions>>
        /\ 1 \in Nat /\ vault' = vault + 1 /\ donated' = donated + 1
        /\ SumFunction(wallet') = SumFunction(wallet) - 1
        /\ now' \in 0 .. MaxTime /\ committed' \subseteq Commitments
    BY <1>8, <2>1, <2>3 DEF Donate, Types
  <2> QED
    BY <2>2, <2>4, EnvironmentIInv
<1> QED
  BY <1>1, <1>2, <1>3, <1>4, <1>5, <1>6, <1>7, <1>8 DEF Next, Instruction, Environment

LEMMA Invariance == Spec => []IInv
BY InitIInv, NextIInv, PTL DEF Spec

(****************************************************************************)
(* The theorems                                                             *)
(****************************************************************************)
\* The vault always covers what the market owes, and holds exactly that until a market is
\* resolved: no order of bets, resolution, cancellation, claims and refunds leaves a
\* bettor's payout unfunded.
THEOREM SolvencyHolds == Spec => []Solvency
<1>1. IInv => Solvency
  BY DEF IInv
<1> QED
  BY <1>1, Invariance, PTL

\* The totals stored in the Market account are the sums over the Position accounts.
THEOREM PoolsMatchPositionsHolds == Spec => []PoolsMatchPositions
<1>1. IInv => PoolsMatchPositions
  BY DEF IInv
<1> QED
  BY <1>1, Invariance, PTL

\* The instructions only move tokens.
THEOREM ConservationHolds == Spec => []Conservation
<1>1. IInv => Conservation
  BY DEF IInv
<1> QED
  BY <1>1, Invariance, PTL

\* The amounts are in range: the supply bounds them all.
LEMMA InRange == IInv => TypeOK
<1> SUFFICES ASSUME IInv PROVE TypeOK
  OBVIOUS
<1>1. Types /\ Phases /\ PoolsMatchPositions /\ Conservation
  BY DEF IInv
<1>2. MaxU64 \in Nat
  BY UsersAssumption
<1>3. /\ \A u \in Users, o \in Outcomes : stake_per_outcome[u][o] \in 0 .. MaxU64
      /\ \A o \in Outcomes : pool_per_outcome[o] \in 0 .. MaxU64
      /\ TotalStaked \in Nat /\ TotalStaked <= MaxU64
  <2>1. TotalStaked \in Nat /\ TotalStaked <= MaxU64
    BY <1>1, TypesSums DEF Phases
  <2>2. ASSUME NEW u \in Users, NEW o \in Outcomes
        PROVE  stake_per_outcome[u][o] \in 0 .. MaxU64
    <3>1. stake_per_outcome[u][o] <= StakeOf(u) /\ StakeOf(u) <= TotalStaked
          /\ StakeOf(u) \in Nat /\ stake_per_outcome[u][o] \in Nat
      BY <1>1, TypesSums DEF Types, Stakes
    <3> QED
      BY <1>2, <2>1, <3>1
  <2>3. ASSUME NEW o \in Outcomes
        PROVE  pool_per_outcome[o] \in 0 .. MaxU64
    <3>1. pool_per_outcome[o] \in Nat /\ pool_per_outcome[o] <= TotalStaked
      BY <1>1, StakeSums, SumNames DEF Types, PoolsMatchPositions
    <3> QED
      BY <1>2, <2>1, <3>1
  <2> QED
    BY <2>1, <2>2, <2>3
<1>4. total_pool \in 0 .. MaxU64
  <2>1. Fee(TotalStaked) \in Nat /\ Fee(TotalStaked) <= TotalStaked
    BY <1>3, FeeFacts
  <2> QED
    BY <1>1, <1>2, <1>3, <2>1 DEF PoolsMatchPositions, Types
<1>5. vault \in 0 .. MaxU64 /\ \A u \in Users : wallet[u] \in 0 .. MaxU64
  <2>1. SumFunction(wallet) \in Nat /\ \A u \in Users : wallet[u] <= SumFunction(wallet)
    BY <1>1, SumType, SumBoundsTerm, Finiteness DEF Types
  <2>2. SumFunction(wallet) + vault <= MaxU64
    BY <1>1, UsersAssumption DEF Conservation
  <2> QED
    BY <1>1, <1>2, <2>1, <2>2 DEF Types
<1> QED
  BY <1>1, <1>3, <1>4, <1>5 DEF TypeOK, Types, Stakes

\* Every stored amount fits the u64 it is stored in.
THEOREM TypeCorrect == Spec => []TypeOK
BY InRange, Invariance, PTL

\* As a market is resolved, what its pool holds beyond the shares is less than a unit for
\* each winner.
LEMMA ResolvedDust ==
  IInv /\ status = "Resolved" /\ (\A u \in Users : claimed[u] = FALSE)
    => total_pool - TotalOwed
         < Cardinality({u \in Users : stake_per_outcome[u][winning_outcome] > 0})
<1> SUFFICES ASSUME IInv, status = "Resolved", \A u \in Users : claimed[u] = FALSE
             PROVE  total_pool - TotalOwed
                      < Cardinality({u \in Users : stake_per_outcome[u][winning_outcome] > 0})
  OBVIOUS
<1> DEFINE st     == stake_per_outcome
           o      == winning_outcome
           p      == total_pool
           shares == [u \in Users |-> AsU64((st[u][o] * p) \div Column(st, o))]
<1>1. st \in Stakes /\ o \in Outcomes /\ pool_per_outcome[o] = Column(st, o)
  BY SumNames DEF IInv, Types, PoolsMatchPositions
<1>2. \A u \in Users : Owed(u) = Payout(u)
  BY DEF Owed
<1>3. [u \in Users |-> Owed(u)] = shares
  BY <1>1, <1>2 DEF Payout
<1>4. TotalOwed = SumFunction(shares)
  BY <1>3, Zenon DEF TotalOwed
<1>5. pool_per_outcome[o] > 0
  BY DEF IInv, Phases
<1>6. Users # {}
  <2> SUFFICES ASSUME Users = {} PROVE FALSE
    OBVIOUS
  <2>1. [u \in Users |-> st[u][o]] = [u \in Users |-> 0]
    OBVIOUS
  <2>2. Column(st, o) = 0
    BY <2>1, SumZero, Finiteness DEF Column
  <2> QED
    BY <1>1, <1>5, <2>2
<1>7. Column(st, o) > 0 /\ Column(st, o) <= MaxU64 /\ p \in Nat /\ p <= MaxU64
  BY <1>1, <1>6, OwedType
<1> HIDE DEF st, o, p, shares
<1>8. p - SumFunction(shares) < Cardinality({u \in Users : st[u][o] > 0})
  BY <1>1, <1>7, SharesLeaveDust DEF shares
<1> QED
  BY <1>4, <1>8 DEF st, o, p

\* What the divisions leave behind in the vault stays below one unit a winner, whoever has
\* claimed: a claim takes from the vault what it takes from the debts.
THEOREM DustBoundHolds == Spec => []DustBound
<1> DEFINE Winners == {u \in Users : stake_per_outcome[u][winning_outcome] > 0}
<1>1. Init => DustBound
  BY DEF Init, DustBound
<1>2. (IInv /\ status = "Resolved" /\ (\A u \in Users : claimed[u] = FALSE)
         => total_pool - TotalOwed < Cardinality(Winners))'
  BY ResolvedDust, PTL
<1>3. IInv => TotalOwed \in Nat
  BY OwedType
<1>4. (IInv => TotalOwed \in Nat)'
  BY <1>3, PTL
<1>5. IInv /\ IInv' /\ DustBound /\ [Next]_vars => DustBound'
  <2> SUFFICES ASSUME IInv, IInv', DustBound, [Next]_vars, status' = "Resolved"
               PROVE  vault' - donated' - TotalOwed' < Cardinality(Winners)'
    BY DEF DustBound
  <2>1. vault \in Nat /\ donated \in Nat /\ TotalOwed \in Nat
    BY OwedType DEF IInv, Types
  <2>2. ASSUME NEW o \in Outcomes, NEW c \in Commitments, NEW a, NEW b, ResolveWinner(o, c, a, b)
        PROVE  vault' - donated' - TotalOwed' < Cardinality(Winners)'
    <3> DEFINE fee == Fee(total_pool)
    <3>1. /\ status = "Open" /\ total_pool' = total_pool - fee /\ vault' = vault - fee
          /\ donated' = donated /\ claimed' = claimed
      BY <2>2 DEF ResolveWinner, Proves, Rake, Withdraw, positions, environment
    <3>2. \A u \in Users : claimed[u] = FALSE
      BY <3>1 DEF IInv, Phases
    <3>3. TotalOwed = TotalStaked
      <4>1. \A u \in Users : Owed(u) = StakeOf(u)
        BY <3>1, <3>2 DEF Owed
      <4>2. [u \in Users |-> Owed(u)] = [u \in Users |-> StakeOf(u)]
        BY <4>1
      <4> QED
        BY <4>2 DEF TotalOwed, TotalStaked
    <3>4. total_pool = TotalOwed /\ vault = TotalOwed + donated
      BY <2>1, <3>1, <3>3 DEF IInv, PoolsMatchPositions, Solvency
    <3>5. fee \in Nat
      BY <2>1, <3>3, <3>4, FeeFacts DEF IInv, Phases
    <3>6. TotalOwed' \in Nat
      BY <1>4
    <3>7. total_pool' - TotalOwed' < Cardinality(Winners)'
      BY <1>2, <3>1, <3>2
    <3> HIDE DEF fee, Winners
    <3> QED
      BY <2>1, <3>1, <3>4, <3>5, <3>6, <3>7
  <2>3. ASSUME status = "Resolved", UNCHANGED <<winning_outcome, stake_per_outcome>>,
               NEW k \in Int, vault' - donated' = vault - donated - k,
               TotalOwed' = TotalOwed - k
        PROVE  vault' - donated' - TotalOwed' < Cardinality(Winners)'
    <3>1. vault - donated - TotalOwed < Cardinality(Winners) /\ Winners' = Winners
      BY <2>3 DEF DustBound
    <3> HIDE DEF Winners
    <3>2. vault' - donated' - TotalOwed' = vault - donated - TotalOwed
      BY <2>1, <2>3
    <3> QED
      BY <3>1, <3>2
  <2>4. ASSUME NEW u \in Users, Claim(u)
        PROVE  vault' - donated' - TotalOwed' < Cardinality(Winners)'
    <3>1. /\ status = "Resolved" /\ ~claimed[u] /\ PayOut(u, Payout(u))
          /\ Payout(u) = Owed(u) /\ Payout(u) \in Nat
      BY <2>4, OwedType DEF Claim, Owed
    <3> DEFINE k == Payout(u)
    <3>2. /\ vault' = vault - k /\ donated' = donated
          /\ UNCHANGED <<winning_outcome, stake_per_outcome>>
      BY <3>1 DEF PayOut, Withdraw, environment
    <3>3. TotalOwed' = TotalOwed - k
      BY <3>1, PayOutOwed
    <3> HIDE DEF k, Winners
    <3>4. k \in Int /\ vault' - donated' = vault - donated - k
      BY <2>1, <3>1, <3>2 DEF k
    <3> QED
      BY <2>3, <3>1, <3>2, <3>3, <3>4
  <2>5. ASSUME Environment \/ UNCHANGED vars
        PROVE  vault' - donated' - TotalOwed' < Cardinality(Winners)'
    <3>1. /\ UNCHANGED <<status, winning_outcome, terms, pools, positions>>
          /\ vault' - donated' = vault - donated
      BY <2>1, <2>5 DEF Environment, Tick, CommitScore, Donate, vars, terms, pools, positions
    <3>2. TotalOwed' = TotalOwed
      BY <3>1, OwedKept
    <3> HIDE DEF Winners
    <3>3. 0 \in Int /\ vault' - donated' = vault - donated - 0 /\ TotalOwed' = TotalOwed - 0
      BY <2>1, <3>1, <3>2
    <3> QED
      BY <2>3, <3>1, <3>3 DEF positions
  <2>6. CASE \/ \E u \in Users, args \in CreateArgs : CreateMarket(u, args)
             \/ \E u \in Users, o \in Outcomes : \E n \in 0 .. wallet[u] + 1 : PlaceBet(u, o, n)
             \/ \E u \in Users : CancelMarket(u) \/ ClaimRefund(u)
             \/ \E o \in Outcomes, c \in Commitments : \E a, b : ResolveNoWinner(o, c, a, b)
    <3>1. status' # "Resolved"
      BY <2>6 DEF CreateMarket, PlaceBet, CancelMarket, Refund, ClaimRefund, PayOut, ResolveNoWinner
    <3> QED
      BY <3>1
  <2> QED
    BY <2>2, <2>4, <2>5, <2>6 DEF Next, Instruction, Resolve
<1> QED
  BY <1>1, <1>5, Invariance, PTL DEF Spec

\* A debt is at most what the vault holds.
LEMMA VaultCoversEach ==
  ASSUME IInv
  PROVE  \A u \in Users : Owed(u) <= vault
<1> DEFINE f == [u \in Users |-> Owed(u)]
<1>1. f \in [Users -> Nat]
  BY OwedType
<1>2. SUFFICES ASSUME NEW u \in Users PROVE Owed(u) <= vault
  OBVIOUS
<1>3. f[u] <= SumFunction(f) /\ SumFunction(f) \in Nat
  <2> HIDE DEF f
  <2> QED
    BY <1>1, SumBoundsTerm, SumType, Finiteness
<1>4. SumFunction(f) + donated <= vault /\ donated \in Nat /\ vault \in Nat
  BY DEF IInv, Solvency, TotalOwed, Types
<1>5. f[u] \in Nat
  BY <1>1
<1>6. f[u] <= vault
  <2> HIDE DEF f
  <2> QED
    BY <1>3, <1>4, <1>5
<1> QED
  BY <1>6

\* A winner's claim never aborts, and pays the exact quotient of its share.
THEOREM WinnersCanClaimHolds == Spec => []WinnersCanClaim
<1>1. IInv => WinnersCanClaim
  <2> SUFFICES ASSUME IInv, status = "Resolved", NEW u \in Users, ~claimed[u]
               PROVE  LET product == stake_per_outcome[u][winning_outcome] * total_pool
                      IN  /\ product <= MaxU128
                          /\ Payout(u) = product \div pool_per_outcome[winning_outcome]
                          /\ Payout(u) <= vault
    BY DEF WinnersCanClaim
  <2>1. Payout(u) <= vault
    BY VaultCoversEach DEF Owed
  <2> QED
    BY <2>1, OwedType
<1> QED
  BY <1>1, Invariance, PTL

\* Nor does a refund: the whole stake fits a u64 and is in the vault.
THEOREM BettorsCanReclaimHolds == Spec => []BettorsCanReclaim
<1>1. IInv => BettorsCanReclaim
  <2> SUFFICES ASSUME IInv, status = "Refunded", NEW u \in Users, ~claimed[u]
               PROVE  StakeOf(u) <= MaxU64 /\ StakeOf(u) <= vault
    BY DEF BettorsCanReclaim
  <2>1. StakeOf(u) <= vault
    BY VaultCoversEach DEF Owed
  <2>2. StakeOf(u) \in Nat /\ StakeOf(u) <= TotalStaked /\ TotalStaked \in Nat
    BY TypesSums DEF IInv
  <2>3. TotalStaked <= MaxU64 /\ MaxU64 \in Nat
    BY UsersAssumption DEF IInv, Phases
  <2> QED
    BY <2>1, <2>2, <2>3
<1> QED
  BY <1>1, Invariance, PTL

\* The supply bounds the pools: no bet a bettor can pay overflows one.
THEOREM BetsNeverOverflowHolds == Spec => []BetsNeverOverflow
<1>1. IInv => BetsNeverOverflow
  <2> SUFFICES ASSUME IInv, status = "Open", NEW u \in Users, NEW o \in Outcomes
               PROVE  /\ total_pool + wallet[u] <= MaxU64
                      /\ pool_per_outcome[o] + wallet[u] <= MaxU64
                      /\ stake_per_outcome[u][o] + wallet[u] <= MaxU64
    BY DEF BetsNeverOverflow
  <2>1. Types /\ MaxU64 \in Nat
    BY UsersAssumption DEF IInv
  <2>2. SumFunction(wallet) \in Nat /\ wallet[u] <= SumFunction(wallet) /\ wallet[u] \in Nat
    BY <2>1, SumType, SumBoundsTerm, Finiteness DEF Types
  <2>3. SumFunction(wallet) + vault <= MaxU64
    BY UsersAssumption DEF IInv, Conservation
  <2>4. TotalStaked \in Nat /\ total_pool = TotalStaked
    BY <2>1, TypesSums DEF IInv, PoolsMatchPositions
  <2>5. TotalStaked <= vault
    <3>1. \A v \in Users : Owed(v) = StakeOf(v)
      BY DEF Owed, IInv, Phases
    <3>2. [v \in Users |-> Owed(v)] = [v \in Users |-> StakeOf(v)]
      BY <3>1
    <3>3. TotalOwed = TotalStaked
      BY <3>2 DEF TotalOwed, TotalStaked
    <3> QED
      BY <2>1, <2>4, <3>3 DEF IInv, Solvency, Types
  <2>6. pool_per_outcome[o] \in Nat /\ pool_per_outcome[o] <= TotalStaked
    BY <2>1, StakeSums, SumNames DEF IInv, PoolsMatchPositions, Types
  <2>7. /\ stake_per_outcome[u][o] \in Nat /\ stake_per_outcome[u][o] <= StakeOf(u)
        /\ StakeOf(u) \in Nat /\ StakeOf(u) <= TotalStaked
    BY <2>1, TypesSums DEF Types, Stakes
  <2> QED
    BY <2>1, <2>2, <2>3, <2>4, <2>5, <2>6, <2>7 DEF Types
<1> QED
  BY <1>1, Invariance, PTL

LEMMA SettledStays ==
  [Next]_vars =>
    (Settled => UNCHANGED <<status, winning_outcome, terms, pools, stake_per_outcome>>)
<1> SUFFICES ASSUME [Next]_vars, Settled
             PROVE  UNCHANGED <<status, winning_outcome, terms, pools, stake_per_outcome>>
  OBVIOUS
<1> USE DEF Settled
<1>1. CASE \E u \in Users, args \in CreateArgs : CreateMarket(u, args)
  BY <1>1 DEF CreateMarket
<1>3. CASE \E u \in Users : Claim(u) \/ ClaimRefund(u)
  BY <1>3 DEF Claim, ClaimRefund, PayOut
<1>4. CASE \E u \in Users : CancelMarket(u)
  BY <1>4 DEF CancelMarket
<1>5. CASE \E o \in Outcomes, c \in Commitments :
             \E a \in DOMAIN c.score, b \in DOMAIN c.score \cup {NoStat} : Resolve(o, c, a, b)
  BY <1>5 DEF Resolve, ResolveNoWinner, ResolveWinner, Proves
<1>6. CASE Environment \/ UNCHANGED vars
  BY <1>6 DEF Environment, Tick, CommitScore, Donate, vars, terms, pools, positions
<1>2. CASE \E u \in Users, o \in Outcomes : \E n \in 0 .. wallet[u] + 1 : PlaceBet(u, o, n)
  BY <1>2 DEF PlaceBet
<1> QED
  BY <1>1, <1>2, <1>3, <1>4, <1>5, <1>6 DEF Next, Instruction

\* A settled market changes only by its payouts.
THEOREM SettlementIsFinalHolds == Spec => SettlementIsFinal
BY SettledStays, PTL DEF Spec, SettlementIsFinal

\* A resolved market was proved, by a score that stays committed, after betting closed.
THEOREM VerdictIsProvedHolds == Spec => []VerdictIsProved
<1>1. Init => VerdictIsProved
  BY DEF Init, VerdictIsProved
<1>2. IInv /\ VerdictIsProved /\ [Next]_vars => VerdictIsProved'
  <2> SUFFICES ASSUME IInv, VerdictIsProved, [Next]_vars, status' = "Resolved"
               PROVE  /\ now' >= betting_close_ts'
                      /\ winning_outcome' < num_outcomes'
                      /\ \E c \in committed' : /\ c.fixture_id = MatchId
                                               /\ Holds(predicates'[winning_outcome'], c.score)
    BY DEF VerdictIsProved
  <2>1. CASE status = "Resolved"
    <3>1. UNCHANGED <<winning_outcome, terms>> /\ now' >= now /\ committed \subseteq committed'
          /\ now \in Int /\ now' \in Int /\ betting_close_ts \in Int
      <4>1. now \in Int /\ betting_close_ts \in Int
        BY DEF IInv, Types
      <4> QED
        BY <2>1, <4>1
           DEF Next, Instruction, Environment, CreateMarket, PlaceBet, Claim, ClaimRefund, PayOut,
               CancelMarket, Refund, Resolve, ResolveNoWinner, ResolveWinner, Proves, Tick, CommitScore,
               Donate, vars, terms, pools, positions, environment
    <3> QED
      BY <2>1, <3>1 DEF VerdictIsProved, terms
  <2>2. CASE status # "Resolved"
    <3>1. PICK o \in Outcomes, c \in Commitments : \E a, b : ResolveWinner(o, c, a, b)
      BY <2>2
         DEF Next, Instruction, Environment, CreateMarket, PlaceBet, Claim, ClaimRefund, PayOut,
             CancelMarket, Refund, Resolve, ResolveNoWinner, Tick, CommitScore, Donate, vars
    <3>2. /\ winning_outcome' = o /\ UNCHANGED <<num_outcomes, betting_close_ts, predicates>>
          /\ UNCHANGED <<now, committed>>
          /\ o < num_outcomes /\ now >= betting_close_ts /\ c.fixture_id = MatchId
          /\ c \in committed
      BY <3>1 DEF ResolveWinner, Proves, ValidateStat, terms, environment
    <3>3. Holds(predicates[o], c.score)
      BY <3>1 DEF ResolveWinner, Proves, ValidateStat, StatsBound, Holds, Evaluates, Combined
    <3> QED
      BY <3>2, <3>3
  <2> QED
    BY <2>1, <2>2
<1> QED
  BY <1>1, <1>2, Invariance, PTL DEF Spec

\* The market pays a bettor once, what it owes them, and the authority the fee once.
THEOREM PaidOnceHolds == Spec => PaidOnce
<1> DEFINE Paid(u) ==
      wallet'[u] > wallet[u] =>
        \/ /\ ~claimed[u] /\ claimed'[u]
           /\ wallet'[u] - wallet[u] = Owed(u)
        \/ /\ status = "Open" /\ status' = "Resolved" /\ u = authority
           /\ wallet'[u] - wallet[u] = Fee(TotalStaked)
<1>1. IInv /\ [Next]_vars => \A u \in Users : Paid(u)
  <2> SUFFICES ASSUME IInv, [Next]_vars, NEW u \in Users, wallet'[u] > wallet[u]
               PROVE  Paid(u)
    OBVIOUS
  <2>1. Types /\ wallet[u] \in Nat
    BY DEF IInv, Types
  <2>2. ASSUME NEW v \in Users, NEW n \in Nat, PayOut(v, n), ~claimed[v], n = Owed(v)
        PROVE  Paid(u)
    <3>1. /\ wallet' = [wallet EXCEPT ![v] = @ + n] /\ claimed' = [claimed EXCEPT ![v] = TRUE]
      BY <2>2 DEF PayOut, Withdraw
    <3>2. u = v
      BY <2>1, <3>1 DEF Types
    <3>3. wallet'[u] - wallet[u] = n /\ claimed'[u]
      BY <2>1, <3>1, <3>2 DEF Types
    <3> QED
      BY <2>2, <3>2, <3>3
  <2>3. ASSUME NEW v \in Users, Claim(v)
        PROVE  Paid(u)
    <3>1. PayOut(v, Payout(v)) /\ ~claimed[v] /\ Payout(v) = Owed(v) /\ Payout(v) \in Nat
      BY <2>3, OwedType DEF Claim, Owed
    <3> QED
      BY <3>1, <2>2
  <2>4. ASSUME NEW v \in Users, ClaimRefund(v)
        PROVE  Paid(u)
    <3>1. PayOut(v, StakeOf(v)) /\ ~claimed[v] /\ StakeOf(v) = Owed(v) /\ StakeOf(v) \in Nat
      BY <2>4, OwedType DEF ClaimRefund, Owed
    <3> QED
      BY <3>1, <2>2
  <2>5. ASSUME NEW o \in Outcomes, NEW c \in Commitments, NEW a, NEW b, ResolveWinner(o, c, a, b)
        PROVE  Paid(u)
    <3>1. /\ status = "Open" /\ status' = "Resolved"
          /\ wallet' = [wallet EXCEPT ![authority] = @ + Fee(total_pool)]
      BY <2>5 DEF ResolveWinner, Rake, Withdraw, Proves
    <3>2. TotalStaked \in Nat /\ total_pool = TotalStaked /\ TotalStaked <= MaxU64
      BY <2>1, <3>1, TypesSums DEF IInv, PoolsMatchPositions, Phases
    <3>3. Fee(total_pool) \in Nat /\ Fee(total_pool) = Fee(TotalStaked)
      BY <3>2, FeeFacts
    <3>4. u = authority /\ wallet'[u] - wallet[u] = Fee(total_pool)
      <4> DEFINE fee == Fee(total_pool)
      <4>1. fee \in Nat /\ wallet' = [wallet EXCEPT ![authority] = @ + fee]
        BY <3>1, <3>3
      <4> HIDE DEF fee
      <4>2. u = authority /\ wallet'[u] - wallet[u] = fee
        BY <2>1, <4>1 DEF Types
      <4> QED
        BY <4>2 DEF fee
    <3> QED
      BY <3>1, <3>3, <3>4
  <2>6. ASSUME NEW v \in Users, NEW o \in Outcomes, NEW n \in 0 .. wallet[v] + 1, PlaceBet(v, o, n)
        PROVE  FALSE
    BY <2>1, <2>6 DEF PlaceBet, Deposit, Types
  <2>7. CASE \/ \E v \in Users, args \in CreateArgs : CreateMarket(v, args)
             \/ \E v \in Users : CancelMarket(v) \/ Donate(v)
             \/ \E o \in Outcomes, c \in Commitments : \E a, b : ResolveNoWinner(o, c, a, b)
             \/ Tick \/ (\E c \in Commitments : CommitScore(c)) \/ UNCHANGED vars
    BY <2>1, <2>7 DEF CreateMarket, CancelMarket, Refund, Donate, ResolveNoWinner, Tick, CommitScore,
                      vars, Types
  <2> QED
    BY <2>3, <2>4, <2>5, <2>6, <2>7 DEF Next, Instruction, Environment, Resolve
<1> QED
  BY <1>1, Invariance, PTL DEF Spec, PaidOnce

\* The three predicates that build1X2Predicates makes are a trichotomy on every score that
\* commits both stats: exactly one of them holds, the one of the sign of the difference.
THEOREM OneX2Trichotomy ==
  ASSUME NEW home \in Nat, NEW away \in Nat, NEW period \in Int, NEW score,
         <<home, period>> \in DOMAIN score, <<away, period>> \in DOMAIN score,
         score[<<home, period>>] \in Int, score[<<away, period>>] \in Int,
         NEW i \in 1..3
  PROVE  LET difference == score[<<home, period>>] - score[<<away, period>>]
         IN  Holds(build1X2Predicates(home, away, period)[i], score)
               <=> \/ i = 1 /\ difference > 0
                   \/ i = 2 /\ difference = 0
                   \/ i = 3 /\ difference < 0
<1> DEFINE spec == build1X2Predicates(home, away, period)[i]
           difference == score[<<home, period>>] - score[<<away, period>>]
<1>1. /\ spec.stat_a_key = home /\ spec.stat_b_key = away /\ spec.period = period
      /\ spec.use_stat_b = TRUE /\ spec.op = Subtract /\ spec.threshold = 0
      /\ i = 1 => spec.comparison = GreaterThan
      /\ i = 2 => spec.comparison = EqualTo
      /\ i = 3 => spec.comparison = LessThan
  <2>1. CASE i = 1
    BY <2>1 DEF build1X2Predicates
  <2>2. CASE i = 2
    BY <2>2 DEF build1X2Predicates
  <2>3. CASE i = 3
    BY <2>3 DEF build1X2Predicates
  <2>4. i = 1 \/ i = 2 \/ i = 3
    OBVIOUS
  <2> HIDE DEF spec
  <2> QED
    BY <2>1, <2>2, <2>3, <2>4, Zenon
<1> HIDE DEF spec
<1>2. Combined(spec, score, StatA(spec), StatB(spec)) = difference
  BY <1>1 DEF Combined, StatA, StatB, Add, Subtract
<1>3. Holds(spec, score) <=> Compares(spec.comparison, difference, 0)
  BY <1>1, <1>2 DEF Holds, Evaluates, StatA, StatB
<1>4. difference \in Int
  OBVIOUS
<1> HIDE DEF difference
<1>5. Compares(spec.comparison, difference, 0)
        <=> \/ i = 1 /\ difference > 0
            \/ i = 2 /\ difference = 0
            \/ i = 3 /\ difference < 0
  BY <1>1, <1>4 DEF Compares, GreaterThan, LessThan, EqualTo
<1> QED
  BY <1>3, <1>5 DEF spec, difference

\* Whoever resolves a 1X2 market with a committed score of both sides has no choice.
THEOREM OneX2IsUnambiguousHolds == Spec => []OneX2IsUnambiguous
<1>1. IInv => OneX2IsUnambiguous
  <2> SUFFICES ASSUME IInv, Is1X2, NEW c \in committed,
                      StatA(predicates[0]) \in DOMAIN c.score,
                      StatB(predicates[0]) \in DOMAIN c.score
               PROVE  LET difference == c.score[StatA(predicates[0])] - c.score[StatB(predicates[0])]
                      IN  {o \in Outcomes : o < num_outcomes /\ Holds(predicates[o], c.score)}
                            = {CASE difference > 0 -> 0
                                 [] difference = 0 -> 1
                                 [] difference < 0 -> 2}
    BY DEF OneX2IsUnambiguous
  <2> DEFINE home == predicates[0].stat_a_key
             away == predicates[0].stat_b_key
             period == predicates[0].period
             difference == c.score[<<home, period>>] - c.score[<<away, period>>]
  <2>1. Types
    BY DEF IInv
  <2>2. predicates[0] \in PredicateSpec
    BY <2>1, ZeroInOutcomes DEF Types
  <2>3. home \in Nat /\ away \in Nat /\ period \in Int
    BY <2>2 DEF PredicateSpec
  <2>4. /\ <<home, period>> \in DOMAIN c.score /\ <<away, period>> \in DOMAIN c.score
        /\ c.score[<<home, period>>] \in Int /\ c.score[<<away, period>>] \in Int
    <3>1. <<home, period>> \in DOMAIN c.score /\ <<away, period>> \in DOMAIN c.score
      BY DEF StatA, StatB
    <3>2. c \in Commitments
      BY <2>1 DEF Types
    <3> HIDE DEF home, away, period
    <3> QED
      BY <3>1, <3>2, ArgsAssumption
  <2>5. /\ num_outcomes = 3
        /\ \A i \in 1..3 : predicates[i - 1] = build1X2Predicates(home, away, period)[i]
    BY DEF Is1X2
  <2> HIDE DEF home, away, period
  <2>6. \A i \in 1..3 : Holds(predicates[i - 1], c.score)
                          <=> \/ i = 1 /\ difference > 0
                              \/ i = 2 /\ difference = 0
                              \/ i = 3 /\ difference < 0
    BY <2>3, <2>4, <2>5, OneX2Trichotomy
  <2>7. difference \in Int
    BY <2>4
  <2> HIDE DEF difference
  <2>8. /\ Holds(predicates[0], c.score) <=> difference > 0
        /\ Holds(predicates[1], c.score) <=> difference = 0
        /\ Holds(predicates[2], c.score) <=> difference < 0
    <3>1. 1 \in 1..3 /\ 2 \in 1..3 /\ 3 \in 1..3 /\ 1 - 1 = 0 /\ 2 - 1 = 1 /\ 3 - 1 = 2
      OBVIOUS
    <3> QED
      BY <2>6, <3>1
  <2>9. {o \in Outcomes : o < num_outcomes} = {0, 1, 2}
    <3>1. 3 <= MAX_OUTCOMES /\ MAX_OUTCOMES \in Nat
      BY <2>1, <2>5, ConstantsAssumption DEF Types
    <3> QED
      BY <2>5, <3>1 DEF Outcomes
  <2>10. {o \in Outcomes : o < num_outcomes /\ Holds(predicates[o], c.score)}
           = {CASE difference > 0 -> 0 [] difference = 0 -> 1 [] difference < 0 -> 2}
    <3>1. {o \in Outcomes : o < num_outcomes /\ Holds(predicates[o], c.score)}
            = {o \in {0, 1, 2} : Holds(predicates[o], c.score)}
      BY <2>9
    <3>2. CASE difference > 0
      BY <2>7, <2>8, <3>1, <3>2
    <3>3. CASE difference = 0
      BY <2>7, <2>8, <3>1, <3>3
    <3>4. CASE difference < 0
      BY <2>7, <2>8, <3>1, <3>4
    <3> QED
      BY <2>7, <3>2, <3>3, <3>4
  <2> QED
    BY <2>10 DEF difference, home, away, period, StatA, StatB
<1> QED
  BY <1>1, Invariance, PTL
=============================================================================
