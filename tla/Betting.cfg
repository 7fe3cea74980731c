\* Three bettors, two outcomes: every split of small wallets, every order of claims.
SPECIFICATION Spec
CONSTANTS
  Users = {alice, bob, carol}
  WalletSize = 2
  InitialWallet <- MCInitialWallet
  MAX_OUTCOMES = 2
  PROTOCOL_FEE_BPS = 1
  BPS_DENOMINATOR = 4
  REFUND_GRACE_SECS = 1
  MaxU64 = 6
  MaxI64 = 3
  MatchId = 7
  CloseTimes = {1}
  CreateArgs <- TwoWayArgs
  Commitments <- MCCommitments
  MaxTime = 2
  MaxDonation = 1
SYMMETRY UserSymmetry
CHECK_DEADLOCK FALSE
INVARIANTS TypeOK PoolsMatchPositions Solvency DustBound Conservation
           BetsNeverOverflow WinnersCanClaim BettorsCanReclaim
PROPERTIES SettlementIsFinal PaidOnce ImplementsPariMutuel ImplementsLifecycle
