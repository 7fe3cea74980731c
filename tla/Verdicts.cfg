\* Two bettors, markets of every shape, every set of committed scores, rejected calls.
SPECIFICATION FairSpec
CONSTANTS
  Users = {alice, bob}
  WalletSize = 1
  InitialWallet <- MCInitialWallet
  MAX_OUTCOMES = 3
  PROTOCOL_FEE_BPS = 1
  BPS_DENOMINATOR = 2
  REFUND_GRACE_SECS = 1
  MaxU64 = 2
  MaxI64 = 3
  MatchId = 7
  CloseTimes = {0, 1, 3}
  CreateArgs <- MixedArgs
  Commitments <- AllCommitments
  MaxTime = 3
  MaxDonation = 0
CHECK_DEADLOCK FALSE
INVARIANTS VerdictIsProved OneX2IsUnambiguous
PROPERTIES FundsNeverStuck
