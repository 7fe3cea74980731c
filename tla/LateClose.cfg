\* A close time near the largest i64 against cancel_market.rs:19-21.
SPECIFICATION Spec
CONSTANTS
  Users = {alice, bob, carol}
  WalletSize = 1
  InitialWallet <- MCInitialWallet
  MAX_OUTCOMES = 2
  PROTOCOL_FEE_BPS = 1
  BPS_DENOMINATOR = 4
  REFUND_GRACE_SECS = 1
  MaxU64 = 6
  MaxI64 = 3
  MatchId = 7
  CloseTimes = {3}
  CreateArgs <- TwoWayArgs
  Commitments <- LeadCommitment
  MaxTime = 3
  MaxDonation = 0
CHECK_DEADLOCK FALSE
INVARIANTS AuthorityMayCancel
