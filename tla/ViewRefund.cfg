\* A market that is cancelled, against useOnchainMarkets.ts:105.
SPECIFICATION PagesSpec
CONSTANTS
  alice = alice
  bob = bob
  l1 = l1
  l2 = l2
  r1 = r1
  r2 = r2
  Users = {alice}
  Viewer = alice
  Refreshes = {r1}
  Loads = {l1, l2}
  MaxFailures = 0
  WalletSize = 1
  InitialWallet <- MCInitialWallet
  MAX_OUTCOMES = 2
  PROTOCOL_FEE_BPS = 1
  BPS_DENOMINATOR = 2
  REFUND_GRACE_SECS = 0
  MaxU64 = 2
  MaxI64 = 3
  MatchId = 7
  CreateArgs <- TwoWay
  Commitments <- Lead
  MaxTime = 1
  MaxDonation = 0
CHECK_DEADLOCK FALSE
INVARIANTS RefundedMeansNoWinner
