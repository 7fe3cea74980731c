\* Three calls under way at once, three connects that reach the extension.
SPECIFICATION FairSpec
CONSTANTS
  k1 = k1
  k2 = k2
  k3 = k3
  Calls = {k1, k2, k3}
  MaxConnects = 3
CHECK_DEADLOCK FALSE
INVARIANTS TypeOK NoGhostSession PageKnowsTheWallet
PROPERTIES EndIsShown
