\* One match of TxODDS, or two simulated ones, and a page on either kind of site.
SPECIFICATION FairSpec
CONSTANTS
  f1 = f1
  f2 = f2
  c1 = c1
  c2 = c2
  t1 = t1
  s1 = s1
  s2 = s2
  p1 = p1
  p2 = p2
  Fixtures = {f1}
  WorldCup = {f1}
  Seeds = {f1, f2}
  Clients = {c1}
  FixturePasses = {t1}
  ScorePasses = {s1, s2}
  Limit = 1
  FullTime = 2
  MaxEvents = 1
  MaxQueue <- MCQueue
  MaxFaults <- MCFaults
  MAX_RETRIES = 2
  Polls = {p1, p2}
  Sites = {"local", "hosted"}
  Fallback <- Demo
CHECK_DEADLOCK FALSE
INVARIANTS TypeOK PagesMirrorStore PagesAreNeverBlank GivesUpOnlyAfterRetries
PROPERTIES PagesShowTheScore SimulationOnlyAdvances SimulationEnds
