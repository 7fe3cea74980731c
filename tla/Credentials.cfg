\* Three runs that overlap, one request that fails or whose answer is lost, one run killed; every .env file.
SPECIFICATION Spec
CONSTANTS
  Runs <- ThreeRuns
  MaxFailures = 1
  MaxKills = 1
CHECK_DEADLOCK FALSE
INVARIANTS ReadersHoldAPair SavedCredsAreThere
PROPERTIES RerunRenews
