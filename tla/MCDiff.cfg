SPECIFICATION MCSpec
CONSTANTS
  Scenarios <- MCScenarios
  Given <- MCGiven
  Releases <- MCReleases
  MaxReleases = 1
INVARIANTS ZeroVouches PairedWithItsOwn OwnChangesOnly EvaluatesWhatInstalls
CHECK_DEADLOCK FALSE
