SPECIFICATION MCSpec
CONSTANTS
  r1 = r1
  r2 = r2
  a1 = a1
  a2 = a2
  Runs = {r1, r2}
  Files = {"npmrc", "yaml"}
  Keys = {"age", "scripts"}
  Rules <- ThreeRules
  Contents <- SomeContents
  MaxEdits = 1
  MaxClock = 2
  Depth = 2
  Folded <- Spelling
  Ecos = {"npm", "cargo"}
  Packages <- MCPackages
  Checks <- MCChecks
  Settled <- MCSettled
  Edits <- MCEdits
  Requests <- MCRequests
  Askers = {a1, a2}
  MaxPolicyEdits = 1
  MaxInstant = 4
INVARIANTS NothingLost FixesStick JudgedAsWritten
PROPERTIES GrantsExactly
SYMMETRY RunSymmetry
CHECK_DEADLOCK FALSE
