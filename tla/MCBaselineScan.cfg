SPECIFICATION Spec
CONSTANTS
  Packages = {wheel}
  Versions = {v1, v2}
  ann = ann
  bob = bob
  Listings <- MCListings
  Runs = {r1, r2}
  Attested = {wheel}
  Policies <- MCPolicies
  MaxChanges = 1
  MaxStarts = 2
  None = None
SYMMETRY Symmetry
INVARIANTS ScanReportsDrift
CHECK_DEADLOCK FALSE
