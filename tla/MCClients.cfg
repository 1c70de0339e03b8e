SPECIFICATION MCSpec
CONSTANTS
  Refs <- MCRefs
  Canon <- MCCanon
  Scoped = {"@scope/urllib"}
  Ids <- MCIds
  Malicious = {"MAL-1", "MAL-2"}
  Listings <- MCListings
  ChunkSize = 2
  MaxPages = 2
  MaxDetailFailures = 2
  Callers = {c1, c2}
  MaxRevisions = 1
  MaxFiles = 2
  Wanted <- MCWanted
  MaxRefs = 2
  MaxPackages = 2
  Proposals <- MCProposals
  Lockfiles <- MCLockfiles
INVARIANTS AnsweredOrLost TellTheRegistry InstallsVetted
PROPERTIES HostDecides
CHECK_DEADLOCK FALSE
