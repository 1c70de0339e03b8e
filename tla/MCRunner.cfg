SPECIFICATION MCSpec
CONSTANTS
  N = 2
  M = 4
  Jobs = 1
  Sources = {"registry", "osv", "deps.dev"}
  Reads <- MCReads
  Requires <- MCRequires
  LockOnly = {4}
  Asking = {3}
  Cooldown = 1
  Kinds <- MCKinds
INVARIANTS EachCheckFiled NoPassForLackOfData
PROPERTIES FiledIsFinal EvaluateReturns
CHECK_DEADLOCK FALSE
