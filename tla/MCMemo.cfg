SPECIFICATION Spec
CONSTANTS
  c1 = c1
  c2 = c2
  c3 = c3
  c4 = c4
  k1 = k1
  k2 = k2
  b1 = b1
  Nobody = Nobody
  Calls = {c1, c2, c3, c4}
  Batches = {b1}
  Keys = {k1, k2}
  Values = {v1}
  Failures = {f1}
  KeyOf <- MCKeyOf
  BatchKeys <- MCBatchKeys
  Unsupported = {k2}
  Timed <- MCTimed
INVARIANTS OneFetch CancelledIsOwn
PROPERTIES KeepsPromise CallsReturn
CHECK_DEADLOCK FALSE
