SPECIFICATION Spec
CONSTANTS
  w1 = w1
  w2 = w2
  x1 = x1
  s1 = s1
  s2 = s2
  Writers <- MCWriters
  Readers = {x1}
  Snapshots = {1, 2}
  Shards <- MCShards
  MaxMishaps = 2
INVARIANTS PublishedIsWhole ReadersFinish
PROPERTIES PublishesForward LockComesBack
CHECK_DEADLOCK FALSE
