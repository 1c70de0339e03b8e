SPECIFICATION MCSpec
CONSTANTS
  f1 = f1
  a1 = a1
  a2 = a2
  b1 = b1
  b3 = b3
  c2 = c2
  c3 = c3
  Absent = Absent
  Unread = Unread
  Refreshers = {f1}
  Readers = {d1}
  S = 3
  Archives = 3
  MaxMishaps = 2
  Holds <- MCHolds
  Families <- MCFamilies
  Asked <- MCAsked
INVARIANTS NeverInventsNone
CHECK_DEADLOCK FALSE
