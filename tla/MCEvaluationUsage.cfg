SPECIFICATION MCSpec
CONSTANTS
  Selected = {"TD008"}
  MaxDown = 1
  WatchDown = 1
INVARIANTS NeverPassesForLackOfData
CHECK_DEADLOCK FALSE
