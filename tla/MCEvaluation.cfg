SPECIFICATION MCSpec
CONSTANTS
  Selected = {"TD001", "TD002", "TD003", "TD004", "TD005", "TD006", "TD007", "TD008", "TD009", "TD010", "TD011", "TD012", "TD015", "TD016"}
  MaxDown = 2
  WatchDown = 1
INVARIANTS OutagesShow InventsNothing LostHashIsJudged ClearedIsTrue EventsTellAll
CHECK_DEADLOCK FALSE
