SPECIFICATION FairSpec
CONSTANTS
  Nil = Nil
  MaxCols = 3
  OutputSize = 3
  normalizeJson <- MCnormalizeJson
  Tables <- MCTables
  Cells <- MCCells
  ToastTypes = {"text"}
  c1 = c1
  c2 = c2
  Callers <- MCCallers
  Constructor = Constructor
  Nobody = Nobody
  Regions = {1, 2}
INVARIANTS
  TypeOK
  OwnText
  LeavesNothing
  ChangeTextIsScanText
  CommonTextIsTargetText
  EveryChangeShows
PROPERTIES
  CallReturns
CHECK_DEADLOCK FALSE
