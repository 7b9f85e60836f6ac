SPECIFICATION Spec
CONSTANTS
  Nil = Nil
  MaxCols = 3
  OutputSize = 5
  normalizeJson <- MCnormalizeJson
  Tables <- MCRecast
  Cells <- MCCells
  ToastTypes = {"text"}
  c1 = c1
  c2 = c2
  Callers <- MCCallers
  Constructor = Constructor
  Nobody = Nobody
  Regions = {1, 2}
INVARIANTS
  EveryChangeReproduced
CHECK_DEADLOCK FALSE
