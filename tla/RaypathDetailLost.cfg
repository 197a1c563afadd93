SPECIFICATION ScreenSpec
CONSTANTS
  dbA = dbA
  dbB = dbB
  a1 = a1
  a2 = a2
  a3 = a3
  b1 = b1
  NoDatabase = NoDatabase
  NoTime = NoTime
  Database = {dbA, dbB}
  Ray = {a1, a2, a3, b1}
  DbOf <- MCDbOf
  TimeOf <- MCTimeOf
  LinkOf <- MCLinkOf
  Times = {1, 2}
  Radius = 0
  GlobalBudget = 2
  DetailBudget = 1
  RaysSparsity = 1
  MaxVisible = 1
  MaxLoads = 2
  MaxBaselineGen = 4
  MaxDetailGen = 4
  FilterKind = {"ru"}
  Unit = {1, 2}
  UnitOf <- MCUnitOf
  Power <- MCPower
  DynamicRange = {3, 5}
  NoFilters = NoFilters
  Closed = Closed
  Session <- MCSession
  MaxClicks = 0
INVARIANT StoppedLoadsDetail
