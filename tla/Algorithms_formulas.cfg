CONSTANTS
  CharBit = 5
  Width <- MCWidth
  Capacity <- MCCapacity
  DoubleBits = 17
  FactorialLimit = 9
  Sample <- MCSample
  VarNames <- MCVarNames
  Numbers = {"1", "2", "3"}
  Trees = {}
  Formulas <- DocumentedFormulas
  MaxIVs = 3
  Owners <- MCOwners
  VerticalOf <- MCVerticalOf
  DataVertical = 1
  maxListSize = 2
  keyModulus = 5
  startModulus = 7
  PayloadCols = 3
  Files <- MCFiles
  Seeds = {0, 1, 3}
  Draw <- MCDraw
SPECIFICATION AlgorithmsSpec
INVARIANT FormulasMeanWhatTheySay
CHECK_DEADLOCK FALSE
