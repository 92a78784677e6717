CONSTANTS
  CharBit = 5
  Width <- MCWidth
  Capacity <- MCCapacity
  DoubleBits = 17
  FactorialLimit = 9
  Sample <- MCSample
  VarNames <- MCVarNames
  Numbers = {"2", "1"}
  Trees <- MCTrees
  Formulas <- MCFormulas
  MaxIVs = 3
  Owners <- MCOwners
  VerticalOf <- MCVerticalOf
  DataVertical = 1
  maxListSize = 2
  keyModulus = 5
  startModulus = 7
  PayloadCols = 3
  Files <- MCFiles
  Seeds = {0, 1, 3}
  Draw <- MCDraw
SPECIFICATION AlgorithmsSpec
INVARIANTS
  OutputRuleExceptBySignOfTwo OrderIsNumeric InversesExceptInt2AndPadding GatesOnBits TextRoundTrip
  ParsesWhatItPrints ChainsReadRightIfInverseLast NormalEquations SortsOpenToBothLists
CHECK_DEADLOCK FALSE
