SPECIFICATION FairAllSpec
CONSTANTS
  a1 = a1
  b1 = b1
  Dealer = dealer
  Vertical <- OneVertical
  Recipients = {r1}
  verticalDV_numIVs = 1
  verticalNonDV_numIVs = 1
  batchSize = 2
  F_rows = 2
  t_rows = 3
  Lists <- MCLists
  PayloadLength = 3
  Dataowners = {a1, b1}
INVARIANTS OutputsAreFull Matched BasementCountsHouses
PROPERTIES KeepsContract PatronsComplete
