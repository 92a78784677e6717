SPECIFICATION FairQuerySpec
CONSTANTS
  a1 = a1
  a2 = a2
  b1 = b1
  b2 = b2
  Dealer = dealer
  Vertical <- OneVertical
  PayloadLength = 2
  Dataowners = {a1, b1}
  Recipients = {r1}
INVARIANTS HandedOverWhole BothLevelsMatched
PROPERTIES ImplementsMoments Termination
