SPECIFICATION FairSpec
CONSTANTS
  a1 = a1
  a2 = a2
  b1 = b1
  Dealer = dealer
  Vertical <- OneVertical
  Recipients = {r1}
  verticalDV_numIVs = 2
  verticalNonDV_numIVs = 1
  batchSize = 4
  F_rows = 2
  t_rows = 3
  Dataowners = {a1, a2, b1}
INVARIANTS
  Matched AwaitsWhatIsMissing DispensersSuffice NothingReadUnset ResultIsWhole Lockstep
PROPERTY Termination
