SPECIFICATION Spec
CONSTANTS
  a1 = a1
  a2 = a2
  b1 = b1
  b2 = b2
  Dealer = dealer
  Vertical <- OneVertical
  PayloadLength = 3
  Dataowners = {a1, a2, b1, b2}
  Recipients = {r1}
SYMMETRY Symmetry
INVARIANTS AwaitsWhatIsMissing DispensersSuffice Lockstep ResultIsWhole Inv
